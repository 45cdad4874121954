---------------------------- MODULE RunOccupancy ----------------------------
(***************************************************************************)
(* What a session promises its live runs, without policies, validation or  *)
(* statuses: at most one generation owns the session at a time, and a      *)
(* generation that gave the session up never owns it again.                *)
(***************************************************************************)
EXTENDS Integers

VARIABLES
    owner,  \* the generation that owns the session, 0 for none
    last    \* the last generation handed out

Init == owner = 0 /\ last = 0

Acquire ==
    /\ owner = 0
    /\ last' = last + 1
    /\ owner' = last'

Release ==
    /\ owner # 0
    /\ owner' = 0
    /\ UNCHANGED last

Next == Acquire \/ Release

Spec == Init /\ [][Next]_<<owner, last>>
=============================================================================
