---------------------------- MODULE CleanupState ----------------------------
(***************************************************************************)
(* The two records of OrchestrationCleanup: CleanupState, which tracks the *)
(* children and reservations of one run, and TerminalCauseState, which     *)
(* arbitrates the cause of its end.  Each has a mutex of its own.  As in   *)
(* SessionState, Can<Method> is when a method returns Ok and <Method> is   *)
(* the record it leaves.                                                   *)
(*                                                                         *)
(* Children and the two kinds of reservation are handled alike: `open`     *)
(* and `settled` map each kind of work to its handles.                     *)
(***************************************************************************)
EXTENDS Integers

CONSTANTS
    MaxHandle,      \* u64::MAX in the code, the last handle
    OwnGeneration   \* the generation the cleanup was created for

ASSUME CleanupAssumption == MaxHandle \in Nat

Works == {"Child", "ProviderReservation", "ToolReservation"}

Handles == 1..MaxHandle

CleanupRecord ==
    [ next_handle : 0..MaxHandle,
      open : [Works -> SUBSET Handles],
      settled : [Works -> SUBSET Handles],
      cleanup_requested : BOOLEAN,
      cleanup_in_progress : BOOLEAN,
      cleanup_complete : BOOLEAN ]

NewCleanup ==
    [ next_handle |-> 0,
      open |-> [work \in Works |-> {}],
      settled |-> [work \in Works |-> {}],
      cleanup_requested |-> FALSE,
      cleanup_in_progress |-> FALSE,
      cleanup_complete |-> FALSE ]

\* register_child and register_reservation; next_handle uses checked_add.
CanRegister(c, generation) ==
    /\ generation = OwnGeneration
    /\ ~c.cleanup_requested
    /\ ~c.cleanup_complete
    /\ c.next_handle < MaxHandle

\* Mutant: next_handle hands out the same handle again.
RegisterReusingHandle(c, work) ==
    [c EXCEPT !.open[work] = @ \cup {c.next_handle + 1}]

Register(c, work) ==
    [c EXCEPT !.next_handle = c.next_handle + 1,
              !.open[work] = @ \cup {c.next_handle + 1}]

\* complete_child and resolve_reservation: settling twice is Ok.
CanSettle(c, generation, work, handle) ==
    /\ generation = OwnGeneration
    /\ handle \in c.open[work] \cup c.settled[work]

Settle(c, work, handle) ==
    [c EXCEPT !.open[work] = @ \ {handle},
              !.settled[work] = @ \cup {handle}]

\* begin() on a cleanup that has begun or is complete is Ok and does nothing.
BeginCleanup(c) ==
    IF c.cleanup_requested \/ c.cleanup_complete THEN c
    ELSE [c EXCEPT !.cleanup_requested = TRUE, !.cleanup_in_progress = TRUE]

\* Mutant: tool reservations are forgotten.
CanCompleteWithToolsReserved(c) ==
    \/ c.cleanup_complete
    \/ /\ c.cleanup_requested
       /\ c.open["Child"] = {} /\ c.open["ProviderReservation"] = {}

CanComplete(c) ==
    \/ c.cleanup_complete
    \/ /\ c.cleanup_requested
       /\ \A work \in Works : c.open[work] = {}

Complete(c) == [c EXCEPT !.cleanup_in_progress = FALSE, !.cleanup_complete = TRUE]

-----------------------------------------------------------------------------
(* TerminalCauseArbiter.  A failure is its kind; every stage, provider and *)
(* tool failure has the priority of "StageFailed".                         *)

FailureKinds ==
    {"UserCancelled", "TotalTimedOut", "BudgetExhausted", "StageFailed",
     "JoinFailed", "InternalFailure"}

NoCause == "none"

CauseState == [accepted : FailureKinds \cup {NoCause}, frozen : BOOLEAN]

NewCause == [accepted |-> NoCause, frozen |-> FALSE]

cause_priority ==
    [ UserCancelled   |-> 6,
      TotalTimedOut   |-> 5,
      BudgetExhausted |-> 4,
      StageFailed     |-> 3,
      JoinFailed      |-> 2,
      InternalFailure |-> 1 ]

\* Whether submit lets `candidate` take the place of `existing`.
Replaces(existing, candidate) ==
    /\ ~(existing = "TotalTimedOut" /\ candidate = "UserCancelled")
    /\ cause_priority[candidate] > cause_priority[existing]

\* Mutant: the latest cause wins.
SubmitLatest(a, generation, candidate) ==
    IF generation = OwnGeneration /\ ~a.frozen
    THEN [a EXCEPT !.accepted = candidate]
    ELSE a

\* Mutant: a frozen cause is still replaced by a stronger one.
SubmitWhenFrozen(a, generation, candidate) ==
    IF /\ generation = OwnGeneration
       /\ a.accepted = NoCause \/ Replaces(a.accepted, candidate)
    THEN [a EXCEPT !.accepted = candidate]
    ELSE a

Submit(a, generation, candidate) ==
    IF /\ generation = OwnGeneration
       /\ ~a.frozen
       /\ a.accepted = NoCause \/ Replaces(a.accepted, candidate)
    THEN [a EXCEPT !.accepted = candidate]
    ELSE a

Freeze(a) == [a EXCEPT !.frozen = TRUE]
=============================================================================
