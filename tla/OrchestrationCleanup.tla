------------------------ MODULE OrchestrationCleanup ------------------------
(***************************************************************************)
(* The cleanup of one run, shared by the tasks that register children and  *)
(* reservations, by whoever submits a terminal cause, and by               *)
(* finish_outcome, which begins cleanup, freezes the cause and tries to    *)
(* complete.  A task holds a CleanupChildGuard or a                        *)
(* CleanupReservationGuard; releasing it is its complete(), its resolve()  *)
(* or its Drop, which do the same.  Tasks may carry the generation of      *)
(* another run.                                                            *)
(***************************************************************************)
EXTENDS CleanupState

CONSTANTS
    Owners,         \* tasks that register work
    GenerationOf    \* the generation each of them carries

ASSUME OwnersAssumption == DOMAIN GenerationOf = Owners

VARIABLES
    cleanup,    \* the CleanupState under its mutex
    cause,      \* the TerminalCauseState under its mutex
    guard,      \* the guard each owner holds
    finishing,  \* where finish_outcome is
    submitted   \* history: the causes submitted for this run before the freeze

vars == <<cleanup, cause, guard, finishing, submitted>>

NoGuard == [work |-> "none", handle |-> 0]

Guards == [work : Works, handle : Handles] \cup {NoGuard}

Init ==
    /\ cleanup = NewCleanup
    /\ cause = NewCause
    /\ guard = [o \in Owners |-> NoGuard]
    /\ finishing = "no"
    /\ submitted = {}

TakeGuard(o, work) ==
    /\ guard[o] = NoGuard
    /\ CanRegister(cleanup, GenerationOf[o])
    /\ cleanup' = Register(cleanup, work)
    /\ guard' = [guard EXCEPT ![o] = [work |-> work, handle |-> cleanup.next_handle + 1]]
    /\ UNCHANGED <<cause, finishing, submitted>>

Release(o) ==
    /\ guard[o] # NoGuard
    /\ CanSettle(cleanup, GenerationOf[o], guard[o].work, guard[o].handle)
    /\ cleanup' = Settle(cleanup, guard[o].work, guard[o].handle)
    /\ guard' = [guard EXCEPT ![o] = NoGuard]
    /\ UNCHANGED <<cause, finishing, submitted>>

\* submit_failure, by a task of any generation.
SubmitFailure(o, kind) ==
    /\ cause' = Submit(cause, GenerationOf[o], kind)
    /\ submitted' = IF GenerationOf[o] = OwnGeneration /\ ~cause.frozen
                    THEN submitted \cup {kind} ELSE submitted
    /\ UNCHANGED <<cleanup, guard, finishing>>

-----------------------------------------------------------------------------
(* finish_outcome.                                                         *)

BeginFinish ==
    /\ finishing = "no"
    /\ cleanup' = BeginCleanup(cleanup)
    /\ finishing' = "begun"
    /\ UNCHANGED <<cause, guard, submitted>>

FreezeFailure ==
    /\ finishing = "begun"
    /\ cause' = Freeze(cause)
    /\ finishing' = "frozen"
    /\ UNCHANGED <<cleanup, guard, submitted>>

CompleteFinish ==
    /\ finishing = "frozen"
    /\ CanComplete(cleanup)
    /\ cleanup' = Complete(cleanup)
    /\ finishing' = "complete"
    /\ UNCHANGED <<cause, guard, submitted>>

\* Something is still registered: finish_outcome fails.
FailFinish ==
    /\ finishing = "frozen"
    /\ ~CanComplete(cleanup)
    /\ finishing' = "failed"
    /\ UNCHANGED <<cleanup, cause, guard, submitted>>

Next ==
    \/ \E o \in Owners :
          \/ \E work \in Works : TakeGuard(o, work)
          \/ Release(o)
          \/ \E kind \in FailureKinds : SubmitFailure(o, kind)
    \/ BeginFinish
    \/ FreezeFailure
    \/ CompleteFinish
    \/ FailFinish

Spec == Init /\ [][Next]_vars

-----------------------------------------------------------------------------
\* The type invariant of the cleanup, the cause and the guards.
TypeOK ==
    /\ cleanup \in CleanupRecord
    /\ cause \in CauseState
    /\ guard \in [Owners -> Guards]
    /\ finishing \in {"no", "begun", "frozen", "complete", "failed"}
    /\ submitted \in SUBSET FailureKinds

\* What is open is what some guard holds, and no two guards hold one handle:
\* a guard's Drop never settles another task's work, and nothing stays open
\* that nobody will settle.
OpenIffGuarded ==
    /\ \A work \in Works, h \in Handles :
          h \in cleanup.open[work]
              <=> \E o \in Owners : guard[o] = [work |-> work, handle |-> h]
    /\ \A o, p \in Owners : guard[o] # NoGuard /\ guard[o].handle = guard[p].handle => o = p

\* ready_for_terminalization: a complete cleanup has nothing running and never
\* will have.
CompleteIsQuiet ==
    cleanup.cleanup_complete =>
        /\ \A o \in Owners : guard[o] = NoGuard
        /\ \A work \in Works : cleanup.open[work] = {}

\* The accepted cause was submitted for this run and outranks everything else
\* that was, but a total timeout outranks the cancellation it triggers.
CauseDominates ==
    /\ cause.accepted = NoCause <=> submitted = {}
    /\ cause.accepted # NoCause =>
          /\ cause.accepted \in submitted
          /\ \A kind \in submitted :
                \/ cause_priority[kind] <= cause_priority[cause.accepted]
                \/ cause.accepted = "TotalTimedOut" /\ kind = "UserCancelled"

\* A cause only gives way to a stronger one, and a frozen one to none: what
\* finish_outcome reports is what it froze.
CauseOnlyRises ==
    [][cause'.accepted # cause.accepted =>
          /\ ~cause.frozen
          /\ cause.accepted # NoCause =>
                cause_priority[cause'.accepted] > cause_priority[cause.accepted]]_vars
=============================================================================
