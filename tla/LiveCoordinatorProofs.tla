----------------------- MODULE LiveCoordinatorProofs -----------------------
(***************************************************************************)
(* The safety properties of a run and of its executor batch, for every     *)
(* number of tasks, every concurrency, batch budget and need.              *)
(*                                                                         *)
(* BatchInv is what the loop of the batch keeps, RunInv what is true of    *)
(* the records of the run at each of its stages.  The batch is touched by  *)
(* the run in two ways only: RunBatch, and the cancellation of its token.  *)
(***************************************************************************)
EXTENDS LiveCoordinator, FiniteSetTheorems, TLAPS

\* Tasks are spawned in order; a task that was spawned has a state of its own.
SpawnedInOrder ==
    /\ phase # "done" =>
          \A t \in Tasks : /\ slot[t] = "Queued" <=> t >= next
                           /\ slot[t] # "NotStarted"
    /\ AllTasksAccounted

\* The loop ends only when it has spawned everything or was told to stop.
EndedForAReason == phase = "done" /\ ~stopped /\ ~token => next > NumTasks

ExhaustionNoted == (\E t \in Tasks : slot[t] = "BudgetExhausted") => budget_exhausted

\* Under CancelRemaining the first failure that is joined cancels the token.
FailureCancels ==
    /\ request.failure_policy = "CancelRemaining"
    /\ \E t \in Tasks : slot[t] \in {"Failed", "BudgetExhausted"}
    => token

BatchInv ==
    /\ BatchTypeOK
    /\ SpawnedInOrder
    /\ EndedForAReason
    /\ ExhaustionNoted
    /\ FailureCancels

-----------------------------------------------------------------------------
RunningStages ==
    Awaits \cup {"planning", "executing", "verifying", "repairing", "closing"}

\* The stages after the planner's, and after the verifier's.
PlannedStages == RunningStages \ {"planning", "planner"}
VerifiedStages == {"repairing", "attempt", "repair", "overdue", "closing"}

\* What a stage expects of the session.
SessionAtStage ==
    /\ stage = "begin" => session.status = "Idle" /\ session.next_generation = 0
    /\ stage = "preparing" => session.status = "Preparing"
    /\ stage \in {"validating", "routed"} => session.status = "Validating"
    /\ stage \in RunningStages => session.status = "Running"
    /\ stage \notin {"begin", "ended"} => session.active_generation = OwnGeneration
    /\ SessionMatchesOutcome

\* The roles so far have registered at most this many children.
ChildrenBefore ==
    [s \in Stages |-> CASE s \in {"planner", "executing"} -> 1
                        [] s \in {"executor", "verifying"} -> 2
                        [] s \in {"verifier", "repairing"} -> 3
                        [] s \in {"attempt", "repair", "overdue", "closing", "ended"} -> 4
                        [] OTHER -> 0]

\* Until the run ends nothing is open but the child of the role it awaits.
CleanupAtStage ==
    /\ cleanup.next_handle <= ChildrenBefore[stage]
    /\ stage # "ended" =>
          /\ ~cleanup.cleanup_requested
          /\ ~cleanup.cleanup_complete
          /\ \A work \in Works :
                cleanup.open[work] = IF work = "Child" /\ stage \in Awaits
                                     THEN {cleanup.next_handle} ELSE {}
    /\ stage \in Awaits => cleanup.next_handle > 0

\* Until the run ends the only cause there may be is the total timeout.
CauseAtStage ==
    /\ stage # "ended" =>
          /\ cause.accepted = IF overtime THEN "TotalTimedOut" ELSE NoCause
          /\ ~cause.frozen
          /\ outcome = "none"
    /\ overtime => run_token
    /\ overtime => stage \in RunningStages \cup {"ended"}
    /\ TimeoutIsReported

\* The gates a run has passed when it reaches a stage.
GatesAtStage ==
    /\ stage = "planner" => contract.planning
    /\ stage \in PlannedStages =>
          role["Planner"] = IF contract.planning THEN "Succeeded" ELSE "Skipped"
    /\ stage = "verifier" => contract.verification = "provider"
    /\ stage \in VerifiedStages /\ contract.verification = "provider" =>
          role["Verifier"] = "Succeeded"
    /\ stage = "closing" /\ (rejection \/ contract.verification = "rejected") =>
          role["Repair"] = "Succeeded"
    /\ CompletedRunPassedGates

RunInv ==
    /\ RunTypeOK
    /\ SessionAtStage
    /\ CleanupAtStage
    /\ CauseAtStage
    /\ GatesAtStage

IInv == BatchInv /\ RunInv

-----------------------------------------------------------------------------
(* The batch.                                                              *)

\* The state a joined task is given is a final one, and a refusal of the
\* budget stays one.
LEMMA JoinedStateIsFinal ==
  ASSUME BatchTypeOK, NEW t \in Tasks, answer[t] # "none"
  PROVE  JoinedState(t) \in Outcomes
  BY DEF BatchTypeOK, JoinedState, Outcomes, JoinErrors

\* No task is spawned yet.
LEMMA InitBatchInv == BatchInit => BatchInv
  <1> SUFFICES ASSUME BatchInit PROVE BatchInv
    OBVIOUS
  <1>1. request.limit \in Nat
    BY BatchAssumption DEF BatchInit, BatchRequest
  <1>2. BatchTypeOK
    <2>1. next \in 1..(NumTasks + 1) /\ reserved \in 0..request.limit
      BY <1>1, BatchAssumption DEF BatchInit
    <2> QED BY <2>1 DEF BatchInit, BatchTypeOK, SubagentTaskState
  <1> QED
    BY <1>2 DEF BatchInit, BatchInv, SpawnedInOrder, AllTasksAccounted, EndedForAReason,
       ExhaustionNoted, FailureCancels, Tasks

\* The next task is spawned: the order is kept.
LEMMA SpawnBatchInv ==
  ASSUME BatchInv, Spawn
  PROVE  BatchInv'
  <1> USE DEF Spawn, CanSpawn, Fits
  <1>1. next \in Tasks /\ request.need[next] \in Nat /\ request.limit \in Nat
    <2>1. next \in Tasks
      BY BatchAssumption DEF BatchInv, BatchTypeOK, Tasks
    <2>2. request \in BatchRequest
      BY DEF BatchInv, BatchTypeOK
    <2>3. request.limit \in BatchLimits /\ request.need[next] \in Needs
      BY <2>1, <2>2 DEF BatchRequest
    <2>4. request.limit \in Nat
      BY <2>3, BatchAssumption
    <2>5. Needs \subseteq 0..request.limit
      BY <2>3, BatchAssumption
    <2>6. request.need[next] \in 0..request.limit
      BY <2>3, <2>5
    <2> QED BY <2>1, <2>4, <2>6
  <1>2. BatchTypeOK'
    BY <1>1, BatchAssumption DEF BatchInv, BatchTypeOK, SubagentTaskState, Tasks
  <1>3. SpawnedInOrder'
    BY <1>1 DEF BatchInv, BatchTypeOK, SpawnedInOrder, AllTasksAccounted, Tasks
  <1>4. EndedForAReason' /\ ExhaustionNoted' /\ FailureCancels'
    BY <1>1 DEF BatchInv, BatchTypeOK, EndedForAReason, ExhaustionNoted, FailureCancels
  <1> QED BY <1>2, <1>3, <1>4 DEF BatchInv

\* The aggregate budget refuses the next task, and with it the rest.
LEMMA RefuseSpawnBatchInv ==
  ASSUME BatchInv, RefuseSpawn
  PROVE  BatchInv'
  BY DEF RefuseSpawn, BatchInv, BatchTypeOK, SpawnedInOrder, AllTasksAccounted,
     EndedForAReason, ExhaustionNoted, FailureCancels

\* The batch goes on to join, or ends with what was not spawned NotStarted.
LEMMA EndSpawningBatchInv ==
  ASSUME BatchInv, EndSpawning
  PROVE  BatchInv'
  <1> USE DEF EndSpawning, BatchInv, BatchTypeOK
  <1>1. CASE JoinSet = {}
    <2>1. BatchTypeOK'
      BY <1>1 DEF SubagentTaskState
    <2>2. SpawnedInOrder'
      BY <1>1 DEF SpawnedInOrder, AllTasksAccounted, JoinSet
    <2>3. EndedForAReason'
      <3>1. Cardinality(JoinSet) < request.max_concurrency
        BY <1>1, FS_EmptySet, BatchAssumption DEF BatchRequest
      <3> QED BY <1>1, <3>1, BatchAssumption DEF EndedForAReason, CanSpawn
    <2>4. ExhaustionNoted' /\ FailureCancels'
      BY <1>1 DEF ExhaustionNoted, FailureCancels
    <2> QED BY <2>1, <2>2, <2>3, <2>4
  <1>2. CASE JoinSet # {}
    <2>1. token' \in BOOLEAN /\ (token => token')
      BY <1>2
    <2>2. phase' \in {"joining", "draining"}
      BY <1>2
    <2> QED
      BY <1>2, <2>1, <2>2 DEF SpawnedInOrder, AllTasksAccounted, EndedForAReason,
         ExhaustionNoted, FailureCancels
  <1> QED BY <1>1, <1>2

\* A task is joined: its failure cancels the token if the policy says so.
LEMMA JoinBatchInv ==
  ASSUME BatchInv, NEW t \in Tasks, Join(t)
  PROVE  BatchInv'
  <1> DEFINE state == JoinedState(t)
  <1>1. state \in Outcomes
    BY JoinedStateIsFinal DEF Join, BatchInv
  <1>2. /\ slot' = [slot EXCEPT ![t] = state]
        /\ budget_exhausted' = (budget_exhausted \/ state = "BudgetExhausted")
        /\ token' = (token \/ StopsBatch(state))
        /\ stopped' \in BOOLEAN
        /\ phase' = "spawning"
        /\ UNCHANGED <<request, answer, next, reserved, timed_out>>
    BY DEF Join, BatchInv, BatchTypeOK
  <1>3. phase # "done" /\ slot[t] = "Running"
    BY DEF Join, JoinSet
  <1> HIDE DEF state
  <1>4. token' \in BOOLEAN /\ (token => token')
    BY <1>2 DEF BatchInv, BatchTypeOK
  <1>5. BatchTypeOK'
    BY <1>1, <1>2, <1>4 DEF BatchInv, BatchTypeOK, SubagentTaskState, Outcomes
  <1>6. SpawnedInOrder'
    BY <1>1, <1>2, <1>3 DEF BatchInv, BatchTypeOK, SpawnedInOrder, AllTasksAccounted, Outcomes
  <1>7. EndedForAReason' /\ ExhaustionNoted'
    BY <1>1, <1>2 DEF BatchInv, BatchTypeOK, EndedForAReason, ExhaustionNoted
  <1>8. FailureCancels'
    BY <1>1, <1>2, <1>4 DEF BatchInv, BatchTypeOK, FailureCancels, StopsBatch
  <1> QED BY <1>5, <1>6, <1>7, <1>8 DEF BatchInv

\* Every step of the batch keeps its invariant.
LEMMA StepBatchInv ==
  ASSUME BatchInv, BatchStep
  PROVE  BatchInv'
  <1>1. ASSUME BatchTimeout PROVE BatchInv'
    BY <1>1 DEF BatchTimeout, BatchInv, BatchTypeOK, SpawnedInOrder, AllTasksAccounted,
       EndedForAReason, ExhaustionNoted, FailureCancels
  <1>2. ASSUME NEW t \in Tasks, TaskStep(t) PROVE BatchInv'
    BY <1>2 DEF TaskStep, TaskEnds, BatchInv, BatchTypeOK, SpawnedInOrder,
       AllTasksAccounted, EndedForAReason, ExhaustionNoted, FailureCancels
  <1> QED
    BY <1>1, <1>2, SpawnBatchInv, RefuseSpawnBatchInv, EndSpawningBatchInv, JoinBatchInv
       DEF BatchStep, LoopStep

\* So does the cancellation of its token from outside.
LEMMA CancelBatchInv ==
  ASSUME BatchInv, CancelTokens
  PROVE  BatchInv'
  <1>1. token' \in BOOLEAN /\ (token => token')
    BY DEF CancelTokens, BatchInv, BatchTypeOK
  <1> QED
    BY <1>1 DEF CancelTokens, BatchInv, BatchTypeOK, SpawnedInOrder, AllTasksAccounted,
       EndedForAReason, ExhaustionNoted, FailureCancels

\* What the invariant of the batch depends on.
LEMMA FrameBatchInv ==
  ASSUME BatchInv, UNCHANGED batch
  PROVE  BatchInv'
  BY DEF batch, BatchInv, BatchTypeOK, SpawnedInOrder, AllTasksAccounted,
     EndedForAReason, ExhaustionNoted, FailureCancels

-----------------------------------------------------------------------------
(* The end of a run.                                                       *)

\* A cleanup with nothing open, before finish_outcome.
Quiet(c) ==
    /\ ~c.cleanup_requested
    /\ ~c.cleanup_complete
    /\ \A work \in Works : c.open[work] = {}

\* The cause that is accepted when a terminal is submitted: a timeout stays
\* one, and without one the terminal is its own.
LEMMA FinalTerminal ==
  ASSUME NEW a \in CauseState, ~a.frozen, a.accepted \in {"TotalTimedOut", NoCause},
         NEW terminal \in LiveOrchestrationTerminal, NEW joinFailed,
         NEW submitted,
         submitted = IF terminal = "Completed" THEN a
                     ELSE Submit(a, OwnGeneration, CauseOf(terminal, joinFailed)),
         NEW final,
         final = IF submitted.accepted = NoCause THEN terminal
                 ELSE TerminalOfCause(submitted.accepted)
  PROVE  /\ submitted \in CauseState
         /\ a.accepted = "TotalTimedOut" => final = "TimedOut"
         /\ a.accepted = NoCause => final = terminal
  <1> USE DEF CauseState, LiveOrchestrationTerminal
  <1>1. CauseOf(terminal, joinFailed) \in FailureKinds \ {"InternalFailure"}
    BY DEF CauseOf, FailureKinds
  <1>2. CASE terminal = "Completed"
    BY <1>2 DEF TerminalOfCause, NoCause
  <1>3. CASE terminal # "Completed"
    <2>1. CASE a.accepted = NoCause
      <3>1. submitted = [a EXCEPT !.accepted = CauseOf(terminal, joinFailed)]
        BY <1>3, <2>1 DEF Submit
      <3>2. submitted \in CauseState /\ submitted.accepted = CauseOf(terminal, joinFailed)
        BY <1>1, <3>1
      <3>3. TerminalOfCause(CauseOf(terminal, joinFailed)) = terminal
        BY <1>3 DEF TerminalOfCause, CauseOf
      <3>4. submitted.accepted # NoCause
        BY <1>1, <3>2 DEF FailureKinds, NoCause
      <3> QED BY <2>1, <3>2, <3>3, <3>4 DEF NoCause
    <2>2. CASE a.accepted = "TotalTimedOut"
      <3>1. ~Replaces(a.accepted, CauseOf(terminal, joinFailed))
        BY <1>1, <2>2 DEF Replaces, cause_priority, FailureKinds
      <3>2. submitted = a
        BY <1>3, <2>2, <3>1 DEF Submit, NoCause
      <3> QED BY <2>2, <3>2 DEF TerminalOfCause, NoCause
    <2> QED BY <2>1, <2>2
  <1> QED BY <1>2, <1>3

\* The session reaches the status of the terminal and is given back: from
\* Running any terminal is reached, from Validating a cancellation is.
LEMMA FinalSession ==
  ASSUME NEW s \in SessionExecutionInner, s.active_generation = OwnGeneration,
         NEW final \in LiveOrchestrationTerminal,
         \/ s.status = "Running"
         \/ s.status = "Validating" /\ final = "Cancelled",
         NEW ended,
         ended = LET first == Terminalized(s, FinalStatuses(final)[1])
                 IN  IF final = "Cancelled" THEN Terminalized(first, "Cancelled") ELSE first
  PROVE  /\ ended \in SessionExecutionInner
         /\ ended.active_generation = NoGeneration
         /\ ended.status = IF final = "BudgetExhausted" THEN "Failed" ELSE final
  <1> USE SessionAssumption, CoordinatorAssumption
      DEF SessionExecutionInner, SessionExecutionStatus, ActiveStatuses, TerminalStatuses,
          NoGeneration, Terminalized, CanTerminalizeGeneration, TerminalizeGeneration,
          ValidTransition
  <1>0. 0 \in 0..MaxGeneration
    OBVIOUS
  <1>1. CASE final = "Cancelled"
    <2>1. FinalStatuses(final)[1] = "Cancelling"
      BY <1>1 DEF FinalStatuses
    <2> DEFINE first == Terminalized(s, "Cancelling")
    <2>2. first = [s EXCEPT !.status = "Cancelling", !.active_generation = s.active_generation]
      OBVIOUS
    <2>3. /\ first \in SessionExecutionInner
          /\ first.active_generation = OwnGeneration
          /\ first.status = "Cancelling"
      BY <2>2
    <2> HIDE DEF first
    <2>4. Terminalized(first, "Cancelled")
             = [first EXCEPT !.status = "Cancelled", !.active_generation = 0]
      BY <2>3
    <2>5. ended = Terminalized(first, "Cancelled")
      BY <1>1, <2>1 DEF first
    <2>6. ended = [first EXCEPT !.status = "Cancelled", !.active_generation = 0]
      BY <2>4, <2>5
    <2>7. ended \in SessionExecutionInner /\ ended.status = "Cancelled"
            /\ ended.active_generation = 0
      BY <1>0, <2>3, <2>6
    <2> QED BY <1>1, <2>7
  <1>2. CASE final # "Cancelled"
    <2> DEFINE status == IF final = "BudgetExhausted" THEN "Failed" ELSE final
    <2>1. FinalStatuses(final)[1] = status
      BY <1>2 DEF FinalStatuses, LiveOrchestrationTerminal
    <2>2. status \in {"Completed", "Failed", "TimedOut"} /\ s.status = "Running"
      BY <1>2 DEF LiveOrchestrationTerminal
    <2> HIDE DEF status
    <2>3. ended = [s EXCEPT !.status = status, !.active_generation = 0]
      BY <1>2, <2>1, <2>2
    <2>4. ended \in SessionExecutionInner /\ ended.status = status
            /\ ended.active_generation = 0
      BY <1>0, <2>2, <2>3
    <2> QED BY <2>4 DEF status
  <1> QED BY <1>1, <1>2

\* A quiet cleanup completes.
LEMMA FinalCleanup ==
  ASSUME NEW c \in CleanupRecord, Quiet(c)
  PROVE  /\ CanComplete(BeginCleanup(c))
         /\ Complete(BeginCleanup(c)) \in CleanupRecord
         /\ Complete(BeginCleanup(c)).cleanup_complete
         /\ Complete(BeginCleanup(c)).next_handle = c.next_handle
  BY DEF Quiet, CleanupRecord, BeginCleanup, CanComplete, Complete

\* finish_outcome, called with a quiet cleanup while the session is Running, or
\* for a cancellation before that: cleanup, session and outcome agree.
LEMMA FinishAgrees ==
  ASSUME RunInv, stage # "ended",
         NEW c \in CleanupRecord, Quiet(c),
         NEW terminal \in LiveOrchestrationTerminal, NEW joinFailed,
         session.active_generation = OwnGeneration,
         \/ session.status = "Running"
         \/ session.status = "Validating" /\ terminal = "Cancelled" /\ ~overtime,
         Finish(c, terminal, joinFailed)
  PROVE  /\ stage' = "ended"
         /\ session' \in SessionExecutionInner
         /\ cleanup' \in CleanupRecord
         /\ cleanup'.next_handle = c.next_handle
         /\ cause' \in CauseState
         /\ outcome' \in LiveOrchestrationTerminal
         /\ SessionMatchesOutcome'
         /\ overtime => outcome' = "TimedOut"
         /\ ~overtime => outcome' = terminal
  <1> DEFINE submitted == IF terminal = "Completed" THEN cause
                          ELSE Submit(cause, OwnGeneration, CauseOf(terminal, joinFailed))
             final == IF submitted.accepted = NoCause THEN terminal
                      ELSE TerminalOfCause(submitted.accepted)
             first == Terminalized(session, FinalStatuses(final)[1])
             ended == IF final = "Cancelled" THEN Terminalized(first, "Cancelled") ELSE first
             begun == BeginCleanup(c)
  <1>1. /\ cause \in CauseState /\ ~cause.frozen
        /\ cause.accepted = IF overtime THEN "TotalTimedOut" ELSE NoCause
        /\ session \in SessionExecutionInner
    BY DEF RunInv, RunTypeOK, CauseAtStage
  <1>2. /\ submitted \in CauseState
        /\ overtime => final = "TimedOut"
        /\ ~overtime => final = terminal
    <2>1. cause.accepted \in {"TotalTimedOut", NoCause}
      BY <1>1
    <2> HIDE DEF submitted, final
    <2>2. /\ submitted \in CauseState
          /\ cause.accepted = "TotalTimedOut" => final = "TimedOut"
          /\ cause.accepted = NoCause => final = terminal
      BY <1>1, <2>1, FinalTerminal DEF submitted, final
    <2> QED BY <1>1, <2>2
  <1>3. final \in LiveOrchestrationTerminal
    BY <1>2 DEF LiveOrchestrationTerminal
  <1>4. /\ CanComplete(begun)
        /\ Complete(begun) \in CleanupRecord
        /\ Complete(begun).cleanup_complete
        /\ Complete(begun).next_handle = c.next_handle
    BY FinalCleanup
  <1>5. /\ stage' = "ended"
        /\ cause' = Freeze(submitted)
        /\ cleanup' = Complete(begun)
        /\ session' = ended
        /\ outcome' = final
    BY <1>4 DEF Finish
  <1>6. /\ ended \in SessionExecutionInner
        /\ ended.active_generation = NoGeneration
        /\ ended.status = IF final = "BudgetExhausted" THEN "Failed" ELSE final
    <2>1. \/ session.status = "Running"
          \/ session.status = "Validating" /\ final = "Cancelled"
      BY <1>2
    <2> HIDE DEF final
    <2> QED BY <1>1, <1>3, <2>1, FinalSession
  <1>7. cause' \in CauseState
    BY <1>2, <1>5 DEF Freeze, CauseState
  <1> HIDE DEF final, ended, begun, submitted
  <1> QED BY <1>2, <1>3, <1>4, <1>5, <1>6, <1>7 DEF SessionMatchesOutcome

\* The gates of CompletedRunPassedGates.
Gates ==
    /\ role["Planner"] = IF contract.planning THEN "Succeeded" ELSE "Skipped"
    /\ ~ExecutorFailed
    /\ contract.verification = "provider" => role["Verifier"] = "Succeeded"
    /\ rejection \/ contract.verification = "rejected" => role["Repair"] = "Succeeded"
    /\ ~run_token

\* So a finish_outcome from a stage that keeps the invariant keeps it.
LEMMA FinishRunInv ==
  ASSUME RunInv, stage # "ended",
         NEW c \in CleanupRecord, Quiet(c), c.next_handle <= 4,
         NEW terminal \in LiveOrchestrationTerminal, NEW joinFailed,
         session.active_generation = OwnGeneration,
         \/ session.status = "Running"
         \/ session.status = "Validating" /\ terminal = "Cancelled" /\ ~overtime,
         Finish(c, terminal, joinFailed),
         UNCHANGED <<contract, run_token, overtime>>,
         UNCHANGED rejection \/ rejection' \in BOOLEAN,
         role' \in [LiveRoles -> LiveRoleState],
         terminal = "Completed" => Gates'
  PROVE  RunInv'
  <1>1. /\ stage' = "ended"
        /\ session' \in SessionExecutionInner
        /\ cleanup' \in CleanupRecord
        /\ cleanup'.next_handle = c.next_handle
        /\ cause' \in CauseState
        /\ outcome' \in LiveOrchestrationTerminal
        /\ SessionMatchesOutcome'
        /\ overtime => outcome' = "TimedOut"
        /\ ~overtime => outcome' = terminal
    BY FinishAgrees
  <1>2. RunTypeOK'
    BY <1>1 DEF RunInv, RunTypeOK, Stages
  <1>3. SessionAtStage'
    BY <1>1 DEF SessionAtStage, RunningStages, Awaits
  <1>4. CleanupAtStage'
    BY <1>1 DEF CleanupAtStage, ChildrenBefore, Stages, Awaits
  <1>5. CauseAtStage'
    BY <1>1 DEF RunInv, CauseAtStage, TimeoutIsReported
  <1>6. GatesAtStage'
    <2>1. outcome' = "Completed" => Gates'
      BY <1>1
    <2> QED
      BY <1>1, <2>1 DEF GatesAtStage, CompletedRunPassedGates, Gates, PlannedStages,
         VerifiedStages, RunningStages, Awaits
  <1> QED BY <1>2, <1>3, <1>4, <1>5, <1>6 DEF RunInv

-----------------------------------------------------------------------------
(* The children of the cleanup.                                            *)

\* The awaited role completes its child.
LEMMA ChildDoneIsQuiet ==
  ASSUME RunInv, stage \in Awaits
  PROVE  /\ ChildDone \in CleanupRecord
         /\ Quiet(ChildDone)
         /\ ChildDone.next_handle = cleanup.next_handle
  <1>1. /\ cleanup \in CleanupRecord
        /\ cleanup.next_handle \in Handles
        /\ ~cleanup.cleanup_requested /\ ~cleanup.cleanup_complete
        /\ \A work \in Works : cleanup.open[work] =
              IF work = "Child" THEN {cleanup.next_handle} ELSE {}
    BY DEF RunInv, RunTypeOK, CleanupAtStage, CleanupRecord, Handles, Awaits
  <1>2. /\ ChildDone.next_handle = cleanup.next_handle
        /\ ChildDone.cleanup_requested = cleanup.cleanup_requested
        /\ ChildDone.cleanup_complete = cleanup.cleanup_complete
        /\ ChildDone.open = [cleanup.open EXCEPT !["Child"] = @ \ {cleanup.next_handle}]
    BY <1>1 DEF ChildDone, Settle, CleanupRecord
  <1>3. ChildDone \in CleanupRecord
    BY <1>1 DEF ChildDone, Settle, CleanupRecord, Works
  <1>4. \A work \in Works : ChildDone.open[work] = {}
    BY <1>1, <1>2 DEF CleanupRecord, Works
  <1> QED BY <1>1, <1>2, <1>3, <1>4 DEF Quiet

\* A role that is about to be awaited registers its child.
LEMMA RegisteredChild ==
  ASSUME NEW c \in CleanupRecord, Quiet(c), c.next_handle < 4,
         NEW d, d = Register(c, "Child")
  PROVE  /\ d \in CleanupRecord
         /\ ~d.cleanup_requested /\ ~d.cleanup_complete
         /\ d.next_handle = c.next_handle + 1
         /\ \A work \in Works : d.open[work] = IF work = "Child" THEN {d.next_handle} ELSE {}
  <1>1. /\ c.next_handle + 1 \in 0..MaxHandle
        /\ c.next_handle + 1 \in Handles
    BY CleanupAssumption, CoordinatorAssumption DEF CleanupRecord, Handles
  <1>2. /\ d.next_handle = c.next_handle + 1
        /\ d.cleanup_requested = c.cleanup_requested
        /\ d.cleanup_complete = c.cleanup_complete
        /\ d.open = [c.open EXCEPT !["Child"] = @ \cup {c.next_handle + 1}]
    BY DEF Register, CleanupRecord
  <1>3. d \in CleanupRecord
    BY <1>1 DEF Register, CleanupRecord, Works
  <1>4. ASSUME NEW work \in Works
        PROVE  d.open[work] = IF work = "Child" THEN {d.next_handle} ELSE {}
    BY <1>2 DEF Quiet, CleanupRecord, Works
  <1> QED BY <1>2, <1>3, <1>4 DEF Quiet

\* A child that is registered and completed at once leaves the cleanup quiet.
LEMMA ChildPassedIsQuiet ==
  ASSUME cleanup \in CleanupRecord, Quiet(cleanup), cleanup.next_handle < 4
  PROVE  /\ ChildPassed \in CleanupRecord
         /\ Quiet(ChildPassed)
         /\ ChildPassed.next_handle = cleanup.next_handle + 1
  <1> DEFINE d == Register(cleanup, "Child")
  <1>1. /\ d \in CleanupRecord
        /\ ~d.cleanup_requested /\ ~d.cleanup_complete
        /\ d.next_handle = cleanup.next_handle + 1
        /\ \A work \in Works : d.open[work] = IF work = "Child" THEN {d.next_handle} ELSE {}
    BY RegisteredChild
  <1>2. ChildPassed = Settle(d, "Child", d.next_handle)
    BY DEF ChildPassed
  <1>3. d.next_handle \in Handles
    BY <1>1 DEF CleanupRecord, Handles
  <1> HIDE DEF d
  <1>4. /\ ChildPassed.next_handle = d.next_handle
        /\ ChildPassed.cleanup_requested = d.cleanup_requested
        /\ ChildPassed.cleanup_complete = d.cleanup_complete
        /\ ChildPassed.open = [d.open EXCEPT !["Child"] = @ \ {d.next_handle}]
    BY <1>1, <1>2 DEF Settle, CleanupRecord
  <1>5. ChildPassed \in CleanupRecord
    BY <1>1, <1>2, <1>3 DEF Settle, CleanupRecord, Works
  <1>6. \A work \in Works : ChildPassed.open[work] = {}
    BY <1>1, <1>4 DEF CleanupRecord, Works
  <1> QED BY <1>1, <1>4, <1>5, <1>6 DEF Quiet

\* Between two roles the cleanup is quiet.
LEMMA QuietBetweenRoles ==
  ASSUME RunInv, stage \notin Awaits, stage # "ended"
  PROVE  /\ cleanup \in CleanupRecord
         /\ Quiet(cleanup)
  BY DEF RunInv, RunTypeOK, CleanupAtStage, Quiet

-----------------------------------------------------------------------------
(* The steps of the run.                                                   *)

\* A step from one running stage to another leaves the session, the cause and
\* the outcome alone; what it needs to show is about the cleanup and the gates.
LEMMA MoveRunInv ==
  ASSUME RunInv, stage \in RunningStages, stage' \in RunningStages,
         UNCHANGED <<contract, session, cause, run_token, overtime, outcome>>,
         UNCHANGED rejection \/ rejection' \in BOOLEAN,
         role' \in [LiveRoles -> LiveRoleState],
         cleanup' \in CleanupRecord, CleanupAtStage', GatesAtStage'
  PROVE  RunInv'
  <1> USE DEF RunningStages, Awaits
  <1>1. RunTypeOK'
    BY DEF RunInv, RunTypeOK, Stages
  <1>2. SessionAtStage'
    BY DEF RunInv, SessionAtStage, SessionMatchesOutcome
  <1>3. CauseAtStage'
    BY DEF RunInv, CauseAtStage, TimeoutIsReported
  <1> QED BY <1>1, <1>2, <1>3 DEF RunInv

\* The step to a stage that awaits nothing leaves the cleanup quiet.
LEMMA RestRunInv ==
  ASSUME RunInv, stage \in RunningStages, stage' \in RunningStages \ Awaits,
         UNCHANGED <<contract, session, cause, run_token, overtime, outcome>>,
         UNCHANGED rejection \/ rejection' \in BOOLEAN,
         role' \in [LiveRoles -> LiveRoleState],
         NEW c \in CleanupRecord, Quiet(c), cleanup' = c,
         c.next_handle <= ChildrenBefore[stage'],
         GatesAtStage'
  PROVE  RunInv'
  <1>1. CleanupAtStage'
    BY DEF CleanupAtStage, Quiet
  <1> QED BY <1>1, MoveRunInv

\* The step to a stage that awaits a role registers its child.
LEMMA AwaitRunInv ==
  ASSUME RunInv, stage \in RunningStages \ Awaits, NEW s \in Awaits, Await(s),
         ChildrenBefore[stage] + 1 = ChildrenBefore[s], ChildrenBefore[stage] \in 0..3,
         UNCHANGED <<contract, rejection, run_token, overtime, role>>,
         GatesAtStage'
  PROVE  RunInv'
  <1>1. cleanup \in CleanupRecord /\ Quiet(cleanup)
    BY QuietBetweenRoles DEF RunningStages, Awaits
  <1>2. cleanup.next_handle \in Int /\ cleanup.next_handle <= ChildrenBefore[stage]
    BY <1>1 DEF RunInv, CleanupAtStage, CleanupRecord
  <1>3. /\ cleanup' \in CleanupRecord
        /\ ~cleanup'.cleanup_requested /\ ~cleanup'.cleanup_complete
        /\ cleanup'.next_handle = cleanup.next_handle + 1
        /\ \A work \in Works :
              cleanup'.open[work] = IF work = "Child" THEN {cleanup'.next_handle} ELSE {}
    <2>1. cleanup' = Register(cleanup, "Child")
      BY DEF Await
    <2>2. cleanup.next_handle < 4
      BY <1>2
    <2> QED BY <1>1, <2>1, <2>2, RegisteredChild
  <1>4. cleanup'.next_handle > 0
    BY <1>1, <1>3 DEF CleanupRecord
  <1>5. stage' = s /\ stage' \in RunningStages
    BY DEF Await, RunningStages
  <1>6. CleanupAtStage'
    BY <1>2, <1>3, <1>4, <1>5 DEF CleanupAtStage
  <1>7. role' \in [LiveRoles -> LiveRoleState]
    BY DEF RunInv, RunTypeOK
  <1> QED BY <1>3, <1>5, <1>6, <1>7, MoveRunInv DEF Await, RunningStages

\* The step on from an awaited role completes its child.
LEMMA ProceedRunInv ==
  ASSUME RunInv, stage \in Awaits, NEW s \in RunningStages \ Awaits, Proceed(s),
         ChildrenBefore[stage] = ChildrenBefore[s],
         UNCHANGED <<contract, rejection, run_token, overtime>>,
         role' \in [LiveRoles -> LiveRoleState],
         GatesAtStage'
  PROVE  RunInv'
  <1>1. ChildDone \in CleanupRecord /\ Quiet(ChildDone)
          /\ ChildDone.next_handle = cleanup.next_handle
    BY ChildDoneIsQuiet
  <1>2. cleanup.next_handle <= ChildrenBefore[stage]
    BY DEF RunInv, CleanupAtStage
  <1>3. stage' = s /\ cleanup' = ChildDone /\ UNCHANGED <<session, cause, outcome>>
    BY DEF Proceed
  <1>4. ChildDone.next_handle <= ChildrenBefore[stage']
    BY <1>1, <1>2, <1>3
  <1> HIDE DEF Proceed
  <1> QED BY <1>1, <1>3, <1>4, RestRunInv DEF RunningStages

\* An awaited role ends the run: its child is completed first.
LEMMA AbandonRunInv ==
  ASSUME RunInv, stage \in Awaits,
         NEW terminal \in LiveOrchestrationTerminal \ {"Completed"},
         Finish(ChildDone, terminal, FALSE),
         UNCHANGED <<contract, run_token, overtime>>,
         UNCHANGED rejection \/ rejection' \in BOOLEAN,
         role' \in [LiveRoles -> LiveRoleState]
  PROVE  RunInv'
  <1>1. ChildDone \in CleanupRecord /\ Quiet(ChildDone)
          /\ ChildDone.next_handle = cleanup.next_handle
    BY ChildDoneIsQuiet
  <1>2. cleanup.next_handle <= 4 /\ stage # "ended"
    BY DEF RunInv, RunTypeOK, CleanupAtStage, CleanupRecord, ChildrenBefore, Stages, Awaits
  <1>3. session.active_generation = OwnGeneration /\ session.status = "Running"
    BY DEF RunInv, SessionAtStage, RunningStages, Awaits
  <1> QED BY <1>1, <1>2, <1>3, FinishRunInv

\* begin_run, the transition to Validating and the checks before the first role.
LEMMA PreparationRunInv ==
  ASSUME RunInv,
         \/ Begin
         \/ EnterValidating
         \/ \E routable \in BOOLEAN : Validate(routable)
         \/ EnterRunning
  PROVE  RunInv'
  <1> USE DEF RunningStages, Awaits
  <1>1. /\ session \in SessionExecutionInner
        /\ stage \in {"begin", "preparing", "validating", "routed"} =>
              /\ ~overtime
              /\ outcome = "none"
              /\ cleanup.next_handle <= 0
              /\ cleanup \in CleanupRecord
              /\ Quiet(cleanup)
    BY DEF RunInv, RunTypeOK, CauseAtStage, CleanupAtStage, Quiet, ChildrenBefore, Stages
  <1>2. ASSUME stage \in {"begin", "preparing", "validating", "routed"},
               UNCHANGED <<contract, rejection, cleanup, cause, role, run_token, overtime,
                           outcome>>,
               session' \in SessionExecutionInner,
               session'.active_generation = OwnGeneration,
               \/ stage' = "preparing" /\ session'.status = "Preparing"
               \/ stage' \in {"validating", "routed"} /\ session'.status = "Validating"
               \/ stage' = "planning" /\ session'.status = "Running"
        PROVE  RunInv'
    <2>1. RunTypeOK'
      BY <1>2 DEF RunInv, RunTypeOK, Stages
    <2>2. SessionAtStage'
      BY <1>2 DEF SessionAtStage, SessionMatchesOutcome
    <2>3. CleanupAtStage'
      BY <1>1, <1>2 DEF CleanupAtStage, Quiet, ChildrenBefore, Stages
    <2>4. CauseAtStage'
      BY <1>1, <1>2 DEF RunInv, CauseAtStage, TimeoutIsReported
    <2>5. GatesAtStage'
      BY <1>1, <1>2 DEF GatesAtStage, PlannedStages, VerifiedStages, CompletedRunPassedGates
    <2> QED BY <2>1, <2>2, <2>3, <2>4, <2>5 DEF RunInv
  <1>3. CASE Begin
    <2>1. session.next_generation = 0 /\ stage = "begin"
      BY <1>3 DEF Begin, RunInv, SessionAtStage
    <2>2. session' = [session EXCEPT !.next_generation = 1, !.active_generation = 1,
                                     !.status = "Preparing"]
      BY <1>3, <2>1 DEF Begin, BeginRun
    <2>3. 1 \in 0..MaxGeneration
      BY <1>3, <2>1, SessionAssumption DEF Begin, GenerationLeft
    <2>4. /\ session' \in SessionExecutionInner
          /\ session'.active_generation = OwnGeneration
          /\ session'.status = "Preparing"
      BY <1>1, <2>2, <2>3, CoordinatorAssumption
         DEF SessionExecutionInner, SessionExecutionStatus, ActiveStatuses
    <2> QED BY <1>2, <1>3, <2>1, <2>4 DEF Begin
  <1>4. CASE EnterValidating
    <2>1. session.active_generation = OwnGeneration /\ stage = "preparing"
      BY <1>4 DEF EnterValidating, RunInv, SessionAtStage
    <2>2. session' = Transition(session, "Validating")
      BY <1>4 DEF EnterValidating
    <2>3. /\ session' \in SessionExecutionInner
          /\ session'.active_generation = OwnGeneration
          /\ session'.status = "Validating"
      BY <1>1, <2>1, <2>2
         DEF Transition, SessionExecutionInner, SessionExecutionStatus, ActiveStatuses,
             TerminalStatuses
    <2> QED BY <1>2, <1>4, <2>1, <2>3 DEF EnterValidating
  <1>5. ASSUME run_token, stage \in {"validating", "routed"},
               Finish(cleanup, "Cancelled", FALSE),
               UNCHANGED <<contract, rejection, role, run_token, overtime>>
        PROVE  RunInv'
    <2>1. session.active_generation = OwnGeneration /\ session.status = "Validating"
      BY <1>5 DEF RunInv, SessionAtStage
    <2>2. role' \in [LiveRoles -> LiveRoleState] /\ stage # "ended"
      BY <1>5 DEF RunInv, RunTypeOK
    <2>3. cleanup.next_handle <= 4
      BY <1>1, <1>5 DEF CleanupRecord
    <2>4. "Cancelled" \in LiveOrchestrationTerminal
      BY DEF LiveOrchestrationTerminal
    <2> QED BY <1>1, <1>5, <2>1, <2>2, <2>3, <2>4, FinishRunInv
  <1>6. ASSUME NEW routable \in BOOLEAN, Validate(routable)
        PROVE  RunInv'
    <2>1. /\ session.active_generation = OwnGeneration
          /\ session.status = "Validating"
          /\ stage = "validating"
      BY <1>6 DEF Validate, RunInv, SessionAtStage
    <2>2. CASE run_token
      BY <1>5, <1>6, <2>1, <2>2 DEF Validate
    <2>3. CASE ~run_token /\ ~routable
      <3>1. FinishPreExecution /\ UNCHANGED <<contract, rejection, role, run_token, overtime>>
        BY <1>6, <2>3 DEF Validate
      <3>2. /\ session' \in SessionExecutionInner
            /\ session'.active_generation = NoGeneration
            /\ session'.status = "Failed"
        <4>1. session' = [session EXCEPT !.status = "Failed", !.active_generation = 0]
          BY <2>1, <3>1 DEF FinishPreExecution, Terminalized, CanTerminalizeGeneration,
             TerminalizeGeneration, ValidTransition, TerminalStatuses, ActiveStatuses,
             NoGeneration
        <4>2. 0 \in 0..MaxGeneration
          BY SessionAssumption
        <4> QED BY <1>1, <4>1, <4>2 DEF SessionExecutionInner, SessionExecutionStatus,
               TerminalStatuses, NoGeneration
      <3>3. /\ cleanup' \in CleanupRecord
            /\ cleanup'.cleanup_complete
            /\ cleanup'.next_handle <= 4
        <4>1. cleanup' = Complete(BeginCleanup(cleanup))
          BY <3>1 DEF FinishPreExecution
        <4>2. cleanup.next_handle <= 4 /\ cleanup \in CleanupRecord /\ Quiet(cleanup)
          BY <1>1, <2>1 DEF CleanupRecord
        <4> QED BY <4>1, <4>2, FinalCleanup
      <3>4. stage' = "ended" /\ outcome' = "Failed" /\ UNCHANGED cause
        BY <3>1 DEF FinishPreExecution
      <3>5. RunTypeOK'
        BY <3>1, <3>2, <3>3, <3>4 DEF RunInv, RunTypeOK, Stages, LiveOrchestrationTerminal
      <3>6. SessionAtStage'
        BY <3>2, <3>3, <3>4 DEF SessionAtStage, SessionMatchesOutcome
      <3>7. CleanupAtStage'
        BY <3>3, <3>4 DEF CleanupAtStage, ChildrenBefore, Stages
      <3>8. CauseAtStage'
        BY <1>1, <2>1, <3>1, <3>4 DEF CauseAtStage, TimeoutIsReported
      <3>9. GatesAtStage'
        BY <3>4 DEF GatesAtStage, CompletedRunPassedGates, PlannedStages, VerifiedStages
      <3> QED BY <3>5, <3>6, <3>7, <3>8, <3>9 DEF RunInv
    <2>4. CASE ~run_token /\ routable
      <3>1. /\ session' = MarkPolicyValid(session)
            /\ stage' = "routed"
            /\ UNCHANGED <<contract, rejection, cleanup, cause, role, run_token, overtime, outcome>>
        BY <1>6, <2>4 DEF Validate
      <3>2. /\ session' \in SessionExecutionInner
            /\ session'.active_generation = OwnGeneration
            /\ session'.status = "Validating"
        BY <1>1, <2>1, <3>1 DEF MarkPolicyValid, SessionExecutionInner
      <3> QED BY <1>2, <2>1, <3>1, <3>2
    <2> QED BY <2>2, <2>3, <2>4
  <1>7. CASE EnterRunning
    <2>1. session.active_generation = OwnGeneration /\ stage = "routed"
      BY <1>7 DEF EnterRunning, RunInv, SessionAtStage
    <2>2. CASE run_token
      BY <1>5, <1>7, <2>1, <2>2 DEF EnterRunning
    <2>3. CASE ~run_token
      <3>1. /\ session' = Transition(session, "Running")
            /\ stage' = "planning"
            /\ UNCHANGED <<contract, rejection, cleanup, cause, role, run_token, overtime, outcome>>
        BY <1>7, <2>3 DEF EnterRunning
      <3>2. /\ session' \in SessionExecutionInner
            /\ session'.active_generation = OwnGeneration
            /\ session'.status = "Running"
        BY <1>1, <2>1, <3>1
           DEF Transition, SessionExecutionInner, SessionExecutionStatus, ActiveStatuses,
               TerminalStatuses
      <3> QED BY <1>2, <2>1, <3>1, <3>2
    <2> QED BY <2>2, <2>3
  <1> QED BY <1>3, <1>4, <1>6, <1>7

\* A role's state is one of those of LiveRoleState.
LEMMA RoleTyped ==
  ASSUME RunInv, NEW r \in LiveRoles, NEW state \in LiveRoleState,
         role' = [role EXCEPT ![r] = state]
  PROVE  /\ role' \in [LiveRoles -> LiveRoleState]
         /\ role'[r] = state
         /\ \A other \in LiveRoles \ {r} : role'[other] = role[other]
  BY DEF RunInv, RunTypeOK

\* The planner.
LEMMA PlannerRunInv ==
  ASSUME RunInv,
         \/ StartPlanner
         \/ \E state \in RoleEnds : PlannerEnds(state)
  PROVE  RunInv'
  <1> USE DEF RunningStages, Awaits, LiveRoles, LiveRoleState
  <1>1. stage # "ended" => outcome = "none"
    BY DEF RunInv, CauseAtStage
  <1>2. CASE StartPlanner
    <2> USE <1>2
    <2>1. CASE contract.planning
      <3>1. /\ Await("planner")
            /\ stage = "planning" /\ stage' = "planner"
            /\ UNCHANGED <<contract, rejection, run_token, overtime, role, outcome>>
        BY <2>1 DEF StartPlanner, Await
      <3>2. GatesAtStage'
        BY <1>1, <2>1, <3>1
           DEF GatesAtStage, PlannedStages, VerifiedStages, CompletedRunPassedGates
      <3> QED BY <3>1, <3>2, AwaitRunInv DEF ChildrenBefore, Stages
    <2>2. CASE ~contract.planning
      <3>1. /\ stage = "planning" /\ stage' = "executing"
            /\ role' = [role EXCEPT !["Planner"] = "Skipped"]
            /\ UNCHANGED <<contract, rejection, session, cleanup, cause, run_token, overtime,
                           outcome>>
        BY <2>2 DEF StartPlanner
      <3>2. /\ role' \in [LiveRoles -> LiveRoleState]
            /\ role'["Planner"] = "Skipped"
        BY <3>1, RoleTyped
      <3>3. GatesAtStage'
        BY <1>1, <2>2, <3>1, <3>2 DEF GatesAtStage, VerifiedStages, CompletedRunPassedGates
      <3>4. cleanup \in CleanupRecord /\ Quiet(cleanup)
        BY <3>1, QuietBetweenRoles
      <3>5. cleanup.next_handle <= ChildrenBefore[stage']
        BY <3>1, <3>4 DEF RunInv, CleanupAtStage, CleanupRecord, ChildrenBefore, Stages
      <3> QED BY <3>1, <3>2, <3>3, <3>4, <3>5, RestRunInv
    <2> QED BY <2>1, <2>2
  <1>3. ASSUME NEW state \in RoleEnds, PlannerEnds(state)
        PROVE  RunInv'
    <2>1. /\ stage = "planner"
          /\ role' = [role EXCEPT !["Planner"] = state]
          /\ UNCHANGED <<contract, rejection, run_token, overtime>>
      BY <1>3 DEF PlannerEnds
    <2>2. /\ role' \in [LiveRoles -> LiveRoleState]
          /\ role'["Planner"] = state
      BY <2>1, RoleTyped DEF RoleEnds
    <2>3. CASE state = "Succeeded"
      <3>1. Proceed("executing") /\ stage' = "executing" /\ UNCHANGED outcome
        BY <1>3, <2>3 DEF PlannerEnds, Proceed
      <3>2. contract.planning
        BY <2>1 DEF RunInv, GatesAtStage
      <3>3. GatesAtStage'
        BY <1>1, <2>1, <2>2, <2>3, <3>1, <3>2
           DEF GatesAtStage, VerifiedStages, CompletedRunPassedGates
      <3> QED BY <2>1, <2>2, <3>1, <3>3, ProceedRunInv DEF ChildrenBefore, Stages
    <2>4. CASE state # "Succeeded"
      <3> DEFINE terminal == IF run_token THEN "Cancelled" ELSE "Failed"
      <3>1. Finish(ChildDone, terminal, FALSE)
        BY <1>3, <2>4 DEF PlannerEnds
      <3>2. terminal \in LiveOrchestrationTerminal \ {"Completed"}
        BY DEF LiveOrchestrationTerminal
      <3> HIDE DEF terminal
      <3> QED BY <2>1, <2>2, <3>1, <3>2, AbandonRunInv
    <2> QED BY <2>3, <2>4
  <1> QED BY <1>2, <1>3

\* The executor: its batch is part of the run only at its two ends.
LEMMA ExecutorRunInv ==
  ASSUME RunInv,
         \/ \E admitted, valid \in BOOLEAN : StartExecutor(admitted, valid)
         \/ ExecutorEnds
  PROVE  RunInv'
  <1> USE DEF RunningStages, Awaits, LiveRoles, LiveRoleState
  <1>1. stage # "ended" => outcome = "none"
    BY DEF RunInv, CauseAtStage
  <1>2. ASSUME NEW admitted \in BOOLEAN, NEW valid \in BOOLEAN,
               StartExecutor(admitted, valid)
        PROVE  RunInv'
    <2>1. stage = "executing" /\ UNCHANGED <<contract, rejection, run_token, overtime, role>>
      BY <1>2 DEF StartExecutor
    <2>2. CASE admitted /\ valid /\ ~run_token
      <3>1. Await("executor") /\ stage' = "executor" /\ UNCHANGED outcome
        BY <1>2, <2>2 DEF StartExecutor, Await
      <3>2. GatesAtStage'
        BY <1>1, <2>1, <3>1
           DEF RunInv, GatesAtStage, PlannedStages, VerifiedStages, CompletedRunPassedGates
      <3> QED BY <2>1, <3>1, <3>2, AwaitRunInv DEF ChildrenBefore, Stages
    <2>3. CASE ~(admitted /\ valid /\ ~run_token)
      <3> DEFINE terminal == IF admitted THEN "Failed" ELSE "BudgetExhausted"
      <3>1. Finish(ChildPassed, terminal, FALSE)
        BY <1>2, <2>3 DEF StartExecutor
      <3>2. terminal \in LiveOrchestrationTerminal \ {"Completed"}
        BY DEF LiveOrchestrationTerminal
      <3>3. cleanup \in CleanupRecord /\ Quiet(cleanup)
        BY <2>1, QuietBetweenRoles
      <3>4. cleanup.next_handle <= 1
        BY <2>1 DEF RunInv, CleanupAtStage, ChildrenBefore, Stages
      <3>5. /\ ChildPassed \in CleanupRecord
            /\ Quiet(ChildPassed)
            /\ ChildPassed.next_handle <= 4
        <4>1. cleanup.next_handle < 4
          BY <3>3, <3>4 DEF CleanupRecord
        <4> QED BY <3>3, <3>4, <4>1, ChildPassedIsQuiet DEF CleanupRecord
      <3>6. session.active_generation = OwnGeneration /\ session.status = "Running"
        BY <2>1 DEF RunInv, SessionAtStage
      <3>7. role' \in [LiveRoles -> LiveRoleState] /\ stage # "ended"
        BY <2>1 DEF RunInv, RunTypeOK
      <3> HIDE DEF terminal
      <3> QED BY <2>1, <3>1, <3>2, <3>5, <3>6, <3>7, FinishRunInv
    <2> QED BY <2>2, <2>3
  <1>3. CASE ExecutorEnds
    <2>1. /\ stage = "executor"
          /\ role' = [role EXCEPT !["Executor"] = ExecutorState]
          /\ UNCHANGED <<contract, rejection, run_token, overtime>>
      BY <1>3 DEF ExecutorEnds
    <2>2. /\ role' \in [LiveRoles -> LiveRoleState]
          /\ role'["Planner"] = role["Planner"]
      <3>1. ExecutorState \in LiveRoleState
        BY DEF ExecutorState
      <3> QED BY <2>1, <3>1, RoleTyped
    <2>3. CASE run_token
      <3>1. Finish(ChildDone, "Cancelled", FALSE)
        BY <1>3, <2>3 DEF ExecutorEnds
      <3>2. "Cancelled" \in LiveOrchestrationTerminal \ {"Completed"}
        BY DEF LiveOrchestrationTerminal
      <3> QED BY <2>1, <2>2, <3>1, <3>2, AbandonRunInv
    <2>4. CASE ~run_token
      <3>1. Proceed("verifying") /\ stage' = "verifying" /\ UNCHANGED outcome
        BY <1>3, <2>4 DEF ExecutorEnds, Proceed
      <3>2. GatesAtStage'
        BY <1>1, <2>1, <2>2, <3>1
           DEF RunInv, GatesAtStage, PlannedStages, VerifiedStages, CompletedRunPassedGates
      <3> QED BY <2>1, <2>2, <3>1, <3>2, ProceedRunInv DEF ChildrenBefore, Stages
    <2> QED BY <2>3, <2>4
  <1> QED BY <1>2, <1>3

\* The verifier, and a result that was given by the request.
LEMMA VerifierRunInv ==
  ASSUME RunInv,
         \/ StartVerifier
         \/ \E state \in RoleEnds, verdict \in {"ACCEPT", "REJECT", "other"} :
               VerifierEnds(state, verdict)
  PROVE  RunInv'
  <1> USE DEF RunningStages, Awaits, LiveRoles, LiveRoleState
  <1>1. stage # "ended" => outcome = "none"
    BY DEF RunInv, CauseAtStage
  <1>2. CASE StartVerifier
    <2>1. stage = "verifying" /\ UNCHANGED <<contract, run_token, overtime>>
      BY <1>2 DEF StartVerifier
    <2>2. CASE contract.verification = "provider"
      <3>1. /\ Await("verifier") /\ stage' = "verifier"
            /\ UNCHANGED <<outcome, role, rejection>>
        BY <1>2, <2>2 DEF StartVerifier, Await
      <3>2. GatesAtStage'
        BY <1>1, <2>1, <2>2, <3>1
           DEF RunInv, GatesAtStage, PlannedStages, VerifiedStages, CompletedRunPassedGates
      <3> QED BY <2>1, <3>1, <3>2, AwaitRunInv DEF ChildrenBefore, Stages
    <2>3. CASE contract.verification # "provider"
      <3>1. /\ rejection' = (contract.verification = "rejected")
            /\ stage' = IF contract.verification = "rejected" THEN "repairing" ELSE "closing"
            /\ role' = [role EXCEPT !["Verifier"] = "Skipped"]
            /\ cleanup' = ChildPassed
            /\ UNCHANGED <<session, cause, outcome>>
        BY <1>2, <2>3 DEF StartVerifier
      <3>2. /\ role' \in [LiveRoles -> LiveRoleState]
            /\ role'["Planner"] = role["Planner"]
        BY <3>1, RoleTyped
      <3>3. GatesAtStage'
        BY <1>1, <2>1, <2>3, <3>1, <3>2
           DEF RunInv, GatesAtStage, PlannedStages, VerifiedStages, CompletedRunPassedGates
      <3>4. cleanup \in CleanupRecord /\ Quiet(cleanup)
        BY <2>1, QuietBetweenRoles
      <3>5. cleanup.next_handle <= 2
        BY <2>1 DEF RunInv, CleanupAtStage, ChildrenBefore, Stages
      <3>6. /\ ChildPassed \in CleanupRecord
            /\ Quiet(ChildPassed)
            /\ ChildPassed.next_handle <= 3
        <4>1. cleanup.next_handle < 4
          BY <3>4, <3>5 DEF CleanupRecord
        <4> QED BY <3>4, <3>5, <4>1, ChildPassedIsQuiet DEF CleanupRecord
      <3>7. /\ stage' \in RunningStages \ Awaits
            /\ ChildPassed.next_handle <= ChildrenBefore[stage']
        <4>1. ChildrenBefore[stage'] \in {3, 4} /\ ChildPassed.next_handle \in Int
          BY <3>1, <3>6 DEF ChildrenBefore, Stages, CleanupRecord
        <4> QED BY <3>1, <3>6, <4>1
      <3> QED BY <2>1, <3>1, <3>2, <3>3, <3>6, <3>7, RestRunInv
    <2> QED BY <2>2, <2>3
  <1>3. ASSUME NEW state \in RoleEnds, NEW verdict \in {"ACCEPT", "REJECT", "other"},
               VerifierEnds(state, verdict)
        PROVE  RunInv'
    <2>1. /\ stage = "verifier"
          /\ role' = [role EXCEPT !["Verifier"] = state]
          /\ rejection' = (verdict = "REJECT")
          /\ UNCHANGED <<contract, run_token, overtime>>
      BY <1>3 DEF VerifierEnds
    <2>2. /\ role' \in [LiveRoles -> LiveRoleState]
          /\ role'["Verifier"] = state
          /\ role'["Planner"] = role["Planner"]
      BY <2>1, RoleTyped DEF RoleEnds
    <2>3. contract.verification = "provider"
      BY <2>1 DEF RunInv, GatesAtStage
    <2>4. ASSUME NEW s \in {"closing", "repairing"}, Proceed(s), state = "Succeeded",
                 s = "closing" => ~rejection'
          PROVE  RunInv'
      <3>1. stage' = s /\ UNCHANGED outcome
        BY <2>4 DEF Proceed
      <3>2. GatesAtStage'
        BY <1>1, <2>1, <2>2, <2>3, <2>4, <3>1
           DEF RunInv, GatesAtStage, PlannedStages, VerifiedStages, CompletedRunPassedGates
      <3>3. ChildDone.next_handle <= ChildrenBefore[s]
        <4>1. cleanup.next_handle <= 3 /\ cleanup.next_handle \in Int
          BY <2>1 DEF RunInv, RunTypeOK, CleanupRecord, CleanupAtStage, ChildrenBefore, Stages
        <4>2. ChildrenBefore[s] \in {3, 4}
          BY DEF ChildrenBefore, Stages
        <4> QED BY <2>1, <4>1, <4>2, ChildDoneIsQuiet
      <3> QED BY <2>1, <2>2, <2>4, <3>1, <3>2, <3>3, ChildDoneIsQuiet, RestRunInv DEF Proceed
    <2>5. CASE verdict = "ACCEPT"
      BY <1>3, <2>4, <2>5 DEF VerifierEnds
    <2>6. CASE verdict = "REJECT"
      BY <1>3, <2>4, <2>6 DEF VerifierEnds
    <2>7. CASE verdict = "other"
      <3> DEFINE terminal == IF run_token THEN "Cancelled" ELSE "Failed"
      <3>1. Finish(ChildDone, terminal, FALSE)
        BY <1>3, <2>7 DEF VerifierEnds
      <3>2. terminal \in LiveOrchestrationTerminal \ {"Completed"}
        BY DEF LiveOrchestrationTerminal
      <3> HIDE DEF terminal
      <3> QED BY <2>1, <2>2, <3>1, <3>2, AbandonRunInv
    <2> QED BY <2>5, <2>6, <2>7
  <1> QED BY <1>2, <1>3

\* A repair that is over: only its success goes on to the last stage.
LEMMA RepairOverRunInv ==
  ASSUME RunInv, stage \in {"attempt", "repair", "overdue"}, NEW state \in RoleEnds,
         RepairOver(state),
         UNCHANGED <<contract, rejection, run_token, overtime>>
  PROVE  RunInv'
  <1> USE DEF RunningStages, Awaits, LiveRoles, LiveRoleState
  <1>1. outcome = "none"
    BY DEF RunInv, CauseAtStage
  <1>2. role' = [role EXCEPT !["Repair"] = state]
    BY DEF RepairOver
  <1>3. /\ role' \in [LiveRoles -> LiveRoleState]
        /\ role'["Repair"] = state
        /\ role'["Planner"] = role["Planner"]
        /\ role'["Verifier"] = role["Verifier"]
    BY <1>2, RoleTyped DEF RoleEnds
  <1>4. CASE state = "Succeeded"
    <2>1. Proceed("closing") /\ stage' = "closing" /\ UNCHANGED outcome
      BY <1>4 DEF RepairOver, Proceed
    <2>2. GatesAtStage'
      BY <1>1, <1>3, <1>4, <2>1
         DEF RunInv, GatesAtStage, PlannedStages, VerifiedStages, CompletedRunPassedGates
    <2> QED BY <1>3, <2>1, <2>2, ProceedRunInv DEF ChildrenBefore, Stages
  <1>5. CASE state # "Succeeded"
    <2>1. Finish(ChildDone, state, FALSE)
      BY <1>5 DEF RepairOver
    <2>2. state \in LiveOrchestrationTerminal \ {"Completed"}
      BY <1>5 DEF RoleEnds, LiveOrchestrationTerminal
    <2> QED BY <1>3, <2>1, <2>2, AbandonRunInv
  <1> QED BY <1>4, <1>5

\* A step within the repair.
LEMMA RepairStageRunInv ==
  ASSUME RunInv, stage \in {"attempt", "repair"}, stage' \in {"repair", "overdue"},
         UNCHANGED <<contract, rejection, session, cleanup, cause, role, run_token, overtime,
                     outcome>>
  PROVE  RunInv'
  <1> USE DEF RunningStages, Awaits
  <1>1. CleanupAtStage' /\ cleanup' \in CleanupRecord
    BY DEF RunInv, RunTypeOK, CleanupAtStage, ChildrenBefore, Stages
  <1>2. GatesAtStage'
    BY DEF RunInv, CauseAtStage, GatesAtStage, PlannedStages, VerifiedStages,
       CompletedRunPassedGates
  <1>3. role' \in [LiveRoles -> LiveRoleState]
    BY DEF RunInv, RunTypeOK
  <1> QED BY <1>1, <1>2, <1>3, MoveRunInv

\* The repair.
LEMMA RepairRunInv ==
  ASSUME RunInv,
         \/ \E admitted \in BOOLEAN, prepared \in Preparations :
               StartRepair(admitted, prepared)
         \/ \E state \in RoleEnds, routed \in BOOLEAN : InitialAttemptEnds(state, routed)
         \/ \E state \in RoleEnds : RepairAttemptEnds(state)
         \/ RepairTimeout
         \/ OverdueRepairEnds
  PROVE  RunInv'
  <1> USE DEF RunningStages, Awaits, LiveRoles, LiveRoleState
  <1>1. stage # "ended" => outcome = "none"
    BY DEF RunInv, CauseAtStage
  <1>2. ASSUME NEW admitted \in BOOLEAN, NEW prepared \in Preparations,
               StartRepair(admitted, prepared)
        PROVE  RunInv'
    <2>1. stage = "repairing" /\ UNCHANGED <<contract, rejection, run_token, overtime>>
      BY <1>2 DEF StartRepair
    <2>2. CASE contract.repair /\ admitted /\ prepared = "ready"
      <3>1. Await("attempt") /\ stage' = "attempt" /\ UNCHANGED <<outcome, role>>
        BY <1>2, <2>2 DEF StartRepair, Await
      <3>2. GatesAtStage'
        BY <1>1, <2>1, <3>1
           DEF RunInv, GatesAtStage, PlannedStages, VerifiedStages, CompletedRunPassedGates
      <3> QED BY <2>1, <3>1, <3>2, AwaitRunInv DEF ChildrenBefore, Stages
    <2>3. CASE ~(contract.repair /\ admitted /\ prepared = "ready")
      <3> DEFINE c == IF contract.repair THEN ChildPassed ELSE cleanup
                 terminal == IF ~contract.repair THEN "Failed"
                             ELSE IF admitted THEN prepared ELSE "BudgetExhausted"
                 state == IF ~contract.repair THEN "Skipped"
                          ELSE IF admitted THEN prepared ELSE role["Repair"]
      <3>1. /\ role' = [role EXCEPT !["Repair"] = state]
            /\ Finish(c, terminal, FALSE)
        BY <1>2, <2>3 DEF StartRepair
      <3>2. terminal \in LiveOrchestrationTerminal \ {"Completed"}
        BY <2>3 DEF LiveOrchestrationTerminal, Preparations
      <3>3. state \in LiveRoleState
        BY <2>3 DEF RunInv, RunTypeOK, Preparations
      <3>4. cleanup \in CleanupRecord /\ Quiet(cleanup)
        BY <2>1, QuietBetweenRoles
      <3>5. cleanup.next_handle <= 3 /\ cleanup.next_handle \in Int
        BY <2>1, <3>4 DEF RunInv, CleanupRecord, CleanupAtStage, ChildrenBefore, Stages
      <3>6. ChildPassed \in CleanupRecord /\ Quiet(ChildPassed)
              /\ ChildPassed.next_handle = cleanup.next_handle + 1
        <4>1. cleanup.next_handle < 4
          BY <3>5
        <4> QED BY <3>4, <4>1, ChildPassedIsQuiet
      <3>7. c \in CleanupRecord /\ Quiet(c) /\ c.next_handle <= 4
        BY <3>4, <3>5, <3>6
      <3>8. session.active_generation = OwnGeneration /\ session.status = "Running"
        BY <2>1 DEF RunInv, SessionAtStage
      <3> HIDE DEF c, terminal, state
      <3>9. role' \in [LiveRoles -> LiveRoleState] /\ stage # "ended"
        BY <2>1, <3>1, <3>3, RoleTyped
      <3> QED BY <2>1, <3>1, <3>2, <3>7, <3>8, <3>9, FinishRunInv
    <2> QED BY <2>2, <2>3
  <1>3. ASSUME NEW state \in RoleEnds, NEW routed \in BOOLEAN,
               InitialAttemptEnds(state, routed)
        PROVE  RunInv'
    <2>1. CASE state # "Succeeded" /\ ~run_token /\ routed
      BY <1>3, <2>1, RepairStageRunInv DEF InitialAttemptEnds
    <2>2. CASE ~(state # "Succeeded" /\ ~run_token /\ routed)
      <3> DEFINE over == IF state = "Succeeded" THEN "Succeeded"
                         ELSE IF run_token THEN "Cancelled" ELSE "Failed"
      <3>1. RepairOver(over) /\ UNCHANGED <<contract, rejection, run_token, overtime>>
              /\ stage = "attempt"
        BY <1>3, <2>2 DEF InitialAttemptEnds
      <3>2. over \in RoleEnds
        BY DEF RoleEnds
      <3> HIDE DEF over
      <3> QED BY <3>1, <3>2, RepairOverRunInv
    <2> QED BY <2>1, <2>2
  <1>4. ASSUME NEW state \in RoleEnds, RepairAttemptEnds(state)
        PROVE  RunInv'
    BY <1>4, RepairOverRunInv DEF RepairAttemptEnds
  <1>5. CASE RepairTimeout
    BY <1>5, RepairStageRunInv DEF RepairTimeout
  <1>6. CASE OverdueRepairEnds
    <2>1. "TimedOut" \in RoleEnds
      BY DEF RoleEnds
    <2> QED BY <1>6, <2>1, RepairOverRunInv DEF OverdueRepairEnds
  <1> QED BY <1>2, <1>3, <1>4, <1>5, <1>6

\* The last stage: what is reported as completed has passed the gates.
LEMMA CloseRunInv ==
  ASSUME RunInv, Close
  PROVE  RunInv'
  <1> USE DEF LiveRoles, LiveRoleState
  <1> DEFINE terminal == IF run_token THEN "Cancelled"
                         ELSE IF ExecutorFailed THEN "Failed" ELSE "Completed"
             state == IF role["Repair"] = "Pending" THEN "Skipped" ELSE role["Repair"]
  <1>1. /\ stage = "closing"
        /\ role' = [role EXCEPT !["Repair"] = state]
        /\ Finish(cleanup, terminal, ExecutorJoinFailed)
        /\ UNCHANGED <<contract, rejection, run_token, overtime, batch>>
    BY DEF Close
  <1>2. terminal \in LiveOrchestrationTerminal
    BY DEF LiveOrchestrationTerminal
  <1>3. state \in LiveRoleState
    BY DEF RunInv, RunTypeOK
  <1>4. /\ role' \in [LiveRoles -> LiveRoleState]
        /\ role'["Repair"] = state
        /\ role'["Planner"] = role["Planner"]
        /\ role'["Verifier"] = role["Verifier"]
    <2> HIDE DEF state
    <2> QED BY <1>1, <1>3, RoleTyped
  <1>5. cleanup \in CleanupRecord /\ Quiet(cleanup)
    BY <1>1, QuietBetweenRoles DEF Awaits
  <1>6. cleanup.next_handle <= 4
    BY <1>1 DEF RunInv, CleanupAtStage, ChildrenBefore, Stages, Awaits
  <1>7. session.active_generation = OwnGeneration /\ session.status = "Running"
    BY <1>1 DEF RunInv, SessionAtStage, RunningStages, Awaits
  <1>8. terminal = "Completed" => Gates'
    <2>1. ExecutorFailed' = ExecutorFailed
      BY <1>1 DEF ExecutorFailed, batch
    <2>2. rejection \/ contract.verification = "rejected" => state = "Succeeded"
      BY <1>1 DEF RunInv, GatesAtStage
    <2>3. /\ role["Planner"] = IF contract.planning THEN "Succeeded" ELSE "Skipped"
          /\ contract.verification = "provider" => role["Verifier"] = "Succeeded"
      BY <1>1 DEF RunInv, GatesAtStage, PlannedStages, VerifiedStages, RunningStages, Awaits
    <2> QED BY <1>1, <1>4, <2>1, <2>2, <2>3 DEF Gates
  <1> HIDE DEF terminal
  <1> QED BY <1>1, <1>2, <1>4, <1>5, <1>6, <1>7, <1>8, FinishRunInv

\* What the batch and the user do leaves the records of the run alone.
LEMMA OutsideRunInv ==
  ASSUME RunInv, stage # "ended", run_token => run_token', run_token' \in BOOLEAN,
         UNCHANGED <<contract, rejection, session, cleanup, cause, stage, role, overtime, outcome>>
  PROVE  RunInv'
  <1>1. outcome = "none"
    BY DEF RunInv, CauseAtStage
  <1>2. RunTypeOK' /\ SessionAtStage' /\ CleanupAtStage'
    BY DEF RunInv, RunTypeOK, SessionAtStage, SessionMatchesOutcome, CleanupAtStage
  <1>3. CauseAtStage' /\ GatesAtStage'
    BY <1>1 DEF RunInv, CauseAtStage, TimeoutIsReported, GatesAtStage, CompletedRunPassedGates
  <1> QED BY <1>2, <1>3 DEF RunInv

\* The total timeout comes before any other cause.
LEMMA TotalTimeoutRunInv ==
  ASSUME RunInv, TotalTimeout
  PROVE  RunInv'
  <1>1. /\ stage \in Awaits /\ stage # "ended" /\ outcome = "none"
        /\ cause \in CauseState /\ cause.accepted = NoCause /\ ~cause.frozen
    BY DEF TotalTimeout, RunInv, RunTypeOK, CauseAtStage, Awaits
  <1>2. /\ overtime' = TRUE /\ run_token' = TRUE
        /\ cause' = Submit(cause, OwnGeneration, "TotalTimedOut")
        /\ UNCHANGED <<contract, rejection, session, cleanup, stage, role, outcome>>
    BY DEF TotalTimeout, CancelTokens
  <1>3. cause' \in CauseState /\ cause'.accepted = "TotalTimedOut" /\ ~cause'.frozen
    <2>1. cause' = [cause EXCEPT !.accepted = "TotalTimedOut"]
      BY <1>1, <1>2 DEF Submit
    <2> QED BY <1>1, <2>1 DEF CauseState, FailureKinds
  <1>4. RunTypeOK' /\ SessionAtStage' /\ CleanupAtStage'
    BY <1>2, <1>3 DEF RunInv, RunTypeOK, SessionAtStage, SessionMatchesOutcome, CleanupAtStage
  <1>5. CauseAtStage' /\ GatesAtStage'
    BY <1>1, <1>2, <1>3 DEF RunInv, CauseAtStage, TimeoutIsReported, GatesAtStage,
       CompletedRunPassedGates, RunningStages
  <1> QED BY <1>4, <1>5 DEF RunInv

\* The run has not begun, and its session is idle.
LEMMA InitRunInv == Init => RunInv
  <1> SUFFICES ASSUME Init PROVE RunInv
    OBVIOUS
  <1>1. PICK selection \in Resolvable : session = NewSession(selection[1], selection[2])
    BY DEF Init
  <1>2. selection[1] \in Strategies /\ selection[2] \in Modes
          /\ <<selection[1], selection[2]>> = selection
    BY <1>1, SessionAssumption
  <1>3. session \in SessionExecutionInner
    <2>1. 0 \in 0..MaxGeneration
      BY SessionAssumption
    <2> QED BY <1>1, <1>2, <2>1 DEF NewSession, SessionExecutionInner,
           SessionExecutionStatus, NoGeneration
  <1>4. session.status = "Idle" /\ session.next_generation = 0
    BY <1>1 DEF NewSession
  <1>5. cleanup \in CleanupRecord /\ Quiet(cleanup) /\ cleanup.next_handle = 0
    BY CleanupAssumption DEF Init, NewCleanup, CleanupRecord, Quiet
  <1>6. cause \in CauseState /\ cause.accepted = NoCause /\ ~cause.frozen
    BY DEF Init, NewCause, CauseState
  <1>7. RunTypeOK
    BY <1>3, <1>5, <1>6 DEF Init, RunTypeOK, Stages, LiveRoleState
  <1>8. SessionAtStage /\ CleanupAtStage
    BY <1>4, <1>5 DEF Init, SessionAtStage, SessionMatchesOutcome, CleanupAtStage, Quiet,
       RunningStages, Awaits, ChildrenBefore, Stages
  <1>9. CauseAtStage /\ GatesAtStage
    BY <1>6 DEF Init, CauseAtStage, TimeoutIsReported, GatesAtStage, CompletedRunPassedGates,
       PlannedStages, VerifiedStages, RunningStages, Awaits
  <1> QED BY <1>7, <1>8, <1>9 DEF RunInv

-----------------------------------------------------------------------------
(* The theorems.                                                           *)

\* IInv is inductive.
THEOREM Invariance == Spec => []IInv
  <1>1. Init => IInv
    BY InitBatchInv, InitRunInv DEF Init, IInv
  <1>2. IInv /\ [Next]_vars => IInv'
    <2> SUFFICES ASSUME IInv, [Next]_vars PROVE IInv'
      OBVIOUS
    <2> USE DEF IInv
    <2>1. CASE CoordinatorStep
      <3>1. BatchInv'
        <4>1. UNCHANGED batch
          BY <2>1 DEF CoordinatorStep, Begin, EnterValidating, Validate, EnterRunning,
             StartPlanner, StartExecutor, ExecutorEnds, StartVerifier, StartRepair, Close
        <4> QED BY <4>1, FrameBatchInv
      <3>2. RunInv'
        BY <2>1, PreparationRunInv, PlannerRunInv, ExecutorRunInv, VerifierRunInv,
           RepairRunInv, CloseRunInv DEF CoordinatorStep
      <3> QED BY <3>1, <3>2
    <2>2. CASE RoleStep
      <3>1. BatchInv'
        <4>1. UNCHANGED batch
          BY <2>2 DEF RoleStep, PlannerEnds, VerifierEnds, InitialAttemptEnds,
             RepairAttemptEnds, OverdueRepairEnds
        <4> QED BY <4>1, FrameBatchInv
      <3>2. RunInv'
        BY <2>2, PlannerRunInv, VerifierRunInv, RepairRunInv DEF RoleStep
      <3> QED BY <3>1, <3>2
    <2>3. CASE RunBatch
      <3>1. BatchInv'
        BY <2>3, StepBatchInv DEF RunBatch
      <3>2. run_token' \in BOOLEAN /\ run_token' = run_token /\ stage # "ended"
        BY <2>3 DEF RunBatch, run, RunInv, RunTypeOK
      <3>3. UNCHANGED <<contract, rejection, session, cleanup, cause, stage, role, overtime,
                        outcome>>
        BY <2>3 DEF RunBatch, run
      <3> QED BY <3>1, <3>2, <3>3, OutsideRunInv
    <2>4. CASE RepairTimeout
      <3>1. BatchInv'
        BY <2>4, FrameBatchInv DEF RepairTimeout
      <3> QED BY <2>4, <3>1, RepairRunInv
    <2>5. CASE UserCancels
      <3>1. BatchInv'
        BY <2>5, CancelBatchInv DEF UserCancels
      <3>2. RunInv'
        BY <2>5, OutsideRunInv DEF UserCancels, CancelTokens
      <3> QED BY <3>1, <3>2
    <2>6. CASE TotalTimeout
      <3>1. BatchInv'
        BY <2>6, CancelBatchInv DEF TotalTimeout
      <3> QED BY <2>6, <3>1, TotalTimeoutRunInv
    <2>7. CASE UNCHANGED vars
      <3>1. UNCHANGED <<contract, rejection, session, cleanup, cause, stage, role, run_token,
                        overtime, outcome>> /\ UNCHANGED batch
        BY <2>7 DEF vars, run
      <3>2. BatchInv'
        BY <3>1, FrameBatchInv
      <3>3. RunTypeOK' /\ SessionAtStage' /\ CleanupAtStage' /\ CauseAtStage'
        BY <3>1 DEF RunInv, RunTypeOK, SessionAtStage, SessionMatchesOutcome, CleanupAtStage,
           CauseAtStage, TimeoutIsReported
      <3>4. GatesAtStage'
        BY <3>1 DEF RunInv, GatesAtStage, CompletedRunPassedGates, ExecutorFailed, batch
      <3> QED BY <3>2, <3>3, <3>4 DEF RunInv
    <2> QED BY <2>1, <2>2, <2>3, <2>4, <2>5, <2>6, <2>7 DEF Next
  <1> QED BY <1>1, <1>2, PTL DEF Spec

\* Every record of the run and of its batch keeps its type, and the aggregate
\* reservation of the batch stays within its budget.
THEOREM TypeCorrect == Spec => []TypeOK
  <1>1. IInv => TypeOK
    BY DEF IInv, BatchInv, RunInv, TypeOK
  <1> QED BY <1>1, Invariance, PTL

\* A batch returns with every task it spawned joined, and NotStarted means that
\* the task was never spawned.
THEOREM TasksAccounted == Spec => []AllTasksAccounted
  <1>1. IInv => AllTasksAccounted
    BY DEF IInv, BatchInv, SpawnedInOrder
  <1> QED BY <1>1, Invariance, PTL

\* A status of Completed or PartiallyFailed is not given to a batch that left a
\* task out or spent its budget.
THEOREM UnstoppedRanEverything == Spec => []UnstoppedBatchRanEverything
  <1>1. IInv => UnstoppedBatchRanEverything
    <2> SUFFICES ASSUME IInv, phase = "done", BatchStatus \in {"Completed", "PartiallyFailed"},
                        NEW t \in Tasks
                 PROVE  slot[t] \in {"Completed", "Failed", "Cancelled", "TimedOut"}
      BY DEF UnstoppedBatchRanEverything
    <2>1. ~budget_exhausted /\ ~token /\ ~stopped
      BY DEF BatchStatus
    <2>2. next > NumTasks /\ next \in Int
      BY <2>1 DEF IInv, BatchInv, BatchTypeOK, EndedForAReason
    <2>3. ~(t >= next)
      BY <2>2, BatchAssumption DEF Tasks
    <2>4. slot[t] \notin {"Queued", "Running", "NotStarted"}
      BY <2>3 DEF IInv, BatchInv, SpawnedInOrder, AllTasksAccounted
    <2>5. slot[t] # "BudgetExhausted"
      BY <2>1 DEF IInv, BatchInv, ExhaustionNoted
    <2> QED BY <2>4, <2>5 DEF IInv, BatchInv, BatchTypeOK, SubagentTaskState
  <1> QED BY <1>1, Invariance, PTL

\* Under CancelRemaining nothing is spawned after a failure was joined, and the
\* tasks that run have been told to stop.
THEOREM FailureStops == Spec => FailureStopsBatch
  <1> DEFINE Stops ==
               /\ request.failure_policy = "CancelRemaining"
               /\ \E t \in Tasks : slot[t] \in {"Failed", "BudgetExhausted"}
               => next' = next /\ token'
  <1>1. IInv /\ [Next]_vars => [Stops]_batch
    <2> SUFFICES ASSUME IInv, [Next]_vars, UNCHANGED batch => FALSE,
                        request.failure_policy = "CancelRemaining",
                        \E t \in Tasks : slot[t] \in {"Failed", "BudgetExhausted"}
                 PROVE  next' = next /\ token'
      OBVIOUS
    <2>1. token
      BY DEF IInv, BatchInv, FailureCancels
    <2>2. BatchStep \/ CancelTokens
      BY DEF vars, Next, CoordinatorStep, RoleStep, RunBatch, RepairTimeout, UserCancels,
         TotalTimeout, Begin, EnterValidating, Validate, EnterRunning, StartPlanner,
         StartExecutor, ExecutorEnds, StartVerifier, StartRepair, Close, PlannerEnds,
         VerifierEnds, InitialAttemptEnds, RepairAttemptEnds, OverdueRepairEnds
    <2>3. CASE CancelTokens
      BY <2>1, <2>3 DEF CancelTokens
    <2>4. CASE BatchStep
      BY <2>1, <2>4 DEF BatchStep, LoopStep, TaskStep, TaskEnds, Spawn, CanSpawn, RefuseSpawn,
         EndSpawning, Join, BatchTimeout
    <2> QED BY <2>2, <2>3, <2>4
  <1> QED BY <1>1, Invariance, PTL DEF Spec, FailureStopsBatch

\* However a run ends, its cleanup completes and its session is given back in
\* the status that the outcome reports.
THEOREM OutcomeAgrees == Spec => []SessionMatchesOutcome
  <1>1. IInv => SessionMatchesOutcome
    BY DEF IInv, RunInv, SessionAtStage
  <1> QED BY <1>1, Invariance, PTL

\* A run that is reported as completed passed its planner, its executor, its
\* verifier or its repair, and was not cancelled.
THEOREM GatesPassed == Spec => []CompletedRunPassedGates
  <1>1. IInv => CompletedRunPassedGates
    BY DEF IInv, RunInv, GatesAtStage
  <1> QED BY <1>1, Invariance, PTL

\* A run whose total timeout passed is reported as timed out, whatever its
\* roles and its user do after that.
THEOREM TimeoutReported == Spec => []TimeoutIsReported
  <1>1. IInv => TimeoutIsReported
    BY DEF IInv, RunInv, CauseAtStage
  <1> QED BY <1>1, Invariance, PTL
=============================================================================
