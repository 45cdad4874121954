--------------------------- MODULE LiveCoordinator ---------------------------
(***************************************************************************)
(* LiveOrchestrationCoordinator: one run from begin_run to its terminal    *)
(* transition, through the planner, the executor batch (SubagentBatch),    *)
(* the verifier and the repair, with the total timeout around them, the    *)
(* cleanup and cause records (CleanupState) and the session (SessionState) *)
(* that finish_outcome brings to an end.                                   *)
(*                                                                         *)
(* Everything between two awaits is one step; the user's cancellation may  *)
(* come between any two steps.  The roles' sessions are SubagentSession.   *)
(* Admissions by the ledger may be refused at any time.                    *)
(***************************************************************************)
EXTENDS SubagentBatch, CleanupState, SessionState

\* The session is new, so begin_run issues its first generation; each of the four
\* roles registers at most one child, far from the last u64.
ASSUME CoordinatorAssumption ==
    /\ OwnGeneration = 1
    /\ MaxHandle >= 4

VARIABLES
    contract,   \* what the request and the policy ask for: never changes
    session,    \* SessionExecutionPolicyState
    cleanup,    \* OrchestrationCleanup
    cause,      \* its TerminalCauseArbiter
    stage,      \* where run_inner is
    role,       \* LiveRoleState of each role so far
    rejection,  \* the verification rejected the result
    run_token,  \* request.cancellation is cancelled
    overtime,   \* the total timeout has passed
    outcome     \* the terminal that run() reports

run == <<contract, rejection, session, cleanup, cause, stage, role, run_token, overtime,
         outcome>>
vars == <<run, batch>>

Contract ==
    [ planning : BOOLEAN,
      verification : {"none", "accepted", "rejected", "provider"},
      repair : BOOLEAN ]

\* The stages in which run_inner awaits a role.  A repair has two attempts, and
\* is overdue once total_repair_timeout has passed.
Awaits == {"planner", "executor", "verifier", "attempt", "repair", "overdue"}

Stages == Awaits \cup {"begin", "preparing", "validating", "routed", "planning",
                       "executing", "verifying", "repairing", "closing", "ended"}

LiveRoles == {"Planner", "Executor", "Verifier", "Repair"}

LiveRoleState ==
    {"Pending", "Skipped", "Succeeded", "Failed", "Cancelled", "TimedOut", "BudgetExhausted"}

LiveOrchestrationTerminal == {"Completed", "Failed", "Cancelled", "TimedOut", "BudgetExhausted"}

Init ==
    /\ BatchInit
    /\ contract \in Contract
    /\ \E selection \in Resolvable : session = NewSession(selection[1], selection[2])
    /\ cleanup = NewCleanup
    /\ cause = NewCause
    /\ stage = "begin"
    /\ role = [r \in LiveRoles |-> "Pending"]
    /\ rejection = FALSE
    /\ run_token = FALSE
    /\ overtime = FALSE
    /\ outcome = "none"

-----------------------------------------------------------------------------
(* The end of a run.                                                       *)

\* from_terminal: the cause a terminal is submitted with.
CauseOf(terminal, joinFailed) ==
    CASE terminal = "Cancelled"       -> "UserCancelled"
      [] terminal = "TimedOut"        -> "TotalTimedOut"
      [] terminal = "BudgetExhausted" -> "BudgetExhausted"
      [] OTHER                        -> IF joinFailed THEN "JoinFailed" ELSE "StageFailed"

\* The terminal of an accepted cause.
TerminalOfCause(accepted) ==
    CASE accepted = "UserCancelled"   -> "Cancelled"
      [] accepted = "TotalTimedOut"   -> "TimedOut"
      [] accepted = "BudgetExhausted" -> "BudgetExhausted"
      [] OTHER                        -> "Failed"

\* The statuses terminalize_generation is called with, in order.
FinalStatuses(terminal) ==
    CASE terminal = "Completed" -> <<"Completed">>
      [] terminal = "Cancelled" -> <<"Cancelling", "Cancelled">>
      [] terminal = "TimedOut"  -> <<"TimedOut">>
      [] OTHER                  -> <<"Failed">>

\* terminalize_generation, which changes nothing when it is refused.
Terminalized(s, status) ==
    IF CanTerminalizeGeneration(s, OwnGeneration, status)
    THEN TerminalizeGeneration(s, status)
    ELSE s

\* finish_outcome, from cleanup.begin to the terminal transitions; it returns
\* before the transitions if the cleanup does not complete.
Finish(c, terminal, joinFailed) ==
    LET submitted == IF terminal = "Completed" THEN cause
                     ELSE Submit(cause, OwnGeneration, CauseOf(terminal, joinFailed))
        final == IF submitted.accepted = NoCause THEN terminal
                 ELSE TerminalOfCause(submitted.accepted)
        statuses == FinalStatuses(final)
        first == Terminalized(session, statuses[1])
        begun == BeginCleanup(c)
    IN  /\ stage' = "ended"
        /\ cause' = Freeze(submitted)
        /\ IF CanComplete(begun)
           THEN /\ cleanup' = Complete(begun)
                /\ session' = IF final = "Cancelled" THEN Terminalized(first, "Cancelled")
                                                     ELSE first
                /\ outcome' = final
           ELSE /\ cleanup' = begun
                /\ UNCHANGED <<session, outcome>>

\* terminalize_pre_execution_failure: no cause is submitted, run() returns Err.
FinishPreExecution ==
    /\ stage' = "ended"
    /\ cleanup' = Complete(BeginCleanup(cleanup))
    /\ session' = Terminalized(session, "Failed")
    /\ outcome' = "Failed"
    /\ UNCHANGED cause

-----------------------------------------------------------------------------
(* Before the first role.                                                  *)

\* run(): begin_run, a ledger and a cleanup of the new generation.  The context
\* was measured against the same limit before, so reserve_context succeeds.
Begin ==
    /\ stage = "begin"
    /\ Available(session)
    /\ GenerationLeft(session)
    /\ session' = BeginRun(session)
    /\ stage' = "preparing"
    /\ UNCHANGED <<contract, rejection, cleanup, cause, role, run_token, overtime, outcome, batch>>

EnterValidating ==
    /\ stage = "preparing"
    /\ CanTransition(session, "Validating")
    /\ session' = Transition(session, "Validating")
    /\ stage' = "validating"
    /\ UNCHANGED <<contract, rejection, cleanup, cause, role, run_token, overtime, outcome, batch>>

\* The cancellation check, then the routing profile and its validation.
Validate(routable) ==
    /\ stage = "validating"
    /\ IF run_token \/ ~routable
       THEN /\ IF run_token THEN Finish(cleanup, "Cancelled", FALSE) ELSE FinishPreExecution
       ELSE /\ session' = MarkPolicyValid(session)
            /\ stage' = "routed"
            /\ UNCHANGED <<cleanup, cause, outcome>>
    /\ UNCHANGED <<contract, rejection, role, run_token, overtime, batch>>

EnterRunning ==
    /\ stage = "routed"
    /\ IF run_token
       THEN Finish(cleanup, "Cancelled", FALSE)
       ELSE /\ session' = Transition(session, "Running")
            /\ stage' = "planning"
            /\ UNCHANGED <<cleanup, cause, outcome>>
    /\ UNCHANGED <<contract, rejection, role, run_token, overtime, batch>>

-----------------------------------------------------------------------------
(* The roles.  Each registers a cleanup child and completes it at its end. *)

\* The child that the awaited role registered.
ChildDone == Settle(cleanup, "Child", cleanup.next_handle)

\* A child that is registered and completed without an await between.
ChildPassed ==
    LET c == Register(cleanup, "Child") IN Settle(c, "Child", c.next_handle)

\* Await a role, with its child registered.
Await(s) ==
    /\ stage' = s
    /\ cleanup' = Register(cleanup, "Child")
    /\ UNCHANGED <<session, cause, outcome>>

Proceed(s) ==
    /\ stage' = s
    /\ cleanup' = ChildDone
    /\ UNCHANGED <<session, cause, outcome>>

\* How a role's session ends: state_from_status, or an Err.
RoleEnds == {"Succeeded", "Failed", "Cancelled", "TimedOut", "BudgetExhausted"}

StartPlanner ==
    /\ stage = "planning"
    /\ IF contract.planning
       THEN Await("planner") /\ UNCHANGED role
       ELSE /\ stage' = "executing"
            /\ role' = [role EXCEPT !["Planner"] = "Skipped"]
            /\ UNCHANGED <<session, cleanup, cause, outcome>>
    /\ UNCHANGED <<contract, rejection, run_token, overtime, batch>>

\* Mutant: the planner's child is not completed when it fails.
PlannerEndsKeepingChild(state) ==
    /\ stage = "planner"
    /\ role' = [role EXCEPT !["Planner"] = state]
    /\ IF state = "Succeeded"
       THEN Proceed("executing")
       ELSE Finish(cleanup, IF run_token THEN "Cancelled" ELSE "Failed", FALSE)
    /\ UNCHANGED <<contract, rejection, run_token, overtime, batch>>

PlannerEnds(state) ==
    /\ stage = "planner"
    /\ role' = [role EXCEPT !["Planner"] = state]
    /\ IF state = "Succeeded"
       THEN Proceed("executing")
       ELSE Finish(ChildDone, IF run_token THEN "Cancelled" ELSE "Failed", FALSE)
    /\ UNCHANGED <<contract, rejection, run_token, overtime, batch>>

\* admit_executor_tasks, then the batch's validate(), which refuses tasks that
\* are cancelled already and invalid ones (identifiers, timeouts, budgets, routes).
\* The batch's token is a child of the run's.
StartExecutor(admitted, valid) ==
    /\ stage = "executing"
    /\ IF admitted /\ valid /\ ~run_token
       THEN Await("executor")
       ELSE Finish(ChildPassed, IF admitted THEN "Failed" ELSE "BudgetExhausted", FALSE)
    /\ UNCHANGED <<contract, rejection, role, run_token, overtime, batch>>

\* The loop of the batch, its tasks and its timer.
RunBatch ==
    /\ stage = "executor"
    /\ BatchStep
    /\ UNCHANGED run

\* role_from_batch
ExecutorState ==
    IF BatchStatus = "Completed" THEN "Succeeded"
    ELSE IF budget_exhausted THEN "BudgetExhausted"
    ELSE IF BatchStatus = "Cancelled" THEN "Cancelled"
    ELSE "Failed"

ExecutorFailed == \E t \in Tasks : slot[t] \in {"Failed", "BudgetExhausted"}

\* task.error = JoinFailure
ExecutorJoinFailed == \E t \in Tasks : slot[t] = "Failed" /\ answer[t] \in JoinErrors

ExecutorEnds ==
    /\ stage = "executor"
    /\ phase = "done"
    /\ role' = [role EXCEPT !["Executor"] = ExecutorState]
    /\ IF run_token
       THEN Finish(ChildDone, "Cancelled", FALSE)
       ELSE Proceed("verifying")
    /\ UNCHANGED <<contract, rejection, run_token, overtime, batch>>

\* The verifier is awaited, or its result is given by the request.
StartVerifier ==
    /\ stage = "verifying"
    /\ IF contract.verification = "provider"
       THEN Await("verifier") /\ UNCHANGED <<role, rejection>>
       ELSE /\ rejection' = (contract.verification = "rejected")
            /\ stage' = IF contract.verification = "rejected" THEN "repairing" ELSE "closing"
            /\ role' = [role EXCEPT !["Verifier"] = "Skipped"]
            /\ cleanup' = ChildPassed
            /\ UNCHANGED <<session, cause, outcome>>
    /\ UNCHANGED <<contract, run_token, overtime, batch>>

\* Mutant: a rejection by the provider is noted and not repaired.
VerifierEndsUnrepaired(state, verdict) ==
    /\ stage = "verifier"
    /\ verdict \in {"ACCEPT", "REJECT"} => state = "Succeeded"
    /\ role' = [role EXCEPT !["Verifier"] = state]
    /\ rejection' = (verdict = "REJECT")
    /\ IF verdict \in {"ACCEPT", "REJECT"} THEN Proceed("closing")
       ELSE Finish(ChildDone, IF run_token THEN "Cancelled" ELSE "Failed", FALSE)
    /\ UNCHANGED <<contract, run_token, overtime, batch>>

\* The verifier's verdict; an answer that is neither leaves its session's state.
VerifierEnds(state, verdict) ==
    /\ stage = "verifier"
    /\ verdict \in {"ACCEPT", "REJECT"} => state = "Succeeded"
    /\ role' = [role EXCEPT !["Verifier"] = state]
    /\ rejection' = (verdict = "REJECT")
    /\ CASE verdict = "ACCEPT" -> Proceed("closing")
         [] verdict = "REJECT" -> Proceed("repairing")
         [] OTHER -> Finish(ChildDone, IF run_token THEN "Cancelled" ELSE "Failed", FALSE)
    /\ UNCHANGED <<contract, run_token, overtime, batch>>

\* What run_repair finds before the first attempt: all in order, no route or no
\* valid policy (Failed), or a policy without a budget.
Preparations == {"ready", "Failed", "BudgetExhausted"}

\* A rejected result is repaired, if the policy has the role, the ledger admits
\* the attempt and run_repair is ready.
StartRepair(admitted, prepared) ==
    /\ stage = "repairing"
    /\ IF contract.repair /\ admitted /\ prepared = "ready"
       THEN Await("attempt") /\ UNCHANGED role
       ELSE /\ role' = [role EXCEPT !["Repair"] =
                           IF ~contract.repair THEN "Skipped"
                           ELSE IF admitted THEN prepared ELSE @]
            /\ Finish(IF contract.repair THEN ChildPassed ELSE cleanup,
                      IF ~contract.repair THEN "Failed"
                      ELSE IF admitted THEN prepared ELSE "BudgetExhausted",
                      FALSE)
    /\ UNCHANGED <<contract, rejection, run_token, overtime, batch>>

\* role_from_repair: the run takes the state of the repair.
RepairOver(state) ==
    /\ role' = [role EXCEPT !["Repair"] = state]
    /\ IF state = "Succeeded" THEN Proceed("closing") ELSE Finish(ChildDone, state, FALSE)

\* The first attempt has the original instruction, and its success is the
\* repair's.  After any other end the token, then the route, are looked at; the
\* repair's own budget is new and has room for one attempt.
InitialAttemptEnds(state, routed) ==
    /\ stage = "attempt"
    /\ IF state # "Succeeded" /\ ~run_token /\ routed
       THEN stage' = "repair" /\ UNCHANGED <<session, cleanup, cause, role, outcome>>
       ELSE RepairOver(IF state = "Succeeded" THEN "Succeeded"
                       ELSE IF run_token THEN "Cancelled" ELSE "Failed")
    /\ UNCHANGED <<contract, rejection, run_token, overtime, batch>>

\* The second attempt, which is told what was wrong.
RepairAttemptEnds(state) ==
    /\ stage = "repair"
    /\ RepairOver(state)
    /\ UNCHANGED <<contract, rejection, run_token, overtime, batch>>

\* total_repair_timeout: the attempt's token is cancelled and it is awaited.
RepairTimeout ==
    /\ stage = "repair"
    /\ stage' = "overdue"
    /\ UNCHANGED <<contract, rejection, session, cleanup, cause, role, run_token, overtime,
                   outcome, batch>>

\* However it ends, it has timed out.
OverdueRepairEnds ==
    /\ stage = "overdue"
    /\ RepairOver("TimedOut")
    /\ UNCHANGED <<contract, rejection, run_token, overtime, batch>>

\* The last cancellation check and the terminal of a run that went through.
Close ==
    /\ stage = "closing"
    /\ role' = [role EXCEPT !["Repair"] = IF @ = "Pending" THEN "Skipped" ELSE @]
    /\ Finish(cleanup,
              IF run_token THEN "Cancelled"
              ELSE IF ExecutorFailed THEN "Failed" ELSE "Completed",
              ExecutorJoinFailed)
    /\ UNCHANGED <<contract, rejection, run_token, overtime, batch>>

-----------------------------------------------------------------------------
(* What comes from outside.                                                *)

\* Cancelling the run's token cancels the batch's with it.
CancelTokens ==
    /\ run_token' = TRUE
    /\ token' = (token \/ stage = "executor")
    /\ UNCHANGED <<request, slot, answer, next, reserved, phase, stopped, timed_out,
                   budget_exhausted>>

UserCancels ==
    /\ stage # "ended"
    /\ ~run_token
    /\ CancelTokens
    /\ UNCHANGED <<contract, rejection, session, cleanup, cause, stage, role, overtime, outcome>>

\* Mutant: the timeout cancels and leaves no cause.
TotalTimeoutWithoutCause ==
    /\ stage \in Awaits
    /\ ~overtime
    /\ overtime' = TRUE
    /\ CancelTokens
    /\ UNCHANGED <<contract, rejection, session, cleanup, cause, stage, role, outcome>>

\* Mutant: the timeout is a cause and cancels nothing.
TotalTimeoutWithoutCancel ==
    /\ stage \in Awaits
    /\ ~overtime
    /\ overtime' = TRUE
    /\ cause' = Submit(cause, OwnGeneration, "TotalTimedOut")
    /\ UNCHANGED <<contract, rejection, session, cleanup, stage, role, run_token,
                   outcome, batch>>

\* The timeout around run_inner: the cause is submitted, the token cancelled
\* and the run awaited.
TotalTimeout ==
    /\ stage \in Awaits
    /\ ~overtime
    /\ overtime' = TRUE
    /\ cause' = Submit(cause, OwnGeneration, "TotalTimedOut")
    /\ CancelTokens
    /\ UNCHANGED <<contract, rejection, session, cleanup, stage, role, outcome>>

RoleStep ==
    \/ \E state \in RoleEnds : PlannerEnds(state)
    \/ \E state \in RoleEnds, verdict \in {"ACCEPT", "REJECT", "other"} :
          VerifierEnds(state, verdict)
    \/ \E state \in RoleEnds, routed \in BOOLEAN : InitialAttemptEnds(state, routed)
    \/ \E state \in RoleEnds : RepairAttemptEnds(state)
    \/ OverdueRepairEnds

CoordinatorStep ==
    \/ Begin
    \/ EnterValidating
    \/ \E routable \in BOOLEAN : Validate(routable)
    \/ EnterRunning
    \/ StartPlanner
    \/ \E admitted, valid \in BOOLEAN : StartExecutor(admitted, valid)
    \/ ExecutorEnds
    \/ StartVerifier
    \/ \E admitted \in BOOLEAN, prepared \in Preparations : StartRepair(admitted, prepared)
    \/ Close

Next ==
    CoordinatorStep \/ RoleStep \/ RunBatch \/ RepairTimeout \/ UserCancels \/ TotalTimeout

\* Tasks are polled and timers fire; a role is only relied upon to end once
\* its token is cancelled (SubagentSession!SessionsReturn).
Fairness ==
    /\ WF_vars(CoordinatorStep)
    /\ WF_vars(TotalTimeout)
    /\ WF_vars(run_token /\ RoleStep)
    /\ WF_vars(stage = "executor" /\ LoopStep /\ UNCHANGED run)
    /\ \A t \in Tasks : WF_vars(stage = "executor" /\ token /\ TaskStep(t) /\ UNCHANGED run)

Spec == Init /\ [][Next]_vars

FairSpec == Spec /\ Fairness

-----------------------------------------------------------------------------
RunTypeOK ==
    /\ contract \in Contract
    /\ session \in SessionExecutionInner
    /\ cleanup \in CleanupRecord
    /\ cause \in CauseState
    /\ stage \in Stages
    /\ role \in [LiveRoles -> LiveRoleState]
    /\ rejection \in BOOLEAN
    /\ run_token \in BOOLEAN
    /\ overtime \in BOOLEAN
    /\ outcome \in LiveOrchestrationTerminal \cup {"none"}

\* The type invariant of the run, its records and its batch.
TypeOK == BatchTypeOK /\ RunTypeOK

\* Whichever way the run ends, finish_outcome completes the cleanup, and the
\* session reaches the status that the outcome reports and is held no more.
SessionMatchesOutcome ==
    stage = "ended" =>
        /\ cleanup.cleanup_complete
        /\ session.active_generation = NoGeneration
        /\ session.status = IF outcome = "BudgetExhausted" THEN "Failed" ELSE outcome

\* A completed run passed every gate: its planner succeeded unless none was
\* asked for, no task failed or ran out of budget, a verifier that was asked
\* answered, a result that it or the request rejected was repaired, and nobody
\* cancelled the run, not even during its last stage.
CompletedRunPassedGates ==
    outcome = "Completed" =>
        /\ role["Planner"] = IF contract.planning THEN "Succeeded" ELSE "Skipped"
        /\ ~ExecutorFailed
        /\ contract.verification = "provider" => role["Verifier"] = "Succeeded"
        /\ rejection \/ contract.verification = "rejected" => role["Repair"] = "Succeeded"
        /\ ~run_token

\* Once the total timeout has passed the run is reported as timed out: not as
\* the cancellation or the stage failure that the timeout itself causes.
TimeoutIsReported == overtime => outcome \in {"none", "TimedOut"}

\* The run ends, by its total timeout at the latest, even if no role ends
\* unless it is cancelled.
RunEnds == []<>(stage = "ended")

\* "Partial completion is typed and must not be reported as complete."
CompletedRunIsWhole ==
    outcome = "Completed" => \A t \in Tasks : slot[t] = "Completed"
=============================================================================
