-------------------------- MODULE SessionExecution --------------------------
(***************************************************************************)
(* One live session shared by everything that holds a clone of             *)
(* SessionExecutionPolicyState: coordinator runs, the UI that selects      *)
(* modes, strategies and profiles, and the holders of routing-update       *)
(* guards.  Each method call is one critical section, so one action;       *)
(* anything may happen between two calls of the same run.                  *)
(*                                                                         *)
(* pc[r] follows LiveOrchestrationCoordinator::run and run_inner from one  *)
(* session call to the next.  A run is "abandoned" when it ends without    *)
(* reaching a terminalize call: reserve_context fails right after          *)
(* begin_run, cleanup.complete fails in finish_outcome, or the lifecycle   *)
(* owner aborts the coordinator task at one of its awaits.                 *)
(***************************************************************************)
EXTENDS SessionState

CONSTANTS
    Runs,       \* coordinator runs, one per turn
    Updaters,   \* callers that re-route the session
    HostResets  \* whether some caller invokes reset_to_idle between turns

ASSUME HostResetsAssumption == HostResets \in BOOLEAN

VARIABLES
    session,    \* the record under the mutex
    pc,         \* where each run is
    generation, \* the generation begin_run gave each run
    guards      \* the updaters that hold a SessionRoutingUpdateGuard

vars == <<session, pc, generation, guards>>

LivePcs == {"preparing", "validating", "valid", "running", "cancelling"}

Pcs == LivePcs \cup {"new", "refused", "exhausted", "done", "abandoned"}

\* The session status a live run expects to find.
StatusAt ==
    [ preparing  |-> "Preparing",
      validating |-> "Validating",
      valid      |-> "Validating",
      running    |-> "Running",
      cancelling |-> "Cancelling" ]

Init ==
    /\ \E p \in Resolvable : session = NewSession(p[1], p[2])
    /\ pc = [r \in Runs |-> "new"]
    /\ generation = [r \in Runs |-> NoGeneration]
    /\ guards = {}

Goto(r, p) == pc' = [pc EXCEPT ![r] = p]

-----------------------------------------------------------------------------
(* The coordinator's calls.                                                *)

Begin(r) ==
    /\ pc[r] = "new"
    /\ Available(session)
    /\ GenerationLeft(session)
    /\ session' = BeginRun(session)
    /\ generation' = [generation EXCEPT ![r] = session'.active_generation]
    /\ Goto(r, "preparing")
    /\ UNCHANGED guards

\* begin_run returns RunAlreadyActive and run() returns SessionAlreadyRunning.
Refuse(r) ==
    /\ pc[r] = "new"
    /\ ~Available(session)
    /\ Goto(r, "refused")
    /\ UNCHANGED <<session, generation, guards>>

\* begin_run returns StaleRunGeneration.
Exhaust(r) ==
    /\ pc[r] = "new"
    /\ Available(session)
    /\ ~GenerationLeft(session)
    /\ Goto(r, "exhausted")
    /\ UNCHANGED <<session, generation, guards>>

EnterValidating(r) ==
    /\ pc[r] = "preparing"
    /\ CanTransition(session, "Validating")
    /\ session' = Transition(session, "Validating")
    /\ Goto(r, "validating")
    /\ UNCHANGED <<generation, guards>>

\* validate_routing rejected the profile.
PreExecutionFailure(r) ==
    /\ pc[r] = "validating"
    /\ CanTerminalizeGeneration(session, generation[r], "Failed")
    /\ session' = TerminalizeGeneration(session, "Failed")
    /\ Goto(r, "done")
    /\ UNCHANGED <<generation, guards>>

MarkValid(r) ==
    /\ pc[r] = "validating"
    /\ session' = MarkPolicyValid(session)
    /\ Goto(r, "valid")
    /\ UNCHANGED <<generation, guards>>

\* mark_policy_invalid: part of the interface, called by tests only.
MarkInvalid(r) ==
    /\ pc[r] = "validating"
    /\ session' = MarkPolicyInvalid(session)
    /\ UNCHANGED <<pc, generation, guards>>

EnterRunning(r) ==
    /\ pc[r] = "valid"
    /\ CanTransition(session, "Running")
    /\ session' = Transition(session, "Running")
    /\ Goto(r, "running")
    /\ UNCHANGED <<generation, guards>>

\* finish_outcome for a run that was not cancelled.
Finish(r, status) ==
    /\ pc[r] = "running"
    /\ status \in {"Completed", "Failed", "TimedOut"}
    /\ CanTerminalizeGeneration(session, generation[r], status)
    /\ session' = TerminalizeGeneration(session, status)
    /\ Goto(r, "done")
    /\ UNCHANGED <<generation, guards>>

\* finish_outcome for a cancelled run makes two calls.
StartCancelling(r) ==
    /\ pc[r] \in {"validating", "valid", "running"}
    /\ CanTerminalizeGeneration(session, generation[r], "Cancelling")
    /\ session' = TerminalizeGeneration(session, "Cancelling")
    /\ Goto(r, "cancelling")
    /\ UNCHANGED <<generation, guards>>

FinishCancelling(r) ==
    /\ pc[r] = "cancelling"
    /\ CanTerminalizeGeneration(session, generation[r], "Cancelled")
    /\ session' = TerminalizeGeneration(session, "Cancelled")
    /\ Goto(r, "done")
    /\ UNCHANGED <<generation, guards>>

Abandon(r) ==
    /\ pc[r] \in {"preparing", "running"}
    /\ Goto(r, "abandoned")
    /\ UNCHANGED <<session, generation, guards>>

\* A timeout noticed once the run has returned.
LateTimeout(r) ==
    /\ pc[r] = "done"
    /\ CanMarkTimedOutAfterCleanup(session, generation[r])
    /\ session' = MarkTimedOutAfterCleanup(session)
    /\ UNCHANGED <<pc, generation, guards>>

-----------------------------------------------------------------------------
(* Everyone else.                                                          *)

ChooseMode(mode) ==
    /\ CanSelectMode(session, mode)
    /\ session' = SelectMode(session, mode)
    /\ UNCHANGED <<pc, generation, guards>>

ChooseStrategy(strategy) ==
    /\ CanSelectStrategy(session, strategy)
    /\ session' = SelectStrategy(session, strategy)
    /\ UNCHANGED <<pc, generation, guards>>

ChooseRoutingProfile(profile) ==
    /\ CanSelectRoutingProfile(session)
    /\ session' = SelectRoutingProfile(session, profile)
    /\ UNCHANGED <<pc, generation, guards>>

TakeRoutingGuard(u) ==
    /\ u \notin guards
    /\ CanBeginRoutingUpdate(session)
    /\ session' = BeginRoutingUpdate(session)
    /\ guards' = guards \cup {u}
    /\ UNCHANGED <<pc, generation>>

DropRoutingGuard(u) ==
    /\ u \in guards
    /\ session' = DropRoutingUpdateGuard(session)
    /\ guards' = guards \ {u}
    /\ UNCHANGED <<pc, generation>>

Reset ==
    /\ HostResets
    /\ CanResetToIdle(session)
    /\ session' = ResetToIdle(session)
    /\ UNCHANGED <<pc, generation, guards>>

-----------------------------------------------------------------------------
RunStep(r) ==
    \/ Begin(r)
    \/ Refuse(r)
    \/ Exhaust(r)
    \/ EnterValidating(r)
    \/ PreExecutionFailure(r)
    \/ MarkValid(r)
    \/ EnterRunning(r)
    \/ \E status \in TerminalStatuses : Finish(r, status)
    \/ StartCancelling(r)
    \/ FinishCancelling(r)
    \/ Abandon(r)

Next ==
    \/ \E r \in Runs : RunStep(r) \/ MarkInvalid(r) \/ LateTimeout(r)
    \/ \E mode \in Modes : ChooseMode(mode)
    \/ \E strategy \in Strategies : ChooseStrategy(strategy)
    \/ \E profile \in Profiles : ChooseRoutingProfile(profile)
    \/ \E u \in Updaters : TakeRoutingGuard(u) \/ DropRoutingGuard(u)
    \/ Reset

Spec == Init /\ [][Next]_vars

-----------------------------------------------------------------------------
\* The session record is well typed and no generation is beyond the bound.
TypeOK ==
    /\ session \in SessionExecutionInner
    /\ pc \in [Runs -> Pcs]
    /\ generation \in [Runs -> 0..MaxGeneration]
    /\ guards \in SUBSET Updaters

Holders == {r \in Runs : pc[r] \in LivePcs \cup {"abandoned"}}

\* A live run owns the session: the active generation is its own and the
\* status is the one its own last call left, whatever the others did since
\* (transition() itself does not check the generation).
LiveRunOwnsSession ==
    \A r \in Runs : pc[r] \in LivePcs =>
        /\ session.active_generation = generation[r]
        /\ session.status = StatusAt[pc[r]]

\* Two runs never hold the session together, and the session is active exactly
\* when somebody holds it: begin_run and terminalize_generation balance.
ActiveIffHeld ==
    /\ \A r, q \in Holders : r = q
    /\ session.status \in ActiveStatuses <=> Holders # {}
    /\ session.active_generation # NoGeneration <=> Holders # {}

\* A generation number identifies one run for the life of the session.
GenerationsUnique ==
    \A r, q \in Runs :
        (generation[r] # NoGeneration /\ generation[r] = generation[q]) => r = q

\* A run that has ended cannot move the session any more: whatever status it
\* asks for, terminalize_generation answers StaleRunGeneration.
EndedRunsAreStale ==
    \A r \in Runs : pc[r] = "done" =>
        \A status \in SessionExecutionStatus :
            ~CanTerminalizeGeneration(session, generation[r], status)

\* A held SessionRoutingUpdateGuard keeps the session idle, and it is the only
\* one; the flag is up exactly while it is held (the doc comment of the guard,
\* session_execution.rs:62).
RoutingUpdateExcludesRuns ==
    /\ guards # {} => session.status = "Idle"
    /\ session.routing_update_in_progress <=> guards # {}
    /\ \A u, v \in guards : u = v

\* A run executes only under a policy that was validated after the last
\* selection: nothing between mark_policy_valid and the end of the run
\* invalidates it.
RunningIsValidated ==
    session.status = "Running" => session.validation = "Valid"

Selection ==
    <<session.strategy, session.selected_mode, session.resolved_policy,
      session.routing_profile_id>>

\* "execution policy cannot change during a live run", nor can the profile, and
\* neither can change under the guard of a routing update (ensure_idle).
SelectionFrozenWhileHeld ==
    [][Holders # {} \/ guards # {} => Selection' = Selection]_vars

\* RunAlreadyActive is displayed as "session already has a live run"
\* (session_execution.rs:90): a refused turn met a run or a routing update.
RefusalMeansBusy ==
    [][\A r \in Runs :
          pc[r] = "new" /\ pc'[r] = "refused" =>
              Holders # {} \/ guards # {}]_vars

\* The abstract view: the owner is the active generation.
Occupancy ==
    INSTANCE RunOccupancy WITH owner <- session.active_generation,
                               last <- session.next_generation

\* The session hands itself to one generation at a time, each generation once.
ImplementsOccupancy == Occupancy!Spec
=============================================================================
