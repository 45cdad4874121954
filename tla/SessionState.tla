---------------------------- MODULE SessionState ----------------------------
(***************************************************************************)
(* The record SessionExecutionInner of session_execution.rs, which every   *)
(* method of SessionExecutionPolicyState reads and writes under one mutex. *)
(* A method is an operator on the record: Can<Method> is the condition     *)
(* under which it returns Ok, and <Method> is the record it leaves behind. *)
(* A method that returns Err changes nothing.                              *)
(*                                                                         *)
(* A resolved policy is the pair of the strategy and the mode it was       *)
(* resolved from; active_generation None is NoGeneration.                  *)
(***************************************************************************)
EXTENDS Integers

CONSTANTS
    Strategies,     \* OrchestrationMode
    Modes,          \* ExecutionModeSelection
    Profiles,       \* RoutingProfileId
    NoProfile,      \* routing_profile_id = None
    Resolvable,     \* the <<strategy, mode>> pairs the policy resolver accepts
    MaxGeneration   \* u64::MAX in the code, the last generation

ASSUME SessionAssumption ==
    /\ Resolvable \subseteq Strategies \X Modes
    /\ Resolvable # {}
    /\ NoProfile \notin Profiles
    /\ MaxGeneration \in Nat

NoGeneration == 0

ActiveStatuses == {"Preparing", "Validating", "Running", "Cancelling"}

TerminalStatuses == {"Completed", "Failed", "Cancelled", "TimedOut"}

SessionExecutionStatus == {"Idle"} \cup ActiveStatuses \cup TerminalStatuses

SessionExecutionInner ==
    [ strategy : Strategies,
      selected_mode : Modes,
      resolved_policy : Resolvable,
      routing_profile_id : Profiles \cup {NoProfile},
      validation : {"Unresolved", "Valid", "Invalid"},
      status : SessionExecutionStatus,
      next_generation : 0..MaxGeneration,
      active_generation : 0..MaxGeneration,
      routing_update_in_progress : BOOLEAN ]

\* with_strategy_selection: the selection must resolve.
NewSession(strategy, mode) ==
    [ strategy |-> strategy,
      selected_mode |-> mode,
      resolved_policy |-> <<strategy, mode>>,
      routing_profile_id |-> NoProfile,
      validation |-> "Unresolved",
      status |-> "Idle",
      next_generation |-> 0,
      active_generation |-> NoGeneration,
      routing_update_in_progress |-> FALSE ]

-----------------------------------------------------------------------------
(* Selection: only an idle session that nobody is re-routing may change.   *)

EnsureIdle(s) == s.status = "Idle" /\ ~s.routing_update_in_progress

CanSelectMode(s, mode) == EnsureIdle(s) /\ <<s.strategy, mode>> \in Resolvable

SelectMode(s, mode) ==
    [s EXCEPT !.selected_mode = mode,
              !.resolved_policy = <<s.strategy, mode>>,
              !.validation = "Unresolved"]

CanSelectStrategy(s, strategy) ==
    EnsureIdle(s) /\ <<strategy, s.selected_mode>> \in Resolvable

SelectStrategy(s, strategy) ==
    [s EXCEPT !.strategy = strategy,
              !.resolved_policy = <<strategy, s.selected_mode>>,
              !.validation = "Unresolved"]

CanSelectRoutingProfile(s) == EnsureIdle(s)

SelectRoutingProfile(s, profile) ==
    [s EXCEPT !.routing_profile_id = profile, !.validation = "Unresolved"]

-----------------------------------------------------------------------------
(* The routing-update reservation and its guard's Drop.                    *)

CanBeginRoutingUpdate(s) == s.status = "Idle" /\ ~s.routing_update_in_progress

BeginRoutingUpdate(s) == [s EXCEPT !.routing_update_in_progress = TRUE]

DropRoutingUpdateGuard(s) == [s EXCEPT !.routing_update_in_progress = FALSE]

-----------------------------------------------------------------------------
(* The live-run lifecycle.                                                 *)

ValidTransition(from, to) ==
    <<from, to>> \in
        { <<"Idle", "Preparing">>,
          <<"Preparing", "Validating">>,
          <<"Validating", "Running">>,
          <<"Validating", "Failed">>,
          <<"Validating", "Cancelling">>,
          <<"Running", "Completed">>,
          <<"Running", "Failed">>,
          <<"Running", "Cancelling">>,
          <<"Running", "TimedOut">>,
          <<"Cancelling", "Cancelled">> }

CanTransition(s, next) == ValidTransition(s.status, next)

Transition(s, next) == [s EXCEPT !.status = next]

\* Mutant: begin_run does not look at the routing update.
AvailableDuringUpdate(s) == s.status = "Idle"

\* Mutant: begin_run only looks at the routing update.
AvailableIgnoringStatus(s) == ~s.routing_update_in_progress

\* RunAlreadyActive is returned when this is false.
Available(s) == s.status = "Idle" /\ ~s.routing_update_in_progress

\* checked_add: StaleRunGeneration is returned when this is false.
GenerationLeft(s) == s.next_generation < MaxGeneration

BeginRun(s) ==
    [s EXCEPT !.next_generation = s.next_generation + 1,
              !.active_generation = s.next_generation + 1,
              !.status = "Preparing"]

\* Mutant: a stale generation may still terminalize.
CanTerminalizeAnyGeneration(s, generation, next) == ValidTransition(s.status, next)

CanTerminalizeGeneration(s, generation, next) ==
    /\ s.active_generation = generation
    /\ ValidTransition(s.status, next)

\* Mutant: a terminal status keeps the active generation.
TerminalizeKeepingGeneration(s, next) == [s EXCEPT !.status = next]

TerminalizeGeneration(s, next) ==
    [s EXCEPT !.status = next,
              !.active_generation =
                  IF next \in TerminalStatuses THEN NoGeneration
                                               ELSE s.active_generation]

MarkPolicyValid(s) == [s EXCEPT !.validation = "Valid"]

MarkPolicyInvalid(s) == [s EXCEPT !.validation = "Invalid"]

CanMarkTimedOutAfterCleanup(s, generation) ==
    /\ \/ s.active_generation = generation
       \/ /\ s.active_generation = NoGeneration
          /\ s.next_generation = generation
          /\ s.status = "Cancelled"
    /\ s.status \in {"Running", "Cancelled"}

MarkTimedOutAfterCleanup(s) ==
    [s EXCEPT !.status = "TimedOut", !.active_generation = NoGeneration]

\* Mutant: reset_to_idle does not look at the status.
CanResetToIdleWhileActive(s) == TRUE

\* An idle session is left as it is: Ok, or ResetWhileCleanupPending.
CanResetToIdle(s) == s.status \in TerminalStatuses

ResetToIdle(s) ==
    [s EXCEPT !.status = "Idle",
              !.validation = "Unresolved",
              !.active_generation = NoGeneration]
=============================================================================
