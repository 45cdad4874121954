------------------------- MODULE SessionSetupProofs -------------------------
(***************************************************************************)
(* The client around the session, for every number of runs and events and  *)
(* every set of strategies, modes and profiles.  First, whatever the       *)
(* handlers do, the session sees only calls it expects from a client, so   *)
(* the theorems of SessionExecutionProofs hold with this client.  Then the *)
(* properties of the re-routing transaction, from an invariant that says   *)
(* what is true at each step of a handler.                                 *)
(***************************************************************************)
EXTENDS SessionSetup, SessionExecutionProofs

\* The steps of a handler that holds the routing guard.
UpdateSteps ==
    {"save_profile", "install", "publish", "restore_runtime", "restore_profile", "release"}

\* The steps between the change of the runtime at one end and at the other, or back.
InstallSteps ==
    {"refresh_install", "undo_strategy", "undo_mode", "undo_refresh", "undo_install",
     "publish", "restore_runtime"}

\* The steps after the failure of an update.
FailureSteps ==
    {"restore_runtime", "restore_profile", "release", "restore_default",
     "undo_strategy", "undo_mode", "undo_refresh", "undo_install"}

FieldsOK ==
    /\ DOMAIN ui = {"at", "event", "save", "failed", "previous", "target", "runtime",
                    "previous_routes"}
    /\ DOMAIN routes = {"published", "session_override", "saved"}
    /\ DOMAIN server = {"capability", "runtime", "stranded"}

GuardHeld == ui.at \in UpdateSteps => Client \in guards

FailureStep == ui.failed => ui.at \in FailureSteps

\* Nothing but a publication that succeeds changes the published routing.
OldRouting ==
    (ui.at \in UpdateSteps \ {"release"}) \/ (ui.at = "release" /\ ui.failed) =>
        /\ routes.session_override = ui.previous_routes.session_override
        /\ routes.published = ui.previous_routes.published

\* The server has the published runtime, or the prepared one before it is
\* published, or the way back has failed.
ServerInStep ==
    /\ ui.at \notin InstallSteps => server.runtime = routes.published \/ server.stranded
    /\ ui.at = "publish" => server.runtime = ui.runtime

SetupInv ==
    /\ FieldsOK
    /\ GuardHeld
    /\ FailureStep
    /\ OldRouting
    /\ ServerInStep
-----------------------------------------------------------------------------
\* A selection whose error is ignored is a selection or nothing.
LEMMA SelectionIsAStep ==
  ASSUME NEW x, UNCHANGED <<pc, generation, guards>>,
         TrySelectStrategy(x) \/ TrySelectMode(x)
  PROVE  [Next]_vars
  <1>1. ASSUME TrySelectStrategy(x) PROVE [Next]_vars
    <2>1. CASE CanSelectStrategy(session, x)
      <3>1. x \in Strategies
        BY <2>1, SessionAssumption DEF CanSelectStrategy
      <3>2. ChooseStrategy(x)
        BY <1>1, <2>1 DEF ChooseStrategy, TrySelectStrategy
      <3> QED BY <3>1, <3>2 DEF Next
    <2>2. CASE ~CanSelectStrategy(session, x)
      BY <1>1, <2>2 DEF TrySelectStrategy, vars
    <2> QED BY <2>1, <2>2
  <1>2. ASSUME TrySelectMode(x) PROVE [Next]_vars
    <2>1. CASE CanSelectMode(session, x)
      <3>1. x \in Modes
        BY <2>1, SessionAssumption DEF CanSelectMode
      <3>2. ChooseMode(x)
        BY <1>2, <2>1 DEF ChooseMode, TrySelectMode
      <3> QED BY <3>1, <3>2 DEF Next
    <2>2. CASE ~CanSelectMode(session, x)
      BY <1>2, <2>2 DEF TrySelectMode, vars
    <2> QED BY <2>1, <2>2
  <1> QED BY <1>1, <1>2

\* Every step of the client or of a turn is, for the session, a step of
\* SessionExecution or none.
LEMMA SetupStepIsSessionStep == [SetupNext]_setupVars => [Next]_vars
  <1> SUFFICES ASSUME [SetupNext]_setupVars PROVE [Next]_vars
    OBVIOUS
  <1>1. ASSUME AppEvent PROVE [Next]_vars
    <2>1. ASSUME NEW mode \in Modes, UpdateExecutionMode(mode) \/ ModeArgument(mode)
          PROVE  [Next]_vars
      BY <2>1 DEF UpdateExecutionMode, ModeArgument, Next
    <2>2. ASSUME NEW strategy \in Strategies, UpdateOrchestrationStrategy(strategy)
          PROVE  [Next]_vars
      BY <2>2 DEF UpdateOrchestrationStrategy, Next
    <2>3. ASSUME \/ OpenSetup \/ CancelSetup \/ ClearSessionRoutingOverride
                 \/ SaveOrchestrationProfile
                 \/ \E selection \in Selections, profile \in Profiles :
                        EditSetup(selection, profile)
                 \/ \E save \in BOOLEAN : ApplySetup(save)
          PROVE  UNCHANGED vars
      BY <2>3 DEF OpenSetup, CancelSetup, ClearSessionRoutingOverride,
         SaveOrchestrationProfile, EditSetup, ApplySetup, OnlyUi, vars
    <2> QED BY <1>1, <2>1, <2>2, <2>3 DEF AppEvent
  <1>2. ASSUME HandlerStep PROVE [Next]_vars
    <2>1. ASSUME \/ UndoStrategy \/ UndoMode \/ AssessStrategy \/ AssessMode
                 \/ ApplyStrategy \/ ApplyMode
          PROVE  [Next]_vars
      <3>1. UNCHANGED <<pc, generation, guards>>
        BY <2>1 DEF UndoStrategy, UndoMode, AssessStrategy, AssessMode, ApplyStrategy,
           ApplyMode, OnlySelection
      <3>2. \/ UNCHANGED session
            \/ \E x : TrySelectStrategy(x) \/ TrySelectMode(x)
        BY <2>1, Zenon DEF UndoStrategy, UndoMode, AssessStrategy, AssessMode, ApplyStrategy,
           ApplyMode
      <3> QED BY <3>1, <3>2, SelectionIsAStep DEF vars
    <2>2. ASSUME Prepare \/ ReleaseGuard PROVE [Next]_vars
      BY <2>2, SetupAssumption DEF Prepare, ReleaseGuard, Next
    <2>3. ASSUME \/ RefreshRuntime \/ RefreshInstall \/ SaveDefault \/ SaveRoutingProfile
                 \/ InstallRuntime \/ Publish \/ RestoreRuntime \/ RestoreProfile
                 \/ RestoreDefault
          PROVE  UNCHANGED vars
      BY <2>3 DEF RefreshRuntime, RefreshInstall, SaveDefault, SaveRoutingProfile,
         InstallRuntime, Publish, RestoreRuntime, RestoreProfile, RestoreDefault
    <2> QED BY <1>2, <2>1, <2>2, <2>3 DEF HandlerStep
  <1>3. ASSUME NEW r \in Runs, AdmitTurn(r) \/ PrepareTurn(r) \/ RunTurn(r)
        PROVE  [Next]_vars
    BY <1>3 DEF AdmitTurn, PrepareTurn, RunTurn, Next
  <1>4. ASSUME HearOfTurns \/ HostReset PROVE [Next]_vars
    BY <1>4 DEF HearOfTurns, HostReset, Next
  <1>5. ASSUME UNCHANGED setupVars PROVE [Next]_vars
    BY <1>5 DEF setupVars
  <1> QED BY <1>1, <1>2, <1>3, <1>4, <1>5 DEF SetupNext

\* The client of syndrid_composition.rs and event_dispatch.rs uses the session as
\* SessionExecution allows, so every theorem about the session holds with it:
\* also LiveRunOwnsSession, EndedRunsAreStale and ImplementsOccupancy.
THEOREM ClientUsesSession == SetupSpec => Spec
  <1>1. SetupInit => Init
    BY DEF SetupInit
  <1> QED BY <1>1, SetupStepIsSessionStep, PTL DEF SetupSpec, Spec

-----------------------------------------------------------------------------
\* No handler runs, and server and app agree.
LEMMA InitSetupInv == SetupInit => SetupInv
  BY DEF SetupInit, SetupInv, FieldsOK, GuardHeld, FailureStep, OldRouting, ServerInStep,
     IdleUi, Authorization, UpdateSteps, InstallSteps, FailureSteps

\* What the client's invariant depends on.
LEMMA SetupInvFrame ==
  ASSUME SetupInv, UNCHANGED <<ui, routes, server, guards>>
  PROVE  SetupInv'
  BY DEF SetupInv, FieldsOK, GuardHeld, FailureStep, OldRouting, ServerInStep

\* The event loop's events start a handler or leave its state alone.
LEMMA EventSetupInv ==
  ASSUME SetupInv, AppEvent
  PROVE  SetupInv'
  <1> USE DEF NextEvent, At
  <1>1. ASSUME \/ \E mode \in Modes : ModeArgument(mode)
               \/ CancelSetup \/ SaveOrchestrationProfile
        PROVE  SetupInv'
    <2>1. UNCHANGED <<ui, routes, server, guards>>
      BY <1>1 DEF ModeArgument, ChooseMode, CancelSetup, SaveOrchestrationProfile, vars
    <2> QED BY <2>1, SetupInvFrame
  <1>2. ASSUME \/ \E mode \in Modes : UpdateExecutionMode(mode)
               \/ \E strategy \in Strategies : UpdateOrchestrationStrategy(strategy)
               \/ OpenSetup \/ ClearSessionRoutingOverride
               \/ \E selection \in Selections, profile \in Profiles :
                      EditSetup(selection, profile)
               \/ \E save \in BOOLEAN : ApplySetup(save)
        PROVE  SetupInv'
    <2>1. UNCHANGED <<routes, server, guards>>
      BY <1>2 DEF UpdateExecutionMode, ChooseMode, UpdateOrchestrationStrategy,
         ChooseStrategy, OpenSetup, ClearSessionRoutingOverride, EditSetup, ApplySetup,
         OnlyUi, vars
    <2>2. /\ ui'.at \in {"refresh", "assess_strategy", "prepare"}
          /\ ui'.failed = ui.failed
          /\ DOMAIN ui' = DOMAIN ui
      BY <1>2 DEF SetupInv, FieldsOK, UpdateExecutionMode, UpdateOrchestrationStrategy,
         StartSelecting, OpenSetup, ClearSessionRoutingOverride, EditSetup, ApplySetup,
         Assess
    <2>3. ui.at = "idle"
      BY <1>2 DEF UpdateExecutionMode, UpdateOrchestrationStrategy, OpenSetup,
         ClearSessionRoutingOverride, EditSetup, ApplySetup
    <2> QED
      BY <2>1, <2>2, <2>3 DEF SetupInv, FieldsOK, GuardHeld, FailureStep, OldRouting,
         ServerInStep, UpdateSteps, InstallSteps, FailureSteps
  <1> QED BY <1>1, <1>2 DEF AppEvent

\* The steps of a handler outside the re-routing transaction.
LEMMA SelectingSetupInv ==
  ASSUME SetupInv,
         \/ RefreshRuntime \/ RefreshInstall \/ UndoStrategy \/ UndoMode
         \/ AssessStrategy \/ AssessMode \/ ApplyStrategy \/ ApplyMode
         \/ SaveDefault \/ RestoreDefault
  PROVE  SetupInv'
  <1> USE DEF SetupInv, FieldsOK, GuardHeld, FailureStep, OldRouting, ServerInStep,
              UpdateSteps, InstallSteps, FailureSteps, At, Go, Done, IdleUi
  <1>1. ASSUME RefreshRuntime PROVE SetupInv'
    BY <1>1 DEF RefreshRuntime, Strand, vars
  <1>2. ASSUME RefreshInstall PROVE SetupInv'
    <2>1. /\ ui.at \in {"refresh_install", "undo_install"}
          /\ UNCHANGED <<routes, guards>>
      BY <1>2 DEF RefreshInstall, vars
    <2>2. CASE InstallOk(routes.published) /\ Done
      BY <2>1, <2>2 DEF InstallOk, Authorization
    <2>3. CASE InstallErr /\ Go("undo_strategy")
      BY <2>1, <2>3 DEF InstallErr
    <2>4. CASE Strand /\ Done
      BY <2>1, <2>4 DEF Strand
    <2> QED BY <1>2, <2>2, <2>3, <2>4, Zenon DEF RefreshInstall
  <1>3. ASSUME UndoStrategy \/ UndoMode PROVE SetupInv'
    BY <1>3 DEF UndoStrategy, UndoMode, OnlySelection
  <1>4. ASSUME AssessStrategy \/ AssessMode PROVE SetupInv'
    <2>1. UNCHANGED <<routes, server, guards>>
      BY <1>4 DEF AssessStrategy, AssessMode, OnlySelection
    <2>2. /\ ui'.at \in {"assess_mode", "apply_strategy", "idle"}
          /\ ui'.failed = ui.failed \/ ui'.failed = FALSE
          /\ DOMAIN ui' = DOMAIN ui
      <3>1. \/ Go("assess_mode") \/ Done
            \/ ui' = [ui EXCEPT !.at = "apply_strategy", !.previous = Chosen']
        BY <1>4, Zenon DEF AssessStrategy, AssessMode, AfterAssessment
      <3>2. CASE Go("assess_mode")
        BY <3>2
      <3>3. CASE Done
        BY <3>3
      <3>4. CASE ui' = [ui EXCEPT !.at = "apply_strategy", !.previous = Chosen']
        BY <3>4
      <3> QED BY <3>1, <3>2, <3>3, <3>4
    <2>3. ui.at \in {"assess_strategy", "assess_mode"}
      BY <1>4 DEF AssessStrategy, AssessMode
    <2> QED BY <2>1, <2>2, <2>3
  <1>5. ASSUME ApplyStrategy \/ ApplyMode PROVE SetupInv'
    <2>1. UNCHANGED <<routes, server, guards>>
      BY <1>5 DEF ApplyStrategy, ApplyMode, OnlySelection
    <2>2. ui.at \in {"apply_strategy", "apply_mode"}
      BY <1>5 DEF ApplyStrategy, ApplyMode
    <2>3. \/ Go("apply_mode") \/ Done \/ Go("undo_strategy")
          \/ \E step \in {"save_default", "prepare"} :
                 ui' = [ui EXCEPT !.at = step, !.target = dialog.profile]
      <3>1. CASE ui.save
        BY <1>5, <3>1 DEF ApplyStrategy, ApplyMode
      <3>2. CASE ~ui.save
        BY <1>5, <3>2 DEF ApplyStrategy, ApplyMode
      <3> QED BY <3>1, <3>2
    <2>4. /\ ui'.at \in {"apply_mode", "idle", "undo_strategy", "save_default", "prepare"}
          /\ ui'.failed = ui.failed \/ ui'.failed = FALSE
          /\ DOMAIN ui' = DOMAIN ui
      <3>1. CASE Done
        BY <3>1
      <3>2. ASSUME NEW step \in {"apply_mode", "undo_strategy"}, Go(step)
            PROVE  ui'.at = step /\ ui'.failed = ui.failed /\ DOMAIN ui' = DOMAIN ui
        BY <3>2
      <3>3. ASSUME NEW step \in {"save_default", "prepare"},
                   ui' = [ui EXCEPT !.at = step, !.target = dialog.profile]
            PROVE  ui'.at = step /\ ui'.failed = ui.failed /\ DOMAIN ui' = DOMAIN ui
        BY <3>3
      <3> QED BY <2>3, <3>1, <3>2, <3>3
    <2> QED BY <2>1, <2>2, <2>4
  <1>6. ASSUME SaveDefault \/ RestoreDefault PROVE SetupInv'
    BY <1>6 DEF SaveDefault, RestoreDefault, vars
  <1> QED BY <1>1, <1>2, <1>3, <1>4, <1>5, <1>6

\* The steps of the re-routing transaction.
LEMMA UpdateSetupInv ==
  ASSUME SetupInv,
         \/ Prepare \/ SaveRoutingProfile \/ InstallRuntime \/ Publish
         \/ RestoreRuntime \/ RestoreProfile \/ ReleaseGuard
  PROVE  SetupInv'
  <1> USE DEF SetupInv, FieldsOK, GuardHeld, FailureStep, OldRouting, ServerInStep,
              UpdateSteps, InstallSteps, FailureSteps, At, Go, Fail, Done, IdleUi
  <1>1. ASSUME Prepare PROVE SetupInv'
    <2>1. ui.at = "prepare" /\ ~ui.failed /\ UNCHANGED <<routes, server>>
      BY <1>1 DEF Prepare
    <2>2. CASE TakeRoutingGuard(Client) /\ ui' = Prepared
      <3>1. Client \in guards'
        BY <2>2 DEF TakeRoutingGuard
      <3>2. /\ ui'.at \in {"save_profile", "install"}
            /\ ui'.failed = ui.failed
            /\ ui'.previous_routes = routes
            /\ DOMAIN ui' = DOMAIN ui
        BY <2>2 DEF Prepared
      <3> QED BY <2>1, <3>1, <3>2
    <2>3. CASE AfterFailure
      <3>1. /\ ui'.at \in {"idle", "restore_default", "undo_strategy"}
            /\ ui'.failed => ui.failed
            /\ DOMAIN ui' = DOMAIN ui
        BY <2>3 DEF AfterFailure
      <3> QED BY <2>1, <3>1
    <2> QED BY <1>1, <2>2, <2>3 DEF Prepare
  <1>2. ASSUME SaveRoutingProfile PROVE SetupInv'
    <2>1. ui.at = "save_profile" /\ UNCHANGED <<server, guards>>
      BY <1>2 DEF SaveRoutingProfile, vars
    <2>2. /\ DOMAIN routes' = DOMAIN routes
          /\ routes'.session_override = routes.session_override
          /\ routes'.published = routes.published
      BY <1>2 DEF SaveRoutingProfile
    <2>3. /\ ui'.at \in {"install", "release"}
          /\ ui'.at = "install" => ui'.failed = ui.failed
          /\ ui'.previous_routes = ui.previous_routes
          /\ DOMAIN ui' = DOMAIN ui
      <3>1. Go("install") \/ Fail("release")
        BY <1>2, Zenon DEF SaveRoutingProfile
      <3>2. CASE Go("install")
        BY <3>2
      <3>3. CASE Fail("release")
        BY <3>3
      <3> QED BY <3>1, <3>2, <3>3
    <2> QED BY <2>1, <2>2, <2>3
  <1>3. ASSUME InstallRuntime PROVE SetupInv'
    <2>1. ui.at = "install" /\ UNCHANGED <<routes, guards>>
      BY <1>3 DEF InstallRuntime, vars
    <2>2. CASE InstallOk(ui.runtime) /\ Go("publish")
      BY <2>1, <2>2 DEF InstallOk, Authorization
    <2>3. ASSUME NEW step \in {"restore_runtime", "release"}, InstallErr, Fail(step)
          PROVE  SetupInv'
      BY <2>1, <2>3 DEF InstallErr
    <2> QED BY <1>3, <2>2, <2>3 DEF InstallRuntime
  <1>4. ASSUME Publish PROVE SetupInv'
    BY <1>4 DEF Publish, vars
  <1>5. ASSUME RestoreRuntime PROVE SetupInv'
    BY <1>5 DEF RestoreRuntime, InstallOk, Strand, Authorization, vars
  <1>6. ASSUME RestoreProfile PROVE SetupInv'
    BY <1>6 DEF RestoreProfile, vars
  <1>7. ASSUME ReleaseGuard PROVE SetupInv'
    <2>1. ui.at = "release" /\ UNCHANGED <<routes, server>>
      BY <1>7 DEF ReleaseGuard
    <2>2. /\ ui'.at \in {"idle", "restore_default", "undo_strategy"}
          /\ ui'.at = "idle" => ~ui'.failed
          /\ DOMAIN ui' = DOMAIN ui
      BY <1>7, <2>1 DEF ReleaseGuard, AfterFailure
    <2> QED BY <2>1, <2>2
  <1> QED BY <1>1, <1>2, <1>3, <1>4, <1>5, <1>6, <1>7

\* The client's invariant is inductive by itself.
LEMMA NextSetupInv == SetupInv /\ [SetupNext]_setupVars => SetupInv'
  <1> SUFFICES ASSUME SetupInv, [SetupNext]_setupVars PROVE SetupInv'
    OBVIOUS
  <1>1. CASE AppEvent
    BY <1>1, EventSetupInv
  <1>2. CASE HandlerStep
    BY <1>2, SelectingSetupInv, UpdateSetupInv DEF HandlerStep
  <1>3. ASSUME NEW r \in Runs, AdmitTurn(r) \/ PrepareTurn(r) \/ RunTurn(r)
        PROVE  UNCHANGED <<ui, routes, server, guards>>
    <2>1. UNCHANGED clientVars
      BY <1>3 DEF AdmitTurn, PrepareTurn, RunTurn
    <2>2. UNCHANGED guards
      BY <1>3 DEF AdmitTurn, PrepareTurn, RunTurn, vars, RunStep, Begin, Refuse, Exhaust,
         EnterValidating, PreExecutionFailure, MarkValid, EnterRunning, Finish,
         StartCancelling, FinishCancelling, Abandon
    <2> QED BY <2>1, <2>2 DEF clientVars
  <1>4. ASSUME HearOfTurns \/ HostReset \/ UNCHANGED setupVars
        PROVE  UNCHANGED <<ui, routes, server, guards>>
    BY <1>4 DEF HearOfTurns, HostReset, Reset, setupVars, clientVars, vars
  <1> QED BY <1>1, <1>2, <1>3, <1>4, SetupInvFrame DEF SetupNext

\* What holds at each step of the client's handlers.
THEOREM SetupInvariance == SetupSpec => []SetupInv
  BY InitSetupInv, NextSetupInv, PTL DEF SetupSpec

\* A failed re-routing transaction leaves the published routing as it was, and
\* the server on it, unless the server refused to take it back.
THEOREM FailureRestores == SetupSpec => []FailedUpdateRestores
  <1>1. SetupInv => FailedUpdateRestores
    BY DEF SetupInv, OldRouting, ServerInStep, InstallSteps, FailedUpdateRestores, At
  <1> QED BY <1>1, SetupInvariance, PTL

\* Between events the app's published runtime is the one the server runs turns
\* on: a refused installation is undone, unless the way back fails too.
THEOREM AppAgreesWithServer == SetupSpec => []PublishedIsInstalled
  <1>1. SetupInv => PublishedIsInstalled
    BY DEF SetupInv, ServerInStep, InstallSteps, PublishedIsInstalled, At
  <1> QED BY <1>1, SetupInvariance, PTL

\* Routing moves only under the guard, and a guarded session has no run.
THEOREM RoutingFrozen == SetupSpec => RoutingFrozenUnderRun
  <1>1. ASSUME SetupInv, ActiveIffHeld, RoutingUpdateExcludesRuns,
               [SetupNext]_setupVars, Holders # {}
        PROVE  /\ routes'.session_override = routes.session_override
               /\ routes'.saved = routes.saved
    <2>1. Client \notin guards
      BY <1>1 DEF ActiveIffHeld, RoutingUpdateExcludesRuns, ActiveStatuses
    <2>2. ui.at \notin UpdateSteps
      BY <1>1, <2>1 DEF SetupInv, GuardHeld
    <2>3. CASE AppEvent
      BY <2>3 DEF AppEvent, UpdateExecutionMode, ModeArgument, UpdateOrchestrationStrategy,
         OpenSetup, EditSetup, CancelSetup, ApplySetup, OnlyUi, ClearSessionRoutingOverride,
         SaveOrchestrationProfile
    <2>4. CASE HandlerStep
      <3>1. CASE RefreshRuntime
        BY <1>1, <3>1 DEF RefreshRuntime, SetupInv, FieldsOK
      <3>2. CASE SaveRoutingProfile \/ Publish \/ RestoreProfile
        BY <2>2, <3>2 DEF SaveRoutingProfile, Publish, RestoreProfile, At, UpdateSteps
      <3>3. CASE \/ RefreshInstall \/ UndoStrategy \/ UndoMode \/ AssessStrategy
                 \/ AssessMode \/ ApplyStrategy \/ ApplyMode \/ SaveDefault \/ Prepare
                 \/ InstallRuntime \/ RestoreRuntime \/ ReleaseGuard \/ RestoreDefault
        <4>1. UNCHANGED routes
          BY <3>3, Zenon DEF RefreshInstall, UndoStrategy, UndoMode, AssessStrategy, AssessMode,
             ApplyStrategy, ApplyMode, SaveDefault, Prepare, InstallRuntime,
             RestoreRuntime, ReleaseGuard, RestoreDefault, OnlySelection
        <4> QED BY <4>1
      <3> QED BY <2>4, <3>1, <3>2, <3>3 DEF HandlerStep
    <2>5. CASE \/ \E r \in Runs : AdmitTurn(r) \/ PrepareTurn(r) \/ RunTurn(r)
               \/ HearOfTurns \/ HostReset \/ UNCHANGED setupVars
      BY <2>5 DEF AdmitTurn, PrepareTurn, RunTurn, HearOfTurns, HostReset, setupVars,
         clientVars
    <2> QED BY <1>1, <2>3, <2>4, <2>5 DEF SetupNext
  <1> QED
    BY <1>1, SetupInvariance, ClientUsesSession, MutualExclusion, RoutingExclusion, PTL
       DEF SetupSpec, RoutingFrozenUnderRun
=============================================================================
