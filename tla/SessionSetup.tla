---------------------------- MODULE SessionSetup ----------------------------
(***************************************************************************)
(* The embedded client's side of a session: the event handlers of the      *)
(* terminal app that select a strategy, a mode or a routing profile, the   *)
(* composition that assembles a runtime for the selection, and the app     *)
(* server's authorization, which decides what the next turn runs on.       *)
(*                                                                         *)
(* The handlers run one at a time on the app's event loop, but turns run   *)
(* on other threads and share the session: every session call, and every   *)
(* message to the server, is a step of its own.  at says where the current *)
(* handler is; the other fields of ui are its locals.                      *)
(*                                                                         *)
(* Strategies are the ones the policy resolver reports as available.  The  *)
(* pool candidate of the setup dialog and the texts it shows are left out, *)
(* and so is applying a setup without a routing candidate: opening the     *)
(* dialog always makes one.                                                *)
(***************************************************************************)
EXTENDS SessionExecution

CONSTANTS
    Client,      \* the one caller of begin_routing_update
    Single,      \* OrchestrationMode::Single, which needs no runtime
    Assemblable, \* the <<strategy, mode, profile>> a runtime can be built for
    NoRuntime,   \* runtime = None
    NoSelection, \* no candidate, or no saved default
    MaxEvents    \* bound: the events the app handles

ASSUME SetupAssumption ==
    /\ Client \in Updaters
    /\ Single \in Strategies
    /\ Assemblable \subseteq (Strategies \ {Single}) \X Modes \X Profiles
    /\ NoRuntime \notin Assemblable
    /\ NoSelection \notin Strategies \X Modes
    /\ MaxEvents \in Nat

VARIABLES
    server,       \* ProductionTurnAuthorization; stranded: an attempt to go back to
                  \* the old runtime failed and nothing was installed since (history)
    routes,       \* the composition's published runtime, the session override,
                  \* and the saved profile (registry and file)
    default,      \* the selection in the orchestration profile store
    dialog,       \* the selection and the profile edited by the setup dialog
    task_running, \* is_task_running: what the app has heard of turns
    ui,           \* the current handler
    events,       \* how many events the app has taken
    turn,         \* turn/start of each run
    bound         \* the strategy of the runtime it was admitted with, until compared

clientVars == <<server, routes, default, dialog, task_running, ui, events>>

turnVars == <<turn, bound>>

runVars == <<pc, generation>>

setupVars == <<vars, clientVars, turnVars>>

Selections == Strategies \X Modes

Chosen == <<session.strategy, session.selected_mode>>

RuntimeFor(selection, profile) == <<selection[1], selection[2], profile>>

\* execution_capability
Capability(strategy) ==
    IF strategy = Single THEN "CodexCompatibility" ELSE "SyndridOrchestration"

Authorization(runtime) ==
    [capability |-> Capability(session.strategy), runtime |-> runtime,
     stranded |-> FALSE]

\* current_profile
CurrentProfile ==
    IF routes.session_override # NoProfile THEN routes.session_override
                                           ELSE routes.saved

\* assemble_trusted_production_runtime, for the session's selection.
CanAssemble(profile) ==
    session.strategy = Single \/ RuntimeFor(Chosen, profile) \in Assemblable

Assemble(profile) ==
    IF session.strategy = Single THEN NoRuntime ELSE RuntimeFor(Chosen, profile)

\* At startup a runtime that cannot be assembled is None as well.
StartupRuntime(profile) ==
    IF CanAssemble(profile) THEN Assemble(profile) ELSE NoRuntime

NoDialog == [selection |-> NoSelection, profile |-> NoProfile]

IdleUi ==
    [ at |-> "idle", event |-> "none", save |-> FALSE, failed |-> FALSE,
      previous |-> NoSelection,        \* selection a failure goes back to
      target |-> NoProfile,            \* override_profile of the update
      runtime |-> NoRuntime,           \* the prepared runtime
      previous_routes |-> NoSelection ] \* previous_runtime, previous_profiles

\* Trusted composition at startup: the runtime for the first selection.
SetupInit ==
    /\ Init
    /\ \E profile \in Profiles :
          routes = [published |-> StartupRuntime(profile),
                    session_override |-> NoProfile, saved |-> profile]
    /\ server = Authorization(routes.published)
    /\ default = NoSelection
    /\ dialog = NoDialog
    /\ task_running = FALSE
    /\ ui = IdleUi
    /\ events = 0
    /\ turn = [r \in Runs |-> "none"]
    /\ bound = [r \in Runs |-> NoRuntime]

At(step) == ui.at = step

\* The event loop takes the next event.
NextEvent ==
    /\ At("idle")
    /\ events < MaxEvents
    /\ events' = events + 1

Go(step) == ui' = [ui EXCEPT !.at = step]

Done == ui' = IdleUi

\* A call whose Err the caller ignores.
TrySelectStrategy(strategy) ==
    session' = IF CanSelectStrategy(session, strategy)
               THEN SelectStrategy(session, strategy) ELSE session

TrySelectMode(mode) ==
    session' = IF CanSelectMode(session, mode)
               THEN SelectMode(session, mode) ELSE session

\* A step of the handler that changes nothing but the session's selection.
OnlySelection ==
    UNCHANGED <<pc, generation, guards, server, routes, default, dialog,
                task_running, events, turnVars>>

\* A handler starts.
OnlyUi == UNCHANGED <<vars, server, routes, default, dialog, task_running, turnVars>>

-----------------------------------------------------------------------------
(* install_production_runtime: the server takes the message, or its queue  *)
(* is full or closed and the authorization stays as it is.                 *)

InstallOk(runtime) == server' = Authorization(runtime)

InstallErr == UNCHANGED server

\* An attempt to go back fails, and its result is ignored.
Strand == server' = [server EXCEPT !.stranded = TRUE]

-----------------------------------------------------------------------------
(* UpdateExecutionMode and UpdateOrchestrationStrategy: select, refresh,   *)
(* and on failure select the previous value and refresh again.             *)

StartSelecting(event) ==
    ui' = [ui EXCEPT !.at = "refresh", !.event = event, !.previous = Chosen]

UpdateExecutionMode(mode) ==
    /\ NextEvent
    /\ ChooseMode(mode)
    /\ StartSelecting("mode")
    /\ UNCHANGED <<server, routes, default, dialog, task_running, turnVars>>

UpdateOrchestrationStrategy(strategy) ==
    /\ NextEvent
    /\ ChooseStrategy(strategy)
    /\ StartSelecting("strategy")
    /\ UNCHANGED <<server, routes, default, dialog, task_running, turnVars>>

\* "/mode fast" selects and leaves the runtime as it is.
ModeArgument(mode) ==
    /\ NextEvent
    /\ ChooseMode(mode)
    /\ UNCHANGED <<server, routes, default, dialog, task_running, ui, turnVars>>

\* refresh_runtime: the composition's runtime is replaced before the server
\* has it.  The second refresh of a handler ignores its result.
RefreshRuntime ==
    /\ ui.at \in {"refresh", "undo_refresh"}
    /\ IF CanAssemble(CurrentProfile)
       THEN /\ routes' = [routes EXCEPT !.published = Assemble(CurrentProfile)]
            /\ Go(IF At("refresh") THEN "refresh_install" ELSE "undo_install")
            /\ UNCHANGED server
       ELSE /\ UNCHANGED routes
            /\ IF At("refresh") THEN Go("undo_strategy") /\ UNCHANGED server
                                ELSE Done /\ Strand
    /\ UNCHANGED <<vars, default, dialog, task_running, events, turnVars>>

\* Mutant: the Err of the first installation is ignored, like that of the second.
RefreshInstallUnchecked ==
    /\ ui.at \in {"refresh_install", "undo_install"}
    /\ \/ InstallOk(routes.published)
       \/ IF At("refresh_install") THEN InstallErr ELSE Strand
    /\ Done
    /\ UNCHANGED <<vars, routes, default, dialog, task_running, events,
                   turnVars>>

RefreshInstall ==
    /\ ui.at \in {"refresh_install", "undo_install"}
    /\ \/ InstallOk(routes.published) /\ Done
       \/ At("refresh_install") /\ InstallErr /\ Go("undo_strategy")
       \/ At("undo_install") /\ Strand /\ Done
    /\ UNCHANGED <<vars, routes, default, dialog, task_running, events,
                   turnVars>>

\* The handler's own rollback, or rollback_orchestration_setup: the errors of
\* both selections are ignored.  Each selector takes back what it selected.
UndoStrategy ==
    /\ At("undo_strategy")
    /\ IF ui.event = "mode" THEN UNCHANGED session
                            ELSE TrySelectStrategy(ui.previous[1])
    /\ Go("undo_mode")
    /\ OnlySelection

UndoMode ==
    /\ At("undo_mode")
    /\ IF ui.event = "strategy" THEN UNCHANGED session
                                ELSE TrySelectMode(ui.previous[2])
    /\ Go("undo_refresh")
    /\ OnlySelection

-----------------------------------------------------------------------------
(* The setup dialog.  Opening it, editing it and applying it all assess    *)
(* the candidate first, with validate_runtime_for_routing_selection, which *)
(* selects the candidate's strategy and mode on a clone of the session: a  *)
(* clone of the handle, so on the session itself.                          *)

Assess(event, save) ==
    ui' = [ui EXCEPT !.at = "assess_strategy", !.event = event, !.save = save]

OpenSetup ==
    /\ NextEvent
    /\ dialog' = IF dialog # NoDialog THEN dialog
                 ELSE [selection |-> Chosen, profile |-> CurrentProfile]
    /\ Assess("preview", FALSE)
    /\ UNCHANGED <<vars, server, routes, default, task_running, turnVars>>

\* UpdateOrchestrationSetupStrategy, ...Preset, ...Role, ...Model and the others.
EditSetup(selection, profile) ==
    /\ NextEvent
    /\ dialog # NoDialog
    /\ dialog' = [selection |-> selection, profile |-> profile]
    /\ Assess("preview", FALSE)
    /\ UNCHANGED <<vars, server, routes, default, task_running, turnVars>>

CancelSetup ==
    /\ NextEvent
    /\ dialog # NoDialog
    /\ dialog' = NoDialog
    /\ UNCHANGED <<vars, server, routes, default, task_running, ui, turnVars>>

SaveOrchestrationProfile ==
    /\ NextEvent
    /\ default' = Chosen
    /\ UNCHANGED <<vars, server, routes, dialog, task_running, ui, turnVars>>

ApplySetup(save) ==
    /\ NextEvent
    /\ ~task_running
    /\ dialog # NoDialog
    /\ Assess("apply", save)
    /\ OnlyUi

\* can_apply: Single needs no runtime, whatever the validation said.
AfterAssessment(ready) ==
    IF ui.event = "apply" /\ (ready \/ dialog.selection[1] = Single)
    THEN ui' = [ui EXCEPT !.at = "apply_strategy", !.previous = Chosen']
    ELSE Done

AssessStrategy ==
    /\ At("assess_strategy")
    /\ TrySelectStrategy(dialog.selection[1])
    /\ IF CanSelectStrategy(session, dialog.selection[1])
       THEN Go("assess_mode") ELSE AfterAssessment(FALSE)
    /\ OnlySelection

AssessMode ==
    /\ At("assess_mode")
    /\ TrySelectMode(dialog.selection[2])
    /\ AfterAssessment(
          /\ CanSelectMode(session, dialog.selection[2])
          /\ RuntimeFor(dialog.selection, dialog.profile) \in Assemblable)
    /\ OnlySelection

\* ApplyOrchestrationSetup, once the candidate is ready.
ApplyStrategy ==
    /\ At("apply_strategy")
    /\ TrySelectStrategy(dialog.selection[1])
    /\ IF CanSelectStrategy(session, dialog.selection[1])
       THEN Go("apply_mode") ELSE Done
    /\ OnlySelection

ApplyMode ==
    /\ At("apply_mode")
    /\ TrySelectMode(dialog.selection[2])
    /\ IF CanSelectMode(session, dialog.selection[2])
       THEN ui' = [ui EXCEPT !.at = IF ui.save THEN "save_default" ELSE "prepare",
                             !.target = dialog.profile]
       ELSE Go("undo_strategy")
    /\ OnlySelection

SaveDefault ==
    /\ At("save_default")
    /\ \/ default' = dialog.selection /\ Go("prepare")
       \/ UNCHANGED default /\ Go("undo_strategy")
    /\ UNCHANGED <<vars, server, routes, dialog, task_running, events,
                   turnVars>>

ClearSessionRoutingOverride ==
    /\ NextEvent
    /\ ~task_running
    /\ ui' = [ui EXCEPT !.at = "prepare", !.event = "clear"]
    /\ OnlyUi

-----------------------------------------------------------------------------
(* The re-routing transaction: prepare, reserve the idle session, save the *)
(* profile if asked to, install, publish; undo in the order of the code.   *)

\* Where the handler goes once the update has failed.
AfterFailure ==
    IF ui.event = "clear" THEN Done
    ELSE Go(IF ui.save THEN "restore_default" ELSE "undo_strategy")

TargetProfile == IF ui.target = NoProfile THEN routes.saved ELSE ui.target

Prepared ==
    [ui EXCEPT !.at = IF ui.save THEN "save_profile" ELSE "install",
               !.runtime = Assemble(TargetProfile),
               !.previous_routes = routes]

\* Mutant: the update runs without the reservation.
PrepareUnreserved ==
    /\ At("prepare")
    /\ CanAssemble(TargetProfile)
    /\ ui' = Prepared
    /\ OnlyUi /\ UNCHANGED events

\* prepare_session_routing_override, prepare_clear_session_routing_override and
\* begin_routing_update; previous_runtime is read under the guard.
Prepare ==
    /\ At("prepare")
    /\ \/ /\ CanAssemble(TargetProfile)
          /\ TakeRoutingGuard(Client)
          /\ ui' = Prepared
       \/ /\ ~CanAssemble(TargetProfile) \/ ~CanBeginRoutingUpdate(session)
          /\ AfterFailure
          /\ UNCHANGED vars
    /\ UNCHANGED <<server, routes, default, dialog, task_running, events,
                   turnVars>>

Fail(step) == ui' = [ui EXCEPT !.at = step, !.failed = TRUE]

SaveRoutingProfile ==
    /\ At("save_profile")
    /\ \/ /\ routes' = [routes EXCEPT !.saved = ui.target]
          /\ Go("install")
       \/ UNCHANGED routes /\ Fail("release")
    /\ UNCHANGED <<vars, server, default, dialog, task_running, events,
                   turnVars>>

\* Unless a profile was saved, a failed installation returns at once.
InstallRuntime ==
    /\ At("install")
    /\ \/ InstallOk(ui.runtime) /\ Go("publish")
       \/ InstallErr /\ Fail(IF ui.save THEN "restore_runtime" ELSE "release")
    /\ UNCHANGED <<vars, routes, default, dialog, task_running, events,
                   turnVars>>

\* Mutant: the override is published although the runtime is not.
PublishOverrideFirst ==
    /\ At("publish")
    /\ \/ /\ routes' = [routes EXCEPT !.session_override = ui.target,
                                       !.published = ui.runtime]
          /\ Go("release")
       \/ /\ routes' = [routes EXCEPT !.session_override = ui.target]
          /\ Fail("restore_runtime")
    /\ UNCHANGED <<vars, server, default, dialog, task_running, events,
                   turnVars>>

\* publish_session_routing_update: the override and the runtime, or neither.
Publish ==
    /\ At("publish")
    /\ \/ /\ routes' = [routes EXCEPT !.session_override = ui.target,
                                       !.published = ui.runtime]
          /\ Go("release")
       \/ UNCHANGED routes /\ Fail("restore_runtime")
    /\ UNCHANGED <<vars, server, default, dialog, task_running, events,
                   turnVars>>

RestoreRuntime ==
    /\ At("restore_runtime")
    /\ InstallOk(ui.previous_routes.published) \/ Strand
    /\ Go(IF ui.save THEN "restore_profile" ELSE "release")
    /\ UNCHANGED <<vars, routes, default, dialog, task_running, events,
                   turnVars>>

RestoreProfile ==
    /\ At("restore_profile")
    /\ \/ routes' = [routes EXCEPT !.saved = ui.previous_routes.saved]
       \/ UNCHANGED routes
    /\ Go("release")
    /\ UNCHANGED <<vars, server, default, dialog, task_running, events,
                   turnVars>>

\* The guard is dropped when the transaction returns.
ReleaseGuard ==
    /\ At("release")
    /\ DropRoutingGuard(Client)
    /\ IF ui.failed THEN AfterFailure ELSE Done
    /\ dialog' = IF ui.event = "apply" /\ ~ui.failed THEN NoDialog ELSE dialog
    /\ UNCHANGED <<server, routes, default, task_running, events,
                   turnVars>>

\* store.save(previous): the selection of the session, not the old default.
RestoreDefault ==
    /\ At("restore_default")
    /\ default' \in {ui.previous, default}
    /\ Go("undo_strategy")
    /\ UNCHANGED <<vars, server, routes, dialog, task_running, events,
                   turnVars>>

-----------------------------------------------------------------------------
(* The turns.                                                              *)

\* turn_start_inner reads the authorization; a Syndrid turn needs a runtime.
AdmitTurn(r) ==
    /\ turn[r] = "none"
    /\ server.capability = "SyndridOrchestration"
    /\ IF server.runtime = NoRuntime
       THEN turn' = [turn EXCEPT ![r] = "rejected"] /\ UNCHANGED bound
       ELSE /\ turn' = [turn EXCEPT ![r] = "admitted"]
            /\ bound' = [bound EXCEPT ![r] = server.runtime[1]]
    /\ UNCHANGED <<vars, clientVars>>

\* ProductionOrchestrationTurnRunner::new compares strategies.
PrepareTurn(r) ==
    /\ turn[r] = "admitted"
    /\ turn' = [turn EXCEPT ![r] =
                    IF bound[r] = session.strategy THEN "prepared" ELSE "rejected"]
    /\ bound' = [bound EXCEPT ![r] = NoRuntime]
    /\ UNCHANGED <<vars, clientVars>>

\* What the run does with its runtime, the session does not see.
RunTurn(r) ==
    /\ turn[r] = "prepared"
    /\ RunStep(r)
    /\ UNCHANGED <<clientVars, turnVars>>

ActiveTurns == {r \in Runs : turn[r] = "prepared" /\ pc[r] \in LivePcs \cup {"new"}}

\* TurnStarted and TurnCompleted reach the app some time after the fact.
HearOfTurns ==
    /\ At("idle")
    /\ task_running # (ActiveTurns # {})
    /\ task_running' = ~task_running
    /\ UNCHANGED <<vars, turnVars, server, routes, default, dialog, ui, events>>

HostReset == Reset /\ UNCHANGED <<clientVars, turnVars>>

-----------------------------------------------------------------------------
HandlerStep ==
    \/ RefreshRuntime \/ RefreshInstall \/ UndoStrategy \/ UndoMode
    \/ AssessStrategy \/ AssessMode \/ ApplyStrategy \/ ApplyMode \/ SaveDefault
    \/ Prepare \/ SaveRoutingProfile \/ InstallRuntime \/ Publish
    \/ RestoreRuntime \/ RestoreProfile \/ ReleaseGuard \/ RestoreDefault

AppEvent ==
    \/ \E mode \in Modes : UpdateExecutionMode(mode) \/ ModeArgument(mode)
    \/ \E strategy \in Strategies : UpdateOrchestrationStrategy(strategy)
    \/ OpenSetup
    \/ \E selection \in Selections, profile \in Profiles :
           EditSetup(selection, profile)
    \/ CancelSetup
    \/ \E save \in BOOLEAN : ApplySetup(save)
    \/ ClearSessionRoutingOverride
    \/ SaveOrchestrationProfile

SetupNext ==
    \/ AppEvent
    \/ HandlerStep
    \/ \E r \in Runs : AdmitTurn(r) \/ PrepareTurn(r) \/ RunTurn(r)
    \/ HearOfTurns
    \/ HostReset

SetupSpec == SetupInit /\ [][SetupNext]_setupVars

-----------------------------------------------------------------------------
\* Routing does not move under a run: while a run holds the session neither the
\* session's override nor the saved profile changes, although the handlers that
\* change them checked for a running turn many steps, and a message to the
\* server, earlier ("session routing cannot change while a turn is active").
RoutingFrozenUnderRun ==
    [][Holders # {} =>
          /\ routes'.session_override = routes.session_override
          /\ routes'.saved = routes.saved]_setupVars

\* A routing update that fails is not half done: when its guard is dropped the
\* override and the published runtime are the old ones, and so is the runtime
\* of the server unless it refused to take that one back.
FailedUpdateRestores ==
    At("release") /\ ui.failed =>
        /\ routes.session_override = ui.previous_routes.session_override
        /\ routes.published = ui.previous_routes.published
        /\ server.runtime = routes.published \/ server.stranded

\* Between two events the server runs turns on the runtime the app believes in,
\* although the app replaces its own first and the server may refuse: the handler
\* notices (event_dispatch.rs:229) and goes back.  Only two failures of one handler,
\* the installation or the publication and then the way back, leave them apart.
PublishedIsInstalled ==
    At("idle") => server.runtime = routes.published \/ server.stranded

\* Preparing a setup leaves the session alone until it is applied ("Leave the
\* current session and saved routing unchanged", execution_mode.rs:620).
PreviewLeavesSession ==
    [][ui.event = "preview" => UNCHANGED Chosen]_setupVars
=============================================================================
