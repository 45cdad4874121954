--------------------------- MODULE ProductionTurn ---------------------------
(***************************************************************************)
(* The production turns of one thread of the app server.  A turn is        *)
(* admitted by the handler of turn/start, which registers it, spawns its   *)
(* task and files the task in the thread state in three separate steps.    *)
(* The task owns a ProductionOrchestrationLifecycle: it spawns the         *)
(* coordinator and the observation bridge, joins both within a bound or    *)
(* aborts them, gives up the registration and reports a failure.  Around   *)
(* it the user interrupts, and the thread's listener is torn down.         *)
(*                                                                         *)
(* tokio's abort only marks a task: it is dropped when it next yields, and *)
(* may take steps until then.  Of the coordinator only the session it      *)
(* takes and gives back is kept (LiveCoordinator shows that a run that     *)
(* ends does give it back).  Requests of one thread are handled one at a   *)
(* time.  The owner's own request_cancel and shutdown have no caller but   *)
(* the tests.                                                              *)
(***************************************************************************)
EXTENDS Integers

CONSTANT MaxTurns       \* bound: the turns admitted

ASSUME TurnsAssumption == MaxTurns \in Nat \ {0}

Turns == 1..MaxTurns
NoTurn == 0

VARIABLES
    admitted,           \* how many turns were admitted
    handler,            \* the turn whose turn/start is being handled
    registration,       \* thread_state.production_orchestration
    production_task,    \* thread_state.production_task
    torn_down,          \* history: the turns a teardown took from the thread
    task,               \* where each turn's task is
    coordinator,
    bridge,
    aborted,            \* what abort() was called on, of each turn
    reason,             \* CancellationState.reason: its token is cancelled
    reported,           \* the turns whose TurnCompleted was sent
    session,            \* the turn whose run holds the session
    events_open         \* the receiver of the event channel still exists

thread == <<admitted, handler, registration, production_task, torn_down>>
owned == <<task, coordinator, bridge, aborted>>
vars == <<thread, owned, reason, reported, session, events_open>>

ProductionCancellationReason == {"User", "SessionShutdown"}

Unstarted == {"None"}
Live == {"Spawned", "Running"}
Joining == {"JoinCoordinator", "JoinBridge"}
Aborting == {"AbortCoordinator", "AbortBridge"}
Returned == {"Sending", "Completed", "Failed", "Notifying", "Done"}
TaskEnds == {"Done", "Aborted"}

Init ==
    /\ admitted = 0
    /\ handler = NoTurn /\ registration = NoTurn /\ production_task = NoTurn
    /\ torn_down = {}
    /\ task = [t \in Turns |-> "None"]
    /\ coordinator = [t \in Turns |-> "None"]
    /\ bridge = [t \in Turns |-> "None"]
    /\ aborted = [t \in Turns |-> {}]
    /\ reason = [t \in Turns |-> "None"]
    /\ reported = {}
    /\ session = NoTurn
    /\ events_open = TRUE

-----------------------------------------------------------------------------
(* The cancellation handle: the first reason stays.                        *)

RequestCancel(t, why) ==
    reason' = IF t # NoTurn /\ reason[t] = "None"
                THEN [reason EXCEPT ![t] = why] ELSE reason

Abort(t, what) ==
    aborted' = IF t = NoTurn THEN aborted
                 ELSE [aborted EXCEPT ![t] = @ \cup what]

-----------------------------------------------------------------------------
(* The thread: turn/start in three steps, turn/interrupt and teardown.     *)

\* Turns are numbered as they are admitted; their ids are UUIDs.  A refused request
\* changes nothing, so a Codex turn of the thread only keeps this from happening.
TurnStart ==
    /\ handler = NoTurn
    /\ registration = NoTurn
    /\ admitted < MaxTurns
    /\ admitted' = admitted + 1
    /\ handler' = admitted'
    /\ registration' = admitted'
    /\ UNCHANGED <<production_task, torn_down, owned, reason, reported,
                   session, events_open>>

SpawnTask ==
    /\ handler # NoTurn
    /\ task[handler] = "None"
    /\ task' = [task EXCEPT ![handler] = "Spawned"]
    /\ UNCHANGED <<thread, coordinator, bridge, aborted, reason, reported,
                   session, events_open>>

\* Mutant: the task on file is replaced and runs on.
RegisterTaskKeepingPrevious ==
    /\ handler # NoTurn
    /\ task[handler] # "None"
    /\ production_task' = handler
    /\ handler' = NoTurn
    /\ UNCHANGED <<admitted, registration, torn_down, owned, reason, reported,
                   session, events_open>>

RegisterTask ==
    /\ handler # NoTurn
    /\ task[handler] # "None"
    /\ production_task' = handler
    /\ Abort(production_task, {"task"})
    /\ handler' = NoTurn
    /\ UNCHANGED <<admitted, registration, torn_down, task, coordinator,
                   bridge, reason, reported, session, events_open>>

TurnInterrupt ==
    /\ handler = NoTurn
    /\ registration # NoTurn
    /\ reason[registration] = "None"
    /\ RequestCancel(registration, "User")
    /\ UNCHANGED <<thread, owned, reported, session, events_open>>

\* Mutant: the token of the registered turn is left alone.
ClearListenerWithoutShutdown ==
    /\ registration # NoTurn \/ production_task # NoTurn
    /\ Abort(production_task, {"task"})
    /\ registration' = NoTurn
    /\ production_task' = NoTurn
    /\ torn_down' = torn_down \cup ({registration, production_task} \ {NoTurn})
    /\ UNCHANGED <<admitted, handler, task, coordinator, bridge, reason,
                   reported, session, events_open>>

ClearListener ==
    /\ registration # NoTurn \/ production_task # NoTurn
    /\ RequestCancel(registration, "SessionShutdown")
    /\ Abort(production_task, {"task"})
    /\ registration' = NoTurn
    /\ production_task' = NoTurn
    /\ torn_down' = torn_down \cup ({registration, production_task} \ {NoTurn})
    /\ UNCHANGED <<admitted, handler, task, coordinator, bridge, reported,
                   session, events_open>>

-----------------------------------------------------------------------------
(* The coordinator and the bridge of a turn.                               *)

\* begin_run refuses a session that a run holds, and it may refuse a free one:
\* a routing update is under way, or an earlier run has ended and nobody has
\* reset the session to Idle.
CoordinatorBegins(t) ==
    /\ coordinator[t] = "Spawned"
    /\ \/ /\ session = NoTurn
          /\ coordinator' = [coordinator EXCEPT ![t] = "Running"]
          /\ session' = t
       \/ /\ coordinator' = [coordinator EXCEPT ![t] = "Err"]
          /\ UNCHANGED session
    /\ UNCHANGED <<thread, task, bridge, aborted, reason, reported,
                   events_open>>

CoordinatorEnds(t) ==
    /\ coordinator[t] = "Running"
    /\ \E answer \in {"Ok", "Err"} :
         coordinator' = [coordinator EXCEPT ![t] = answer]
    /\ session' = NoTurn
    /\ UNCHANGED <<thread, task, bridge, aborted, reason, reported, events_open>>

\* The future is dropped where it is: nothing gives the session back.
CoordinatorAborts(t) ==
    /\ "coordinator" \in aborted[t]
    /\ coordinator[t] \in Live
    /\ coordinator' = [coordinator EXCEPT ![t] = "Aborted"]
    /\ UNCHANGED <<thread, task, bridge, aborted, reason, reported, session, events_open>>

\* It ends when the coordinator dropped its sink, or nobody listens.
BridgeEnds(t) ==
    /\ bridge[t] = "Running"
    /\ coordinator[t] \notin Live \/ ~events_open
    /\ bridge' = [bridge EXCEPT ![t] = "Ended"]
    /\ UNCHANGED <<thread, task, coordinator, aborted, reason, reported,
                   session, events_open>>

BridgeAborts(t) ==
    /\ "bridge" \in aborted[t]
    /\ bridge[t] = "Running"
    /\ bridge' = [bridge EXCEPT ![t] = "Aborted"]
    /\ UNCHANGED <<thread, task, coordinator, aborted, reason, reported,
                   session, events_open>>

CloseEvents ==
    /\ events_open
    /\ events_open' = FALSE
    /\ UNCHANGED <<thread, owned, reason, reported, session>>

-----------------------------------------------------------------------------
(* The task of a turn: run_in_process_with_cancellation, then the rest of  *)
(* the closure that turn_start_syndrid spawns.                             *)

TaskStarts(t) ==
    /\ task[t] = "Spawned"
    /\ task' = [task EXCEPT ![t] = "JoinCoordinator"]
    /\ coordinator' = [coordinator EXCEPT ![t] = "Spawned"]
    /\ bridge' = [bridge EXCEPT ![t] = "Running"]
    /\ UNCHANGED <<thread, aborted, reason, reported, session, events_open>>

JoinCoordinator(t) ==
    /\ task[t] = "JoinCoordinator"
    /\ coordinator[t] \notin Live
    /\ task' = [task EXCEPT ![t] = "JoinBridge"]
    /\ UNCHANGED <<thread, coordinator, bridge, aborted, reason, reported,
                   session, events_open>>

JoinBridge(t) ==
    /\ task[t] = "JoinBridge"
    /\ bridge[t] \notin Live
    /\ task' = [task EXCEPT ![t] =
                  IF coordinator[t] = "Ok" THEN "Sending" ELSE "Failed"]
    /\ UNCHANGED <<thread, coordinator, bridge, aborted, reason, reported,
                   session, events_open>>

\* Mutant: what is aborted is not joined.
CompletionTimeoutUnjoined(t) ==
    /\ task[t] \in Joining
    /\ task' = [task EXCEPT ![t] = "Failed"]
    /\ Abort(t, {"coordinator", "bridge"})
    /\ UNCHANGED <<thread, coordinator, bridge, reason, reported, session, events_open>>

\* Mutant: the tasks are awaited without an abort.
CompletionTimeoutWaiting(t) ==
    /\ task[t] \in Joining
    /\ task' = [task EXCEPT ![t] = "AbortCoordinator"]
    /\ UNCHANGED <<thread, coordinator, bridge, aborted, reason, reported,
                   session, events_open>>

\* The bound of complete() passes.  A coordinator already joined is not held.
CompletionTimeout(t) ==
    /\ \/ /\ task[t] = "JoinCoordinator"
          /\ task' = [task EXCEPT ![t] = "AbortCoordinator"]
          /\ Abort(t, {"coordinator"})
       \/ /\ task[t] = "JoinBridge"
          /\ task' = [task EXCEPT ![t] = "AbortBridge"]
          /\ Abort(t, {"bridge"})
    /\ UNCHANGED <<thread, coordinator, bridge, reason, reported, session, events_open>>

AbortAndJoin(t) ==
    /\ \/ /\ task[t] = "AbortCoordinator"
          /\ coordinator[t] \notin Live
          /\ task' = [task EXCEPT ![t] = "AbortBridge"]
          /\ Abort(t, {"bridge"})
       \/ /\ task[t] = "AbortBridge"
          /\ bridge[t] \notin Live
          /\ task' = [task EXCEPT ![t] = "Failed"]
          /\ UNCHANGED aborted
    /\ UNCHANGED <<thread, coordinator, bridge, reason, reported, session, events_open>>

\* The final notifications; TurnCompleted is the last of them.
SendResult(t) ==
    /\ task[t] = "Sending"
    /\ IF events_open
         THEN /\ task' = [task EXCEPT ![t] = "Completed"]
              /\ reported' = reported \cup {t}
         ELSE /\ task' = [task EXCEPT ![t] = "Failed"]
              /\ UNCHANGED reported
    /\ UNCHANGED <<thread, coordinator, bridge, aborted, reason, session, events_open>>

ClearRegistration(t) ==
    /\ task[t] \in {"Completed", "Failed"}
    /\ task' = [task EXCEPT ![t] =
                  IF @ = "Completed" THEN "Done" ELSE "Notifying"]
    /\ registration' = IF registration = t THEN NoTurn ELSE registration
    /\ UNCHANGED <<admitted, handler, production_task, torn_down, coordinator,
                   bridge, aborted, reason, reported, session, events_open>>

NotifyFailure(t) ==
    /\ task[t] = "Notifying"
    /\ task' = [task EXCEPT ![t] = "Done"]
    /\ reported' = reported \cup {t}
    /\ UNCHANGED <<thread, coordinator, bridge, aborted, reason, session, events_open>>

\* Dropping the future drops the lifecycle with the handles it still holds.
TaskAborts(t) ==
    /\ "task" \in aborted[t]
    /\ task[t] \notin TaskEnds \cup Unstarted
    /\ task' = [task EXCEPT ![t] = "Aborted"]
    /\ IF task[t] \in Joining \cup Aborting
         THEN /\ RequestCancel(t, "SessionShutdown")
              /\ Abort(t, IF task[t] \in {"JoinCoordinator", "AbortCoordinator"}
                            THEN {"coordinator", "bridge"} ELSE {"bridge"})
         ELSE UNCHANGED <<reason, aborted>>
    /\ UNCHANGED <<thread, coordinator, bridge, reported, session, events_open>>

-----------------------------------------------------------------------------

TaskStep(t) ==
    \/ TaskStarts(t) \/ JoinCoordinator(t) \/ JoinBridge(t)
    \/ CompletionTimeout(t) \/ AbortAndJoin(t) \/ SendResult(t)
    \/ ClearRegistration(t) \/ NotifyFailure(t) \/ TaskAborts(t)

Next ==
    \/ TurnStart \/ SpawnTask \/ RegisterTask
    \/ TurnInterrupt \/ ClearListener \/ CloseEvents
    \/ \E t \in Turns :
         \/ CoordinatorBegins(t) \/ CoordinatorEnds(t) \/ CoordinatorAborts(t)
         \/ BridgeEnds(t) \/ BridgeAborts(t) \/ TaskStep(t)

Spec == Init /\ [][Next]_vars

(***************************************************************************)
(* A spawned task is polled, a request that began is handled to its end,   *)
(* the timer of complete() fires, an abort takes effect, and the client    *)
(* keeps draining its events.  Nothing says that a coordinator ends.       *)
(***************************************************************************)
FairSpec ==
    /\ Spec
    /\ WF_vars(SpawnTask) /\ WF_vars(RegisterTask)
    /\ \A t \in Turns :
         /\ WF_vars(TaskStep(t))
         /\ WF_vars(CoordinatorAborts(t)) /\ WF_vars(BridgeAborts(t))

-----------------------------------------------------------------------------
(* Properties.                                                             *)

\* The type invariant of the thread state, the tasks and the session.
TypeOK ==
    /\ admitted \in 0..MaxTurns
    /\ {handler, registration, production_task, session} \subseteq 0..admitted
    /\ torn_down \subseteq Turns
    /\ task \in [Turns -> Unstarted \cup {"Spawned"} \cup Joining \cup Aborting
                            \cup Returned \cup TaskEnds]
    /\ coordinator \in [Turns -> Unstarted \cup Live \cup {"Ok", "Err", "Aborted"}]
    /\ bridge \in [Turns -> {"None", "Running", "Ended", "Aborted"}]
    /\ aborted \in [Turns -> SUBSET {"task", "coordinator", "bridge"}]
    /\ reason \in [Turns -> ProductionCancellationReason \cup {"None"}]
    /\ reported \subseteq Turns
    /\ events_open \in BOOLEAN

\* A coordinator that still runs although its turn is no longer registered,
\* so that no interrupt can reach it, has had its token cancelled.
UnregisteredRunIsCancelled ==
    \A t \in Turns :
        coordinator[t] \in Live /\ registration # t => reason[t] # "None"

\* A task that has not ended can still be aborted by a teardown: it is the
\* task on file, or the handler is about to file it, or it is aborted already.
TaskOnFileOrAborted ==
    \A t \in Turns :
        task[t] \notin TaskEnds \cup Unstarted
            => \/ t \in {handler, production_task}
               \/ "task" \in aborted[t]

\* When complete() has returned, within its bound or not, neither the
\* coordinator nor the bridge of the turn is running.
ReturnedTurnRunsNothing ==
    \A t \in Turns :
        task[t] \in Returned => {coordinator[t], bridge[t]} \cap Live = {}

\* A turn gives its registration up, so that the thread takes the next one.
TurnReleased ==
    \A t \in Turns : registration = t ~> registration # t

\* Of every turn that no teardown took the end is reported to the client: a
\* task is not aborted before it has sent TurnCompleted.
FailureReachesTheClient ==
    \A t \in Turns :
        task[t] = "Aborted" /\ t \notin torn_down => t \in reported

\* When a turn's final status is out, its run has given the session back.
FinalStatusAfterCleanup == \A t \in reported : session # t
=============================================================================
