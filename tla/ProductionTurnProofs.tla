------------------------ MODULE ProductionTurnProofs ------------------------
(***************************************************************************)
(* Proofs about ProductionTurn, for any number of turns of a thread.       *)
(***************************************************************************)
EXTENDS ProductionTurn, TLAPS

\* What the task of a turn has done to its coordinator and its bridge, by
\* where it is: nothing before it starts; the coordinator is joined first.
TaskOwns ==
    \A t \in Turns :
        /\ t > admitted => task[t] = "None"
        /\ task[t] = "None" => t = handler \/ t > admitted
        /\ task[t] \in {"None", "Spawned"} => coordinator[t] = "None" /\ bridge[t] = "None"
        /\ task[t] \in {"JoinBridge", "AbortBridge"} => coordinator[t] \notin Live

\* The cancellation of a turn that lost its registration comes before its
\* coordinator is spawned: this makes UnregisteredRunIsCancelled inductive.
UnregisteredTurnIsCancelled ==
    \A t \in Turns :
        /\ t <= admitted
        /\ registration # t
        /\ task[t] \in {"None", "Spawned"} \/ coordinator[t] \in Live
        => reason[t] # "None"

IInv ==
    /\ TypeOK
    /\ TaskOwns
    /\ UnregisteredTurnIsCancelled
    /\ TaskOnFileOrAborted
    /\ ReturnedTurnRunsNothing

\* Init establishes the invariant.
LEMMA InitIInv == Init => IInv
<1> SUFFICES ASSUME Init PROVE IInv
  OBVIOUS
<1> USE TurnsAssumption DEF Init, Turns, NoTurn, Live
<1>1. TypeOK
  BY DEF TypeOK, Unstarted, ProductionCancellationReason
<1>2. TaskOwns
  BY DEF TaskOwns
<1>3. UnregisteredTurnIsCancelled
  BY DEF UnregisteredTurnIsCancelled
<1>4. TaskOnFileOrAborted
  BY DEF TaskOnFileOrAborted, Unstarted
<1>5. ReturnedTurnRunsNothing
  BY DEF ReturnedTurnRunsNothing, Returned
<1> QED
  BY <1>1, <1>2, <1>3, <1>4, <1>5 DEF IInv

\* Aborting marks what it names, of its turn only.
LEMMA AbortEffect ==
    ASSUME TypeOK, NEW t \in 0..MaxTurns,
           NEW what \in SUBSET {"task", "coordinator", "bridge"}, Abort(t, what)
    PROVE  /\ aborted' \in [Turns -> SUBSET {"task", "coordinator", "bridge"}]
           /\ \A u \in Turns : aborted[u] \subseteq aborted'[u]
           /\ t # NoTurn => what \subseteq aborted'[t]
<1>1. CASE t = NoTurn
  BY <1>1 DEF TypeOK, Abort
<1>2. CASE t # NoTurn
  <2>1. t \in Turns /\ aborted' = [aborted EXCEPT ![t] = @ \cup what]
    BY <1>2, TurnsAssumption DEF Abort, Turns, NoTurn
  <2>2. aborted[t] \cup what \in SUBSET {"task", "coordinator", "bridge"}
    BY <2>1 DEF TypeOK
  <2> QED
    BY <2>1, <2>2 DEF TypeOK
<1> QED
  BY <1>1, <1>2

\* A cancellation gives its turn a reason, and takes none away.
LEMMA CancelEffect ==
    ASSUME TypeOK, NEW t \in 0..MaxTurns,
           NEW why \in ProductionCancellationReason, RequestCancel(t, why)
    PROVE  /\ reason' \in [Turns -> ProductionCancellationReason \cup {"None"}]
           /\ \A u \in Turns : reason[u] # "None" => reason'[u] # "None"
           /\ t # NoTurn => reason'[t] # "None"
BY TurnsAssumption DEF TypeOK, RequestCancel, Turns, NoTurn, ProductionCancellationReason

\* A step of the thread keeps the types.
LEMMA ThreadType ==
    ASSUME TypeOK,
           TurnStart \/ SpawnTask \/ RegisterTask \/ TurnInterrupt
             \/ ClearListener \/ CloseEvents
    PROVE  TypeOK'
<1> USE TurnsAssumption DEF Turns, NoTurn, thread, owned
<1>0. registration \in 0..MaxTurns /\ production_task \in 0..MaxTurns
  BY DEF TypeOK
<1>1. CASE TurnStart
  BY <1>1 DEF TurnStart, TypeOK
<1>2. CASE SpawnTask
  BY <1>2 DEF SpawnTask, TypeOK
<1>3. CASE RegisterTask
  <2>1. aborted' \in [Turns -> SUBSET {"task", "coordinator", "bridge"}]
    BY <1>0, <1>3, AbortEffect DEF RegisterTask
  <2> QED
    BY <1>3, <2>1 DEF RegisterTask, TypeOK
<1>4. CASE TurnInterrupt
  <2>1. reason' \in [Turns -> ProductionCancellationReason \cup {"None"}]
    BY <1>0, <1>4, CancelEffect DEF TurnInterrupt, ProductionCancellationReason
  <2> QED
    BY <1>4, <2>1 DEF TurnInterrupt, TypeOK
<1>5. CASE ClearListener
  <2>1. aborted' \in [Turns -> SUBSET {"task", "coordinator", "bridge"}]
    BY <1>0, <1>5, AbortEffect DEF ClearListener
  <2>2. reason' \in [Turns -> ProductionCancellationReason \cup {"None"}]
    BY <1>0, <1>5, CancelEffect DEF ClearListener, ProductionCancellationReason
  <2>3. torn_down' \subseteq Turns
    BY <1>0, <1>5 DEF ClearListener, TypeOK
  <2> QED
    BY <1>5, <2>1, <2>2, <2>3 DEF ClearListener, TypeOK
<1>6. CASE CloseEvents
  BY <1>6 DEF CloseEvents, TypeOK
<1> QED
  BY <1>1, <1>2, <1>3, <1>4, <1>5, <1>6

\* A step of a turn's coordinator, bridge or task keeps the types.
LEMMA TurnType ==
    ASSUME TypeOK, NEW t \in Turns, t <= admitted,
           \/ CoordinatorBegins(t) \/ CoordinatorEnds(t) \/ CoordinatorAborts(t)
           \/ BridgeEnds(t) \/ BridgeAborts(t) \/ TaskStep(t)
    PROVE  TypeOK'
<1> USE TurnsAssumption DEF Turns, NoTurn, thread
<1> DEFINE Marks == SUBSET {"task", "coordinator", "bridge"}
<1>0. t \in 0..MaxTurns
  OBVIOUS
<1>1. CASE CoordinatorBegins(t) \/ CoordinatorEnds(t) \/ CoordinatorAborts(t)
  <2>1. CASE CoordinatorBegins(t)
    <3>1. session' \in 0..admitted
      BY <2>1 DEF CoordinatorBegins, TypeOK
    <3>2. coordinator' \in [Turns -> Unstarted \cup Live \cup {"Ok", "Err", "Aborted"}]
      BY <2>1 DEF CoordinatorBegins, TypeOK, Live
    <3> QED
      BY <2>1, <3>1, <3>2 DEF CoordinatorBegins, TypeOK
  <2>2. CASE CoordinatorEnds(t)
    BY <2>2 DEF CoordinatorEnds, TypeOK
  <2>3. CASE CoordinatorAborts(t)
    BY <2>3 DEF CoordinatorAborts, TypeOK
  <2> QED
    BY <1>1, <2>1, <2>2, <2>3
<1>2. CASE BridgeEnds(t) \/ BridgeAborts(t)
  BY <1>2 DEF BridgeEnds, BridgeAborts, TypeOK
<1>3. CASE TaskStarts(t)
  BY <1>3 DEF TaskStarts, TypeOK, Live, Joining
<1>4. CASE JoinCoordinator(t) \/ JoinBridge(t)
  BY <1>4 DEF JoinCoordinator, JoinBridge, TypeOK, Joining, Returned
<1>5. CASE CompletionTimeout(t)
  <2>1. aborted' \in [Turns -> Marks]
    BY <1>0, <1>5, AbortEffect DEF CompletionTimeout
  <2> QED
    BY <1>5, <2>1 DEF CompletionTimeout, TypeOK, Aborting
<1>6. CASE AbortAndJoin(t)
  <2>1. aborted' \in [Turns -> Marks]
    BY <1>0, <1>6, AbortEffect DEF AbortAndJoin, TypeOK
  <2> QED
    BY <1>6, <2>1 DEF AbortAndJoin, TypeOK, Aborting, Returned
<1>7. CASE SendResult(t) \/ ClearRegistration(t) \/ NotifyFailure(t)
  <2>1. CASE SendResult(t)
    BY <2>1 DEF SendResult, TypeOK, Returned
  <2>2. CASE ClearRegistration(t)
    BY <2>2 DEF ClearRegistration, TypeOK, Returned
  <2>3. CASE NotifyFailure(t)
    BY <2>3 DEF NotifyFailure, TypeOK, Returned
  <2> QED
    BY <1>7, <2>1, <2>2, <2>3
<1>8. CASE TaskAborts(t)
  <2>1. aborted' \in [Turns -> Marks]
    BY <1>0, <1>8, AbortEffect DEF TaskAborts, TypeOK
  <2>2. reason' \in [Turns -> ProductionCancellationReason \cup {"None"}]
    BY <1>0, <1>8, CancelEffect DEF TaskAborts, TypeOK, ProductionCancellationReason
  <2> QED
    BY <1>8, <2>1, <2>2 DEF TaskAborts, TypeOK, TaskEnds
<1> QED
  BY <1>1, <1>2, <1>3, <1>4, <1>5, <1>6, <1>7, <1>8 DEF TaskStep

\* A step of the thread preserves the other conjuncts.
LEMMA ThreadStep ==
    ASSUME IInv,
           TurnStart \/ SpawnTask \/ RegisterTask \/ TurnInterrupt
             \/ ClearListener \/ CloseEvents
    PROVE  (TaskOwns /\ UnregisteredTurnIsCancelled /\ TaskOnFileOrAborted
              /\ ReturnedTurnRunsNothing)'
<1> USE TurnsAssumption DEF IInv, Turns, NoTurn, thread, owned, Live
<1>0. TypeOK /\ registration \in 0..MaxTurns /\ production_task \in 0..MaxTurns
  BY DEF TypeOK
<1>1. CASE TurnStart
  <2>1. TaskOwns'
    BY <1>0, <1>1 DEF TurnStart, TypeOK, TaskOwns
  <2>2. UnregisteredTurnIsCancelled'
    BY <1>0, <1>1 DEF TurnStart, TypeOK, UnregisteredTurnIsCancelled
  <2>3. TaskOnFileOrAborted'
    BY <1>0, <1>1 DEF TurnStart, TypeOK, TaskOnFileOrAborted, TaskEnds, Unstarted
  <2>4. ReturnedTurnRunsNothing'
    BY <1>0, <1>1 DEF TurnStart, TypeOK, TaskOwns, ReturnedTurnRunsNothing, Returned
  <2> QED
    BY <2>1, <2>2, <2>3, <2>4
<1>2. CASE SpawnTask
  <2>1. TaskOwns'
    BY <1>0, <1>2 DEF SpawnTask, TypeOK, TaskOwns
  <2>2. UnregisteredTurnIsCancelled'
    BY <1>0, <1>2 DEF SpawnTask, TypeOK, UnregisteredTurnIsCancelled
  <2>3. TaskOnFileOrAborted'
    BY <1>0, <1>2 DEF SpawnTask, TypeOK, TaskOnFileOrAborted, TaskEnds, Unstarted
  <2>4. ReturnedTurnRunsNothing'
    BY <1>0, <1>2 DEF SpawnTask, TypeOK, TaskOwns, ReturnedTurnRunsNothing, Returned
  <2> QED
    BY <2>1, <2>2, <2>3, <2>4
<1>3. CASE RegisterTask
  <2>0. /\ \A u \in Turns : aborted[u] \subseteq aborted'[u]
        /\ production_task # NoTurn => "task" \in aborted'[production_task]
    BY <1>0, <1>3, AbortEffect DEF RegisterTask
  <2>1. TaskOwns'
    BY <1>0, <1>3, <2>0 DEF RegisterTask, TypeOK, TaskOwns
  <2>2. UnregisteredTurnIsCancelled'
    BY <1>0, <1>3, <2>0 DEF RegisterTask, TypeOK, UnregisteredTurnIsCancelled
  <2>3. TaskOnFileOrAborted'
    BY <1>0, <1>3, <2>0 DEF RegisterTask, TypeOK, TaskOnFileOrAborted, TaskEnds, Unstarted
  <2>4. ReturnedTurnRunsNothing'
    BY <1>0, <1>3, <2>0 DEF RegisterTask, TypeOK, TaskOwns, ReturnedTurnRunsNothing, Returned
  <2> QED
    BY <2>1, <2>2, <2>3, <2>4
<1>4. CASE TurnInterrupt
  <2>0. /\ \A u \in Turns : reason[u] # "None" => reason'[u] # "None"
        /\ registration # NoTurn => reason'[registration] # "None"
    BY <1>0, <1>4, CancelEffect DEF TurnInterrupt, ProductionCancellationReason
  <2>1. TaskOwns'
    BY <1>0, <1>4, <2>0 DEF TurnInterrupt, TypeOK, TaskOwns
  <2>2. UnregisteredTurnIsCancelled'
    BY <1>0, <1>4, <2>0 DEF TurnInterrupt, TypeOK, UnregisteredTurnIsCancelled
  <2>3. TaskOnFileOrAborted'
    BY <1>0, <1>4, <2>0 DEF TurnInterrupt, TypeOK, TaskOnFileOrAborted, TaskEnds, Unstarted
  <2>4. ReturnedTurnRunsNothing'
    BY <1>0, <1>4, <2>0 DEF TurnInterrupt, TypeOK, TaskOwns, ReturnedTurnRunsNothing, Returned
  <2> QED
    BY <2>1, <2>2, <2>3, <2>4
<1>5. CASE ClearListener
  <2>0. /\ \A u \in Turns : aborted[u] \subseteq aborted'[u]
        /\ production_task # NoTurn => "task" \in aborted'[production_task]
        /\ \A u \in Turns : reason[u] # "None" => reason'[u] # "None"
        /\ registration # NoTurn => reason'[registration] # "None"
    BY <1>0, <1>5, AbortEffect, CancelEffect DEF ClearListener, ProductionCancellationReason
  <2>1. TaskOwns'
    BY <1>0, <1>5, <2>0 DEF ClearListener, TypeOK, TaskOwns
  <2>2. UnregisteredTurnIsCancelled'
    BY <1>0, <1>5, <2>0 DEF ClearListener, TypeOK, UnregisteredTurnIsCancelled
  <2>3. TaskOnFileOrAborted'
    BY <1>0, <1>5, <2>0 DEF ClearListener, TypeOK, TaskOnFileOrAborted, TaskEnds, Unstarted
  <2>4. ReturnedTurnRunsNothing'
    BY <1>0, <1>5, <2>0 DEF ClearListener, TypeOK, TaskOwns, ReturnedTurnRunsNothing, Returned
  <2> QED
    BY <2>1, <2>2, <2>3, <2>4
<1>6. CASE CloseEvents
  <2>1. TaskOwns'
    BY <1>0, <1>6 DEF CloseEvents, TypeOK, TaskOwns
  <2>2. UnregisteredTurnIsCancelled'
    BY <1>0, <1>6 DEF CloseEvents, TypeOK, UnregisteredTurnIsCancelled
  <2>3. TaskOnFileOrAborted'
    BY <1>0, <1>6 DEF CloseEvents, TypeOK, TaskOnFileOrAborted, TaskEnds, Unstarted
  <2>4. ReturnedTurnRunsNothing'
    BY <1>0, <1>6 DEF CloseEvents, TypeOK, TaskOwns, ReturnedTurnRunsNothing, Returned
  <2> QED
    BY <2>1, <2>2, <2>3, <2>4
<1> QED
  BY <1>1, <1>2, <1>3, <1>4, <1>5, <1>6

\* A step of a turn preserves the other conjuncts.
LEMMA TurnStep ==
    ASSUME IInv, NEW t \in Turns,
           \/ CoordinatorBegins(t) \/ CoordinatorEnds(t) \/ CoordinatorAborts(t)
           \/ BridgeEnds(t) \/ BridgeAborts(t) \/ TaskStep(t)
    PROVE  (TaskOwns /\ UnregisteredTurnIsCancelled /\ TaskOnFileOrAborted
              /\ ReturnedTurnRunsNothing)'
<1> USE TurnsAssumption DEF IInv, Turns, NoTurn, thread, owned, Live
<1>0. TypeOK /\ t \in 0..MaxTurns
  BY DEF TypeOK
<1>1. CASE CoordinatorBegins(t)
  <2>1. TaskOwns'
    BY <1>0, <1>1 DEF CoordinatorBegins, TypeOK, TaskOwns
  <2>2. UnregisteredTurnIsCancelled'
    BY <1>0, <1>1 DEF CoordinatorBegins, TypeOK, UnregisteredTurnIsCancelled
  <2>3. TaskOnFileOrAborted'
    BY <1>0, <1>1 DEF CoordinatorBegins, TypeOK, TaskOnFileOrAborted, TaskEnds, Unstarted
  <2>4. ReturnedTurnRunsNothing'
    BY <1>0, <1>1 DEF CoordinatorBegins, TypeOK, TaskOwns, ReturnedTurnRunsNothing, Returned
  <2> QED
    BY <2>1, <2>2, <2>3, <2>4
<1>2. CASE CoordinatorEnds(t)
  <2>1. TaskOwns'
    BY <1>0, <1>2 DEF CoordinatorEnds, TypeOK, TaskOwns
  <2>2. UnregisteredTurnIsCancelled'
    BY <1>0, <1>2 DEF CoordinatorEnds, TypeOK, UnregisteredTurnIsCancelled
  <2>3. TaskOnFileOrAborted'
    BY <1>0, <1>2 DEF CoordinatorEnds, TypeOK, TaskOnFileOrAborted, TaskEnds, Unstarted
  <2>4. ReturnedTurnRunsNothing'
    BY <1>0, <1>2 DEF CoordinatorEnds, TypeOK, TaskOwns, ReturnedTurnRunsNothing, Returned
  <2> QED
    BY <2>1, <2>2, <2>3, <2>4
<1>3. CASE CoordinatorAborts(t)
  <2>1. TaskOwns'
    BY <1>0, <1>3 DEF CoordinatorAborts, TypeOK, TaskOwns
  <2>2. UnregisteredTurnIsCancelled'
    BY <1>0, <1>3 DEF CoordinatorAborts, TypeOK, UnregisteredTurnIsCancelled
  <2>3. TaskOnFileOrAborted'
    BY <1>0, <1>3 DEF CoordinatorAborts, TypeOK, TaskOnFileOrAborted, TaskEnds, Unstarted
  <2>4. ReturnedTurnRunsNothing'
    BY <1>0, <1>3 DEF CoordinatorAborts, TypeOK, TaskOwns, ReturnedTurnRunsNothing, Returned
  <2> QED
    BY <2>1, <2>2, <2>3, <2>4
<1>4. CASE BridgeEnds(t)
  <2>1. TaskOwns'
    BY <1>0, <1>4 DEF BridgeEnds, TypeOK, TaskOwns
  <2>2. UnregisteredTurnIsCancelled'
    BY <1>0, <1>4 DEF BridgeEnds, TypeOK, UnregisteredTurnIsCancelled
  <2>3. TaskOnFileOrAborted'
    BY <1>0, <1>4 DEF BridgeEnds, TypeOK, TaskOnFileOrAborted, TaskEnds, Unstarted
  <2>4. ReturnedTurnRunsNothing'
    BY <1>0, <1>4 DEF BridgeEnds, TypeOK, TaskOwns, ReturnedTurnRunsNothing, Returned
  <2> QED
    BY <2>1, <2>2, <2>3, <2>4
<1>5. CASE BridgeAborts(t)
  <2>1. TaskOwns'
    BY <1>0, <1>5 DEF BridgeAborts, TypeOK, TaskOwns
  <2>2. UnregisteredTurnIsCancelled'
    BY <1>0, <1>5 DEF BridgeAborts, TypeOK, UnregisteredTurnIsCancelled
  <2>3. TaskOnFileOrAborted'
    BY <1>0, <1>5 DEF BridgeAborts, TypeOK, TaskOnFileOrAborted, TaskEnds, Unstarted
  <2>4. ReturnedTurnRunsNothing'
    BY <1>0, <1>5 DEF BridgeAborts, TypeOK, TaskOwns, ReturnedTurnRunsNothing, Returned
  <2> QED
    BY <2>1, <2>2, <2>3, <2>4
<1>6. CASE TaskStarts(t)
  <2>1. TaskOwns'
    BY <1>0, <1>6 DEF TaskStarts, TypeOK, TaskOwns
  <2>2. UnregisteredTurnIsCancelled'
    BY <1>0, <1>6 DEF TaskStarts, TypeOK, UnregisteredTurnIsCancelled
  <2>3. TaskOnFileOrAborted'
    BY <1>0, <1>6 DEF TaskStarts, TypeOK, TaskOnFileOrAborted, TaskEnds, Unstarted
  <2>4. ReturnedTurnRunsNothing'
    BY <1>0, <1>6 DEF TaskStarts, TypeOK, TaskOwns, ReturnedTurnRunsNothing, Returned
  <2> QED
    BY <2>1, <2>2, <2>3, <2>4
<1>7. CASE JoinCoordinator(t)
  <2>1. TaskOwns'
    BY <1>0, <1>7 DEF JoinCoordinator, TypeOK, TaskOwns
  <2>2. UnregisteredTurnIsCancelled'
    BY <1>0, <1>7 DEF JoinCoordinator, TypeOK, UnregisteredTurnIsCancelled
  <2>3. TaskOnFileOrAborted'
    BY <1>0, <1>7 DEF JoinCoordinator, TypeOK, TaskOnFileOrAborted, TaskEnds, Unstarted
  <2>4. ReturnedTurnRunsNothing'
    BY <1>0, <1>7 DEF JoinCoordinator, TypeOK, TaskOwns, ReturnedTurnRunsNothing, Returned
  <2> QED
    BY <2>1, <2>2, <2>3, <2>4
<1>8. CASE JoinBridge(t)
  <2>1. TaskOwns'
    BY <1>0, <1>8 DEF JoinBridge, TypeOK, TaskOwns
  <2>2. UnregisteredTurnIsCancelled'
    BY <1>0, <1>8 DEF JoinBridge, TypeOK, UnregisteredTurnIsCancelled
  <2>3. TaskOnFileOrAborted'
    BY <1>0, <1>8 DEF JoinBridge, TypeOK, TaskOnFileOrAborted, TaskEnds, Unstarted
  <2>4. ReturnedTurnRunsNothing'
    BY <1>0, <1>8 DEF JoinBridge, TypeOK, TaskOwns, ReturnedTurnRunsNothing, Returned
  <2> QED
    BY <2>1, <2>2, <2>3, <2>4
<1>9. CASE CompletionTimeout(t)
  <2>0. /\ \A u \in Turns : aborted[u] \subseteq aborted'[u]
    BY <1>0, <1>9, AbortEffect DEF CompletionTimeout, TypeOK
  <2>1. TaskOwns'
    BY <1>0, <1>9, <2>0 DEF CompletionTimeout, TypeOK, TaskOwns
  <2>2. UnregisteredTurnIsCancelled'
    BY <1>0, <1>9, <2>0 DEF CompletionTimeout, TypeOK, UnregisteredTurnIsCancelled
  <2>3. TaskOnFileOrAborted'
    BY <1>0, <1>9, <2>0 DEF CompletionTimeout, TypeOK, TaskOnFileOrAborted, TaskEnds, Unstarted
  <2>4. ReturnedTurnRunsNothing'
    BY <1>0, <1>9, <2>0 DEF CompletionTimeout, TypeOK, TaskOwns, ReturnedTurnRunsNothing, Returned
  <2> QED
    BY <2>1, <2>2, <2>3, <2>4
<1>10. CASE AbortAndJoin(t)
  <2>0. /\ \A u \in Turns : aborted[u] \subseteq aborted'[u]
    BY <1>0, <1>10, AbortEffect DEF AbortAndJoin, TypeOK
  <2>1. TaskOwns'
    BY <1>0, <1>10, <2>0 DEF AbortAndJoin, TypeOK, TaskOwns
  <2>2. UnregisteredTurnIsCancelled'
    BY <1>0, <1>10, <2>0 DEF AbortAndJoin, TypeOK, UnregisteredTurnIsCancelled
  <2>3. TaskOnFileOrAborted'
    BY <1>0, <1>10, <2>0 DEF AbortAndJoin, TypeOK, TaskOnFileOrAborted, TaskEnds, Unstarted
  <2>4. ReturnedTurnRunsNothing'
    BY <1>0, <1>10, <2>0 DEF AbortAndJoin, TypeOK, TaskOwns, ReturnedTurnRunsNothing, Returned
  <2> QED
    BY <2>1, <2>2, <2>3, <2>4
<1>11. CASE SendResult(t)
  <2>1. TaskOwns'
    BY <1>0, <1>11 DEF SendResult, TypeOK, TaskOwns
  <2>2. UnregisteredTurnIsCancelled'
    BY <1>0, <1>11 DEF SendResult, TypeOK, UnregisteredTurnIsCancelled
  <2>3. TaskOnFileOrAborted'
    BY <1>0, <1>11 DEF SendResult, TypeOK, TaskOnFileOrAborted, TaskEnds, Unstarted
  <2>4. ReturnedTurnRunsNothing'
    BY <1>0, <1>11 DEF SendResult, TypeOK, TaskOwns, ReturnedTurnRunsNothing, Returned
  <2> QED
    BY <2>1, <2>2, <2>3, <2>4
<1>12. CASE ClearRegistration(t)
  <2>1. TaskOwns'
    BY <1>0, <1>12 DEF ClearRegistration, TypeOK, TaskOwns
  <2>2. UnregisteredTurnIsCancelled'
    <3>1. coordinator'[t] \notin Live /\ task'[t] \notin {"None", "Spawned"}
      BY <1>0, <1>12 DEF ClearRegistration, TypeOK, ReturnedTurnRunsNothing, Returned
    <3>2. \A u \in Turns \ {t} : registration' # u => registration # u
      BY <1>0, <1>12 DEF ClearRegistration
    <3> QED
      BY <1>0, <1>12, <3>1, <3>2 DEF ClearRegistration, TypeOK, UnregisteredTurnIsCancelled
  <2>3. TaskOnFileOrAborted'
    BY <1>0, <1>12 DEF ClearRegistration, TypeOK, TaskOnFileOrAborted, TaskEnds, Unstarted
  <2>4. ReturnedTurnRunsNothing'
    BY <1>0, <1>12 DEF ClearRegistration, TypeOK, TaskOwns, ReturnedTurnRunsNothing, Returned
  <2> QED
    BY <2>1, <2>2, <2>3, <2>4
<1>13. CASE NotifyFailure(t)
  <2>1. TaskOwns'
    BY <1>0, <1>13 DEF NotifyFailure, TypeOK, TaskOwns
  <2>2. UnregisteredTurnIsCancelled'
    BY <1>0, <1>13 DEF NotifyFailure, TypeOK, UnregisteredTurnIsCancelled
  <2>3. TaskOnFileOrAborted'
    BY <1>0, <1>13 DEF NotifyFailure, TypeOK, TaskOnFileOrAborted, TaskEnds, Unstarted
  <2>4. ReturnedTurnRunsNothing'
    BY <1>0, <1>13 DEF NotifyFailure, TypeOK, TaskOwns, ReturnedTurnRunsNothing, Returned
  <2> QED
    BY <2>1, <2>2, <2>3, <2>4
<1>14. CASE TaskAborts(t)
  <2>0. /\ \A u \in Turns : aborted[u] \subseteq aborted'[u]
        /\ \A u \in Turns : reason[u] # "None" => reason'[u] # "None"
        /\ task[t] \in Joining \cup Aborting => reason'[t] # "None"
    <3>1. CASE task[t] \in Joining \cup Aborting
      <4>1. \A u \in Turns : aborted[u] \subseteq aborted'[u]
        BY <1>0, <1>14, <3>1, AbortEffect DEF TaskAborts
      <4>2. /\ \A u \in Turns : reason[u] # "None" => reason'[u] # "None"
            /\ reason'[t] # "None"
        BY <1>0, <1>14, <3>1, CancelEffect DEF TaskAborts, ProductionCancellationReason
      <4> QED
        BY <4>1, <4>2
    <3>2. CASE task[t] \notin Joining \cup Aborting
      BY <1>14, <3>2 DEF TaskAborts
    <3> QED
      BY <3>1, <3>2
  <2>1. TaskOwns'
    BY <1>0, <1>14, <2>0 DEF TaskAborts, TypeOK, TaskOwns
  <2>2. UnregisteredTurnIsCancelled'
    BY <1>0, <1>14, <2>0 DEF TaskAborts, TypeOK, UnregisteredTurnIsCancelled
  <2>3. TaskOnFileOrAborted'
    BY <1>0, <1>14, <2>0 DEF TaskAborts, TypeOK, TaskOnFileOrAborted, TaskEnds, Unstarted
  <2>4. ReturnedTurnRunsNothing'
    BY <1>0, <1>14, <2>0 DEF TaskAborts, TypeOK, TaskOwns, ReturnedTurnRunsNothing, Returned
  <2> QED
    BY <2>1, <2>2, <2>3, <2>4
<1> QED
  BY <1>1, <1>2, <1>3, <1>4, <1>5, <1>6, <1>7, <1>8, <1>9, <1>10, <1>11, <1>12, <1>13, <1>14 DEF TaskStep

\* Every step preserves the invariant.
LEMMA NextIInv == IInv /\ [Next]_vars => IInv'
<1> SUFFICES ASSUME IInv, [Next]_vars PROVE IInv'
  OBVIOUS
<1>1. CASE TurnStart \/ SpawnTask \/ RegisterTask \/ TurnInterrupt
             \/ ClearListener \/ CloseEvents
  BY <1>1, ThreadType, ThreadStep DEF IInv
<1>2. ASSUME NEW t \in Turns,
             \/ CoordinatorBegins(t) \/ CoordinatorEnds(t) \/ CoordinatorAborts(t)
             \/ BridgeEnds(t) \/ BridgeAborts(t) \/ TaskStep(t)
      PROVE  IInv'
  <2>1. task[t] # "None"
    BY <1>2 DEF IInv, TaskOwns, Live, TaskStep, CoordinatorBegins, CoordinatorEnds,
             CoordinatorAborts, BridgeEnds, BridgeAborts, TaskStarts, JoinCoordinator,
             JoinBridge, CompletionTimeout, AbortAndJoin, SendResult,
             ClearRegistration, NotifyFailure, TaskAborts, Unstarted
  <2>2. t <= admitted
    BY <2>1, TurnsAssumption DEF IInv, TaskOwns, TypeOK, Turns
  <2> QED
    BY <1>2, <2>2, TurnType, TurnStep DEF IInv
<1>3. CASE UNCHANGED vars
  BY <1>3 DEF vars, thread, owned, IInv, TypeOK, TaskOwns, UnregisteredTurnIsCancelled,
              TaskOnFileOrAborted, ReturnedTurnRunsNothing
<1> QED
  BY <1>1, <1>2, <1>3 DEF Next

\* The invariant holds in every reachable state.
THEOREM Invariance == Spec => []IInv
<1> QED
  BY InitIInv, NextIInv, PTL DEF Spec

\* However the three steps of turn/start, a teardown and the task's own end
\* interleave, a coordinator that no interrupt can reach is cancelled already.
THEOREM NoRunWithoutOwner == Spec => []UnregisteredRunIsCancelled
<1>1. IInv => UnregisteredRunIsCancelled
  BY TurnsAssumption DEF IInv, TypeOK, TaskOwns, UnregisteredTurnIsCancelled,
                         UnregisteredRunIsCancelled, Turns, Live
<1> QED
  BY <1>1, Invariance, PTL

\* A teardown reaches every task that has not ended.
THEOREM NoTaskOutOfReach == Spec => []TaskOnFileOrAborted
<1>1. IInv => TaskOnFileOrAborted
  BY DEF IInv
<1> QED
  BY <1>1, Invariance, PTL

\* complete() returns only when the coordinator and the bridge have stopped.
THEOREM JoinedOnReturn == Spec => []ReturnedTurnRunsNothing
<1>1. IInv => ReturnedTurnRunsNothing
  BY DEF IInv
<1> QED
  BY <1>1, Invariance, PTL
=============================================================================
