--------------------- MODULE OrchestrationCleanupProofs ---------------------
(***************************************************************************)
(* Proofs about OrchestrationCleanup, for any number of tasks and handles. *)
(***************************************************************************)
EXTENDS OrchestrationCleanup, TLAPS

\* Handles are handed out in order, so the next one is fresh: this is what
\* makes OpenIffGuarded inductive.
HandlesGiven == \A o \in Owners : guard[o].handle <= cleanup.next_handle

IInv ==
    /\ TypeOK
    /\ HandlesGiven
    /\ OpenIffGuarded
    /\ CompleteIsQuiet
    /\ CauseDominates

\* Registering and settling return a cleanup record.
LEMMA WorkType ==
    ASSUME NEW c \in CleanupRecord, NEW work \in Works
    PROVE  /\ c.next_handle < MaxHandle => Register(c, work) \in CleanupRecord
           /\ \A h \in Handles : Settle(c, work, h) \in CleanupRecord
<1> USE CleanupAssumption DEF Handles
<1>1. ASSUME c.next_handle < MaxHandle PROVE Register(c, work) \in CleanupRecord
  <2>1. /\ c.next_handle + 1 \in 0..MaxHandle
        /\ [c.open EXCEPT ![work] = @ \cup {c.next_handle + 1}] \in [Works -> SUBSET Handles]
    BY <1>1 DEF CleanupRecord
  <2> QED
    BY <2>1 DEF Register, CleanupRecord
<1>2. ASSUME NEW h \in Handles PROVE Settle(c, work, h) \in CleanupRecord
  <2>1. /\ [c.open EXCEPT ![work] = @ \ {h}] \in [Works -> SUBSET Handles]
        /\ [c.settled EXCEPT ![work] = @ \cup {h}] \in [Works -> SUBSET Handles]
    BY <1>2 DEF CleanupRecord
  <2> QED
    BY <2>1 DEF Settle, CleanupRecord
<1> QED
  BY <1>1, <1>2

\* Beginning and completing return a cleanup record and touch no work.
LEMMA FinishType ==
    ASSUME NEW c \in CleanupRecord
    PROVE  /\ BeginCleanup(c) \in CleanupRecord /\ Complete(c) \in CleanupRecord
           /\ BeginCleanup(c).open = c.open /\ Complete(c).open = c.open
           /\ BeginCleanup(c).next_handle = c.next_handle
           /\ Complete(c).next_handle = c.next_handle
           /\ BeginCleanup(c).cleanup_complete = c.cleanup_complete
BY DEF BeginCleanup, Complete, CleanupRecord

\* Init establishes the invariant.
LEMMA InitIInv == Init => IInv
<1> SUFFICES ASSUME Init PROVE IInv
  OBVIOUS
<1> USE CleanupAssumption DEF Init, NewCleanup, NewCause, NoGuard
<1>1. TypeOK
  BY DEF TypeOK, CleanupRecord, CauseState, Guards, FailureKinds, NoCause
<1>2. HandlesGiven
  BY DEF HandlesGiven
<1>3. OpenIffGuarded
  BY DEF OpenIffGuarded, Works
<1>4. CompleteIsQuiet /\ CauseDominates
  BY DEF CompleteIsQuiet, CauseDominates
<1> QED
  BY <1>1, <1>2, <1>3, <1>4 DEF IInv

\* A task registers work: the handle is fresh and cleanup has not begun.
LEMMA TakeGuardIInv ==
    ASSUME IInv, NEW o \in Owners, NEW work \in Works, TakeGuard(o, work)
    PROVE  IInv'
<1> USE CleanupAssumption
<1> DEFINE h == cleanup.next_handle + 1
<1>1. /\ cleanup \in CleanupRecord /\ guard \in [Owners -> Guards]
      /\ guard[o] = NoGuard /\ ~cleanup.cleanup_complete
      /\ cleanup.next_handle \in 0..MaxHandle /\ cleanup.next_handle < MaxHandle
      /\ cleanup' = Register(cleanup, work)
      /\ guard' = [guard EXCEPT ![o] = [work |-> work, handle |-> h]]
      /\ UNCHANGED <<cause, finishing, submitted>>
  BY DEF IInv, TypeOK, TakeGuard, CanRegister, CleanupRecord
<1>2. h \in Handles /\ h \in Nat
  BY <1>1 DEF Handles
<1>3. /\ cleanup'.next_handle = h
      /\ cleanup'.open = [cleanup.open EXCEPT ![work] = @ \cup {h}]
      /\ cleanup'.cleanup_complete = cleanup.cleanup_complete
      /\ cleanup.open \in [Works -> SUBSET Handles]
  BY <1>1 DEF Register, CleanupRecord
<1>4. \A p \in Owners : guard[p].handle \in Nat /\ guard[p].handle < h
  BY <1>1, <1>2 DEF IInv, HandlesGiven, Guards, NoGuard, Handles
<1>5. TypeOK'
  <2>1. guard' \in [Owners -> Guards]
    BY <1>1, <1>2 DEF Guards
  <2> QED
    BY <1>1, <2>1, WorkType DEF IInv, TypeOK
<1>6. HandlesGiven'
  BY <1>1, <1>2, <1>3, <1>4 DEF HandlesGiven
<1>7. OpenIffGuarded'
  <2>1. ASSUME NEW w \in Works, NEW k \in Handles
        PROVE  k \in cleanup'.open[w]
                   <=> \E p \in Owners : guard'[p] = [work |-> w, handle |-> k]
    <3>1. k \in cleanup.open[w] <=> \E p \in Owners : guard[p] = [work |-> w, handle |-> k]
      BY DEF IInv, OpenIffGuarded
    <3>2. k \in cleanup'.open[w] <=> k \in cleanup.open[w] \/ (w = work /\ k = h)
      BY <1>1, <1>3
    <3>3. \A p \in Owners \ {o} : guard'[p] = guard[p]
      BY <1>1
    <3>4. guard'[o] = [work |-> work, handle |-> h]
      BY <1>1
    <3>5. guard[o] # [work |-> w, handle |-> k]
      BY <1>1 DEF NoGuard, Handles
    <3>6. guard'[o] = [work |-> w, handle |-> k] <=> w = work /\ k = h
      BY <3>4
    <3> QED
      BY <3>1, <3>2, <3>3, <3>5, <3>6
  <2>2. ASSUME NEW p \in Owners, NEW q \in Owners,
               guard'[p] # NoGuard, guard'[p].handle = guard'[q].handle
        PROVE  p = q
    BY <1>1, <1>2, <1>4, <2>2 DEF IInv, OpenIffGuarded
  <2> QED
    BY <2>1, <2>2 DEF OpenIffGuarded
<1>8. CompleteIsQuiet'
  BY <1>1, <1>3 DEF CompleteIsQuiet
<1>9. CauseDominates'
  BY <1>1 DEF IInv, CauseDominates
<1> QED
  BY <1>5, <1>6, <1>7, <1>8, <1>9 DEF IInv

\* A task gives its work back: only its own handle is settled.
LEMMA ReleaseIInv ==
    ASSUME IInv, NEW o \in Owners, Release(o)
    PROVE  IInv'
<1> USE CleanupAssumption
<1> DEFINE work == guard[o].work
           h == guard[o].handle
<1>1. /\ cleanup \in CleanupRecord /\ guard \in [Owners -> Guards]
      /\ guard[o] # NoGuard
      /\ cleanup' = Settle(cleanup, work, h)
      /\ guard' = [guard EXCEPT ![o] = NoGuard]
      /\ UNCHANGED <<cause, finishing, submitted>>
  BY DEF IInv, TypeOK, Release
<1>2. work \in Works /\ h \in Handles /\ guard[o] = [work |-> work, handle |-> h]
  BY <1>1 DEF Guards
<1>3. /\ cleanup'.next_handle = cleanup.next_handle
      /\ cleanup'.open = [cleanup.open EXCEPT ![work] = @ \ {h}]
      /\ cleanup'.cleanup_complete = cleanup.cleanup_complete
      /\ cleanup.open \in [Works -> SUBSET Handles]
      /\ cleanup.next_handle \in 0..MaxHandle
  BY <1>1 DEF Settle, CleanupRecord
<1>4. ~cleanup.cleanup_complete
  BY <1>1 DEF IInv, CompleteIsQuiet
<1>5. TypeOK'
  <2>1. guard' \in [Owners -> Guards]
    BY <1>1 DEF Guards
  <2> QED
    BY <1>1, <1>2, <2>1, WorkType DEF IInv, TypeOK
<1>6. HandlesGiven'
  BY <1>1, <1>3 DEF IInv, HandlesGiven, NoGuard
<1>7. OpenIffGuarded'
  <2>1. ASSUME NEW w \in Works, NEW k \in Handles
        PROVE  k \in cleanup'.open[w]
                   <=> \E p \in Owners : guard'[p] = [work |-> w, handle |-> k]
    <3>1. k \in cleanup.open[w] <=> \E p \in Owners : guard[p] = [work |-> w, handle |-> k]
      BY DEF IInv, OpenIffGuarded
    <3>2. k \in cleanup'.open[w] <=> k \in cleanup.open[w] /\ ~(w = work /\ k = h)
      BY <1>2, <1>3
    <3>3. \A p \in Owners \ {o} : guard'[p] = guard[p]
      BY <1>1
    <3>4. guard'[o] # [work |-> w, handle |-> k]
      BY <1>1 DEF NoGuard, Handles
    <3>5. guard[o] = [work |-> w, handle |-> k] <=> w = work /\ k = h
      BY <1>2
    <3>6. ASSUME NEW p \in Owners \ {o}, guard[p] = [work |-> w, handle |-> k],
                 w = work, k = h
          PROVE  FALSE
      <4>1. guard[o].handle = guard[p].handle
        BY <3>6
      <4> QED
        BY <1>1, <3>6, <4>1 DEF IInv, OpenIffGuarded
    <3> QED
      BY <3>1, <3>2, <3>3, <3>4, <3>5, <3>6
  <2>2. ASSUME NEW p \in Owners, NEW q \in Owners,
               guard'[p] # NoGuard, guard'[p].handle = guard'[q].handle
        PROVE  p = q
    <3>1. p # o /\ guard'[p] = guard[p]
      BY <1>1, <2>2
    <3>2. guard[p].handle # 0
      BY <1>1, <2>2, <3>1 DEF Guards, Handles
    <3>3. q # o /\ guard'[q] = guard[q]
      BY <1>1, <2>2, <3>1, <3>2 DEF NoGuard
    <3> QED
      BY <2>2, <3>1, <3>3 DEF IInv, OpenIffGuarded
  <2> QED
    BY <2>1, <2>2 DEF OpenIffGuarded
<1>8. CompleteIsQuiet'
  BY <1>3, <1>4 DEF CompleteIsQuiet
<1>9. CauseDominates'
  BY <1>1 DEF IInv, CauseDominates
<1> QED
  BY <1>5, <1>6, <1>7, <1>8, <1>9 DEF IInv

\* Whatever is submitted, the accepted cause outranks it.
LEMMA SubmitIInv ==
    ASSUME IInv, NEW o \in Owners, NEW kind \in FailureKinds, SubmitFailure(o, kind)
    PROVE  IInv'
<1>1. /\ cause \in CauseState /\ submitted \subseteq FailureKinds
      /\ cause' = Submit(cause, GenerationOf[o], kind)
      /\ submitted' = IF GenerationOf[o] = OwnGeneration /\ ~cause.frozen
                      THEN submitted \cup {kind} ELSE submitted
      /\ UNCHANGED <<cleanup, guard, finishing>>
  BY DEF IInv, TypeOK, SubmitFailure
<1>2. TypeOK'
  <2>1. cause' \in CauseState
    BY <1>1 DEF Submit, CauseState
  <2> QED
    BY <1>1, <2>1 DEF IInv, TypeOK
<1>3. HandlesGiven' /\ OpenIffGuarded' /\ CompleteIsQuiet'
  BY <1>1 DEF IInv, HandlesGiven, OpenIffGuarded, CompleteIsQuiet
<1>4. CauseDominates'
  <2>1. CASE ~(GenerationOf[o] = OwnGeneration /\ ~cause.frozen)
    BY <1>1, <2>1 DEF Submit, IInv, CauseDominates
  <2>2. CASE GenerationOf[o] = OwnGeneration /\ ~cause.frozen
    <3>1. submitted' = submitted \cup {kind}
      BY <1>1, <2>2
    <3>2. \A k \in FailureKinds : cause_priority[k] \in Nat
      BY DEF cause_priority, FailureKinds
    <3>3. CASE cause.accepted = NoCause
      <4>1. cause'.accepted = kind /\ submitted' = {kind}
        BY <1>1, <2>2, <3>1, <3>3 DEF Submit, CauseState, IInv, CauseDominates
      <4> QED
        BY <3>2, <4>1 DEF CauseDominates, NoCause, FailureKinds
    <3>4. CASE cause.accepted # NoCause /\ Replaces(cause.accepted, kind)
      <4>1. cause'.accepted = kind
        BY <1>1, <2>2, <3>4 DEF Submit, CauseState
      <4>2. kind # NoCause
        BY DEF NoCause, FailureKinds
      <4>3. ASSUME NEW k \in submitted
            PROVE  \/ cause_priority[k] <= cause_priority[kind]
                   \/ kind = "TotalTimedOut" /\ k = "UserCancelled"
        <5>1. /\ cause_priority[k] \in Nat /\ cause_priority[kind] \in Nat
              /\ cause_priority[cause.accepted] \in Nat
          BY <1>1, <3>2, <3>4 DEF CauseState
        <5>2. /\ cause_priority[kind] > cause_priority[cause.accepted]
              /\ ~(cause.accepted = "TotalTimedOut" /\ kind = "UserCancelled")
          BY <3>4 DEF Replaces
        <5>3. \/ cause_priority[k] <= cause_priority[cause.accepted]
              \/ cause.accepted = "TotalTimedOut" /\ k = "UserCancelled"
          BY <3>4 DEF IInv, CauseDominates
        <5>4. CASE cause_priority[k] <= cause_priority[cause.accepted]
          BY <5>1, <5>2, <5>4
        <5>5. CASE cause.accepted = "TotalTimedOut" /\ k = "UserCancelled"
          BY <5>2, <5>5 DEF cause_priority, FailureKinds
        <5> QED
          BY <5>3, <5>4, <5>5
      <4> QED
        BY <3>1, <3>2, <4>1, <4>2, <4>3 DEF CauseDominates
    <3>5. CASE cause.accepted # NoCause /\ ~Replaces(cause.accepted, kind)
      <4>1. cause'.accepted = cause.accepted
        BY <1>1, <3>5 DEF Submit
      <4>2. \/ cause_priority[kind] <= cause_priority[cause.accepted]
            \/ cause.accepted = "TotalTimedOut" /\ kind = "UserCancelled"
        BY <1>1, <3>2, <3>5 DEF Replaces, CauseState
      <4> QED
        BY <3>1, <3>5, <4>1, <4>2 DEF IInv, CauseDominates
    <3> QED
      BY <3>3, <3>4, <3>5
  <2> QED
    BY <2>1, <2>2
<1> QED
  BY <1>2, <1>3, <1>4 DEF IInv

\* finish_outcome: completing is only possible when nothing is open.
LEMMA FinishIInv ==
    ASSUME IInv, BeginFinish \/ FreezeFailure \/ CompleteFinish \/ FailFinish
    PROVE  IInv'
<1>1. /\ cleanup \in CleanupRecord /\ cause \in CauseState /\ guard \in [Owners -> Guards]
      /\ UNCHANGED <<guard, submitted>>
  BY DEF IInv, TypeOK, BeginFinish, FreezeFailure, CompleteFinish, FailFinish
<1>2. cleanup' \in {cleanup, BeginCleanup(cleanup), Complete(cleanup)}
  BY DEF BeginFinish, FreezeFailure, CompleteFinish, FailFinish
<1>3. cleanup'.open = cleanup.open /\ cleanup'.next_handle = cleanup.next_handle
  BY <1>1, <1>2, FinishType
<1>4. cause' \in CauseState /\ cause'.accepted = cause.accepted
  BY <1>1 DEF BeginFinish, FreezeFailure, CompleteFinish, FailFinish, Freeze, CauseState
<1>5. TypeOK'
  BY <1>1, <1>2, <1>4, FinishType
     DEF IInv, TypeOK, BeginFinish, FreezeFailure, CompleteFinish, FailFinish
<1>6. HandlesGiven' /\ OpenIffGuarded'
  BY <1>1, <1>3 DEF IInv, HandlesGiven, OpenIffGuarded
<1>7. CompleteIsQuiet'
  <2>1. CASE ~CompleteFinish
    <3>1. cleanup'.cleanup_complete = cleanup.cleanup_complete
      BY <1>1, <2>1, FinishType DEF BeginFinish, FreezeFailure, FailFinish
    <3> QED
      BY <1>1, <1>3, <3>1 DEF IInv, CompleteIsQuiet
  <2>2. CASE CompleteFinish
    <3>1. \A work \in Works : cleanup.open[work] = {}
      BY <2>2 DEF CompleteFinish, CanComplete, IInv, CompleteIsQuiet
    <3>2. ASSUME NEW o \in Owners PROVE guard[o] = NoGuard
      <4> SUFFICES ASSUME guard[o] # NoGuard PROVE FALSE
        OBVIOUS
      <4>1. PICK work \in Works, h \in Handles : guard[o] = [work |-> work, handle |-> h]
        BY <1>1 DEF Guards
      <4>2. h \in cleanup.open[work]
        BY <4>1 DEF IInv, OpenIffGuarded
      <4> QED
        BY <3>1, <4>2
    <3> QED
      BY <1>1, <1>3, <3>1, <3>2 DEF CompleteIsQuiet
  <2> QED
    BY <2>1, <2>2
<1>8. CauseDominates'
  BY <1>1, <1>4 DEF IInv, CauseDominates
<1> QED
  BY <1>5, <1>6, <1>7, <1>8 DEF IInv

\* Every step preserves the invariant.
LEMMA NextIInv == IInv /\ [Next]_vars => IInv'
<1> SUFFICES ASSUME IInv, [Next]_vars PROVE IInv'
  OBVIOUS
<1>1. CASE \E o \in Owners, work \in Works : TakeGuard(o, work)
  BY <1>1, TakeGuardIInv
<1>2. CASE \E o \in Owners : Release(o)
  BY <1>2, ReleaseIInv
<1>3. CASE \E o \in Owners, kind \in FailureKinds : SubmitFailure(o, kind)
  BY <1>3, SubmitIInv
<1>4. CASE BeginFinish \/ FreezeFailure \/ CompleteFinish \/ FailFinish
  BY <1>4, FinishIInv
<1>5. CASE UNCHANGED vars
  BY <1>5 DEF vars, IInv, TypeOK, HandlesGiven, OpenIffGuarded, CompleteIsQuiet, CauseDominates
<1> QED
  BY <1>1, <1>2, <1>3, <1>4, <1>5 DEF Next

-----------------------------------------------------------------------------
\* IInv holds in every reachable state.
THEOREM Invariance == Spec => []IInv
BY InitIInv, NextIInv, PTL DEF Spec

\* The records, guards and history are well typed: no handle overflows.
THEOREM TypeCorrect == Spec => []TypeOK
BY Invariance, PTL DEF IInv

\* Open work is guarded work: no Drop settles another task's handle and no
\* handle is orphaned.
THEOREM NoOrphans == Spec => []OpenIffGuarded
BY Invariance, PTL DEF IInv

\* After complete() returned Ok nothing of the run is left.
THEOREM QuietWhenComplete == Spec => []CompleteIsQuiet
BY Invariance, PTL DEF IInv

\* The arbiter's choice does not depend on the order in which tasks report,
\* but for the timeout that triggered a cancellation.
THEOREM StrongestCause == Spec => []CauseDominates
BY Invariance, PTL DEF IInv

-----------------------------------------------------------------------------
\* The reported cause is the frozen one, and before that it only rises.
THEOREM CauseMonotone == Spec => CauseOnlyRises
<1> DEFINE A == cause'.accepted # cause.accepted =>
                    /\ ~cause.frozen
                    /\ cause.accepted # NoCause =>
                          cause_priority[cause'.accepted] > cause_priority[cause.accepted]
<1>1. IInv /\ [Next]_vars => [A]_vars
  <2> SUFFICES ASSUME IInv, Next, cause'.accepted # cause.accepted
               PROVE  /\ ~cause.frozen
                      /\ cause.accepted # NoCause =>
                            cause_priority[cause'.accepted] > cause_priority[cause.accepted]
    OBVIOUS
  <2>1. cause \in CauseState
    BY DEF IInv, TypeOK
  <2>2. ASSUME NEW o \in Owners, NEW kind \in FailureKinds, SubmitFailure(o, kind)
        PROVE  /\ ~cause.frozen
               /\ cause.accepted # NoCause =>
                     cause_priority[cause'.accepted] > cause_priority[cause.accepted]
    BY <2>1, <2>2 DEF SubmitFailure, Submit, Replaces, CauseState
  <2>3. CASE BeginFinish \/ FreezeFailure \/ CompleteFinish \/ FailFinish
    BY <2>1, <2>3 DEF BeginFinish, FreezeFailure, CompleteFinish, FailFinish, Freeze, CauseState
  <2>4. CASE \E o \in Owners : Release(o) \/ \E work \in Works : TakeGuard(o, work)
    BY <2>4 DEF Release, TakeGuard
  <2> QED
    BY <2>2, <2>3, <2>4 DEF Next
<1> QED
  BY <1>1, Invariance, PTL DEF Spec, CauseOnlyRises
=============================================================================
