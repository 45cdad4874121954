----------------------- MODULE SessionExecutionProofs -----------------------
(***************************************************************************)
(* The safety properties of SessionExecution for every number of runs,     *)
(* re-routing callers, modes, strategies and profiles, and every last      *)
(* generation.  The inductive invariant adds to the checked properties     *)
(* what an abandoned run leaves behind, that an unheld session is free,    *)
(* and which generations have been issued.                                 *)
(***************************************************************************)
EXTENDS SessionExecution, TLAPS

Held(p) == p \in LivePcs \cup {"abandoned"}

\* An abandoned run leaves the session as its last call did.
AbandonedKeepsSession ==
    \A r \in Runs : pc[r] = "abandoned" =>
        /\ session.active_generation = generation[r]
        /\ session.status \in ActiveStatuses

OneHolder == \A r, q \in Runs : Held(pc[r]) /\ Held(pc[q]) => r = q

FreeWhenUnheld ==
    (\A r \in Runs : ~Held(pc[r])) =>
        /\ session.active_generation = NoGeneration
        /\ session.status \notin ActiveStatuses

\* Exactly the runs that began have a generation, and it has been issued.
GenerationsIssued ==
    \A r \in Runs :
        /\ generation[r] <= session.next_generation
        /\ generation[r] # NoGeneration <=> Held(pc[r]) \/ pc[r] = "done"

\* From mark_policy_valid to the end of the run the policy stays valid.
ValidatedBeforeRunning ==
    /\ \A r \in Runs : pc[r] = "valid" => session.validation = "Valid"
    /\ RunningIsValidated

IInv ==
    /\ TypeOK
    /\ LiveRunOwnsSession
    /\ AbandonedKeepsSession
    /\ OneHolder
    /\ FreeWhenUnheld
    /\ GenerationsIssued
    /\ GenerationsUnique
    /\ RoutingUpdateExcludesRuns
    /\ ValidatedBeforeRunning

-----------------------------------------------------------------------------
\* "No generation" is a value the generation fields may have.
LEMMA NoGenerationInRange == NoGeneration \in 0..MaxGeneration
  BY SessionAssumption DEF NoGeneration

\* begin_run keeps the session a session while a generation is left.
LEMMA BeginRunType ==
  ASSUME NEW s \in SessionExecutionInner, GenerationLeft(s)
  PROVE  BeginRun(s) \in SessionExecutionInner
  <1>1. s.next_generation + 1 \in 0..MaxGeneration
    BY SessionAssumption DEF SessionExecutionInner, GenerationLeft
  <1> QED
    BY <1>1 DEF SessionExecutionInner, BeginRun, SessionExecutionStatus, ActiveStatuses

\* So does terminalize_generation, whatever the status it is asked for.
LEMMA TerminalizeType ==
  ASSUME NEW s \in SessionExecutionInner, NEW next \in SessionExecutionStatus
  PROVE  TerminalizeGeneration(s, next) \in SessionExecutionInner
  BY NoGenerationInRange DEF SessionExecutionInner, TerminalizeGeneration

\* So do mark_timed_out_after_cleanup and reset_to_idle.
LEMMA ReleaseType ==
  ASSUME NEW s \in SessionExecutionInner
  PROVE  /\ MarkTimedOutAfterCleanup(s) \in SessionExecutionInner
         /\ ResetToIdle(s) \in SessionExecutionInner
  BY NoGenerationInRange DEF SessionExecutionInner, MarkTimedOutAfterCleanup, ResetToIdle,
     SessionExecutionStatus, TerminalStatuses

\* A new session satisfies the invariant.
LEMMA InitIInv == Init => IInv
  <1> SUFFICES ASSUME Init PROVE IInv
    OBVIOUS
  <1> USE SessionAssumption DEF Init, NewSession, NoGeneration
  <1>1. TypeOK
    BY DEF TypeOK, SessionExecutionInner, SessionExecutionStatus, Pcs
  <1>2. /\ LiveRunOwnsSession /\ AbandonedKeepsSession /\ OneHolder
        /\ FreeWhenUnheld /\ GenerationsIssued /\ GenerationsUnique
    BY DEF LiveRunOwnsSession, AbandonedKeepsSession, OneHolder, FreeWhenUnheld,
           GenerationsIssued, GenerationsUnique, Held, LivePcs, ActiveStatuses
  <1>3. RoutingUpdateExcludesRuns /\ ValidatedBeforeRunning
    BY DEF RoutingUpdateExcludesRuns, ValidatedBeforeRunning, RunningIsValidated
  <1> QED BY <1>1, <1>2, <1>3 DEF IInv

\* Every step keeps the types: one case for the calls that move the generation
\* counters, one for those that only assign a field.
LEMMA NextTypeOK == TypeOK /\ [Next]_vars => TypeOK'
  <1> SUFFICES ASSUME TypeOK, [Next]_vars PROVE TypeOK'
    OBVIOUS
  <1> USE DEF TypeOK, Pcs, LivePcs, Goto
  <1>1. ASSUME NEW r \in Runs, Begin(r) PROVE TypeOK'
    <2>1. session' \in SessionExecutionInner
      BY <1>1, BeginRunType DEF Begin
    <2>2. session'.active_generation \in 0..MaxGeneration
      BY <2>1 DEF SessionExecutionInner
    <2> QED BY <1>1, <2>1, <2>2 DEF Begin
  <1>2. ASSUME NEW r \in Runs, Refuse(r) \/ Exhaust(r) \/ Abandon(r) PROVE TypeOK'
    BY <1>2 DEF Refuse, Exhaust, Abandon
  <1>3. ASSUME NEW r \in Runs,
               \/ PreExecutionFailure(r) \/ StartCancelling(r) \/ FinishCancelling(r)
               \/ \E status \in TerminalStatuses : Finish(r, status)
        PROVE  TypeOK'
    <2>1. PICK next \in SessionExecutionStatus : session' = TerminalizeGeneration(session, next)
      BY <1>3 DEF PreExecutionFailure, StartCancelling, FinishCancelling, Finish,
         SessionExecutionStatus, TerminalStatuses, ActiveStatuses
    <2>2. session' \in SessionExecutionInner
      BY <2>1, TerminalizeType
    <2> QED
      BY <1>3, <2>2 DEF PreExecutionFailure, StartCancelling, FinishCancelling, Finish
  <1>4. ASSUME NEW r \in Runs, LateTimeout(r) PROVE TypeOK'
    BY <1>4, ReleaseType DEF LateTimeout
  <1>5. ASSUME Reset PROVE TypeOK'
    BY <1>5, ReleaseType DEF Reset
  <1>6. ASSUME NEW r \in Runs, EnterValidating(r) \/ EnterRunning(r) PROVE TypeOK'
    BY <1>6 DEF EnterValidating, EnterRunning, Transition, SessionExecutionInner,
       SessionExecutionStatus, ActiveStatuses
  <1>7. ASSUME NEW r \in Runs, MarkValid(r) \/ MarkInvalid(r) PROVE TypeOK'
    BY <1>7 DEF MarkValid, MarkInvalid, MarkPolicyValid, MarkPolicyInvalid, SessionExecutionInner
  <1>8. ASSUME NEW mode \in Modes, ChooseMode(mode) PROVE TypeOK'
    BY <1>8 DEF ChooseMode, CanSelectMode, SelectMode, SessionExecutionInner
  <1>9. ASSUME NEW strategy \in Strategies, ChooseStrategy(strategy) PROVE TypeOK'
    BY <1>9 DEF ChooseStrategy, CanSelectStrategy, SelectStrategy, SessionExecutionInner
  <1>10. ASSUME NEW profile \in Profiles, ChooseRoutingProfile(profile) PROVE TypeOK'
    BY <1>10 DEF ChooseRoutingProfile, SelectRoutingProfile, SessionExecutionInner
  <1>11. ASSUME NEW u \in Updaters, TakeRoutingGuard(u) \/ DropRoutingGuard(u) PROVE TypeOK'
    BY <1>11 DEF TakeRoutingGuard, DropRoutingGuard, BeginRoutingUpdate,
       DropRoutingUpdateGuard, SessionExecutionInner
  <1>12. ASSUME UNCHANGED vars PROVE TypeOK'
    BY <1>12 DEF vars
  <1> QED
    BY <1>1, <1>2, <1>3, <1>4, <1>5, <1>6, <1>7, <1>8, <1>9, <1>10, <1>11, <1>12
    DEF Next, RunStep

\* Every step of a run, an updater or the user preserves the invariant.
LEMMA NextIInv == IInv /\ [Next]_vars => IInv'
  <1> SUFFICES ASSUME IInv, [Next]_vars PROVE IInv'
    OBVIOUS
  <1>0. TypeOK'
    BY NextTypeOK DEF IInv
  <1> USE SessionAssumption
      DEF IInv, TypeOK, SessionExecutionInner, SessionExecutionStatus, Pcs, LivePcs,
          ActiveStatuses, TerminalStatuses, NoGeneration, LiveRunOwnsSession,
          AbandonedKeepsSession, OneHolder, FreeWhenUnheld, GenerationsIssued,
          GenerationsUnique, RoutingUpdateExcludesRuns, ValidatedBeforeRunning,
          RunningIsValidated, Held, StatusAt, Goto
  <1>1. ASSUME NEW r \in Runs, Begin(r) PROVE IInv'
    <2> USE <1>1 DEF Begin, Available, GenerationLeft, BeginRun
    <2>1. TypeOK'
      BY <1>0
    <2>2. LiveRunOwnsSession' /\ AbandonedKeepsSession'
      OBVIOUS
    <2>3. OneHolder' /\ FreeWhenUnheld'
      OBVIOUS
    <2>4. GenerationsIssued' /\ GenerationsUnique'
      OBVIOUS
    <2>5. RoutingUpdateExcludesRuns'
      OBVIOUS
    <2>6. ValidatedBeforeRunning'
      OBVIOUS
    <2> QED BY <2>1, <2>2, <2>3, <2>4, <2>5, <2>6
  <1>2. ASSUME NEW r \in Runs, Refuse(r) PROVE IInv'
    BY <1>0, <1>2 DEF Refuse
  <1>3. ASSUME NEW r \in Runs, Exhaust(r) PROVE IInv'
    BY <1>0, <1>3 DEF Exhaust
  <1>4. ASSUME NEW r \in Runs, EnterValidating(r) PROVE IInv'
    BY <1>0, <1>4 DEF EnterValidating, CanTransition, Transition
  <1>5. ASSUME NEW r \in Runs, PreExecutionFailure(r) PROVE IInv'
    <2> USE <1>5 DEF PreExecutionFailure, TerminalizeGeneration
    <2>1. TypeOK'
      BY <1>0
    <2>2. LiveRunOwnsSession' /\ AbandonedKeepsSession'
      OBVIOUS
    <2>3. OneHolder' /\ FreeWhenUnheld'
      OBVIOUS
    <2>4. GenerationsIssued' /\ GenerationsUnique'
      OBVIOUS
    <2>5. RoutingUpdateExcludesRuns'
      OBVIOUS
    <2>6. ValidatedBeforeRunning'
      OBVIOUS
    <2> QED BY <2>1, <2>2, <2>3, <2>4, <2>5, <2>6
  <1>6. ASSUME NEW r \in Runs, MarkValid(r) PROVE IInv'
    BY <1>0, <1>6 DEF MarkValid, MarkPolicyValid
  <1>7. ASSUME NEW r \in Runs, EnterRunning(r) PROVE IInv'
    BY <1>0, <1>7 DEF EnterRunning, Transition
  <1>8. ASSUME NEW r \in Runs, NEW status \in TerminalStatuses, Finish(r, status) PROVE IInv'
    <2> USE <1>8 DEF Finish, TerminalizeGeneration
    <2>1. TypeOK'
      BY <1>0
    <2>2. LiveRunOwnsSession' /\ AbandonedKeepsSession'
      OBVIOUS
    <2>3. OneHolder' /\ FreeWhenUnheld'
      OBVIOUS
    <2>4. GenerationsIssued' /\ GenerationsUnique'
      OBVIOUS
    <2>5. RoutingUpdateExcludesRuns'
      OBVIOUS
    <2>6. ValidatedBeforeRunning'
      OBVIOUS
    <2> QED BY <2>1, <2>2, <2>3, <2>4, <2>5, <2>6
  <1>9. ASSUME NEW r \in Runs, StartCancelling(r) PROVE IInv'
    <2> USE <1>9 DEF StartCancelling, TerminalizeGeneration
    <2>1. TypeOK'
      BY <1>0
    <2>2. LiveRunOwnsSession' /\ AbandonedKeepsSession'
      OBVIOUS
    <2>3. OneHolder' /\ FreeWhenUnheld'
      OBVIOUS
    <2>4. GenerationsIssued' /\ GenerationsUnique'
      OBVIOUS
    <2>5. RoutingUpdateExcludesRuns'
      OBVIOUS
    <2>6. ValidatedBeforeRunning'
      OBVIOUS
    <2> QED BY <2>1, <2>2, <2>3, <2>4, <2>5, <2>6
  <1>10. ASSUME NEW r \in Runs, FinishCancelling(r) PROVE IInv'
    <2> USE <1>10 DEF FinishCancelling, TerminalizeGeneration
    <2>1. TypeOK'
      BY <1>0
    <2>2. LiveRunOwnsSession' /\ AbandonedKeepsSession'
      OBVIOUS
    <2>3. OneHolder' /\ FreeWhenUnheld'
      OBVIOUS
    <2>4. GenerationsIssued' /\ GenerationsUnique'
      OBVIOUS
    <2>5. RoutingUpdateExcludesRuns'
      OBVIOUS
    <2>6. ValidatedBeforeRunning'
      OBVIOUS
    <2> QED BY <2>1, <2>2, <2>3, <2>4, <2>5, <2>6
  <1>11. ASSUME NEW r \in Runs, Abandon(r) PROVE IInv'
    BY <1>0, <1>11 DEF Abandon
  <1>12. ASSUME NEW r \in Runs, MarkInvalid(r) PROVE IInv'
    BY <1>0, <1>12 DEF MarkInvalid, MarkPolicyInvalid
  <1>13. ASSUME NEW r \in Runs, LateTimeout(r) PROVE IInv'
    <2> USE <1>13 DEF LateTimeout, CanMarkTimedOutAfterCleanup, MarkTimedOutAfterCleanup
    <2>1. TypeOK'
      BY <1>0
    <2>2. LiveRunOwnsSession' /\ AbandonedKeepsSession'
      OBVIOUS
    <2>3. OneHolder' /\ FreeWhenUnheld'
      OBVIOUS
    <2>4. GenerationsIssued' /\ GenerationsUnique'
      OBVIOUS
    <2>5. RoutingUpdateExcludesRuns'
      OBVIOUS
    <2>6. ValidatedBeforeRunning'
      OBVIOUS
    <2> QED BY <2>1, <2>2, <2>3, <2>4, <2>5, <2>6
  <1>14. ASSUME NEW mode \in Modes, ChooseMode(mode) PROVE IInv'
    BY <1>0, <1>14 DEF ChooseMode, CanSelectMode, EnsureIdle, SelectMode
  <1>15. ASSUME NEW strategy \in Strategies, ChooseStrategy(strategy) PROVE IInv'
    BY <1>0, <1>15 DEF ChooseStrategy, CanSelectStrategy, EnsureIdle, SelectStrategy
  <1>16. ASSUME NEW profile \in Profiles, ChooseRoutingProfile(profile) PROVE IInv'
    BY <1>0, <1>16 DEF ChooseRoutingProfile, CanSelectRoutingProfile, EnsureIdle, SelectRoutingProfile
  <1>17. ASSUME NEW u \in Updaters, TakeRoutingGuard(u) PROVE IInv'
    <2> USE <1>17 DEF TakeRoutingGuard, CanBeginRoutingUpdate, BeginRoutingUpdate
    <2>1. TypeOK'
      BY <1>0
    <2>2. LiveRunOwnsSession' /\ AbandonedKeepsSession'
      OBVIOUS
    <2>3. OneHolder' /\ FreeWhenUnheld'
      OBVIOUS
    <2>4. GenerationsIssued' /\ GenerationsUnique'
      OBVIOUS
    <2>5. RoutingUpdateExcludesRuns'
      OBVIOUS
    <2>6. ValidatedBeforeRunning'
      OBVIOUS
    <2> QED BY <2>1, <2>2, <2>3, <2>4, <2>5, <2>6
  <1>18. ASSUME NEW u \in Updaters, DropRoutingGuard(u) PROVE IInv'
    <2> USE <1>18 DEF DropRoutingGuard, DropRoutingUpdateGuard
    <2>1. TypeOK'
      BY <1>0
    <2>2. LiveRunOwnsSession' /\ AbandonedKeepsSession'
      OBVIOUS
    <2>3. OneHolder' /\ FreeWhenUnheld'
      OBVIOUS
    <2>4. GenerationsIssued' /\ GenerationsUnique'
      OBVIOUS
    <2>5. RoutingUpdateExcludesRuns'
      OBVIOUS
    <2>6. ValidatedBeforeRunning'
      OBVIOUS
    <2> QED BY <2>1, <2>2, <2>3, <2>4, <2>5, <2>6
  <1>19. ASSUME Reset PROVE IInv'
    BY <1>0, <1>19 DEF Reset, CanResetToIdle, ResetToIdle
  <1>20. ASSUME UNCHANGED vars PROVE IInv'
    BY <1>0, <1>20 DEF vars
  <1> QED
    BY <1>1, <1>2, <1>3, <1>4, <1>5, <1>6, <1>7, <1>8, <1>9, <1>10, <1>11, <1>12,
       <1>13, <1>14, <1>15, <1>16, <1>17, <1>18, <1>19, <1>20
    DEF Next, RunStep

-----------------------------------------------------------------------------
\* The inductive invariant holds in every reachable state.
THEOREM Invariance == Spec => []IInv
  BY InitIInv, NextIInv, PTL DEF Spec

\* Type correctness: in particular the generation counter never passes u64::MAX.
THEOREM TypeCorrect == Spec => []TypeOK
  <1>1. IInv => TypeOK
    BY DEF IInv
  <1> QED BY <1>1, Invariance, PTL

\* A live run owns the session it began on, whatever the others do.
THEOREM Ownership == Spec => []LiveRunOwnsSession
  <1>1. IInv => LiveRunOwnsSession
    BY DEF IInv
  <1> QED BY <1>1, Invariance, PTL

\* Never two holders, and active exactly while held.
THEOREM MutualExclusion == Spec => []ActiveIffHeld
  <1>1. ASSUME IInv PROVE ActiveIffHeld
    <2>1. \A r, q \in Holders : r = q
      BY <1>1 DEF IInv, OneHolder, Holders, Held
    <2>2. ASSUME NEW r \in Holders
          PROVE  session.active_generation # NoGeneration /\ session.status \in ActiveStatuses
      <3>1. session.active_generation = generation[r] /\ generation[r] # NoGeneration
        BY <1>1, <2>2 DEF IInv, Holders, Held, LiveRunOwnsSession, AbandonedKeepsSession,
           GenerationsIssued
      <3>2. session.status \in ActiveStatuses
        BY <1>1, <2>2 DEF IInv, Holders, LivePcs, LiveRunOwnsSession, AbandonedKeepsSession,
           StatusAt, ActiveStatuses
      <3> QED BY <3>1, <3>2
    <2>3. Holders = {} => /\ session.active_generation = NoGeneration
                          /\ session.status \notin ActiveStatuses
      BY <1>1 DEF IInv, FreeWhenUnheld, Holders, Held
    <2> QED BY <2>1, <2>2, <2>3 DEF ActiveIffHeld
  <1> QED BY <1>1, Invariance, PTL

\* A run that has ended can no longer move the session.
THEOREM StaleRunsPowerless == Spec => []EndedRunsAreStale
  <1>1. ASSUME IInv PROVE EndedRunsAreStale
    <2> SUFFICES ASSUME NEW r \in Runs, pc[r] = "done"
                 PROVE  session.active_generation # generation[r]
      BY DEF EndedRunsAreStale, CanTerminalizeGeneration
    <2>1. generation[r] # NoGeneration /\ ~Held(pc[r])
      BY <1>1 DEF IInv, GenerationsIssued, Held, LivePcs
    <2>2. CASE \A q \in Runs : ~Held(pc[q])
      BY <1>1, <2>1, <2>2 DEF IInv, FreeWhenUnheld
    <2>3. ASSUME NEW q \in Runs, Held(pc[q]) PROVE session.active_generation # generation[r]
      <3>1. session.active_generation = generation[q]
        BY <1>1, <2>3 DEF IInv, Held, LiveRunOwnsSession, AbandonedKeepsSession
      <3> QED BY <1>1, <2>1, <2>3, <3>1 DEF IInv, GenerationsUnique
    <2> QED BY <2>2, <2>3
  <1> QED BY <1>1, Invariance, PTL

\* A routing update and a run exclude each other.
THEOREM RoutingExclusion == Spec => []RoutingUpdateExcludesRuns
  <1>1. IInv => RoutingUpdateExcludesRuns
    BY DEF IInv
  <1> QED BY <1>1, Invariance, PTL

\* A run executes only under a validated policy.
THEOREM ValidatedRuns == Spec => []RunningIsValidated
  <1>1. IInv => RunningIsValidated
    BY DEF IInv, ValidatedBeforeRunning
  <1> QED BY <1>1, Invariance, PTL

\* Held is the state in which nothing idle-guarded can happen.
LEMMA HeldIsNotIdle ==
  ASSUME IInv, NEW r \in Runs, Held(pc[r])
  PROVE  session.status \in ActiveStatuses /\ session.active_generation # NoGeneration
  BY DEF IInv, Held, LivePcs, LiveRunOwnsSession, AbandonedKeepsSession, StatusAt,
     ActiveStatuses, GenerationsIssued

\* The selection a run was validated against cannot change under it.
THEOREM SelectionFrozen == Spec => SelectionFrozenWhileHeld
  <1>1. ASSUME IInv, [Next]_vars, Holders # {} \/ guards # {}
        PROVE  Selection' = Selection
    <2>1. session.status # "Idle" \/ session.routing_update_in_progress
      <3>1. CASE Holders # {}
        BY <1>1, <3>1, HeldIsNotIdle DEF Holders, Held, ActiveStatuses
      <3>2. CASE guards # {}
        BY <1>1, <3>2 DEF IInv, RoutingUpdateExcludesRuns
      <3> QED BY <1>1, <3>1, <3>2
    <2>2. ASSUME NEW r \in Runs, RunStep(r) \/ MarkInvalid(r) \/ LateTimeout(r)
          PROVE  Selection' = Selection
      BY <1>1, <2>2 DEF IInv, TypeOK, SessionExecutionInner, RunStep, Selection, Begin, Refuse,
         Exhaust, EnterValidating, PreExecutionFailure, MarkValid, MarkInvalid, EnterRunning,
         Finish, StartCancelling, FinishCancelling, Abandon, LateTimeout, BeginRun, Transition,
         TerminalizeGeneration, MarkPolicyValid, MarkPolicyInvalid, MarkTimedOutAfterCleanup
    <2>3. ASSUME NEW u \in Updaters, TakeRoutingGuard(u) \/ DropRoutingGuard(u)
          PROVE  Selection' = Selection
      BY <1>1, <2>3 DEF IInv, TypeOK, SessionExecutionInner, Selection, TakeRoutingGuard,
         DropRoutingGuard, BeginRoutingUpdate, DropRoutingUpdateGuard
    <2>4. ASSUME Reset PROVE Selection' = Selection
      BY <1>1, <2>4 DEF IInv, TypeOK, SessionExecutionInner, Selection, Reset, ResetToIdle
    <2>5. /\ \A mode \in Modes : ~ChooseMode(mode)
          /\ \A strategy \in Strategies : ~ChooseStrategy(strategy)
          /\ \A profile \in Profiles : ~ChooseRoutingProfile(profile)
      BY <2>1 DEF ChooseMode, ChooseStrategy, ChooseRoutingProfile, CanSelectMode,
         CanSelectStrategy, CanSelectRoutingProfile, EnsureIdle
    <2>6. ASSUME UNCHANGED vars PROVE Selection' = Selection
      BY <2>6 DEF vars, Selection
    <2> QED BY <1>1, <2>2, <2>3, <2>4, <2>5, <2>6 DEF Next
  <1>2. IInv /\ [Next]_vars => [Holders # {} \/ guards # {} => Selection' = Selection]_vars
    BY <1>1
  <1> QED BY <1>2, Invariance, PTL DEF Spec, SelectionFrozenWhileHeld

\* The session implements RunOccupancy: begin_run is Acquire, the call that clears
\* the active generation is Release, and every other step stutters.
THEOREM Refinement == Spec => ImplementsOccupancy
  <1> DEFINE owner == session.active_generation
             last == session.next_generation
  <1>1. Init => Occupancy!Init
    BY DEF Init, NewSession, NoGeneration, Occupancy!Init
  <1>2. ASSUME IInv, [Next]_vars PROVE [Occupancy!Next]_<<owner, last>>
    <2>1. ASSUME NEW r \in Runs, Begin(r) PROVE Occupancy!Acquire
      <3>1. owner = NoGeneration
        <4>1. session.status = "Idle"
          BY <2>1 DEF Begin, Available
        <4>2. \A q \in Runs : ~Held(pc[q])
          BY <1>2, <4>1, HeldIsNotIdle DEF ActiveStatuses
        <4> QED BY <1>2, <4>2 DEF IInv, FreeWhenUnheld
      <3>2. owner' = last' /\ last' = last + 1
        BY <1>2, <2>1 DEF IInv, TypeOK, SessionExecutionInner, Begin, BeginRun
      <3> QED BY <3>1, <3>2 DEF Occupancy!Acquire, NoGeneration
    <2>2. ASSUME NEW r \in Runs,
                 \/ PreExecutionFailure(r) \/ FinishCancelling(r)
                 \/ \E status \in TerminalStatuses : Finish(r, status)
          PROVE  Occupancy!Release
      <3>1. Held(pc[r])
        BY <2>2 DEF Held, LivePcs, PreExecutionFailure, FinishCancelling, Finish
      <3>2. PICK next \in TerminalStatuses : session' = TerminalizeGeneration(session, next)
        BY <2>2 DEF PreExecutionFailure, FinishCancelling, Finish, TerminalStatuses
      <3>3. owner' = NoGeneration /\ last' = last
        BY <1>2, <3>2 DEF IInv, TypeOK, SessionExecutionInner, TerminalizeGeneration
      <3> QED BY <1>2, <3>1, <3>3, HeldIsNotIdle DEF Occupancy!Release, NoGeneration
    <2>3. ASSUME NEW r \in Runs, LateTimeout(r) PROVE UNCHANGED <<owner, last>>
      <3>1. session.active_generation = NoGeneration
        <4>1. session.status = "Cancelled" \/ session.active_generation = generation[r]
          BY <2>3 DEF LateTimeout, CanMarkTimedOutAfterCleanup
        <4>2. session.active_generation # generation[r]
          <5>1. generation[r] # NoGeneration /\ ~Held(pc[r])
            BY <1>2, <2>3 DEF IInv, GenerationsIssued, LateTimeout, Held, LivePcs
          <5>2. ASSUME NEW q \in Runs, Held(pc[q]) PROVE session.active_generation # generation[r]
            <6>1. session.active_generation = generation[q]
              BY <1>2, <5>2 DEF IInv, Held, LiveRunOwnsSession, AbandonedKeepsSession
            <6> QED BY <1>2, <5>1, <5>2, <6>1 DEF IInv, GenerationsUnique
          <5>3. CASE \A q \in Runs : ~Held(pc[q])
            BY <1>2, <5>1, <5>3 DEF IInv, FreeWhenUnheld
          <5> QED BY <5>2, <5>3
        <4>3. \A q \in Runs : ~Held(pc[q])
          BY <1>2, <4>1, <4>2, HeldIsNotIdle DEF ActiveStatuses
        <4> QED BY <1>2, <4>3 DEF IInv, FreeWhenUnheld
      <3> QED
        BY <1>2, <2>3, <3>1 DEF IInv, TypeOK, SessionExecutionInner, LateTimeout,
           MarkTimedOutAfterCleanup
    <2>4. ASSUME Reset PROVE UNCHANGED <<owner, last>>
      <3>1. \A q \in Runs : ~Held(pc[q])
        BY <1>2, <2>4, HeldIsNotIdle DEF Reset, CanResetToIdle, ActiveStatuses, TerminalStatuses
      <3>2. owner = NoGeneration
        BY <1>2, <3>1 DEF IInv, FreeWhenUnheld
      <3> QED
        BY <1>2, <2>4, <3>2 DEF IInv, TypeOK, SessionExecutionInner, Reset, ResetToIdle
    <2>5. ASSUME NEW r \in Runs,
                 \/ Refuse(r) \/ Exhaust(r) \/ EnterValidating(r) \/ MarkValid(r)
                 \/ MarkInvalid(r) \/ EnterRunning(r) \/ StartCancelling(r) \/ Abandon(r)
          PROVE  UNCHANGED <<owner, last>>
      BY <1>2, <2>5 DEF IInv, TypeOK, SessionExecutionInner, Refuse, Exhaust, EnterValidating,
         MarkValid, MarkInvalid, EnterRunning, StartCancelling, Abandon, Transition,
         TerminalizeGeneration, MarkPolicyValid, MarkPolicyInvalid, TerminalStatuses
    <2>6. ASSUME \/ \E mode \in Modes : ChooseMode(mode)
                 \/ \E strategy \in Strategies : ChooseStrategy(strategy)
                 \/ \E profile \in Profiles : ChooseRoutingProfile(profile)
                 \/ \E u \in Updaters : TakeRoutingGuard(u) \/ DropRoutingGuard(u)
          PROVE  UNCHANGED <<owner, last>>
      BY <1>2, <2>6 DEF IInv, TypeOK, SessionExecutionInner, ChooseMode, ChooseStrategy,
         ChooseRoutingProfile, TakeRoutingGuard, DropRoutingGuard, SelectMode, SelectStrategy,
         SelectRoutingProfile, BeginRoutingUpdate, DropRoutingUpdateGuard
    <2>7. ASSUME UNCHANGED vars PROVE UNCHANGED <<owner, last>>
      BY <2>7 DEF vars
    <2> QED
      BY <1>2, <2>1, <2>2, <2>3, <2>4, <2>5, <2>6, <2>7 DEF Next, RunStep, Occupancy!Next
  <1> QED BY <1>1, <1>2, Invariance, PTL DEF Spec, ImplementsOccupancy, Occupancy!Spec
=============================================================================
