---------------------------- MODULE PoolDispatch ----------------------------
(***************************************************************************)
(* How a role's provider call finds its account: ProductionRoleDispatcher  *)
(* with the session's rotation cursors and cooldown records.  The calls of *)
(* a turn (parallel subagents of one role, and other roles) share the      *)
(* turn's cache and selection gate; turns share cursors and cooldowns.     *)
(*                                                                         *)
(* A call is one invoke_role: it resolves the role's binding, builds the   *)
(* request for it, and invoke() resolves the binding again.  Its steps are *)
(* what happens between two awaits or under one lock.  A routing snapshot  *)
(* has an edition of the pool, a fingerprint that stands for the canonical *)
(* order of the members' targets, and the ordered automatic candidates of  *)
(* the roles that have any: in an automatic turn the others fall back to   *)
(* their assignment.  cooling[t] is expires_at - now, so 0 is both an      *)
(* expired and a removed record.                                           *)
(*                                                                         *)
(* reserve_next_eligible_member and commit run under one hold of the       *)
(* rotation lock, so the reservation's own generation never goes stale and *)
(* is left out.                                                            *)
(***************************************************************************)
EXTENDS Integers, Sequences

CONSTANTS
    Callers,    \* the tasks of a turn that call providers
    Roles,
    Targets,    \* exact provider accounts and connections
    Editions,   \* the routing snapshots, each with its edition of the pool
    Members,    \* the canonical member order of each edition
    Direct,     \* a role's exact binding, or Pool
    Candidates, \* a role's automatic candidates in each edition, <<>> if none
    Pool,       \* the binding that defers to the pool
    MaxHint,    \* the longest retry hint, in ticks
    None

ASSUME DispatchAssumption ==
    /\ Members \in [Editions -> Seq(Targets)]
    /\ \A e \in Editions : Len(Members[e]) > 0
    /\ Direct \in [Roles -> Targets \cup {Pool}]
    /\ Candidates \in [Editions -> [Roles -> Seq(Targets \cup {Pool})]]
    /\ MaxHint \in Nat
    /\ Pool \notin Targets
    /\ None \notin Targets \cup Callers \cup Editions \cup {Pool}

VARIABLES
    cooling,         \* remaining cooldown of each target
    cursors,         \* rotation cursor of each role
    run,             \* the current run and its dispatcher
    turn_cache,      \* the binding each role has in this turn
    selected_routes, \* the routes an automatic turn reports
    gate,            \* the holder of selection_gate
    calls,           \* the calls
    called,          \* history: targets this turn called for each role
    waits,           \* history: selections that passed over an eligible member
    resting          \* history: how long each target asked to be left alone

vars == <<cooling, cursors, run, turn_cache, selected_routes, gate, calls,
          called, waits, resting>>

\* Two fields are history: the targets that have been resting since the call
\* began, and whether a cooldown ended while it was selecting.
IdleCall ==
    [at |-> "idle", role |-> None, again |-> FALSE, binding |-> None,
     first |-> None, eligible |-> {}, tries |-> 0, warned |-> {}, recovered |-> FALSE]

NoCache == [r \in Roles |-> None]

Init ==
    /\ cooling = [t \in Targets |-> 0]
    /\ cursors = [r \in Roles |-> [edition |-> None, next_index |-> 0]]
    /\ run = [live |-> FALSE, edition |-> None, automatic |-> FALSE]
    /\ turn_cache = NoCache
    /\ selected_routes = NoCache
    /\ gate = None
    /\ calls = [c \in Callers |-> IdleCall]
    /\ called = [r \in Roles |-> {}]
    /\ waits = [r \in Roles |-> [t \in Targets |-> 0]]
    /\ resting = [t \in Targets |-> 0]

Max2(a, b) == IF a >= b THEN a ELSE b

Cooling(t) == cooling[t] > 0

PoolTargets == {Members[run.edition][i] : i \in 1..Len(Members[run.edition])}

\* eligible_round_robin_targets
EligibleTargets == {t \in PoolTargets : ~Cooling(t)}

Resting == {t \in Targets : resting[t] > 0}

\* automatic_candidates.get(&role)
CandidatesOf(r) == Candidates[run.edition][r]

Listed(r) == Len(CandidatesOf(r)) > 0

-----------------------------------------------------------------------------
(* Turns.                                                                  *)

\* begin_turn: an empty cache, no routes, a gate of its own.  Cleanup has seen
\* to it that no call of the previous turn is left.
BeginTurn(edition, automatic) ==
    /\ ~run.live
    /\ \A c \in Callers : calls[c] = IdleCall
    /\ run' = [live |-> TRUE, edition |-> edition, automatic |-> automatic]
    /\ turn_cache' = NoCache
    /\ selected_routes' = NoCache
    /\ called' = [r \in Roles |-> {}]
    /\ UNCHANGED <<cooling, cursors, gate, calls, waits, resting>>

\* The generation is terminalized; calls that are still around are dropped soon.
EndRun ==
    /\ run.live
    /\ run' = [run EXCEPT !.live = FALSE]
    /\ UNCHANGED <<cooling, cursors, turn_cache, selected_routes, gate, calls, called,
                   waits, resting>>

-----------------------------------------------------------------------------
(* One call.                                                               *)

At(c, step) == calls[c].at = step

Goto(c, step) == calls' = [calls EXCEPT ![c].at = step]

\* The call returns or its future is dropped; a held gate is released.
Leave(c) ==
    /\ calls' = [calls EXCEPT ![c] = IdleCall]
    /\ gate' = IF gate = c THEN None ELSE gate

\* Where prepare_role_binding begins: an automatic turn has a gate of its own
\* to pass first.
Entry == IF run.automatic THEN "gate" ELSE "pool_gate"

\* prepare_role_binding has the binding: the first time the request is built
\* for it, the second time invoke() goes on with it.
Bind(c, target) ==
    /\ calls' = [calls EXCEPT ![c] =
                    IF @.again THEN [@ EXCEPT !.at = "bound", !.binding = target]
                    ELSE [@ EXCEPT !.at = Entry, !.again = TRUE, !.first = target,
                                   !.binding = None, !.eligible = {}, !.tries = 0]]
    /\ gate' = None

\* Only a manual turn returns an exact binding without asking for the gate.
Start(c, r) ==
    /\ run.live
    /\ At(c, "idle")
    /\ calls' = [calls EXCEPT ![c] =
                    IF ~run.automatic /\ Direct[r] # Pool
                    THEN [IdleCall EXCEPT !.at = "bound", !.role = r, !.warned = Resting,
                                          !.binding = Direct[r], !.first = Direct[r]]
                    ELSE [IdleCall EXCEPT !.at = Entry, !.role = r, !.warned = Resting]]
    /\ UNCHANGED <<cooling, cursors, run, turn_cache, selected_routes, gate,
                   called, waits, resting>>

\* Mutant: no gate.
LockGateAlways(c) ==
    /\ calls[c].at \in {"gate", "pool_gate"}
    /\ Goto(c, IF At(c, "gate") THEN "lookup" ELSE "pool_lookup")
    /\ UNCHANGED <<cooling, cursors, run, turn_cache, selected_routes, gate, called,
                   waits, resting>>

\* The first lock of an automatic turn, or the one before the pool.
LockGate(c) ==
    /\ calls[c].at \in {"gate", "pool_gate"}
    /\ gate = None
    /\ gate' = c
    /\ Goto(c, IF At(c, "gate") THEN "lookup" ELSE "pool_lookup")
    /\ UNCHANGED <<cooling, cursors, run, turn_cache, selected_routes, called,
                   waits, resting>>

\* Mutant: the first guard lives until the end of the function.
LookupKeepingGate(c) ==
    LET r == calls[c].role IN
    /\ At(c, "lookup")
    /\ CASE turn_cache[r] # None -> Bind(c, turn_cache[r])
         [] turn_cache[r] = None /\ Listed(r) -> Goto(c, "evaluate") /\ UNCHANGED gate
         [] turn_cache[r] = None /\ ~Listed(r) /\ Direct[r] # Pool ->
               /\ calls' = [calls EXCEPT ![c].at = "direct", ![c].binding = Direct[r]]
               /\ UNCHANGED gate
         [] OTHER -> Goto(c, "pool_gate") /\ UNCHANGED gate
    /\ UNCHANGED <<cooling, cursors, run, turn_cache, selected_routes, called,
                   waits, resting>>

\* An automatic turn takes the cached binding as it is and leaves its cooldown
\* to invoke.  A role without candidates has its exact binding, or gives the
\* gate back and goes the manual way.
Lookup(c) ==
    LET r == calls[c].role IN
    /\ At(c, "lookup")
    /\ CASE turn_cache[r] # None -> Bind(c, turn_cache[r])
         [] turn_cache[r] = None /\ Listed(r) -> Goto(c, "evaluate") /\ UNCHANGED gate
         [] turn_cache[r] = None /\ ~Listed(r) /\ Direct[r] # Pool ->
               /\ calls' = [calls EXCEPT ![c].at = "direct", ![c].binding = Direct[r]]
               /\ UNCHANGED gate
         [] OTHER -> Goto(c, "pool_gate") /\ gate' = None
    /\ UNCHANGED <<cooling, cursors, run, turn_cache, selected_routes, called,
                   waits, resting>>

\* The gate is held, perhaps again: the cached target, which may be of another
\* caller that had the gate in between, must not be cooling.
PoolLookup(c) ==
    LET cached == turn_cache[calls[c].role] IN
    /\ At(c, "pool_lookup")
    /\ CASE cached = None -> Goto(c, "select") /\ UNCHANGED gate
         [] cached # None /\ ~Cooling(cached) -> Bind(c, cached)
         [] OTHER -> Leave(c)
    /\ UNCHANGED <<cooling, cursors, run, turn_cache, selected_routes, called,
                   waits, resting>>

\* automatic_candidate_snapshot
EligibleCandidate(candidate) ==
    IF candidate = Pool THEN EligibleTargets # {} ELSE ~Cooling(candidate)

\* derive_automatic_routing_decision takes the first eligible candidate.
Evaluate(c) ==
    LET candidates == CandidatesOf(calls[c].role)
        eligible == {i \in 1..Len(candidates) : EligibleCandidate(candidates[i])}
    IN
    /\ At(c, "evaluate")
    /\ IF ~run.live \/ eligible = {} THEN Leave(c)
       ELSE LET best == CHOOSE i \in eligible : \A j \in eligible : i <= j IN
            /\ calls' = [calls EXCEPT
                  ![c].at = IF candidates[best] = Pool THEN "select" ELSE "direct",
                  ![c].binding = IF candidates[best] = Pool THEN None
                                                            ELSE candidates[best]]
            /\ UNCHANGED gate
    /\ UNCHANGED <<cooling, cursors, run, turn_cache, selected_routes, called,
                   waits, resting>>

\* ensure_target_available, for the exact binding of an automatic turn.
EnsureDirect(c) ==
    /\ At(c, "direct")
    /\ IF Cooling(calls[c].binding) THEN Leave(c)
                                    ELSE Goto(c, "insert") /\ UNCHANGED gate
    /\ UNCHANGED <<cooling, cursors, run, turn_cache, selected_routes, called,
                   waits, resting>>

-----------------------------------------------------------------------------
(* prepare_round_robin_binding.                                            *)

\* Mutant: the eligible members are collected once, before the loop.
SelectOnce(c) ==
    LET eligible == IF calls[c].tries = 0 THEN EligibleTargets ELSE calls[c].eligible IN
    /\ At(c, "select")
    /\ IF calls[c].tries = 0 /\ ~run.live
       THEN Leave(c)
       ELSE /\ calls' = [calls EXCEPT ![c].at = IF eligible = {} THEN "exhausted" ELSE "reserve",
                                      ![c].eligible = eligible,
                                      ![c].recovered = @ /\ calls[c].tries > 0]
            /\ UNCHANGED gate
    /\ UNCHANGED <<cooling, cursors, run, turn_cache, selected_routes, called, waits,
                   resting>>

\* The head of the loop: who may be selected, under the cooldown lock.
Select(c) ==
    /\ At(c, "select")
    /\ IF calls[c].tries = 0 /\ ~run.live
       THEN Leave(c)
       ELSE /\ calls' = [calls EXCEPT
                  ![c].at = IF EligibleTargets = {} THEN "exhausted" ELSE "reserve",
                  ![c].eligible = EligibleTargets,
                  ![c].recovered = @ /\ calls[c].tries > 0]
            /\ UNCHANGED gate
    /\ UNCHANGED <<cooling, cursors, run, turn_cache, selected_routes, called, waits,
                   resting>>

\* Mutant: every turn starts the rotation again.
CurrentCursorPerTurn(r) == [edition |-> run.edition, next_index |-> 0]

\* A changed fingerprint starts the rotation again.
CurrentCursor(r) ==
    IF cursors[r].edition = run.edition THEN cursors[r]
    ELSE [edition |-> run.edition, next_index |-> 0]

CurrentWaits(r) ==
    IF cursors[r].edition = run.edition THEN waits[r] ELSE [t \in Targets |-> 0]

\* reserve_next_eligible_member: the first eligible one from the cursor on.
ReservedIndex(cursor, eligible) ==
    LET order == Members[cursor.edition]
        n == Len(order)
        Ahead(k) == (cursor.next_index + k) % n
        offset == CHOOSE k \in 0..(n - 1) :
                     /\ order[Ahead(k) + 1] \in eligible
                     /\ \A j \in 0..(k - 1) : order[Ahead(j) + 1] \notin eligible
    IN Ahead(offset)

\* commit
Commit(cursor, index) ==
    [cursor EXCEPT !.next_index = (index + 1) % Len(Members[cursor.edition])]

\* The selected member has waited for nothing, and the skipped ones, which were
\* not eligible, start waiting afresh.
PassOver(old, eligible, selected) ==
    [t \in Targets |-> IF t \in eligible /\ t # selected THEN old[t] + 1 ELSE 0]

\* Under the rotation lock: reserve, see that the run is still the same, look
\* at the cooldown again, commit.
Reserve(c) ==
    LET r == calls[c].role
        cursor == CurrentCursor(r)
        index == ReservedIndex(cursor, calls[c].eligible)
        target == Members[run.edition][index + 1]
    IN
    /\ At(c, "reserve")
    /\ IF run.live /\ ~Cooling(target)
       THEN /\ cursors' = [cursors EXCEPT ![r] = Commit(cursor, index)]
            /\ waits' = [waits EXCEPT ![r] =
                            PassOver(CurrentWaits(r), calls[c].eligible, target)]
            /\ calls' = [calls EXCEPT ![c].at = "insert", ![c].binding = target,
                                      ![c].eligible = {}, ![c].tries = 0,
                                      ![c].recovered = FALSE]
            /\ UNCHANGED gate
       ELSE /\ cursors' = [cursors EXCEPT ![r] = cursor]
            /\ waits' = [waits EXCEPT ![r] = CurrentWaits(r)]
            /\ IF run.live
               THEN /\ calls' = [calls EXCEPT
                          ![c].at = IF calls[c].tries + 1 < Len(Members[run.edition])
                                    THEN "select" ELSE "exhausted",
                          ![c].tries = @ + 1]
                    /\ UNCHANGED gate
               ELSE Leave(c)
    /\ UNCHANGED <<cooling, run, turn_cache, selected_routes, called, resting>>

\* build_for_member fails, for an account that was disabled, say: the
\* reservation is dropped and the cursor stays before that member.
BuildFails(c) ==
    LET r == calls[c].role IN
    /\ At(c, "reserve")
    /\ cursors' = [cursors EXCEPT ![r] = CurrentCursor(r)]
    /\ waits' = [waits EXCEPT ![r] = CurrentWaits(r)]
    /\ Leave(c)
    /\ UNCHANGED <<cooling, run, turn_cache, selected_routes, called, resting>>

\* all_targets_cooling
GiveUp(c) ==
    /\ At(c, "exhausted")
    /\ Leave(c)
    /\ UNCHANGED <<cooling, cursors, run, turn_cache, selected_routes, called,
                   waits, resting>>

\* Mutant: the caller gets the binding before its route is on record.
InsertUnrecorded(c) ==
    /\ At(c, "insert")
    /\ turn_cache' = [turn_cache EXCEPT ![calls[c].role] = calls[c].binding]
    /\ Bind(c, calls[c].binding)
    /\ UNCHANGED <<cooling, cursors, run, selected_routes, called, waits, resting>>

\* The selections that record_selected_route follows.
Recorded(r) == run.automatic /\ (Listed(r) \/ Direct[r] # Pool)

\* The cache first, then, without an await, the reported route.
Insert(c) ==
    LET r == calls[c].role IN
    /\ At(c, "insert")
    /\ turn_cache' = [turn_cache EXCEPT ![r] = calls[c].binding]
    /\ selected_routes' = IF Recorded(r)
                          THEN [selected_routes EXCEPT ![r] = calls[c].binding]
                          ELSE selected_routes
    /\ Bind(c, calls[c].binding)
    /\ UNCHANGED <<cooling, cursors, run, called, waits, resting>>

-----------------------------------------------------------------------------
(* invoke, with the binding in hand.                                       *)

\* ensure_target_available: the cooldown lock is released again before the call.
Ensure(c) ==
    /\ At(c, "bound")
    /\ IF Cooling(calls[c].binding) THEN Leave(c)
                                    ELSE Goto(c, "checked") /\ UNCHANGED gate
    /\ UNCHANGED <<cooling, cursors, run, turn_cache, selected_routes, called,
                   waits, resting>>

\* The request must be for the binding's route.
Invoke(c) ==
    LET call == calls[c] IN
    /\ At(c, "checked")
    /\ IF call.first # call.binding
       THEN Leave(c) /\ UNCHANGED called
       ELSE /\ Goto(c, "calling")
            /\ called' = [called EXCEPT ![call.role] = @ \cup {call.binding}]
            /\ UNCHANGED gate
    /\ UNCHANGED <<cooling, cursors, run, turn_cache, selected_routes, waits,
                   resting>>

Succeed(c) ==
    /\ At(c, "calling")
    /\ Leave(c)
    /\ UNCHANGED <<cooling, cursors, run, turn_cache, selected_routes, called,
                   waits, resting>>

\* Mutant: the last failure decides how long the target rests.
RecordLastCooldown(t, hint) == [cooling EXCEPT ![t] = IF hint > 0 THEN hint ELSE @]

\* record_cooldown: 0 is a failure that carries no retry hint.
RecordCooldown(t, hint) == [cooling EXCEPT ![t] = Max2(@, hint)]

\* record_provider_failure
Fail(c, hint) ==
    LET t == calls[c].binding IN
    /\ At(c, "calling")
    /\ cooling' = RecordCooldown(t, hint)
    /\ resting' = [resting EXCEPT ![t] = Max2(@, hint)]
    /\ Leave(c)
    /\ UNCHANGED <<cursors, run, turn_cache, selected_routes, called, waits>>

\* A cancelled or timed-out session drops the future at an await.
Drop(c) ==
    /\ calls[c].at \in {"gate", "lookup", "pool_gate", "pool_lookup", "insert", "calling"}
    /\ Leave(c)
    /\ UNCHANGED <<cooling, cursors, run, turn_cache, selected_routes, called,
                   waits, resting>>

\* What the passing of time does to the history of a call.
TickCall(call) ==
    [call EXCEPT !.warned = {t \in @ : resting[t] > 1},
                 !.recovered = \/ @
                               \/ /\ call.at \in {"select", "reserve", "exhausted"}
                                  /\ \E t \in Targets : cooling[t] = 1]

Tick ==
    /\ \E t \in Targets : Cooling(t) \/ resting[t] > 0
    /\ cooling' = [t \in Targets |-> Max2(cooling[t] - 1, 0)]
    /\ resting' = [t \in Targets |-> Max2(resting[t] - 1, 0)]
    /\ calls' = [c \in Callers |-> TickCall(calls[c])]
    /\ UNCHANGED <<cursors, run, turn_cache, selected_routes, gate, called, waits>>

-----------------------------------------------------------------------------
CallStep(c) ==
    \/ Lookup(c) \/ PoolLookup(c) \/ Evaluate(c) \/ EnsureDirect(c)
    \/ Select(c) \/ Reserve(c) \/ BuildFails(c) \/ GiveUp(c)
    \/ Insert(c) \/ Ensure(c) \/ Invoke(c)
    \/ Succeed(c) \/ \E hint \in 0..MaxHint : Fail(c, hint)

Next ==
    \/ \E edition \in Editions, automatic \in BOOLEAN : BeginTurn(edition, automatic)
    \/ EndRun
    \/ \E c \in Callers :
          \/ \E r \in Roles : Start(c, r)
          \/ LockGate(c) \/ CallStep(c) \/ Drop(c)
    \/ Tick

Spec == Init /\ [][Next]_vars

\* A task that is not waiting goes on, a provider call returns or is dropped by
\* its timeout, and the gate is a tokio mutex, which serves its queue in order.
FairSpec ==
    /\ Spec
    /\ \A c \in Callers : WF_vars(CallStep(c)) /\ SF_vars(LockGate(c))

-----------------------------------------------------------------------------
\* In one turn a role talks to one account: whatever calls run in parallel, are
\* dropped between selection and caching, or meet a cooldown, the targets the
\* turn has called for a role are one.
OneTargetPerRole ==
    \A r \in Roles : \A t, u \in called[r] : t = u

\* Round robin: over the life of the session, and across turns, no member of an
\* unedited pool is passed over while eligible by as many selections as the
\* pool has members.
RotationFair ==
    \A r \in Roles : cursors[r].edition # None =>
        \A t \in Targets : waits[r][t] < Len(Members[cursors[r].edition])

\* A call that began while a target was resting, as long as any failure there
\* had asked for and whatever failed there since, does not reach the target
\* before that rest is over, through a binding that was cached earlier either.
\* Only a call that had passed its check may cross a failure.
RestHonoured ==
    \A c \in Callers : At(c, "calling") => calls[c].binding \notin calls[c].warned

\* The selection from a pool runs out of tries only when nothing is left to
\* try: every member is cooling, or some cooldown has ended meanwhile.  However
\* the cooldowns of other calls arrive between the two looks of each try, an
\* eligible member that was there all along is found.
NothingLeftToTry ==
    \A c \in Callers :
        At(c, "exhausted") => EligibleTargets = {} \/ calls[c].recovered

\* The session compares an answer with the reported route, if there is one: by
\* the time a call is made in an automatic turn the report has the target of
\* the call, and only a pooled role without candidates is left unreported.
RouteReported ==
    \A c \in Callers :
        LET r == calls[c].role IN
        At(c, "calling") /\ run.automatic =>
            selected_routes[r] = IF ~Listed(r) /\ Direct[r] = Pool THEN None
                                 ELSE calls[c].binding

\* Every call is answered, one way or the other: no caller is stuck behind the
\* gate, whoever is dropped while holding it, nor behind itself when it asks
\* for the gate a second time.
CallsAnswered ==
    \A c \in Callers : []<>At(c, "idle")
=============================================================================
