------------------------- MODULE PoolDispatchProofs -------------------------
(***************************************************************************)
(* The safety properties of the dispatcher, for every number of callers,   *)
(* roles, targets and pools.                                               *)
(*                                                                         *)
(* A turn has one target per role because what is called is what the turn  *)
(* holds for the role (TurnBinding), and that is written once: by the      *)
(* caller who has the gate, who found nothing in the cache after it had    *)
(* the gate.  The rotation is fair because a member that has waited w      *)
(* times is at most n - 1 - w places ahead of the cursor.  A selection has *)
(* a try left for every eligible member, because each failed try leaves    *)
(* one eligible member less, unless a cooldown ends.                       *)
(***************************************************************************)
EXTENDS PoolDispatch, FiniteSetTheorems, WellFoundedInduction, TLAPS

\* The steps that are made with the gate.
Holding == {"lookup", "pool_lookup", "evaluate", "direct", "select", "reserve",
            "exhausted", "insert"}

\* The steps of the loop over the pool.
InLoop == {"select", "reserve", "exhausted"}

Call ==
    [ at : Holding \cup {"idle", "gate", "pool_gate", "bound", "checked", "calling"},
      role : Roles \cup {None},
      again : BOOLEAN,
      binding : Targets \cup {None},
      first : Targets \cup {None},
      eligible : SUBSET Targets,
      tries : Nat,
      warned : SUBSET Targets,
      recovered : BOOLEAN ]

TurnTypeOK ==
    /\ run \in [live : BOOLEAN, edition : Editions \cup {None}, automatic : BOOLEAN]
    /\ run.live => run.edition \in Editions
    /\ turn_cache \in [Roles -> Targets \cup {None}]
    /\ selected_routes \in [Roles -> Targets \cup {None}]
    /\ gate \in Callers \cup {None}
    /\ calls \in [Callers -> Call]
    /\ called \in [Roles -> SUBSET Targets]

\* A role's target comes from the turn's cache, or is its exact binding.
Cached(r) == run.automatic \/ Direct[r] = Pool

TurnBinding(r) == IF Cached(r) THEN turn_cache[r] ELSE Direct[r]

\* What c may rely on while its call is in progress.
InProgress(c, call) ==
    /\ call.at # "idle" => call.role \in Roles /\ run.edition \in Editions
    /\ call.at \in Holding \cup {"gate", "pool_gate"} => Cached(call.role)
    /\ call.at \in Holding => gate = c
    /\ call.at \in Holding \ {"lookup", "pool_lookup"} => turn_cache[call.role] = None
    /\ call.at \notin InLoop => call.tries = 0
    /\ call.at \in {"direct", "insert"} => call.binding \in Targets
    /\ call.at = "reserve" => call.eligible # {} /\ call.eligible \subseteq PoolTargets
    /\ call.at \in {"bound", "checked", "calling"} =>
          call.binding \in Targets /\ call.binding = TurnBinding(call.role)

CallsInProgress == \A c \in Callers : InProgress(c, calls[c])

CalledIsBound == \A r \in Roles : called[r] \subseteq {TurnBinding(r)} \ {None}

RoutesAreCached ==
    run.automatic =>
        \A r \in Roles : selected_routes[r] = IF Recorded(r) THEN turn_cache[r] ELSE None

TurnInv == TurnTypeOK /\ CallsInProgress /\ CalledIsBound /\ RoutesAreCached

-----------------------------------------------------------------------------
\* A call that has looked is not on its way to a target it was warned of.
Heeds(call) == call.at \in {"checked", "calling"} => call.binding \notin call.warned

\* The cooldown of a target covers what it asked for, and a call is warned of
\* nothing that does not rest.
RestInv ==
    /\ cooling \in [Targets -> Nat]
    /\ resting \in [Targets -> Nat]
    /\ \A t \in Targets : resting[t] <= cooling[t]
    /\ \A c \in Callers : calls[c].warned \subseteq Resting /\ Heeds(calls[c])

\* Unless a cooldown has ended, there is a try left for every eligible member.
TriesLeft(call) ==
    LET n == Len(Members[run.edition]) IN
    ~call.recovered =>
        /\ call.at = "select" => Cardinality(EligibleTargets) <= n - call.tries
        /\ call.at = "reserve" => /\ EligibleTargets \subseteq call.eligible
                                  /\ Cardinality(call.eligible) <= n - call.tries
        /\ call.at = "exhausted" => EligibleTargets = {}

TriesInv == \A c \in Callers : TriesLeft(calls[c])

Cursor == [edition : Editions \cup {None}, next_index : Nat]

\* The member k places ahead of a cursor.
MemberAhead(cursor, k) ==
    Members[cursor.edition][((cursor.next_index + k) % Len(Members[cursor.edition])) + 1]

\* A member that has waited comes nearer to the cursor by one place at least
\* each time.
CursorFair(cursor, waiting) ==
    LET n == Len(Members[cursor.edition]) IN
    /\ cursor.next_index < n
    /\ \A t \in Targets :
          waiting[t] > 0 => \E k \in 0..(n - 1 - waiting[t]) : MemberAhead(cursor, k) = t

RotationInv ==
    /\ cursors \in [Roles -> Cursor]
    /\ waits \in [Roles -> [Targets -> Nat]]
    /\ \A r \in Roles : cursors[r].edition # None => CursorFair(cursors[r], waits[r])

IInv == TurnInv /\ RestInv /\ TriesInv /\ RotationInv

-----------------------------------------------------------------------------
(* The turn.                                                               *)

\* A caller without a call.
LEMMA IdleCallTyped ==
  /\ IdleCall \in Call
  /\ IdleCall.at = "idle" /\ IdleCall.tries = 0
  /\ IdleCall.warned = {} /\ IdleCall.recovered = FALSE
  BY DEF IdleCall, Call

\* No turn is live and nobody calls.
LEMMA InitTurnInv == Init => TurnInv
  <1> SUFFICES ASSUME Init PROVE TurnInv
    OBVIOUS
  <1>1. TurnTypeOK
    BY IdleCallTyped DEF Init, TurnTypeOK, NoCache
  <1>2. CallsInProgress
    BY IdleCallTyped DEF Init, CallsInProgress, InProgress, Holding, InLoop
  <1> QED BY <1>1, <1>2 DEF Init, TurnInv, CalledIsBound, RoutesAreCached

\* What a call does to its own record disturbs no other call, as long as the
\* gate is only taken when it is free and given back by its holder.
LEMMA CallKeepsTurnInv ==
  ASSUME TurnInv, NEW c \in Callers, NEW call \in Call,
         calls' = [calls EXCEPT ![c] = call],
         gate' \in Callers \cup {None},
         gate' = gate \/ gate \in {c, None},
         InProgress(c, call)',
         UNCHANGED <<run, turn_cache, selected_routes>>,
         called' \in [Roles -> SUBSET Targets], CalledIsBound'
  PROVE  TurnInv'
  <1>1. TurnTypeOK'
    BY DEF TurnInv, TurnTypeOK
  <1>2. CallsInProgress'
    <2> SUFFICES ASSUME NEW d \in Callers PROVE InProgress(d, calls[d])'
      BY DEF CallsInProgress
    <2>1. CASE d = c
      BY <2>1 DEF TurnInv, TurnTypeOK
    <2>2. CASE d # c
      <3>1. calls'[d] = calls[d] /\ InProgress(d, calls[d]) /\ None \notin Callers
        BY <2>2, DispatchAssumption DEF TurnInv, TurnTypeOK, CallsInProgress
      <3> QED BY <2>2, <3>1 DEF InProgress, Cached, TurnBinding, PoolTargets
    <2> QED BY <2>1, <2>2
  <1>3. RoutesAreCached'
    BY DEF TurnInv, RoutesAreCached, Recorded, Listed, CandidatesOf
  <1> QED BY <1>1, <1>2, <1>3 DEF TurnInv

\* Nothing is added to what the turn called.
LEMMA CalledFrame ==
  ASSUME TurnInv, UNCHANGED <<run, turn_cache, called>>
  PROVE  called' \in [Roles -> SUBSET Targets] /\ CalledIsBound'
  BY DEF TurnInv, TurnTypeOK, CalledIsBound, TurnBinding, Cached

\* A call ends or is dropped; its gate is free again.
LEMMA LeaveTurnInv ==
  ASSUME TurnInv, NEW c \in Callers, Leave(c),
         UNCHANGED <<run, turn_cache, selected_routes, called>>
  PROVE  TurnInv'
  <1>1. InProgress(c, IdleCall)'
    BY IdleCallTyped DEF InProgress, Holding, InLoop
  <1>2. gate' \in Callers \cup {None} /\ (gate' = gate \/ gate \in {c, None})
    BY DEF Leave, TurnInv, TurnTypeOK
  <1>3. calls' = [calls EXCEPT ![c] = IdleCall]
    BY DEF Leave
  <1> QED BY <1>1, <1>2, <1>3, IdleCallTyped, CalledFrame, CallKeepsTurnInv

\* A call that goes from one step to another and changes nothing of its
\* record but its binding, its eligible targets and its tries.
LEMMA AdvanceTurnInv ==
  ASSUME TurnInv, NEW c \in Callers, NEW at \in Holding, calls[c].at \in Holding \ {"insert"},
         NEW call \in Call,
         call.at = at, call.role = calls[c].role,
         turn_cache[calls[c].role] = None,
         at \in {"direct", "insert"} => call.binding \in Targets,
         at \notin InLoop => call.tries = 0,
         at = "reserve" => call.eligible # {} /\ call.eligible \subseteq PoolTargets,
         calls' = [calls EXCEPT ![c] = call],
         UNCHANGED <<run, turn_cache, selected_routes, called, gate>>
  PROVE  TurnInv'
  <1>1. InProgress(c, calls[c])
    BY DEF TurnInv, CallsInProgress
  <1>2. InProgress(c, call)'
    BY <1>1 DEF InProgress, Holding, Cached, TurnBinding, PoolTargets
  <1>3. gate' \in Callers \cup {None}
    BY DEF TurnInv, TurnTypeOK
  <1> QED BY <1>2, <1>3, CalledFrame, CallKeepsTurnInv

\* A caller with the gate is given what the turn holds for its role.
LEMMA BindTurnInv ==
  ASSUME TurnInv, NEW c \in Callers, calls[c].at \in Holding \ InLoop,
         NEW target \in Targets, turn_cache[calls[c].role] = target,
         Bind(c, target),
         UNCHANGED <<run, turn_cache, selected_routes, called>>
  PROVE  TurnInv'
  <1>1. InProgress(c, calls[c]) /\ calls[c] \in Call
    BY DEF TurnInv, CallsInProgress, TurnTypeOK
  <1>2. PICK call : call = IF calls[c].again
                           THEN [calls[c] EXCEPT !.at = "bound", !.binding = target]
                           ELSE [calls[c] EXCEPT !.at = Entry, !.again = TRUE,
                                                 !.first = target, !.binding = None,
                                                 !.eligible = {}, !.tries = 0]
    OBVIOUS
  <1>3. /\ call \in Call
        /\ call.role = calls[c].role
        /\ call.at \in {"gate", "pool_gate"} \/ (call.at = "bound" /\ call.binding = target)
        /\ call.tries = 0
        /\ calls' = [calls EXCEPT ![c] = call]
        /\ gate' = None
    BY <1>1, <1>2 DEF Call, Bind, Entry, InProgress
  <1>4. InProgress(c, call)'
    BY <1>1, <1>3 DEF InProgress, Holding, Cached, TurnBinding
  <1>5. gate = c
    BY <1>1 DEF InProgress
  <1> QED BY <1>3, <1>4, <1>5, CalledFrame, CallKeepsTurnInv

-----------------------------------------------------------------------------
(* The rotation.                                                           *)

\* A set of numbers that is not empty has a least one.
LEMMA LeastNumber ==
  ASSUME NEW T, T \subseteq Nat, T # {}
  PROVE  \E x \in T : \A y \in T : x <= y
  <1> DEFINE R == OpToRel(<, Nat)
  <1>1. IsWellFoundedOn(R, Nat)
    BY NatLessThanWellFounded
  <1>2. \A x, y \in Nat : <<x, y>> \in R <=> x < y
    <2>1. R = {ss \in Nat \X Nat : ss[1] < ss[2]}
      BY DEF OpToRel
    <2> HIDE DEF R
    <2> QED BY <2>1
  <1> HIDE DEF R
  <1>3. PICK x \in T : \A y \in T : <<y, x>> \notin R
    BY <1>1, WFMin
  <1>4. ASSUME NEW y \in T PROVE x <= y
    <2>1. ~(y < x) /\ x \in Nat /\ y \in Nat
      BY <1>2, <1>3
    <2> QED BY <2>1
  <1> QED BY <1>4

\* The places of a pool are counted modulo its size, and a cursor never looks
\* more than one round ahead.
LEMMA OneRound ==
  ASSUME NEW n \in Nat \ {0}, NEW i \in Nat, i < 2 * n
  PROVE  i % n = IF i < n THEN i ELSE i - n
  OBVIOUS

\* A pool has n places.
HasPlaces(e, n) == n = Len(Members[e])

\* The members of an edition, and the target at each place.
LEMMA MembersTyped ==
  ASSUME NEW e \in Editions
  PROVE  /\ Len(Members[e]) \in Nat \ {0}
         /\ \A i \in 0..(Len(Members[e]) - 1) : Members[e][i + 1] \in Targets
  BY DispatchAssumption

\* The targets of a pool: no more than it has places.
LEMMA PoolIsFinite ==
  ASSUME run.edition \in Editions
  PROVE  /\ PoolTargets \subseteq Targets
         /\ IsFiniteSet(PoolTargets)
         /\ Cardinality(PoolTargets) <= Len(Members[run.edition])
  <1>1. PICK n \in Nat \ {0} : n = Len(Members[run.edition])
    BY MembersTyped
  <1>2. Members[run.edition] \in Seq(Targets)
    BY DispatchAssumption
  <1>3. PoolTargets \subseteq Targets
    BY <1>2 DEF PoolTargets
  <1>4. IsFiniteSet(1..n) /\ Cardinality(1..n) = n
    BY FS_Interval
  <1>5. PICK f : f = [i \in 1..n |-> Members[run.edition][i]]
    OBVIOUS
  <1>6. f \in Surjection(1..n, PoolTargets)
    BY <1>1, <1>5 DEF Surjection, PoolTargets
  <1>7. IsFiniteSet(PoolTargets) /\ Cardinality(PoolTargets) <= n
    BY <1>4, <1>6, FS_Surjection
  <1> QED BY <1>1, <1>3, <1>7

\* Every member is less than one round ahead of the cursor.
LEMMA MemberIsAhead ==
  ASSUME NEW e \in Editions, NEW cursor, cursor.edition = e,
         NEW n \in Nat \ {0}, HasPlaces(e, n),
         cursor.next_index \in 0..(n - 1),
         NEW i \in 1..n
  PROVE  \E k \in 0..(n - 1) : MemberAhead(cursor, k) = Members[e][i]
  <1> DEFINE from == cursor.next_index
             k == IF i - 1 >= from THEN i - 1 - from ELSE i - 1 - from + n
  <1>1. k \in 0..(n - 1) /\ from + k \in Nat /\ from + k < 2 * n
    OBVIOUS
  <1>2. (from + k) % n = i - 1
    <2>1. (from + k) % n = IF from + k < n THEN from + k ELSE from + k - n
      <3> DEFINE sum == from + k
      <3>1. sum \in Nat /\ sum < 2 * n
        BY <1>1
      <3> HIDE DEF sum
      <3>2. sum % n = IF sum < n THEN sum ELSE sum - n
        BY <3>1, OneRound
      <3> QED BY <3>2 DEF sum
    <2> QED BY <2>1
  <1>3. ((from + k) % n) + 1 = i
    BY <1>2
  <1> HIDE DEF k
  <1> QED BY <1>1, <1>3 DEF MemberAhead, HasPlaces

\* reserve_next_eligible_member finds the first eligible member ahead.
LEMMA ReservedIsFirst ==
  ASSUME NEW e \in Editions, NEW cursor, cursor.edition = e,
         NEW n \in Nat \ {0}, HasPlaces(e, n),
         cursor.next_index \in 0..(n - 1),
         NEW eligible, eligible # {},
         eligible \subseteq {Members[e][i] : i \in 1..n}
  PROVE  \E offset \in 0..(n - 1) :
            /\ ReservedIndex(cursor, eligible) = (cursor.next_index + offset) % n
            /\ ReservedIndex(cursor, eligible) \in 0..(n - 1)
            /\ Members[e][ReservedIndex(cursor, eligible) + 1] \in eligible
            /\ \A j \in 0..(offset - 1) : MemberAhead(cursor, j) \notin eligible
  <1> DEFINE T == {k \in 0..(n - 1) : MemberAhead(cursor, k) \in eligible}
             First(k) == /\ Members[e][((cursor.next_index + k) % n) + 1] \in eligible
                         /\ \A j \in 0..(k - 1) :
                               Members[e][((cursor.next_index + j) % n) + 1] \notin eligible
  <1>1. T # {}
    <2>1. PICK i \in 1..n : Members[e][i] \in eligible
      OBVIOUS
    <2> QED BY <2>1, MemberIsAhead
  <1>2. PICK least \in T : \A k \in T : least <= k
    <2>1. T \subseteq Nat
      OBVIOUS
    <2> HIDE DEF T
    <2> QED BY <1>1, <2>1, LeastNumber
  <1>3. \E k \in 0..(n - 1) : First(k)
    <2>1. least \in 0..(n - 1) /\ MemberAhead(cursor, least) \in eligible
      BY <1>2
    <2>2. ASSUME NEW j \in 0..(least - 1) PROVE MemberAhead(cursor, j) \notin eligible
      <3>1. j \in 0..(n - 1) /\ ~(least <= j)
        BY <2>1
      <3> QED BY <1>2, <3>1
    <2> QED BY <2>1, <2>2 DEF MemberAhead, HasPlaces
  <1> DEFINE offset == CHOOSE k \in 0..(n - 1) : First(k)
  <1>4. offset \in 0..(n - 1) /\ First(offset)
    <2> HIDE DEF First
    <2> QED BY <1>3
  <1>5. ReservedIndex(cursor, eligible) = (cursor.next_index + offset) % n
    BY DEF ReservedIndex, HasPlaces
  <1>6. (cursor.next_index + offset) % n \in 0..(n - 1)
    <2>1. cursor.next_index + offset \in Nat
      BY <1>4
    <2> HIDE DEF offset, First
    <2> QED BY <2>1
  <1> HIDE DEF offset
  <1> QED BY <1>4, <1>5, <1>6 DEF MemberAhead, HasPlaces

\* The place k ahead of a cursor is k - offset - 1 ahead once the cursor has
\* moved past the place that is offset ahead.
LEMMA MovedPast ==
  ASSUME NEW n \in Nat \ {0}, NEW from \in 0..(n - 1), NEW offset \in 0..(n - 1),
         NEW k \in 0..(n - 1), offset < k,
         NEW moved, moved = (((from + offset) % n) + 1) % n
  PROVE  /\ moved \in 0..(n - 1)
         /\ (moved + (k - offset - 1)) % n = (from + k) % n
  <1>1. PICK a : a = (from + offset) % n
    OBVIOUS
  <1>2. a = IF from + offset < n THEN from + offset ELSE from + offset - n
    <2>1. PICK x \in Nat : x = from + offset /\ x < 2 * n
      OBVIOUS
    <2>2. x % n = IF x < n THEN x ELSE x - n
      BY <2>1, OneRound
    <2> QED BY <1>1, <2>1, <2>2
  <1>3. a \in 0..(n - 1)
    BY <1>2
  <1>4. moved = IF a + 1 < n THEN a + 1 ELSE a + 1 - n
    <2>1. PICK x \in Nat : x = a + 1 /\ x < 2 * n
      BY <1>3
    <2>2. x % n = IF x < n THEN x ELSE x - n
      BY <2>1, OneRound
    <2> QED BY <1>1, <2>1, <2>2
  <1>5. moved \in 0..(n - 1)
    BY <1>3, <1>4
  <1>6. PICK x \in Nat : x = moved + (k - offset - 1) /\ x < 2 * n
    BY <1>5
  <1>7. x % n = IF x < n THEN x ELSE x - n
    BY <1>6, OneRound
  <1>8. PICK y \in Nat : y = from + k /\ y < 2 * n
    OBVIOUS
  <1>9. y % n = IF y < n THEN y ELSE y - n
    BY <1>8, OneRound
  <1>10. (IF x < n THEN x ELSE x - n) = (IF y < n THEN y ELSE y - n)
    BY <1>2, <1>4, <1>5, <1>6, <1>8
  <1> QED BY <1>5, <1>6, <1>7, <1>8, <1>9, <1>10

\* So that member comes nearer when the selection is committed.
LEMMA ComesNearer ==
  ASSUME NEW e \in Editions, NEW cursor \in Cursor, cursor.edition = e,
         NEW n \in Nat \ {0}, HasPlaces(e, n),
         NEW from \in 0..(n - 1), cursor.next_index = from,
         NEW offset \in 0..(n - 1), NEW k \in 0..(n - 1), offset < k,
         NEW index \in 0..(n - 1), index = (from + offset) % n
  PROVE  MemberAhead(Commit(cursor, index), k - offset - 1) = MemberAhead(cursor, k)
  <1>1. PICK moved \in Int : moved = (((from + offset) % n) + 1) % n
    OBVIOUS
  <1>2. (moved + (k - offset - 1)) % n = (from + k) % n
    BY <1>1, MovedPast
  <1>3. Commit(cursor, index).edition = e /\ Commit(cursor, index).next_index = moved
    BY <1>1 DEF Commit, Cursor, HasPlaces
  <1> QED BY <1>2, <1>3 DEF MemberAhead, HasPlaces

\* A member is ahead of the cursor, and nearer the longer it has waited.
LEMMA WaitingIsAhead ==
  ASSUME NEW e \in Editions, NEW cursor \in Cursor, cursor.edition = e,
         NEW n \in Nat \ {0}, HasPlaces(e, n),
         NEW old \in [Targets -> Nat], CursorFair(cursor, old),
         NEW i \in 1..n, NEW t \in Targets, t = Members[e][i]
  PROVE  \E k \in 0..(n - 1 - old[t]) : MemberAhead(cursor, k) = t
  <1>1. cursor.next_index \in 0..(n - 1)
    BY DEF CursorFair, Cursor, HasPlaces
  <1>2. CASE old[t] > 0
    BY <1>2 DEF CursorFair, HasPlaces
  <1>3. CASE old[t] = 0
    <2>1. n - 1 - old[t] = n - 1
      BY <1>3
    <2> QED BY <1>1, <2>1, MemberIsAhead
  <1> QED BY <1>2, <1>3

\* A selection keeps the rotation fair: whoever it passes over comes nearer.
LEMMA SelectionIsFair ==
  ASSUME NEW e \in Editions, NEW cursor \in Cursor, cursor.edition = e,
         NEW n \in Nat \ {0}, HasPlaces(e, n),
         NEW old \in [Targets -> Nat], CursorFair(cursor, old),
         NEW eligible \in SUBSET Targets, eligible # {},
         eligible \subseteq {Members[e][i] : i \in 1..n},
         NEW index, index = ReservedIndex(cursor, eligible),
         NEW target, target = Members[e][index + 1],
         NEW passed, passed = PassOver(old, eligible, target)
  PROVE  /\ index \in 0..(n - 1)
         /\ target \in eligible
         /\ Commit(cursor, index) \in Cursor
         /\ Commit(cursor, index).edition = e
         /\ passed \in [Targets -> Nat]
         /\ CursorFair(Commit(cursor, index), passed)
  <1> DEFINE from == cursor.next_index
             moved == (index + 1) % n
  <1>2. from \in 0..(n - 1)
    BY DEF CursorFair, Cursor, HasPlaces
  <1>3. PICK offset \in 0..(n - 1) :
            /\ index = (from + offset) % n
            /\ index \in 0..(n - 1)
            /\ target \in eligible
            /\ \A j \in 0..(offset - 1) : MemberAhead(cursor, j) \notin eligible
    BY <1>2, ReservedIsFirst
  <1>4. moved \in 0..(n - 1)
    BY <1>3
  <1>5. /\ Commit(cursor, index) \in Cursor
        /\ Commit(cursor, index).edition = e
        /\ Commit(cursor, index).next_index = moved
    BY <1>4 DEF Commit, Cursor, HasPlaces
  <1>6. /\ passed \in [Targets -> Nat]
        /\ \A t \in Targets :
              passed[t] = IF t \in eligible /\ t # target THEN old[t] + 1 ELSE 0
    BY DEF PassOver
  <1>7. ASSUME NEW t \in Targets, passed[t] > 0
        PROVE  \E k \in 0..(n - 1 - passed[t]) : MemberAhead(Commit(cursor, index), k) = t
    <2>1. t \in eligible /\ t # target /\ passed[t] = old[t] + 1
      BY <1>6, <1>7
    <2>2. PICK k \in 0..(n - 1 - old[t]) : MemberAhead(cursor, k) = t
      <3>1. PICK i \in 1..n : Members[e][i] = t
        BY <2>1
      <3> QED BY <3>1, WaitingIsAhead
    <2>3. k \in 0..(n - 1) /\ offset < k
      <3>1. k \in 0..(n - 1)
        BY <2>2
      <3>2. k # offset
        BY <1>3, <2>1, <2>2 DEF MemberAhead, HasPlaces
      <3>3. ~(k < offset)
        BY <1>3, <2>1, <2>2, <3>1
      <3> QED BY <3>1, <3>2, <3>3
    <2>4. MemberAhead(Commit(cursor, index), k - offset - 1) = t
      BY <1>2, <1>3, <2>2, <2>3, ComesNearer
    <2>5. k - offset - 1 \in 0..(n - 1 - passed[t])
      BY <2>1, <2>2, <2>3
    <2> QED BY <2>4, <2>5
  <1>8. CursorFair(Commit(cursor, index), passed)
    BY <1>4, <1>5, <1>7 DEF CursorFair, HasPlaces
  <1> QED BY <1>3, <1>5, <1>6, <1>8

\* The rotation of an edition starts afresh or goes on, and is fair.
LEMMA CurrentIsFair ==
  ASSUME RotationInv, NEW r \in Roles, run.edition \in Editions
  PROVE  /\ CurrentCursor(r) \in Cursor
         /\ CurrentCursor(r).edition = run.edition
         /\ CurrentWaits(r) \in [Targets -> Nat]
         /\ CursorFair(CurrentCursor(r), CurrentWaits(r))
  <1>1. CASE cursors[r].edition = run.edition
    <2>1. CurrentCursor(r) = cursors[r] /\ CurrentWaits(r) = waits[r]
      BY <1>1 DEF CurrentCursor, CurrentWaits
    <2>2. run.edition # None
      BY DispatchAssumption
    <2> QED BY <1>1, <2>1, <2>2 DEF RotationInv
  <1>2. CASE cursors[r].edition # run.edition
    <2>1. /\ CurrentCursor(r) = [edition |-> run.edition, next_index |-> 0]
          /\ CurrentWaits(r) = [t \in Targets |-> 0]
      BY <1>2 DEF CurrentCursor, CurrentWaits
    <2>2. Len(Members[run.edition]) > 0
      BY DispatchAssumption
    <2> QED BY <2>1, <2>2 DEF Cursor, CursorFair
  <1> QED BY <1>1, <1>2

\* What Reserve selects, and the rotation that it commits.
LEMMA ReserveSelects ==
  ASSUME TurnInv, RotationInv, NEW c \in Callers, At(c, "reserve"),
         NEW r, r = calls[c].role,
         NEW index, index = ReservedIndex(CurrentCursor(r), calls[c].eligible),
         NEW target, target = Members[run.edition][index + 1],
         NEW passed, passed = PassOver(CurrentWaits(r), calls[c].eligible, target)
  PROVE  /\ r \in Roles
         /\ run.edition \in Editions
         /\ target \in Targets
         /\ target \in calls[c].eligible
         /\ Commit(CurrentCursor(r), index) \in Cursor
         /\ passed \in [Targets -> Nat]
         /\ CursorFair(Commit(CurrentCursor(r), index), passed)
  <1>1. InProgress(c, calls[c]) /\ calls[c] \in Call
    BY DEF TurnInv, TurnTypeOK, CallsInProgress
  <1>2. /\ r \in Roles /\ run.edition \in Editions
        /\ calls[c].eligible \in SUBSET Targets
        /\ calls[c].eligible # {}
        /\ calls[c].eligible \subseteq PoolTargets
    BY <1>1 DEF InProgress, At, Call
  <1>3. PICK n \in Nat \ {0} : HasPlaces(run.edition, n)
    BY <1>2, MembersTyped DEF HasPlaces
  <1>4. PoolTargets = {Members[run.edition][i] : i \in 1..n}
    BY <1>3 DEF PoolTargets, HasPlaces
  <1>5. /\ CurrentCursor(r) \in Cursor
        /\ CurrentCursor(r).edition = run.edition
        /\ CurrentWaits(r) \in [Targets -> Nat]
        /\ CursorFair(CurrentCursor(r), CurrentWaits(r))
    BY <1>2, CurrentIsFair
  <1>6. /\ target \in calls[c].eligible
        /\ Commit(CurrentCursor(r), index) \in Cursor
        /\ passed \in [Targets -> Nat]
        /\ CursorFair(Commit(CurrentCursor(r), index), passed)
    BY <1>2, <1>3, <1>4, <1>5, SelectionIsFair
  <1> QED BY <1>2, <1>6

\* A cursor and what its members have waited for are replaced together.
LEMMA CursorTurns ==
  ASSUME RotationInv, NEW r \in Roles, NEW next \in Cursor, NEW waiting \in [Targets -> Nat],
         cursors' = [cursors EXCEPT ![r] = next],
         waits' = [waits EXCEPT ![r] = waiting],
         CursorFair(next, waiting)
  PROVE  RotationInv'
  <1>1. ASSUME NEW s \in Roles, cursors'[s].edition # None
        PROVE  CursorFair(cursors[s], waits[s])'
    <2>1. CASE s = r
      <3>1. cursors'[s] = next /\ waits'[s] = waiting
        BY <2>1 DEF RotationInv
      <3> QED BY <3>1 DEF CursorFair, MemberAhead
    <2>2. CASE s # r
      <3>1. cursors'[s] = cursors[s] /\ waits'[s] = waits[s]
        BY <2>2 DEF RotationInv
      <3>2. CursorFair(cursors[s], waits[s])
        BY <1>1, <3>1 DEF RotationInv
      <3> QED BY <3>1, <3>2 DEF CursorFair, MemberAhead
    <2> QED BY <2>1, <2>2
  <1> QED BY <1>1 DEF RotationInv

\* A binding that cannot be built leaves the cursor before its member.
LEMMA BuildFailsRotationInv ==
  ASSUME TurnInv, RotationInv, NEW c \in Callers, BuildFails(c)
  PROVE  RotationInv'
  <1>1. InProgress(c, calls[c]) /\ calls[c].at = "reserve"
    BY DEF TurnInv, CallsInProgress, BuildFails, At
  <1>2. PICK r \in Roles : r = calls[c].role /\ run.edition \in Editions
    BY <1>1 DEF InProgress
  <1>3. /\ CurrentCursor(r) \in Cursor
        /\ CurrentWaits(r) \in [Targets -> Nat]
        /\ CursorFair(CurrentCursor(r), CurrentWaits(r))
    BY <1>2, CurrentIsFair
  <1>4. /\ cursors' = [cursors EXCEPT ![r] = CurrentCursor(r)]
        /\ waits' = [waits EXCEPT ![r] = CurrentWaits(r)]
    BY <1>2 DEF BuildFails
  <1> QED BY <1>3, <1>4, CursorTurns

\* A selection commits a rotation that is fair, or leaves the cursor.
LEMMA ReserveRotationInv ==
  ASSUME TurnInv, RotationInv, NEW c \in Callers, Reserve(c)
  PROVE  RotationInv'
  <1>1. PICK r : r = calls[c].role
    OBVIOUS
  <1>2. PICK cursor : cursor = CurrentCursor(r)
    OBVIOUS
  <1>3. PICK index : index = ReservedIndex(cursor, calls[c].eligible)
    OBVIOUS
  <1>4. PICK target : target = Members[run.edition][index + 1]
    OBVIOUS
  <1>5. PICK passed : passed = PassOver(CurrentWaits(r), calls[c].eligible, target)
    OBVIOUS
  <1>6. At(c, "reserve")
    BY DEF Reserve
  <1>7. /\ r \in Roles
        /\ run.edition \in Editions
        /\ Commit(cursor, index) \in Cursor
        /\ passed \in [Targets -> Nat]
        /\ CursorFair(Commit(cursor, index), passed)
    BY <1>1, <1>2, <1>3, <1>4, <1>5, <1>6, ReserveSelects
  <1>8. /\ cursor \in Cursor
        /\ CurrentWaits(r) \in [Targets -> Nat]
        /\ CursorFair(cursor, CurrentWaits(r))
    BY <1>2, <1>7, CurrentIsFair
  <1>9. PICK next \in Cursor, waiting \in [Targets -> Nat] :
           /\ cursors' = [cursors EXCEPT ![r] = next]
           /\ waits' = [waits EXCEPT ![r] = waiting]
           /\ CursorFair(next, waiting)
    <2>1. CASE run.live /\ ~Cooling(target)
      <3>1. /\ cursors' = [cursors EXCEPT ![r] = Commit(cursor, index)]
            /\ waits' = [waits EXCEPT ![r] = passed]
        BY <1>1, <1>2, <1>3, <1>4, <1>5, <2>1 DEF Reserve
      <3> QED BY <1>7, <3>1
    <2>2. CASE ~(run.live /\ ~Cooling(target))
      <3>1. /\ cursors' = [cursors EXCEPT ![r] = cursor]
            /\ waits' = [waits EXCEPT ![r] = CurrentWaits(r)]
        BY <1>1, <1>2, <1>3, <1>4, <2>2 DEF Reserve
      <3> QED BY <1>8, <3>1
    <2> QED BY <2>1, <2>2
  <1> QED BY <1>7, <1>9, CursorTurns

-----------------------------------------------------------------------------
(* The steps of a call.                                                    *)

\* A call starts, with the binding it has at once or on its way to the gate.
LEMMA StartTurnInv ==
  ASSUME TurnInv, NEW c \in Callers, NEW r \in Roles, Start(c, r)
  PROVE  TurnInv'
  <1>0. run.edition \in Editions
    BY DEF Start, TurnInv, TurnTypeOK
  <1>1. PICK call : call =
            IF ~run.automatic /\ Direct[r] # Pool
            THEN [IdleCall EXCEPT !.at = "bound", !.role = r, !.warned = Resting,
                                  !.binding = Direct[r], !.first = Direct[r]]
            ELSE [IdleCall EXCEPT !.at = Entry, !.role = r, !.warned = Resting]
    OBVIOUS
  <1>2. calls' = [calls EXCEPT ![c] = call] /\ UNCHANGED <<run, turn_cache, selected_routes,
                                                            called, gate>>
    BY <1>1 DEF Start
  <1>3. CASE ~run.automatic /\ Direct[r] # Pool
    <2>1. Direct[r] \in Targets
      BY <1>3, DispatchAssumption
    <2>2. /\ call \in Call /\ call.at = "bound" /\ call.role = r
          /\ call.binding = Direct[r] /\ call.tries = 0
      BY <1>1, <1>3, <2>1, IdleCallTyped DEF Call, Resting
    <2>3. InProgress(c, call)'
      BY <1>0, <1>2, <1>3, <2>1, <2>2 DEF InProgress, Holding, Cached, TurnBinding
    <2> QED BY <1>2, <2>2, <2>3, CalledFrame, CallKeepsTurnInv DEF TurnInv, TurnTypeOK
  <1>4. CASE ~(~run.automatic /\ Direct[r] # Pool)
    <2>1. /\ call \in Call /\ call.at \in {"gate", "pool_gate"} /\ call.role = r
          /\ call.tries = 0
      BY <1>1, <1>4, IdleCallTyped DEF Call, Entry, Resting
    <2>2. InProgress(c, call)'
      BY <1>0, <1>2, <1>4, <2>1 DEF InProgress, Holding, Cached
    <2> QED BY <1>2, <2>1, <2>2, CalledFrame, CallKeepsTurnInv DEF TurnInv, TurnTypeOK
  <1> QED BY <1>3, <1>4

\* The gate is taken when it is free.
LEMMA LockGateTurnInv ==
  ASSUME TurnInv, NEW c \in Callers, LockGate(c)
  PROVE  TurnInv'
  <1>1. /\ InProgress(c, calls[c]) /\ calls[c] \in Call
        /\ calls[c].at \in {"gate", "pool_gate"}
    BY DEF TurnInv, TurnTypeOK, CallsInProgress, LockGate
  <1>2. PICK call : call = [calls[c] EXCEPT !.at = IF At(c, "gate") THEN "lookup"
                                                   ELSE "pool_lookup"]
    OBVIOUS
  <1>3. /\ call \in Call /\ call.at \in {"lookup", "pool_lookup"} /\ call.role = calls[c].role
        /\ call.tries = 0
        /\ calls' = [calls EXCEPT ![c] = call]
    BY <1>1, <1>2 DEF LockGate, Goto, Call, Holding, InLoop, InProgress, TurnInv, TurnTypeOK
  <1>4. gate = None /\ gate' = c /\ UNCHANGED <<run, turn_cache, selected_routes, called>>
    BY DEF LockGate
  <1>5. InProgress(c, call)'
    BY <1>1, <1>3, <1>4 DEF InProgress, Holding, Cached
  <1> QED BY <1>3, <1>4, <1>5, CalledFrame, CallKeepsTurnInv

\* Goto, for a caller who has the gate and found nothing in the cache.
LEMMA GotoTurnInv ==
  ASSUME TurnInv, NEW c \in Callers, NEW step \in Holding \ {"reserve"},
         calls[c].at \in Holding \ {"insert"},
         turn_cache[calls[c].role] = None,
         step \in {"direct", "insert"} => calls[c].binding \in Targets,
         step \notin InLoop => calls[c].tries = 0,
         Goto(c, step),
         UNCHANGED <<run, turn_cache, selected_routes, called, gate>>
  PROVE  TurnInv'
  <1>1. calls[c] \in Call
    BY DEF TurnInv, TurnTypeOK
  <1>2. PICK call : call = [calls[c] EXCEPT !.at = step]
    OBVIOUS
  <1>3. /\ call \in Call /\ call.at = step /\ call.role = calls[c].role
        /\ call.binding = calls[c].binding /\ call.tries = calls[c].tries
        /\ calls' = [calls EXCEPT ![c] = call]
    BY <1>1, <1>2 DEF Goto, Call, TurnInv, TurnTypeOK
  <1> QED BY <1>3, AdvanceTurnInv

\* With the gate the cache is read: what it holds stays until the turn ends.
\* A caller that finds nothing goes on with the gate, or gives it back.
LEMMA LookupTurnInv ==
  ASSUME TurnInv, NEW c \in Callers, Lookup(c)
  PROVE  TurnInv'
  <1>1. InProgress(c, calls[c]) /\ calls[c] \in Call /\ calls[c].at = "lookup"
    BY DEF TurnInv, TurnTypeOK, CallsInProgress, Lookup, At
  <1>2. UNCHANGED <<run, turn_cache, selected_routes, called>>
    BY DEF Lookup
  <1>3. PICK r \in Roles : r = calls[c].role /\ Cached(r) /\ gate = c /\ calls[c].tries = 0
    BY <1>1 DEF InProgress, Holding, InLoop
  <1>4. turn_cache[r] \in Targets \cup {None} /\ None \notin Targets
    BY DispatchAssumption DEF TurnInv, TurnTypeOK
  <1>5. CASE turn_cache[r] # None
    <2>1. Bind(c, turn_cache[r])
      BY <1>3, <1>5 DEF Lookup
    <2> QED BY <1>1, <1>2, <1>3, <1>4, <1>5, <2>1, BindTurnInv DEF Holding, InLoop
  <1>6. CASE turn_cache[r] = None /\ Listed(r)
    <2>1. Goto(c, "evaluate") /\ UNCHANGED gate
      BY <1>3, <1>6 DEF Lookup
    <2> QED BY <1>1, <1>2, <1>3, <1>6, <2>1, GotoTurnInv DEF Holding, InLoop
  <1>7. CASE turn_cache[r] = None /\ ~Listed(r) /\ Direct[r] # Pool
    <2>1. Direct[r] \in Targets
      BY <1>7, DispatchAssumption
    <2>2. PICK call : call = [calls[c] EXCEPT !.at = "direct", !.binding = Direct[r]]
      OBVIOUS
    <2>3. calls' = [calls EXCEPT ![c].at = "direct", ![c].binding = Direct[r]]
            /\ UNCHANGED gate
      BY <1>3, <1>7 DEF Lookup
    <2>4. /\ call \in Call /\ call.at = "direct" /\ call.role = r /\ call.binding \in Targets
          /\ call.tries = 0
          /\ calls' = [calls EXCEPT ![c] = call]
      BY <1>1, <1>3, <2>1, <2>2, <2>3 DEF Call, Holding, TurnInv, TurnTypeOK
    <2>5. "direct" \in Holding /\ "direct" \notin InLoop /\ calls[c].at \in Holding \ {"insert"}
      BY <1>1 DEF Holding, InLoop
    <2>6. UNCHANGED gate
      BY <2>3
    <2> QED BY <1>2, <1>3, <1>7, <2>4, <2>5, <2>6, AdvanceTurnInv
  <1>8. CASE turn_cache[r] = None /\ ~Listed(r) /\ Direct[r] = Pool
    <2>1. Goto(c, "pool_gate") /\ gate' = None
      BY <1>3, <1>8 DEF Lookup
    <2>2. PICK call : call = [calls[c] EXCEPT !.at = "pool_gate"]
      OBVIOUS
    <2>3. /\ call \in Call /\ call.at = "pool_gate" /\ call.role = r /\ call.tries = 0
          /\ calls' = [calls EXCEPT ![c] = call]
      BY <1>1, <1>3, <2>1, <2>2 DEF Call, Goto, TurnInv, TurnTypeOK
    <2>4. InProgress(c, call)'
      BY <1>1, <1>2, <1>3, <2>3 DEF InProgress, Holding, Cached
    <2> QED BY <1>2, <1>3, <2>1, <2>3, <2>4, CalledFrame, CallKeepsTurnInv
  <1> QED BY <1>5, <1>6, <1>7, <1>8

\* The cache is read again: a caller that had the gate in between may have
\* bound the role.
LEMMA PoolLookupTurnInv ==
  ASSUME TurnInv, NEW c \in Callers, PoolLookup(c)
  PROVE  TurnInv'
  <1>1. InProgress(c, calls[c]) /\ calls[c] \in Call /\ calls[c].at = "pool_lookup"
    BY DEF TurnInv, TurnTypeOK, CallsInProgress, PoolLookup, At
  <1>2. calls[c].role \in Roles /\ UNCHANGED <<run, turn_cache, selected_routes, called>>
    BY <1>1 DEF InProgress, PoolLookup
  <1>3. PICK cached : cached = turn_cache[calls[c].role]
    OBVIOUS
  <1>4. cached \in Targets \cup {None} /\ None \notin Targets
    BY <1>2, <1>3, DispatchAssumption DEF TurnInv, TurnTypeOK
  <1>5. CASE cached = None
    <2>1. Goto(c, "select") /\ UNCHANGED gate
      BY <1>3, <1>5 DEF PoolLookup
    <2> QED BY <1>1, <1>2, <1>3, <1>5, <2>1, GotoTurnInv DEF Holding, InLoop
  <1>6. CASE cached # None /\ ~Cooling(cached)
    <2>1. Bind(c, cached)
      BY <1>3, <1>6 DEF PoolLookup
    <2> QED BY <1>1, <1>2, <1>3, <1>4, <1>6, <2>1, BindTurnInv DEF Holding, InLoop
  <1>7. CASE cached # None /\ Cooling(cached)
    <2>1. Leave(c)
      BY <1>3, <1>7 DEF PoolLookup
    <2> QED BY <1>2, <2>1, LeaveTurnInv
  <1> QED BY <1>5, <1>6, <1>7

\* The best candidate of an automatic role is a target or the pool.
LEMMA EvaluateTurnInv ==
  ASSUME TurnInv, NEW c \in Callers, Evaluate(c)
  PROVE  TurnInv'
  <1>1. InProgress(c, calls[c]) /\ calls[c] \in Call /\ calls[c].at = "evaluate"
    BY DEF TurnInv, TurnTypeOK, CallsInProgress, Evaluate, At
  <1>2. /\ calls[c].role \in Roles /\ turn_cache[calls[c].role] = None
        /\ run.edition \in Editions /\ calls[c].tries = 0
        /\ UNCHANGED <<run, turn_cache, selected_routes, called>>
    BY <1>1 DEF InProgress, Holding, InLoop, Evaluate
  <1>3. PICK candidates : candidates = CandidatesOf(calls[c].role)
    OBVIOUS
  <1>4. PICK eligible : eligible = {i \in 1..Len(candidates) : EligibleCandidate(candidates[i])}
    OBVIOUS
  <1>5. CASE ~run.live \/ eligible = {}
    <2>1. Leave(c)
      BY <1>3, <1>4, <1>5 DEF Evaluate
    <2> QED BY <1>2, <2>1, LeaveTurnInv
  <1>6. CASE run.live /\ eligible # {}
    <2>1. PICK best : best = CHOOSE i \in eligible : \A j \in eligible : i <= j
      OBVIOUS
    <2>2. best \in eligible
      <3>1. eligible \subseteq Nat
        BY <1>4
      <3>2. \E i \in eligible : \A j \in eligible : i <= j
        BY <1>6, <3>1, LeastNumber
      <3> QED BY <2>1, <3>2
    <2>3. candidates[best] \in Targets \cup {Pool}
      BY <1>2, <1>3, <1>4, <2>2, DispatchAssumption DEF CandidatesOf
    <2>4. PICK call : call =
             [calls[c] EXCEPT !.at = IF candidates[best] = Pool THEN "select" ELSE "direct",
                              !.binding = IF candidates[best] = Pool THEN None
                                                                     ELSE candidates[best]]
      OBVIOUS
    <2>5. calls' = [calls EXCEPT ![c] = call] /\ UNCHANGED gate
      <3>1. /\ calls' = [calls EXCEPT
                  ![c].at = IF candidates[best] = Pool THEN "select" ELSE "direct",
                  ![c].binding = IF candidates[best] = Pool THEN None ELSE candidates[best]]
            /\ UNCHANGED gate
        BY <1>3, <1>4, <1>6, <2>1 DEF Evaluate
      <3> QED BY <1>1, <2>4, <3>1 DEF TurnInv, TurnTypeOK, Call
    <2>6. /\ call \in Call /\ call.at \in {"select", "direct"} /\ call.role = calls[c].role
          /\ call.at = "direct" => call.binding \in Targets
          /\ call.tries = 0
      BY <1>1, <1>2, <2>3, <2>4 DEF Call, Holding
    <2> QED BY <1>1, <1>2, <2>5, <2>6, AdvanceTurnInv DEF Holding
  <1> QED BY <1>5, <1>6

\* A candidate that is a target is cached unless it cools down.
LEMMA EnsureDirectTurnInv ==
  ASSUME TurnInv, NEW c \in Callers, EnsureDirect(c)
  PROVE  TurnInv'
  <1>1. InProgress(c, calls[c]) /\ calls[c].at = "direct"
    BY DEF TurnInv, CallsInProgress, EnsureDirect, At
  <1>2. /\ turn_cache[calls[c].role] = None /\ calls[c].binding \in Targets
        /\ calls[c].tries = 0
        /\ UNCHANGED <<run, turn_cache, selected_routes, called>>
    BY <1>1 DEF InProgress, Holding, InLoop, EnsureDirect
  <1>3. CASE Leave(c)
    BY <1>2, <1>3, LeaveTurnInv
  <1>4. CASE Goto(c, "insert") /\ UNCHANGED gate
    BY <1>1, <1>2, <1>4, GotoTurnInv DEF Holding
  <1> QED BY <1>3, <1>4 DEF EnsureDirect

\* The eligible members are members of the pool.
LEMMA SelectTurnInv ==
  ASSUME TurnInv, NEW c \in Callers, Select(c)
  PROVE  TurnInv'
  <1>1. InProgress(c, calls[c]) /\ calls[c] \in Call /\ calls[c].at = "select"
    BY DEF TurnInv, TurnTypeOK, CallsInProgress, Select, At
  <1>2. /\ turn_cache[calls[c].role] = None /\ run.edition \in Editions
        /\ UNCHANGED <<run, turn_cache, selected_routes, called>>
    BY <1>1 DEF InProgress, Holding, Select
  <1>3. CASE calls[c].tries = 0 /\ ~run.live
    BY <1>2, <1>3, LeaveTurnInv DEF Select
  <1>4. CASE ~(calls[c].tries = 0 /\ ~run.live)
    <2>1. EligibleTargets \subseteq PoolTargets /\ PoolTargets \subseteq Targets
      BY <1>2, PoolIsFinite DEF EligibleTargets
    <2>2. PICK call : call =
             [calls[c] EXCEPT !.at = IF EligibleTargets = {} THEN "exhausted" ELSE "reserve",
                              !.eligible = EligibleTargets,
                              !.recovered = @ /\ calls[c].tries > 0]
      OBVIOUS
    <2>3. calls' = [calls EXCEPT ![c] = call] /\ UNCHANGED gate
      BY <1>1, <1>4, <2>2 DEF Select, TurnInv, TurnTypeOK, Call
    <2>4. /\ call \in Call /\ call.role = calls[c].role
          /\ call.eligible = EligibleTargets
          /\ call.at = "exhausted" \/ (call.at = "reserve" /\ call.eligible # {})
      BY <1>1, <2>1, <2>2 DEF Call, Holding
    <2> QED BY <1>1, <1>2, <1>4, <2>1, <2>3, <2>4, AdvanceTurnInv DEF Holding, InLoop
  <1> QED BY <1>3, <1>4

\* A member is reserved and is about to be cached.
LEMMA ReserveTurnInv ==
  ASSUME TurnInv, RotationInv, NEW c \in Callers, Reserve(c)
  PROVE  TurnInv'
  <1>1. InProgress(c, calls[c]) /\ calls[c] \in Call /\ calls[c].at = "reserve"
    BY DEF TurnInv, TurnTypeOK, CallsInProgress, Reserve, At
  <1>2. /\ turn_cache[calls[c].role] = None
        /\ UNCHANGED <<run, turn_cache, selected_routes, called>>
    BY <1>1 DEF InProgress, Holding, Reserve
  <1>3. PICK r : r = calls[c].role
    OBVIOUS
  <1>4. PICK index : index = ReservedIndex(CurrentCursor(r), calls[c].eligible)
    OBVIOUS
  <1>5. PICK target : target = Members[run.edition][index + 1]
    OBVIOUS
  <1>6. target \in Targets
    BY <1>1, <1>3, <1>4, <1>5, ReserveSelects DEF At
  <1>7. CASE Leave(c)
    BY <1>2, <1>7, LeaveTurnInv
  <1>8. CASE /\ calls' = [calls EXCEPT ![c].at = "insert", ![c].binding = target,
                                       ![c].eligible = {}, ![c].tries = 0,
                                       ![c].recovered = FALSE]
             /\ UNCHANGED gate
    <2>1. PICK call : call = [calls[c] EXCEPT !.at = "insert", !.binding = target,
                                              !.eligible = {}, !.tries = 0,
                                              !.recovered = FALSE]
      OBVIOUS
    <2>2. calls' = [calls EXCEPT ![c] = call]
      BY <1>1, <1>8, <2>1 DEF TurnInv, TurnTypeOK, Call
    <2>3. /\ call \in Call /\ call.at = "insert" /\ call.role = calls[c].role
          /\ call.binding = target /\ call.tries = 0
      BY <1>1, <1>6, <2>1 DEF Call, Holding
    <2> QED BY <1>1, <1>2, <1>6, <1>8, <2>2, <2>3, AdvanceTurnInv DEF Holding
  <1>9. ASSUME NEW at \in {"select", "exhausted"},
               calls' = [calls EXCEPT ![c].at = at, ![c].tries = @ + 1], UNCHANGED gate
        PROVE  TurnInv'
    <2>1. PICK call : call = [calls[c] EXCEPT !.at = at, !.tries = @ + 1]
      OBVIOUS
    <2>2. calls' = [calls EXCEPT ![c] = call]
      BY <1>1, <1>9, <2>1 DEF TurnInv, TurnTypeOK, Call
    <2>3. call \in Call /\ call.at = at /\ call.role = calls[c].role
      <3>1. calls[c].tries + 1 \in Nat
        BY <1>1 DEF Call
      <3> QED BY <1>1, <1>9, <2>1, <3>1 DEF Call, Holding
    <2> QED BY <1>1, <1>2, <1>9, <2>2, <2>3, AdvanceTurnInv DEF Holding, InLoop
  <1> QED BY <1>3, <1>4, <1>5, <1>7, <1>8, <1>9 DEF Reserve

\* The only write to the turn's cache: nobody has used the role's entry before.
LEMMA InsertTurnInv ==
  ASSUME TurnInv, NEW c \in Callers, Insert(c)
  PROVE  TurnInv'
  <1>1. InProgress(c, calls[c]) /\ calls[c] \in Call /\ calls[c].at = "insert"
    BY DEF TurnInv, TurnTypeOK, CallsInProgress, Insert, At
  <1>2. PICK r : r = calls[c].role
    OBVIOUS
  <1>3. PICK target : target = calls[c].binding
    OBVIOUS
  <1>4. /\ r \in Roles /\ Cached(r) /\ turn_cache[r] = None /\ gate = c
        /\ target \in Targets /\ None \notin Targets /\ run.edition \in Editions
    BY <1>1, <1>2, <1>3, DispatchAssumption DEF InProgress, Holding
  <1>5. /\ turn_cache' = [turn_cache EXCEPT ![r] = target]
        /\ selected_routes' = IF Recorded(r) THEN [selected_routes EXCEPT ![r] = target]
                              ELSE selected_routes
        /\ UNCHANGED <<run, called>>
    BY <1>2, <1>3 DEF Insert
  <1>6. PICK call : call = IF calls[c].again
                           THEN [calls[c] EXCEPT !.at = "bound", !.binding = target]
                           ELSE [calls[c] EXCEPT !.at = Entry, !.again = TRUE,
                                                 !.first = target, !.binding = None,
                                                 !.eligible = {}, !.tries = 0]
    OBVIOUS
  <1>7. calls' = [calls EXCEPT ![c] = call] /\ gate' = None
    BY <1>3, <1>6 DEF Insert, Bind
  <1>8. /\ call \in Call
        /\ call.role = r
        /\ call.at \in {"gate", "pool_gate"} \/ (call.at = "bound" /\ call.binding = target)
        /\ call.tries = 0
    BY <1>1, <1>2, <1>4, <1>6 DEF Call, Entry, InProgress, InLoop
  <1>9. /\ turn_cache' \in [Roles -> Targets \cup {None}]
        /\ turn_cache'[r] = target
        /\ \A s \in Roles \ {r} : turn_cache'[s] = turn_cache[s]
    BY <1>4, <1>5 DEF TurnInv, TurnTypeOK
  <1>10. TurnTypeOK'
    BY <1>4, <1>5, <1>7, <1>8, <1>9 DEF TurnInv, TurnTypeOK
  <1>11. CallsInProgress'
    <2> SUFFICES ASSUME NEW d \in Callers PROVE InProgress(d, calls[d])'
      BY DEF CallsInProgress
    <2>1. CASE d = c
      <3>1. calls'[d] = call
        BY <1>7, <2>1 DEF TurnInv, TurnTypeOK
      <3> QED BY <1>4, <1>5, <1>8, <1>9, <3>1 DEF InProgress, Holding, Cached, TurnBinding
    <2>2. CASE d # c
      <3>1. calls'[d] = calls[d] /\ InProgress(d, calls[d])
        BY <1>7, <2>2 DEF TurnInv, TurnTypeOK, CallsInProgress
      <3>2. calls[d].at \notin Holding
        BY <1>4, <2>2, <3>1 DEF InProgress
      <3>3. calls[d].at \in {"bound", "checked", "calling"} =>
               \/ ~Cached(calls[d].role)
               \/ /\ calls[d].role \in Roles \ {r}
                  /\ calls[d].binding = turn_cache'[calls[d].role]
        BY <1>4, <1>9, <3>1 DEF InProgress, TurnBinding
      <3> QED BY <1>5, <3>1, <3>2, <3>3 DEF InProgress, Holding, Cached, TurnBinding
    <2> QED BY <2>1, <2>2
  <1>12. CalledIsBound'
    <2> SUFFICES ASSUME NEW s \in Roles
                 PROVE  called'[s] \subseteq ({TurnBinding(s)} \ {None})'
      BY DEF CalledIsBound
    <2>1. called[s] \subseteq {TurnBinding(s)} \ {None}
      BY DEF TurnInv, CalledIsBound
    <2>2. CASE s = r
      BY <1>4, <1>5, <2>1, <2>2 DEF TurnBinding
    <2>3. CASE s # r
      BY <1>5, <1>9, <2>1, <2>3 DEF TurnBinding, Cached
    <2> QED BY <2>2, <2>3
  <1>13. RoutesAreCached'
    <2> SUFFICES ASSUME run.automatic, NEW s \in Roles
                 PROVE  selected_routes'[s] = IF Recorded(s) THEN turn_cache'[s] ELSE None
      BY <1>5 DEF RoutesAreCached, Recorded, Listed, CandidatesOf
    <2>1. selected_routes[s] = IF Recorded(s) THEN turn_cache[s] ELSE None
      BY DEF TurnInv, RoutesAreCached
    <2> QED BY <1>4, <1>5, <1>9, <2>1 DEF TurnInv, TurnTypeOK
  <1> QED BY <1>10, <1>11, <1>12, <1>13 DEF TurnInv

\* A look at the cooldown leaves the binding alone.
LEMMA EnsureTurnInv ==
  ASSUME TurnInv, NEW c \in Callers, Ensure(c)
  PROVE  TurnInv'
  <1>1. InProgress(c, calls[c]) /\ calls[c] \in Call /\ calls[c].at = "bound"
    BY DEF TurnInv, TurnTypeOK, CallsInProgress, Ensure, At
  <1>2. UNCHANGED <<run, turn_cache, selected_routes, called>>
    BY DEF Ensure
  <1>3. CASE Leave(c)
    BY <1>2, <1>3, LeaveTurnInv
  <1>4. CASE Goto(c, "checked") /\ UNCHANGED gate
    <2>1. PICK call : call = [calls[c] EXCEPT !.at = "checked"]
      OBVIOUS
    <2>2. /\ call \in Call /\ call.at = "checked" /\ call.role = calls[c].role
          /\ call.binding = calls[c].binding /\ call.tries = calls[c].tries
          /\ calls' = [calls EXCEPT ![c] = call]
      BY <1>1, <1>4, <2>1 DEF Goto, Call, TurnInv, TurnTypeOK
    <2>3. InProgress(c, call)'
      BY <1>1, <1>2, <2>2 DEF InProgress, Holding, InLoop, Cached, TurnBinding
    <2> QED BY <1>2, <1>4, <2>2, <2>3, CalledFrame, CallKeepsTurnInv DEF TurnInv, TurnTypeOK
  <1> QED BY <1>3, <1>4 DEF Ensure

\* The target that is called is the one the turn holds for the role.
LEMMA InvokeTurnInv ==
  ASSUME TurnInv, NEW c \in Callers, Invoke(c)
  PROVE  TurnInv'
  <1>1. InProgress(c, calls[c]) /\ calls[c] \in Call /\ calls[c].at = "checked"
    BY DEF TurnInv, TurnTypeOK, CallsInProgress, Invoke, At
  <1>2. PICK r \in Roles, target \in Targets :
            /\ r = calls[c].role /\ target = calls[c].binding
            /\ target = TurnBinding(r)
    BY <1>1 DEF InProgress
  <1>3. UNCHANGED <<run, turn_cache, selected_routes>>
    BY DEF Invoke
  <1>4. CASE Leave(c) /\ UNCHANGED called
    BY <1>3, <1>4, LeaveTurnInv
  <1>5. CASE /\ Goto(c, "calling")
             /\ called' = [called EXCEPT ![r] = @ \cup {target}]
             /\ UNCHANGED gate
    <2>1. PICK call : call = [calls[c] EXCEPT !.at = "calling"]
      OBVIOUS
    <2>2. /\ call \in Call /\ call.at = "calling" /\ call.role = r /\ call.binding = target
          /\ call.tries = calls[c].tries
          /\ calls' = [calls EXCEPT ![c] = call]
      BY <1>1, <1>2, <1>5, <2>1 DEF Goto, Call, TurnInv, TurnTypeOK
    <2>3. InProgress(c, call)'
      BY <1>1, <1>2, <1>3, <2>2 DEF InProgress, Holding, InLoop, Cached, TurnBinding
    <2>4. called' \in [Roles -> SUBSET Targets]
      BY <1>5 DEF TurnInv, TurnTypeOK
    <2>5. CalledIsBound'
      <3>1. target # None
        BY DispatchAssumption
      <3>2. \A s \in Roles : TurnBinding(s)' = TurnBinding(s)
        BY <1>3 DEF TurnBinding, Cached
      <3> QED BY <1>2, <1>5, <3>1, <3>2 DEF CalledIsBound, TurnInv, TurnTypeOK
    <2> QED BY <1>3, <1>5, <2>2, <2>3, <2>4, <2>5, CallKeepsTurnInv DEF TurnInv, TurnTypeOK
  <1> QED BY <1>2, <1>4, <1>5 DEF Invoke

\* A new turn holds nothing for any role.
LEMMA BeginTurnTurnInv ==
  ASSUME TurnInv, NEW edition \in Editions, NEW automatic \in BOOLEAN,
         BeginTurn(edition, automatic)
  PROVE  TurnInv'
  <1>1. TurnTypeOK'
    BY DEF BeginTurn, TurnInv, TurnTypeOK, NoCache
  <1>2. CallsInProgress'
    BY IdleCallTyped DEF BeginTurn, CallsInProgress, InProgress, Holding, InLoop
  <1>3. RoutesAreCached'
    BY DEF BeginTurn, RoutesAreCached, NoCache
  <1> QED BY <1>1, <1>2, <1>3 DEF BeginTurn, TurnInv, CalledIsBound

\* The end of a run changes nothing that a call relies on.
LEMMA RunFrameTurnInv ==
  ASSUME TurnInv,
         run' = run \/ run' = [run EXCEPT !.live = FALSE],
         UNCHANGED <<turn_cache, selected_routes, gate, calls, called>>
  PROVE  TurnInv'
  <1>1. /\ run'.edition = run.edition /\ run'.automatic = run.automatic
        /\ run' \in [live : BOOLEAN, edition : Editions \cup {None}, automatic : BOOLEAN]
        /\ run'.live => run'.edition \in Editions
    BY DEF TurnInv, TurnTypeOK
  <1>2. TurnTypeOK'
    BY <1>1 DEF TurnInv, TurnTypeOK
  <1>3. CallsInProgress'
    BY <1>1 DEF TurnInv, CallsInProgress, InProgress, Cached, TurnBinding, PoolTargets
  <1>4. CalledIsBound' /\ RoutesAreCached'
    BY <1>1 DEF TurnInv, CalledIsBound, RoutesAreCached, TurnBinding, Cached, Recorded,
                Listed, CandidatesOf
  <1> QED BY <1>2, <1>3, <1>4 DEF TurnInv

\* What time does to a call: nothing but to its history.
LEMMA TickCallTyped ==
  ASSUME NEW call \in Call
  PROVE  /\ TickCall(call) \in Call
         /\ TickCall(call).at = call.at /\ TickCall(call).role = call.role
         /\ TickCall(call).binding = call.binding /\ TickCall(call).eligible = call.eligible
         /\ TickCall(call).tries = call.tries
         /\ TickCall(call).warned = {t \in call.warned : resting[t] > 1}
         /\ TickCall(call).recovered =
               \/ call.recovered
               \/ call.at \in InLoop /\ \E t \in Targets : cooling[t] = 1
  BY DEF TickCall, Call, InLoop

\* Time passes.
LEMMA TickTurnInv ==
  ASSUME TurnInv, Tick
  PROVE  TurnInv'
  <1>1. /\ UNCHANGED <<run, turn_cache, selected_routes, gate, called>>
        /\ calls' = [c \in Callers |-> TickCall(calls[c])]
    BY DEF Tick
  <1>2. \A c \in Callers : calls[c] \in Call
    BY DEF TurnInv, TurnTypeOK
  <1>3. TurnTypeOK'
    BY <1>1, <1>2, TickCallTyped DEF TurnInv, TurnTypeOK
  <1>4. CallsInProgress'
    <2> SUFFICES ASSUME NEW c \in Callers PROVE InProgress(c, calls[c])'
      BY DEF CallsInProgress
    <2>1. PICK call \in Call : call = calls[c] /\ InProgress(c, call)
      BY <1>2 DEF TurnInv, CallsInProgress
    <2>2. PICK after \in Call :
             /\ after = calls'[c]
             /\ after.at = call.at /\ after.role = call.role
             /\ after.binding = call.binding /\ after.eligible = call.eligible
             /\ after.tries = call.tries
      BY <1>1, <2>1, TickCallTyped
    <2>3. InProgress(c, after)'
      BY <1>1, <2>1, <2>2 DEF InProgress, Cached, TurnBinding, PoolTargets
    <2> QED BY <2>2, <2>3
  <1>5. CalledIsBound' /\ RoutesAreCached'
    BY <1>1 DEF TurnInv, CalledIsBound, RoutesAreCached, TurnBinding, Cached, Recorded,
                Listed, CandidatesOf
  <1> QED BY <1>3, <1>4, <1>5 DEF TurnInv

-----------------------------------------------------------------------------
(* The cooldown.                                                           *)

\* A step of one call touches no other call's record.
LEMMA OneCall ==
  ASSUME TurnInv, NEW c \in Callers,
         \/ \E r \in Roles : Start(c, r)
         \/ LockGate(c) \/ CallStep(c) \/ Drop(c)
  PROVE  \E call : calls' = [calls EXCEPT ![c] = call]
  <1>1. calls \in [Callers -> Call]
    BY DEF TurnInv, TurnTypeOK
  <1>2. CASE Leave(c) \/ (\E target : Bind(c, target)) \/ \E step : Goto(c, step)
    BY <1>1, <1>2 DEF Leave, Bind, Goto
  <1>3. CASE \E r \in Roles : Start(c, r)
    BY <1>3 DEF Start
  <1>4. CASE LockGate(c) \/ PoolLookup(c) \/ EnsureDirect(c) \/ Insert(c) \/ Ensure(c)
    BY <1>2, <1>4 DEF LockGate, PoolLookup, EnsureDirect, Insert, Ensure
  <1>5. CASE Lookup(c)
    BY <1>2, <1>5 DEF Lookup
  <1>6. CASE Evaluate(c)
    BY <1>2, <1>6 DEF Evaluate
  <1>7. CASE Select(c)
    BY <1>2, <1>7 DEF Select
  <1>8. CASE Reserve(c)
    BY <1>2, <1>8 DEF Reserve
  <1>9. CASE Invoke(c) \/ BuildFails(c) \/ GiveUp(c) \/ Succeed(c) \/ Drop(c)
               \/ \E hint \in 0..MaxHint : Fail(c, hint)
    BY <1>2, <1>9 DEF Invoke, BuildFails, GiveUp, Succeed, Fail, Drop
  <1> QED BY <1>3, <1>4, <1>5, <1>6, <1>7, <1>8, <1>9 DEF CallStep

\* What a call was warned of is settled when it begins, and nobody goes on to
\* call a target but by way of the check.
LEMMA WarnedStep ==
  ASSUME TurnInv, NEW c \in Callers,
         LockGate(c) \/ CallStep(c) \/ Drop(c), ~Ensure(c)
  PROVE  /\ calls'[c].warned \in {{}, calls[c].warned}
         /\ calls'[c].at \in {"checked", "calling"} =>
               /\ calls[c].at = "checked"
               /\ calls'[c].binding = calls[c].binding
               /\ calls'[c].warned = calls[c].warned
  <1>1. calls \in [Callers -> Call] /\ calls[c] \in Call
    BY DEF TurnInv, TurnTypeOK
  <1> USE IdleCallTyped
  <1>2. CASE Leave(c)
    BY <1>1, <1>2 DEF Leave
  <1>3. CASE \E target : Bind(c, target)
    <2>1. PICK target : Bind(c, target)
      BY <1>3
    <2>2. CASE calls[c].again
      BY <1>1, <2>1, <2>2 DEF Bind, Call
    <2>3. CASE ~calls[c].again
      BY <1>1, <2>1, <2>3 DEF Bind, Call, Entry
    <2> QED BY <2>2, <2>3
  <1>4. CASE \E step \in (Holding \cup {"pool_gate"}) : Goto(c, step)
    BY <1>1, <1>4 DEF Goto, Call, Holding
  <1>5. CASE LockGate(c)
    BY <1>4, <1>5 DEF LockGate, Holding
  <1>6. CASE Lookup(c)
    <2>1. CASE calls' = [calls EXCEPT ![c].at = "direct", ![c].binding = Direct[calls[c].role]]
      BY <1>1, <2>1 DEF Call
    <2> QED BY <1>3, <1>4, <1>6, <2>1 DEF Lookup, Holding
  <1>7. CASE PoolLookup(c)
    BY <1>2, <1>3, <1>4, <1>7 DEF PoolLookup, Holding
  <1>8. CASE Evaluate(c)
    BY <1>1, <1>2, <1>8 DEF Evaluate, Call
  <1>9. CASE EnsureDirect(c)
    BY <1>2, <1>4, <1>9 DEF EnsureDirect, Holding
  <1>10. CASE Select(c)
    <2>1. ASSUME NEW at \in InLoop, NEW recovered \in BOOLEAN,
                 calls' = [calls EXCEPT ![c].at = at, ![c].eligible = EligibleTargets,
                                        ![c].recovered = recovered]
          PROVE  calls'[c].warned = calls[c].warned /\ calls'[c].at = at
      BY <1>1, <2>1 DEF Call
    <2>2. CASE calls[c].tries = 0 /\ ~run.live
      BY <1>2, <1>10, <2>2 DEF Select
    <2>3. CASE ~(calls[c].tries = 0 /\ ~run.live)
      <3>1. PICK at \in InLoop, recovered \in BOOLEAN :
               calls' = [calls EXCEPT ![c].at = at, ![c].eligible = EligibleTargets,
                                      ![c].recovered = recovered]
        BY <1>1, <1>10, <2>3 DEF Select, InLoop, Call
      <3> QED BY <2>1, <3>1 DEF InLoop
    <2> QED BY <2>2, <2>3
  <1>11. CASE Reserve(c)
    BY <1>1, <1>2, <1>11 DEF Reserve, Call
  <1>12. CASE Insert(c)
    BY <1>3, <1>12 DEF Insert
  <1>13. CASE Invoke(c)
    <2>1. CASE Goto(c, "calling")
      BY <1>1, <1>13, <2>1 DEF Goto, Invoke, At, Call
    <2> QED BY <1>2, <1>13, <2>1 DEF Invoke
  <1>14. CASE BuildFails(c) \/ GiveUp(c) \/ Succeed(c) \/ Drop(c)
                \/ \E hint \in 0..MaxHint : Fail(c, hint)
    BY <1>2, <1>14 DEF BuildFails, GiveUp, Succeed, Fail, Drop
  <1> QED
    BY <1>5, <1>6, <1>7, <1>8, <1>9, <1>10, <1>11, <1>12, <1>13, <1>14 DEF CallStep

\* The warnings of the other calls stand while no target's rest is shortened.
LEMMA RestFrame ==
  ASSUME TurnInv, RestInv, NEW c \in Callers, NEW call, calls' = [calls EXCEPT ![c] = call],
         cooling' \in [Targets -> Nat], resting' \in [Targets -> Nat],
         \A t \in Targets : resting'[t] <= cooling'[t] /\ resting[t] <= resting'[t],
         call.warned \subseteq Resting, Heeds(call)
  PROVE  RestInv'
  <1>1. Resting \subseteq Resting'
    BY DEF RestInv, Resting
  <1>2. ASSUME NEW d \in Callers
        PROVE  calls'[d].warned \subseteq Resting' /\ Heeds(calls[d])'
    <2>1. calls \in [Callers -> Call]
      BY DEF TurnInv, TurnTypeOK
    <2>2. CASE d = c
      BY <1>1, <2>1, <2>2 DEF Heeds
    <2>3. CASE d # c
      BY <1>1, <2>1, <2>3 DEF RestInv, Heeds
    <2> QED BY <2>2, <2>3
  <1> QED BY <1>2 DEF RestInv

\* A failure is recorded with the longer of the two times, and both pass alike;
\* a call goes past the check only if the target does not rest.
LEMMA RestStep ==
  ASSUME TurnInv, RestInv, Next
  PROVE  RestInv'
  <1>0. calls \in [Callers -> Call]
    BY DEF TurnInv, TurnTypeOK
  <1>1. CASE Tick
    <2>1. /\ cooling' = [t \in Targets |-> Max2(cooling[t] - 1, 0)]
          /\ resting' = [t \in Targets |-> Max2(resting[t] - 1, 0)]
      BY <1>1 DEF Tick
    <2>2. /\ cooling' \in [Targets -> Nat] /\ resting' \in [Targets -> Nat]
          /\ \A t \in Targets : resting'[t] <= cooling'[t]
          /\ \A t \in Targets : resting[t] > 1 => resting'[t] > 0
      BY <2>1 DEF RestInv, Max2
    <2>3. ASSUME NEW c \in Callers
          PROVE  calls'[c].warned \subseteq Resting' /\ Heeds(calls[c])'
      <3>1. calls[c] \in Call /\ calls'[c] = TickCall(calls[c]) /\ calls[c].warned \subseteq Targets
        BY <1>0, <1>1 DEF Tick, Call
      <3>2. /\ calls'[c].warned = {t \in calls[c].warned : resting[t] > 1}
            /\ calls'[c].at = calls[c].at /\ calls'[c].binding = calls[c].binding
        BY <3>1, TickCallTyped
      <3>3. Heeds(calls[c])
        BY DEF RestInv
      <3> QED BY <2>2, <3>1, <3>2, <3>3 DEF Resting, Heeds
    <2> QED BY <2>2, <2>3 DEF RestInv
  <1>2. ASSUME NEW c \in Callers, NEW hint \in 0..MaxHint, Fail(c, hint)
        PROVE  RestInv'
    <2>1. PICK t \in Targets : t = calls[c].binding
      BY <1>2 DEF Fail, At, TurnInv, CallsInProgress, InProgress
    <2>2. hint \in Nat
      BY <1>2, DispatchAssumption
    <2>3. /\ cooling' = [cooling EXCEPT ![t] = Max2(cooling[t], hint)]
          /\ resting' = [resting EXCEPT ![t] = Max2(resting[t], hint)]
      BY <1>2, <2>1 DEF Fail, RecordCooldown
    <2>4. /\ cooling' \in [Targets -> Nat] /\ resting' \in [Targets -> Nat]
          /\ \A u \in Targets : resting'[u] <= cooling'[u] /\ resting[u] <= resting'[u]
      BY <2>2, <2>3 DEF RestInv, Max2
    <2>5. calls' = [calls EXCEPT ![c] = IdleCall]
      BY <1>2 DEF Fail, Leave
    <2>6. IdleCall.warned \subseteq Resting /\ Heeds(IdleCall)
      BY IdleCallTyped DEF Heeds
    <2> QED BY <2>4, <2>5, <2>6, RestFrame
  <1>3. ASSUME NEW c \in Callers, NEW call, calls' = [calls EXCEPT ![c] = call],
               UNCHANGED <<cooling, resting>>,
               call.warned \subseteq Resting, Heeds(call)
        PROVE  RestInv'
    <2>1. /\ cooling' \in [Targets -> Nat] /\ resting' \in [Targets -> Nat]
          /\ \A u \in Targets : resting'[u] <= cooling'[u] /\ resting[u] <= resting'[u]
      BY <1>3 DEF RestInv
    <2> QED BY <1>3, <2>1, RestFrame
  <1>4. ASSUME NEW c \in Callers, NEW r \in Roles, Start(c, r)
        PROVE  RestInv'
    <2>1. PICK call : call =
            IF ~run.automatic /\ Direct[r] # Pool
            THEN [IdleCall EXCEPT !.at = "bound", !.role = r, !.warned = Resting,
                                  !.binding = Direct[r], !.first = Direct[r]]
            ELSE [IdleCall EXCEPT !.at = Entry, !.role = r, !.warned = Resting]
      OBVIOUS
    <2>2. calls' = [calls EXCEPT ![c] = call] /\ UNCHANGED <<cooling, resting>>
      BY <1>4, <2>1 DEF Start
    <2>3. call.warned = Resting /\ call.at \in {"bound", "gate", "pool_gate"}
      BY <2>1, IdleCallTyped DEF Entry, Call
    <2> QED BY <1>3, <2>2, <2>3 DEF Heeds
  <1>5. ASSUME NEW c \in Callers, Ensure(c)
        PROVE  RestInv'
    <2>1. UNCHANGED <<cooling, resting>> /\ calls[c] \in Call
      BY <1>0, <1>5 DEF Ensure
    <2>2. CASE Leave(c)
      BY <1>3, <2>1, <2>2, IdleCallTyped DEF Leave, Heeds
    <2>3. CASE ~Cooling(calls[c].binding) /\ Goto(c, "checked")
      <3>1. PICK call : call = [calls[c] EXCEPT !.at = "checked"]
        OBVIOUS
      <3>2. /\ calls' = [calls EXCEPT ![c] = call]
            /\ call.binding = calls[c].binding /\ call.warned = calls[c].warned
        BY <1>0, <2>1, <2>3, <3>1 DEF Goto, Call
      <3>3. calls[c].binding \in Targets
        BY <1>5 DEF Ensure, At, TurnInv, CallsInProgress, InProgress
      <3>4. calls[c].binding \notin Resting
        BY <2>3, <3>3 DEF Cooling, RestInv, Resting
      <3> QED BY <1>3, <2>1, <3>2, <3>4 DEF RestInv, Heeds
    <2> QED BY <1>5, <2>2, <2>3 DEF Ensure
  <1>6. ASSUME NEW c \in Callers, LockGate(c) \/ CallStep(c) \/ Drop(c), ~Ensure(c),
               UNCHANGED <<cooling, resting>>
        PROVE  RestInv'
    <2>1. PICK call : calls' = [calls EXCEPT ![c] = call]
      BY <1>6, OneCall
    <2>2. call = calls'[c]
      BY <1>0, <2>1
    <2>3. call.warned \subseteq Resting /\ Heeds(call)
      BY <1>6, <2>2, WarnedStep DEF RestInv, Heeds
    <2> QED BY <1>3, <1>6, <2>1, <2>3
  <1>7. CASE UNCHANGED <<cooling, resting, calls>>
    BY <1>7 DEF RestInv, Resting, Heeds
  <1>8. ASSUME NEW c \in Callers, LockGate(c) \/ CallStep(c) \/ Drop(c), ~Ensure(c)
        PROVE  UNCHANGED <<cooling, resting>> \/ \E hint \in 0..MaxHint : Fail(c, hint)
    BY <1>8 DEF CallStep, LockGate, Lookup, PoolLookup, Evaluate, EnsureDirect, Select,
       Reserve, BuildFails, GiveUp, Insert, Invoke, Succeed, Drop
  <1> QED
    BY <1>1, <1>2, <1>4, <1>5, <1>6, <1>7, <1>8 DEF Next, BeginTurn, EndRun

-----------------------------------------------------------------------------
(* The tries of a selection.                                               *)

\* The eligible members are finitely many, and no more than the pool has.
LEMMA EligibleIsFinite ==
  ASSUME run.edition \in Editions
  PROVE  /\ IsFiniteSet(EligibleTargets)
         /\ Cardinality(EligibleTargets) \in Nat
         /\ Cardinality(EligibleTargets) <= Len(Members[run.edition])
         /\ \A S \in SUBSET EligibleTargets :
               Cardinality(S) \in Nat /\ Cardinality(S) <= Cardinality(EligibleTargets)
  <1>1. EligibleTargets \subseteq PoolTargets
    BY DEF EligibleTargets
  <1>2. /\ IsFiniteSet(PoolTargets) /\ Cardinality(PoolTargets) \in Nat
        /\ Cardinality(PoolTargets) <= Len(Members[run.edition])
    BY PoolIsFinite, FS_CardinalityType
  <1>3. /\ IsFiniteSet(EligibleTargets) /\ Cardinality(EligibleTargets) \in Nat
        /\ Cardinality(EligibleTargets) <= Cardinality(PoolTargets)
    BY <1>1, <1>2, FS_Subset, FS_CardinalityType
  <1>4. ASSUME NEW S \in SUBSET EligibleTargets
        PROVE  Cardinality(S) \in Nat /\ Cardinality(S) <= Cardinality(EligibleTargets)
    BY <1>3, FS_Subset, FS_CardinalityType
  <1>5. Len(Members[run.edition]) \in Nat
    BY MembersTyped
  <1> QED BY <1>2, <1>3, <1>4, <1>5

\* A call has tries left as long as no cooldown ends, whoever starts cooling.
LEMMA FewerEligible ==
  ASSUME TurnInv, run.edition \in Editions, UNCHANGED run,
         EligibleTargets' \subseteq EligibleTargets,
         NEW call \in Call, TriesLeft(call)
  PROVE  TriesLeft(call)'
  <1>1. PICK n \in Nat : n = Len(Members[run.edition])
    BY MembersTyped
  <1>2. PICK more : more = EligibleTargets
    OBVIOUS
  <1>3. PICK fewer : fewer = EligibleTargets'
    OBVIOUS
  <1>4. /\ Cardinality(fewer) \in Nat /\ Cardinality(more) \in Nat
        /\ Cardinality(fewer) <= Cardinality(more)
    BY <1>2, <1>3, EligibleIsFinite
  <1>5. ~call.recovered =>
          /\ call.at = "select" => Cardinality(more) <= n - call.tries
          /\ call.at = "reserve" => /\ more \subseteq call.eligible
                                    /\ Cardinality(call.eligible) <= n - call.tries
          /\ call.at = "exhausted" => more = {}
    BY <1>1, <1>2 DEF TriesLeft
  <1>6. call.tries \in Nat
    BY DEF Call
  <1>7. ~call.recovered =>
          /\ call.at = "select" => Cardinality(fewer) <= n - call.tries
          /\ call.at = "reserve" => /\ fewer \subseteq call.eligible
                                    /\ Cardinality(call.eligible) <= n - call.tries
          /\ call.at = "exhausted" => fewer = {}
    BY <1>2, <1>3, <1>4, <1>5, <1>6
  <1> QED BY <1>1, <1>3, <1>7 DEF TriesLeft

\* A step of one call that frees no target.
LEMMA TriesFrame ==
  ASSUME TurnInv, TriesInv, NEW c \in Callers, NEW call, calls' = [calls EXCEPT ![c] = call],
         UNCHANGED run, run.edition \in Editions,
         EligibleTargets' \subseteq EligibleTargets,
         TriesLeft(call)'
  PROVE  TriesInv'
  <1> SUFFICES ASSUME NEW d \in Callers PROVE TriesLeft(calls[d])'
    BY DEF TriesInv
  <1>1. calls \in [Callers -> Call]
    BY DEF TurnInv, TurnTypeOK
  <1>2. CASE d = c
    BY <1>1, <1>2
  <1>3. CASE d # c
    <2>1. calls'[d] = calls[d] /\ calls[d] \in Call /\ TriesLeft(calls[d])
      BY <1>1, <1>3 DEF TriesInv
    <2>2. PICK other \in Call : other = calls[d] /\ TriesLeft(other)
      BY <2>1
    <2>3. TriesLeft(other)'
      BY <2>2, FewerEligible
    <2> QED BY <2>1, <2>2, <2>3
  <1> QED BY <1>2, <1>3

\* Outside the loop nothing is claimed.
LEMMA NotInLoop ==
  ASSUME NEW call, call.at \notin InLoop
  PROVE  TriesLeft(call)'
  BY DEF TriesLeft, InLoop

\* The loop begins with a try for every member.
LEMMA LoopBegins ==
  ASSUME run.edition \in Editions, UNCHANGED <<run, cooling>>,
         NEW call, call.at = "select", call.tries = 0
  PROVE  TriesLeft(call)'
  <1>1. EligibleTargets' = EligibleTargets
    BY DEF EligibleTargets, PoolTargets, Cooling
  <1>2. PICK n \in Nat : n = Len(Members[run.edition])
    BY MembersTyped
  <1>3. Cardinality(EligibleTargets) <= n - 0
    BY <1>2, EligibleIsFinite
  <1> QED BY <1>1, <1>2, <1>3 DEF TriesLeft

\* The members that are eligible now are those that may be reserved.
LEMMA SelectTriesLeft ==
  ASSUME TurnInv, TriesInv, NEW c \in Callers, Select(c)
  PROVE  TriesLeft(calls[c])'
  <1>1. InProgress(c, calls[c]) /\ calls[c] \in Call /\ calls[c].at = "select"
    BY DEF TurnInv, TurnTypeOK, CallsInProgress, Select, At
  <1>2. run.edition \in Editions /\ UNCHANGED <<run, cooling>> /\ calls[c].tries \in Nat
    BY <1>1 DEF InProgress, Select, Call
  <1>3. EligibleTargets' = EligibleTargets
    BY <1>2 DEF EligibleTargets, PoolTargets, Cooling
  <1>4. CASE calls[c].tries = 0 /\ ~run.live
    <2>1. calls'[c] = IdleCall
      BY <1>4 DEF Select, Leave, TurnInv, TurnTypeOK
    <2> QED BY <2>1, IdleCallTyped DEF TriesLeft
  <1>5. CASE ~(calls[c].tries = 0 /\ ~run.live)
    <2>1. PICK call : call =
             [calls[c] EXCEPT !.at = IF EligibleTargets = {} THEN "exhausted" ELSE "reserve",
                              !.eligible = EligibleTargets,
                              !.recovered = @ /\ calls[c].tries > 0]
      OBVIOUS
    <2>2. calls'[c] = call
      BY <1>1, <1>5, <2>1 DEF Select, TurnInv, TurnTypeOK, Call
    <2>3. /\ call.at = IF EligibleTargets = {} THEN "exhausted" ELSE "reserve"
          /\ call.eligible = EligibleTargets /\ call.tries = calls[c].tries
          /\ call.recovered = (calls[c].recovered /\ calls[c].tries > 0)
      BY <1>1, <2>1 DEF Call
    <2>4. PICK n \in Nat : n = Len(Members[run.edition])
      BY <1>2, MembersTyped
    <2>5. ~call.recovered => Cardinality(EligibleTargets) <= n - calls[c].tries
      <3>1. CASE calls[c].tries = 0
        BY <1>2, <2>4, <3>1, EligibleIsFinite
      <3>2. CASE calls[c].tries # 0
        <4>1. calls[c].tries > 0
          BY <1>2, <3>2
        <4>2. ~call.recovered => ~calls[c].recovered
          BY <2>3, <4>1
        <4>3. TriesLeft(calls[c])
          BY DEF TriesInv
        <4>4. ~calls[c].recovered => Cardinality(EligibleTargets) <= n - calls[c].tries
          BY <1>1, <2>4, <4>3 DEF TriesLeft
        <4> QED BY <4>2, <4>4
      <3> QED BY <3>1, <3>2
    <2>6. TriesLeft(call)'
      BY <1>2, <1>3, <2>3, <2>4, <2>5 DEF TriesLeft
    <2> QED BY <2>2, <2>6
  <1> QED BY <1>4, <1>5

\* A failed try has one eligible member less before it.
LEMMA ReserveTriesLeft ==
  ASSUME TurnInv, TriesInv, RotationInv, NEW c \in Callers, Reserve(c)
  PROVE  TriesLeft(calls[c])'
  <1>1. InProgress(c, calls[c]) /\ calls[c] \in Call /\ calls[c].at = "reserve"
    BY DEF TurnInv, TurnTypeOK, CallsInProgress, Reserve, At
  <1>2. /\ run.edition \in Editions /\ UNCHANGED <<run, cooling>>
        /\ calls \in [Callers -> Call]
    BY <1>1 DEF InProgress, Reserve, TurnInv, TurnTypeOK
  <1>3. EligibleTargets' = EligibleTargets
    BY <1>2 DEF EligibleTargets, PoolTargets, Cooling
  <1>4. PICK r : r = calls[c].role
    OBVIOUS
  <1>5. PICK index : index = ReservedIndex(CurrentCursor(r), calls[c].eligible)
    OBVIOUS
  <1>6. PICK target : target = Members[run.edition][index + 1]
    OBVIOUS
  <1>7. target \in calls[c].eligible /\ calls[c].eligible \subseteq PoolTargets
    BY <1>1, <1>4, <1>5, <1>6, ReserveSelects DEF At, InProgress
  <1>8. CASE run.live /\ ~Cooling(target)
    <2>1. calls' = [calls EXCEPT ![c].at = "insert", ![c].binding = target,
                                 ![c].eligible = {}, ![c].tries = 0, ![c].recovered = FALSE]
      BY <1>4, <1>5, <1>6, <1>8 DEF Reserve
    <2>2. calls'[c].at = "insert"
      BY <1>1, <1>2, <2>1 DEF Call
    <2> QED BY <2>2 DEF TriesLeft
  <1>9. CASE ~run.live
    <2>1. calls'[c] = IdleCall
      BY <1>2, <1>4, <1>5, <1>6, <1>9 DEF Reserve, Leave
    <2> QED BY <2>1, IdleCallTyped DEF TriesLeft
  <1>10. CASE run.live /\ Cooling(target)
    <2>1. PICK n \in Nat : n = Len(Members[run.edition])
      BY <1>2, MembersTyped
    <2>2. PICK tries \in Nat : tries = calls[c].tries
      BY <1>1 DEF Call
    <2>3. calls' = [calls EXCEPT ![c].at = IF tries + 1 < n THEN "select" ELSE "exhausted",
                                 ![c].tries = @ + 1]
      BY <1>4, <1>5, <1>6, <1>10, <2>1, <2>2 DEF Reserve
    <2>4. /\ calls'[c].at = IF tries + 1 < n THEN "select" ELSE "exhausted"
          /\ calls'[c].tries = tries + 1
          /\ calls'[c].recovered = calls[c].recovered
      BY <1>1, <1>2, <2>2, <2>3 DEF Call
    <2>5. ASSUME ~calls[c].recovered
          PROVE  /\ Cardinality(EligibleTargets) \in Nat
                 /\ Cardinality(EligibleTargets) <= n - (tries + 1)
      <3>1. /\ EligibleTargets \subseteq calls[c].eligible
            /\ Cardinality(calls[c].eligible) <= n - tries
        BY <1>1, <2>1, <2>2, <2>5 DEF TriesInv, TriesLeft
      <3>2. target \notin EligibleTargets
        BY <1>10 DEF EligibleTargets
      <3>3. IsFiniteSet(calls[c].eligible) /\ Cardinality(calls[c].eligible) \in Nat
        BY <1>2, <1>7, PoolIsFinite, FS_Subset, FS_CardinalityType
      <3>4. /\ IsFiniteSet(calls[c].eligible \ {target})
            /\ Cardinality(calls[c].eligible \ {target}) = Cardinality(calls[c].eligible) - 1
        BY <1>7, <3>3, FS_RemoveElement
      <3>5. EligibleTargets \subseteq calls[c].eligible \ {target}
        BY <3>1, <3>2
      <3>6. /\ Cardinality(EligibleTargets) \in Nat
            /\ Cardinality(EligibleTargets) <= Cardinality(calls[c].eligible \ {target})
        BY <1>2, <3>4, <3>5, FS_Subset, EligibleIsFinite
      <3> QED BY <3>1, <3>3, <3>4, <3>6
    <2>6. ~calls[c].recovered /\ ~(tries + 1 < n) => EligibleTargets = {}
      <3> SUFFICES ASSUME ~calls[c].recovered, ~(tries + 1 < n) PROVE EligibleTargets = {}
        OBVIOUS
      <3>1. Cardinality(EligibleTargets) = 0
        BY <2>5
      <3> QED BY <1>2, <3>1, EligibleIsFinite, FS_EmptySet
    <2> QED BY <1>2, <1>3, <2>1, <2>4, <2>5, <2>6 DEF TriesLeft
  <1> QED BY <1>8, <1>9, <1>10

\* The loop is entered at its head.
LEMMA LoopEntry ==
  ASSUME TurnInv, NEW c \in Callers, PoolLookup(c) \/ Evaluate(c)
  PROVE  calls'[c].at \in InLoop => calls'[c].at = "select" /\ calls'[c].tries = 0
  <1>1. calls \in [Callers -> Call] /\ calls[c] \in Call
    BY DEF TurnInv, TurnTypeOK
  <1>2. calls[c].tries = 0
    BY DEF TurnInv, CallsInProgress, InProgress, InLoop, PoolLookup, Evaluate, At
  <1>3. CASE Leave(c)
    BY <1>1, <1>3, IdleCallTyped DEF Leave, InLoop
  <1>4. CASE \E target : Bind(c, target)
    <2>1. PICK target : Bind(c, target)
      BY <1>4
    <2>2. calls'[c].at \in {"bound", Entry}
      BY <1>1, <2>1 DEF Bind, Call
    <2> QED BY <2>2 DEF Entry, InLoop
  <1>5. CASE Goto(c, "select")
    BY <1>1, <1>2, <1>5 DEF Goto, Call
  <1>6. CASE PoolLookup(c)
    BY <1>3, <1>4, <1>5, <1>6 DEF PoolLookup
  <1>7. CASE Evaluate(c)
    <2>1. ASSUME NEW at \in {"select", "direct"}, NEW binding,
                 calls' = [calls EXCEPT ![c].at = at, ![c].binding = binding]
          PROVE  calls'[c].at = at /\ calls'[c].tries = 0
      BY <1>1, <1>2, <2>1 DEF Call
    <2> QED BY <1>3, <1>7, <2>1 DEF Evaluate, InLoop
  <1> QED BY <1>6, <1>7

\* No other step leads into the loop.
LEMMA OtherSteps ==
  ASSUME TurnInv, NEW c \in Callers,
         \/ \E r \in Roles : Start(c, r)
         \/ LockGate(c) \/ CallStep(c) \/ Drop(c),
         ~PoolLookup(c), ~Evaluate(c), ~Select(c), ~Reserve(c)
  PROVE  calls'[c].at \notin InLoop
  <1>1. calls \in [Callers -> Call] /\ calls[c] \in Call
    BY DEF TurnInv, TurnTypeOK
  <1>2. CASE Leave(c)
    BY <1>1, <1>2, IdleCallTyped DEF Leave, InLoop
  <1>3. CASE \E target : Bind(c, target)
    <2>1. PICK target : Bind(c, target)
      BY <1>3
    <2>2. calls'[c].at \in {"bound", Entry}
      BY <1>1, <2>1 DEF Bind, Call
    <2> QED BY <2>2 DEF Entry, InLoop
  <1>4. ASSUME NEW step, step \notin InLoop, Goto(c, step)
        PROVE  calls'[c].at \notin InLoop
    BY <1>1, <1>4 DEF Goto, Call
  <1>5. CASE \E r \in Roles : Start(c, r)
    <2>1. PICK r \in Roles : Start(c, r)
      BY <1>5
    <2>2. calls'[c].at \in {"bound", Entry}
      BY <1>1, <2>1, IdleCallTyped DEF Start, Call
    <2> QED BY <2>2 DEF Entry, InLoop
  <1>6. CASE LockGate(c)
    BY <1>4, <1>6 DEF LockGate, InLoop
  <1>7. CASE Lookup(c)
    <2>1. CASE calls' = [calls EXCEPT ![c].at = "direct", ![c].binding = Direct[calls[c].role]]
      BY <1>1, <2>1 DEF Call, InLoop
    <2> QED BY <1>3, <1>4, <1>7, <2>1 DEF Lookup, InLoop
  <1>8. CASE EnsureDirect(c) \/ Insert(c) \/ Ensure(c) \/ Invoke(c)
    BY <1>2, <1>3, <1>4, <1>8 DEF EnsureDirect, Insert, Ensure, Invoke, InLoop
  <1>9. CASE BuildFails(c) \/ GiveUp(c) \/ Succeed(c) \/ Drop(c)
               \/ \E hint \in 0..MaxHint : Fail(c, hint)
    BY <1>2, <1>9 DEF BuildFails, GiveUp, Succeed, Fail, Drop
  <1> QED BY <1>5, <1>6, <1>7, <1>8, <1>9 DEF CallStep

\* Every step keeps a try for every eligible member: the loop begins with
\* enough, a failed try costs one of each, a failure elsewhere only takes
\* members away, and the end of a cooldown is noted.
LEMMA TriesStep ==
  ASSUME TurnInv, TriesInv, RestInv, RotationInv, Next
  PROVE  TriesInv'
  <1>0. calls \in [Callers -> Call]
    BY DEF TurnInv, TurnTypeOK
  <1>1. CASE \E edition \in Editions, automatic \in BOOLEAN : BeginTurn(edition, automatic)
    BY <1>1, IdleCallTyped DEF BeginTurn, TriesInv, TriesLeft
  <1>2. CASE EndRun
    <2>1. UNCHANGED <<cooling, calls>> /\ run'.edition = run.edition
      BY <1>2 DEF EndRun, TurnInv, TurnTypeOK
    <2> QED BY <2>1 DEF TriesInv, TriesLeft, EligibleTargets, PoolTargets, Cooling
  <1>3. CASE Tick
    <2> SUFFICES ASSUME NEW c \in Callers PROVE TriesLeft(calls[c])'
      BY DEF TriesInv
    <2>1. PICK call \in Call : call = calls[c] /\ TriesLeft(call) /\ InProgress(c, call)
      BY <1>0 DEF TriesInv, TurnInv, CallsInProgress
    <2>2. PICK after \in Call :
             /\ after = calls'[c] /\ after.at = call.at /\ after.eligible = call.eligible
             /\ after.tries = call.tries
             /\ after.recovered = \/ call.recovered
                                  \/ call.at \in InLoop /\ \E t \in Targets : cooling[t] = 1
      BY <1>3, <2>1, TickCallTyped DEF Tick
    <2>3. CASE call.at \notin InLoop
      BY <2>2, <2>3, NotInLoop
    <2>4. CASE \E t \in Targets : cooling[t] = 1
      <3>1. CASE call.at \in InLoop
        BY <2>2, <2>4, <3>1 DEF TriesLeft
      <3> QED BY <2>3, <3>1
    <2>5. CASE call.at \in InLoop /\ ~\E t \in Targets : cooling[t] = 1
      <3>1. UNCHANGED run /\ run.edition \in Editions
        BY <1>3, <2>1, <2>5 DEF Tick, InProgress, InLoop
      <3>2. PoolTargets' = PoolTargets /\ PoolTargets \subseteq Targets
        BY <3>1, PoolIsFinite DEF PoolTargets
      <3>3. \A t \in Targets : cooling[t] > 0 => cooling'[t] > 0
        BY <1>3, <2>5 DEF Tick, RestInv, Max2
      <3>4. EligibleTargets' \subseteq EligibleTargets
        BY <3>2, <3>3 DEF EligibleTargets, Cooling
      <3>5. TriesLeft(call)'
        BY <2>1, <3>1, <3>4, FewerEligible
      <3>6. after.recovered = call.recovered
        BY <2>2, <2>5 DEF Call
      <3>7. TriesLeft(after)'
        BY <2>2, <3>5, <3>6 DEF TriesLeft
      <3> QED BY <2>2, <3>7
    <2> QED BY <2>3, <2>4, <2>5
  <1>4. ASSUME NEW c \in Callers,
               \/ \E r \in Roles : Start(c, r)
               \/ LockGate(c) \/ CallStep(c) \/ Drop(c)
        PROVE  TriesInv'
    <2>1. PICK call : calls' = [calls EXCEPT ![c] = call]
      BY <1>4, OneCall
    <2>2. call = calls'[c]
      BY <1>0, <2>1
    <2>3. UNCHANGED run
      BY <1>4 DEF CallStep, Start, LockGate, Lookup, PoolLookup, Evaluate, EnsureDirect,
         Select, Reserve, BuildFails, GiveUp, Insert, Ensure, Invoke, Succeed, Fail, Drop
    <2>4. run.edition \in Editions
      <3>1. InProgress(c, calls[c])
        BY DEF TurnInv, CallsInProgress
      <3>2. CASE \E r \in Roles : Start(c, r)
        BY <3>2 DEF Start, TurnInv, TurnTypeOK
      <3>3. CASE calls[c].at # "idle"
        BY <3>1, <3>3 DEF InProgress
      <3> QED
        BY <1>4, <3>2, <3>3 DEF CallStep, LockGate, Lookup, PoolLookup, Evaluate,
           EnsureDirect, Select, Reserve, BuildFails, GiveUp, Insert, Ensure, Invoke,
           Succeed, Fail, Drop, At
    <2>5. EligibleTargets' \subseteq EligibleTargets
      <3>1. PoolTargets' = PoolTargets /\ PoolTargets \subseteq Targets
        BY <2>3, <2>4, PoolIsFinite DEF PoolTargets
      <3>2. \A t \in Targets : cooling[t] > 0 => cooling'[t] > 0
        <4>1. ASSUME NEW hint \in 0..MaxHint, Fail(c, hint)
              PROVE  \A t \in Targets : cooling[t] > 0 => cooling'[t] > 0
          <5>1. hint \in Nat /\ cooling \in [Targets -> Nat]
            BY DispatchAssumption DEF RestInv
          <5> QED BY <4>1, <5>1 DEF Fail, RecordCooldown, Max2
        <4>2. CASE UNCHANGED cooling
          BY <4>2
        <4> QED
          BY <1>4, <4>1, <4>2 DEF CallStep, Start, LockGate, Lookup, PoolLookup, Evaluate,
             EnsureDirect, Select, Reserve, BuildFails, GiveUp, Insert, Ensure, Invoke,
             Succeed, Drop
      <3> QED BY <3>1, <3>2 DEF EligibleTargets, Cooling
    <2>6. TriesLeft(calls[c])'
      <3>1. CASE calls'[c].at \notin InLoop
        BY <3>1 DEF TriesLeft, InLoop
      <3>2. CASE Select(c)
        BY <3>2, SelectTriesLeft
      <3>3. CASE Reserve(c)
        BY <3>3, ReserveTriesLeft
      <3>4. CASE PoolLookup(c) \/ Evaluate(c)
        <4>1. /\ InProgress(c, calls[c]) /\ calls[c] \in Call
              /\ calls[c].at \in {"pool_lookup", "evaluate"} /\ UNCHANGED cooling
          BY <1>0, <3>4 DEF TurnInv, CallsInProgress, PoolLookup, Evaluate, At
        <4>2. calls'[c].at \in InLoop => calls'[c].at = "select" /\ calls'[c].tries = 0
          BY <3>4, <4>1, LoopEntry
        <4>3. CASE call.at = "select" /\ call.tries = 0
          BY <2>2, <2>3, <2>4, <4>1, <4>3, LoopBegins
        <4> QED BY <2>2, <3>1, <4>2, <4>3
      <3> QED BY <1>4, <3>1, <3>2, <3>3, <3>4, OtherSteps
    <2>7. TriesLeft(call)'
      BY <2>2, <2>6
    <2> QED BY <2>1, <2>3, <2>4, <2>5, <2>7, TriesFrame
  <1> QED BY <1>1, <1>2, <1>3, <1>4 DEF Next

-----------------------------------------------------------------------------
(* The theorems.                                                           *)

\* IInv is inductive.
THEOREM Invariance == Spec => []IInv
  <1>1. Init => IInv
    <2> SUFFICES ASSUME Init PROVE IInv
      OBVIOUS
    <2>1. RestInv
      BY IdleCallTyped DEF Init, RestInv, Heeds
    <2>2. RotationInv
      BY DEF Init, RotationInv, Cursor
    <2>3. TriesInv
      BY IdleCallTyped DEF Init, TriesInv, TriesLeft
    <2> QED BY <2>1, <2>2, <2>3, InitTurnInv DEF IInv
  <1>2. IInv /\ [Next]_vars => IInv'
    <2> SUFFICES ASSUME IInv, [Next]_vars PROVE IInv'
      OBVIOUS
    <2> USE DEF IInv
    <2>1. TurnInv'
      <3>1. CASE \E edition \in Editions, automatic \in BOOLEAN : BeginTurn(edition, automatic)
        BY <3>1, BeginTurnTurnInv
      <3>2. CASE EndRun
        BY <3>2, RunFrameTurnInv DEF EndRun
      <3>3. CASE Tick
        BY <3>3, TickTurnInv
      <3>4. CASE UNCHANGED vars
        BY <3>4, RunFrameTurnInv DEF vars
      <3>5. ASSUME NEW c \in Callers,
                   \/ \E r \in Roles : Start(c, r)
                   \/ LockGate(c) \/ CallStep(c) \/ Drop(c)
            PROVE  TurnInv'
        <4>1. CASE Succeed(c) \/ (\E hint \in 0..MaxHint : Fail(c, hint)) \/ Drop(c)
                     \/ BuildFails(c) \/ GiveUp(c)
          BY <4>1, LeaveTurnInv DEF Succeed, Fail, Drop, BuildFails, GiveUp
        <4> QED
          BY <3>5, <4>1, StartTurnInv, LockGateTurnInv, LookupTurnInv, PoolLookupTurnInv,
             EvaluateTurnInv, EnsureDirectTurnInv, SelectTurnInv, ReserveTurnInv,
             InsertTurnInv, EnsureTurnInv, InvokeTurnInv
             DEF CallStep
      <3> QED BY <3>1, <3>2, <3>3, <3>4, <3>5 DEF Next
    <2>2. RestInv'
      <3>1. CASE UNCHANGED vars
        BY <3>1 DEF vars, RestInv, Resting, Heeds
      <3> QED BY <3>1, RestStep
    <2>3. TriesInv'
      <3>1. CASE UNCHANGED vars
        BY <3>1 DEF vars, TriesInv, TriesLeft, EligibleTargets, PoolTargets, Cooling
      <3> QED BY <3>1, TriesStep
    <2>4. RotationInv'
      <3>1. CASE \E c \in Callers : Reserve(c)
        BY <3>1, ReserveRotationInv
      <3>2. CASE \E c \in Callers : BuildFails(c)
        BY <3>2, BuildFailsRotationInv
      <3>3. CASE UNCHANGED <<cursors, waits>>
        BY <3>3 DEF RotationInv, CursorFair, MemberAhead
      <3> QED
        BY <3>1, <3>2, <3>3 DEF vars, Next, CallStep, BeginTurn, EndRun, Start, LockGate,
           Lookup, PoolLookup, Evaluate, EnsureDirect, Select, GiveUp, Insert, Ensure, Invoke,
           Succeed, Fail, Drop, Tick
    <2> QED BY <2>1, <2>2, <2>3, <2>4
  <1> QED BY <1>1, <1>2, PTL DEF Spec

\* Whatever calls of a turn run side by side, and wherever they are dropped,
\* they call one account for each role.
THEOREM OneTarget == Spec => []OneTargetPerRole
  <1>1. IInv => OneTargetPerRole
    BY DEF IInv, TurnInv, CalledIsBound, OneTargetPerRole
  <1> QED BY <1>1, Invariance, PTL

\* No pool, whatever its size and whoever of it is cooling, lets an eligible
\* member wait for as many selections as it has members.
THEOREM FairRotation == Spec => []RotationFair
  <1>1. IInv => RotationFair
    <2> SUFFICES ASSUME IInv, NEW r \in Roles, cursors[r].edition # None, NEW t \in Targets
                 PROVE  waits[r][t] < Len(Members[cursors[r].edition])
      BY DEF RotationFair
    <2>1. /\ CursorFair(cursors[r], waits[r])
          /\ waits[r][t] \in Nat
          /\ cursors[r].edition \in Editions
      BY DEF IInv, RotationInv, Cursor
    <2>2. PICK n \in Nat \ {0} : n = Len(Members[cursors[r].edition])
      BY <2>1, MembersTyped
    <2>3. CASE waits[r][t] = 0
      BY <2>2, <2>3
    <2>4. CASE waits[r][t] > 0
      <3>1. \E k \in 0..(n - 1 - waits[r][t]) : MemberAhead(cursors[r], k) = t
        BY <2>1, <2>2, <2>4 DEF CursorFair
      <3>2. n - 1 - waits[r][t] >= 0
        BY <2>1, <3>1
      <3> QED BY <2>1, <2>2, <3>2
    <2> QED BY <2>1, <2>3, <2>4
  <1> QED BY <1>1, Invariance, PTL

\* What an automatic turn calls is what it reports, if the role is reported.
THEOREM ReportedRoute == Spec => []RouteReported
  <1>1. IInv => RouteReported
    <2> SUFFICES ASSUME IInv, NEW c \in Callers, At(c, "calling"), run.automatic,
                        NEW r, r = calls[c].role
                 PROVE  selected_routes[r] = IF ~Listed(r) /\ Direct[r] = Pool THEN None
                                             ELSE calls[c].binding
      BY DEF RouteReported
    <2>1. /\ r \in Roles
          /\ calls[c].binding = turn_cache[r]
          /\ selected_routes[r] = IF Recorded(r) THEN turn_cache[r] ELSE None
      BY DEF IInv, TurnInv, CallsInProgress, RoutesAreCached, At, InProgress, TurnBinding,
             Cached
    <2> QED BY <2>1 DEF Recorded
  <1> QED BY <1>1, Invariance, PTL

\* Whatever fails there and in whatever order, a target is not called before the
\* time that it asked for is over by a call that began in that time.
THEOREM TargetRests == Spec => []RestHonoured
  <1>1. IInv => RestHonoured
    BY DEF IInv, RestInv, Heeds, RestHonoured, At
  <1> QED BY <1>1, Invariance, PTL

\* A pool of any size is given up only when all its members are cooling or a
\* cooldown has ended in the meantime.
THEOREM PoolIsExhausted == Spec => []NothingLeftToTry
  <1>1. IInv => NothingLeftToTry
    BY DEF IInv, TurnInv, TurnTypeOK, Call, TriesInv, TriesLeft, NothingLeftToTry, At
  <1> QED BY <1>1, Invariance, PTL
=============================================================================
