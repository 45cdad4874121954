----------------------- MODULE ExecutionBudgetProofs -----------------------
(***************************************************************************)
(* Proofs about ExecutionBudget, for any number of sessions, any limits    *)
(* and any amounts.                                                        *)
(***************************************************************************)
EXTENDS ExecutionBudget, FiniteSetTheorems, TLAPS

\* The limits hold because reservations are counted exactly, and a dropped
\* reservation leaves its role's account because the account covers it: the
\* parts of the invariant are inductive only together.
IInv == TypeOK /\ WithinLimits /\ AccountsExact /\ RoleAccountsBalance

-----------------------------------------------------------------------------
(* What the methods leave behind is a ledger.                              *)

\* Remembering a refusal changes no counter.
LEMMA ExhaustionType ==
    ASSUME NEW l \in LedgerState, NEW category \in BudgetExhaustionCategory
    PROVE  /\ Exhaustion(l, category) \in LedgerState
           /\ ElapsedExhaustion(l) \in LedgerState
BY DEF LedgerState, Exhaustion, ElapsedExhaustion, BudgetExhaustionCategory

\* reserve_provider returns a ledger, granted or refused.
LEMMA ReserveProviderType ==
    ASSUME NEW l \in LedgerState, NEW role \in Roles, NEW e \in BOOLEAN
    PROVE  ReserveProvider(l, role, e) \in LedgerState
<1>1. ProviderRefusal(l, role, e)
          \in BudgetExhaustionCategory \cup {NoRefusal}
  BY DEF ProviderRefusal, BudgetExhaustionCategory
<1>2. CASE ProviderRefusal(l, role, e) = NoRefusal
  <2>1. /\ l.provider_reserved + 1 \in Nat
        /\ [l.provider_by_role EXCEPT ![role] = @ + 1] \in [Roles -> Nat]
    BY DEF LedgerState
  <2> QED
    BY <1>2, <2>1 DEF ReserveProvider, LedgerState
<1>3. CASE ProviderRefusal(l, role, e) # NoRefusal
  <2>1. /\ Exhaustion(l, ProviderRefusal(l, role, e)) \in LedgerState
        /\ ElapsedExhaustion(l) \in LedgerState
    BY <1>1, <1>3, ExhaustionType
  <2>2. [Exhaustion(l, ProviderRefusal(l, role, e)) EXCEPT !.provider_rejected = @ + 1]
            \in LedgerState
    BY <2>1 DEF LedgerState
  <2> QED
    BY <1>3, <2>1, <2>2 DEF ReserveProvider
<1> QED
  BY <1>2, <1>3

\* reserve_tool returns a ledger, granted or refused.
LEMMA ReserveToolType ==
    ASSUME NEW l \in LedgerState, NEW e \in BOOLEAN
    PROVE  ReserveTool(l, e) \in LedgerState
<1>1. ToolRefusal(l, e)
          \in BudgetExhaustionCategory \cup {NoRefusal}
  BY DEF ToolRefusal, BudgetExhaustionCategory
<1>2. CASE ToolRefusal(l, e) = NoRefusal
  BY <1>2 DEF ReserveTool, LedgerState
<1>3. CASE ToolRefusal(l, e) # NoRefusal
  <2>1. /\ Exhaustion(l, ToolRefusal(l, e)) \in LedgerState
        /\ ElapsedExhaustion(l) \in LedgerState
    BY <1>1, <1>3, ExhaustionType
  <2>2. [Exhaustion(l, ToolRefusal(l, e)) EXCEPT !.tool_rejected = @ + 1] \in LedgerState
    BY <2>1 DEF LedgerState
  <2> QED
    BY <1>3, <2>1, <2>2 DEF ReserveTool
<1> QED
  BY <1>2, <1>3

\* The five charging methods return a ledger, granted or refused.
LEMMA ChargeType ==
    ASSUME NEW l \in LedgerState, NEW account \in Accounts, NEW amount \in Nat,
           NEW e \in BOOLEAN
    PROVE  Charge(l, account, amount, e) \in LedgerState
<1>1. ChargeRefusal(l, account, amount, e)
          \in BudgetExhaustionCategory \cup {NoRefusal}
  BY DEF ChargeRefusal, BudgetExhaustionCategory
<1>2. CASE ChargeRefusal(l, account, amount, e) = NoRefusal
  BY <1>2 DEF Charge, LedgerState
<1>3. CASE ChargeRefusal(l, account, amount, e) # NoRefusal
  BY <1>1, <1>3, ExhaustionType DEF Charge
<1> QED
  BY <1>2, <1>3

\* Committing, dropping, finishing and terminating return a ledger.
LEMMA SettleType ==
    ASSUME NEW l \in LedgerState, NEW role \in Roles, NEW how \in InvocationTerminal
    PROVE  /\ CommitProvider(l) \in LedgerState
           /\ DropProviderReservation(l, role) \in LedgerState
           /\ FinishProvider(l, how) \in LedgerState
           /\ CommitTool(l) \in LedgerState
           /\ DropToolReservation(l) \in LedgerState
           /\ RecordToolCompleted(l) \in LedgerState
           /\ MarkTerminal(l) \in LedgerState
<1>1. \A n \in Nat : SaturatingSub(n) \in Nat
  BY DEF SaturatingSub
<1>2. CommitProvider(l) \in LedgerState
  <2>1. SaturatingSub(l.provider_reserved) \in Nat /\ l.provider_started + 1 \in Nat
    BY <1>1 DEF LedgerState
  <2> QED
    BY <2>1 DEF CommitProvider, LedgerState
<1>3. DropProviderReservation(l, role) \in LedgerState
  BY <1>1 DEF DropProviderReservation, LedgerState
<1>4. FinishProvider(l, how) \in LedgerState
  BY DEF FinishProvider, LedgerState
<1>5. CommitTool(l) \in LedgerState
  <2>1. SaturatingSub(l.tool_reserved) \in Nat /\ l.tool_started + 1 \in Nat
    BY <1>1 DEF LedgerState
  <2> QED
    BY <2>1 DEF CommitTool, LedgerState
<1>6. DropToolReservation(l) \in LedgerState
  BY <1>1 DEF DropToolReservation, LedgerState
<1>7. RecordToolCompleted(l) \in LedgerState
  BY DEF RecordToolCompleted, LedgerState
<1>8. MarkTerminal(l) \in LedgerState
  BY DEF MarkTerminal, LedgerState
<1> QED
  BY <1>2, <1>3, <1>4, <1>5, <1>6, <1>7, <1>8

-----------------------------------------------------------------------------
\* Init establishes the invariant.
LEMMA InitIInv == Init => IInv
<1> SUFFICES ASSUME Init PROVE IInv
  OBVIOUS
<1> USE BudgetAssumption, ClientAssumption
<1>1. TypeOK
  BY DEF Init, TypeOK, NewLedger, LedgerState, CallState, Idle, NoRefusal, Roles
<1>2. WithinLimits
  BY DEF Init, WithinLimits, NewLedger
<1>3. /\ Reserved = {}
      /\ InFlight = {}
      /\ ReservedTools = {}
      /\ \A role \in Roles : ReservedFor(role) = {}
  BY DEF Init, Idle, Reserved, InFlight, ReservedTools, ReservedFor
<1>4. Cardinality({}) = 0
  BY FS_EmptySet
<1>5. AccountsExact
  BY <1>3, <1>4 DEF Init, AccountsExact, NewLedger, Ended, InvocationTerminal
<1>6. RoleAccountsBalance
  <2>1. \A role \in Roles : ledger.provider_by_role[role] = 0
    BY DEF Init, NewLedger
  <2>2. ByRole(ledger) = ledger.provider_reserved + ledger.provider_started
    BY <2>1 DEF Init, NewLedger, ByRole, Roles
  <2> QED
    BY <1>3, <1>4, <2>1, <2>2 DEF RoleAccountsBalance
<1> QED
  BY <1>1, <1>2, <1>5, <1>6 DEF IInv

\* Every step preserves the types.
LEMMA NextTypeOK == TypeOK /\ [Next]_vars => TypeOK'
<1> SUFFICES ASSUME TypeOK, [Next]_vars PROVE TypeOK'
  OBVIOUS
<1> USE BudgetAssumption, ClientAssumption DEF TypeOK
<1>1. ASSUME NEW c \in Calls, NEW role \in CallRoles, Take(c, role) PROVE TypeOK'
  BY <1>1, ReserveProviderType DEF Take, CallState, Idle
<1>2. ASSUME NEW c \in Calls, NEW role \in CallRoles, BeRefused(c, role) PROVE TypeOK'
  BY <1>2, ReserveProviderType DEF BeRefused
<1>3. ASSUME NEW c \in Calls, Commit(c) PROVE TypeOK'
  BY <1>3, SettleType DEF Commit, CallState, Idle, Roles, InvocationTerminal
<1>4. ASSUME NEW c \in Calls, DropReservation(c) PROVE TypeOK'
  BY <1>4, SettleType DEF DropReservation, CallState, Idle, InvocationTerminal
<1>5. ASSUME NEW c \in Calls, NEW how \in InvocationTerminal, Finish(c, how) PROVE TypeOK'
  BY <1>5, SettleType DEF Finish, CallState, Idle, Roles
<1>6. ASSUME NEW t \in ToolCalls, TakeTool(t) PROVE TypeOK'
  BY <1>6, ReserveToolType DEF TakeTool
<1>7. ASSUME NEW t \in ToolCalls, BeRefusedTool(t) PROVE TypeOK'
  BY <1>7, ReserveToolType DEF BeRefusedTool
<1>8. ASSUME NEW t \in ToolCalls, StartTool(t) PROVE TypeOK'
  BY <1>8, SettleType DEF StartTool, Roles, InvocationTerminal
<1>9. ASSUME NEW t \in ToolCalls, DropTool(t) PROVE TypeOK'
  BY <1>9, SettleType DEF DropTool, Roles, InvocationTerminal
<1>10. ASSUME NEW t \in ToolCalls, NEW delivered \in BOOLEAN, EndTool(t, delivered)
       PROVE TypeOK'
  BY <1>10, SettleType DEF EndTool, Roles, InvocationTerminal
<1>11. ASSUME NEW t \in ToolCalls, AnswerUnstarted(t) PROVE TypeOK'
  BY <1>11, SettleType DEF AnswerUnstarted, Roles, InvocationTerminal
<1>12. ASSUME NEW account \in Accounts, NEW amount \in Amounts, Spend(account, amount)
       PROVE TypeOK'
  BY <1>12, ChargeType DEF Spend
<1>13. CASE Expire
  BY <1>13 DEF Expire
<1>14. CASE Terminate
  BY <1>14, SettleType DEF Terminate, Roles, InvocationTerminal
<1>15. CASE UNCHANGED vars
  BY <1>15 DEF vars
<1> QED
  BY <1>1, <1>2, <1>3, <1>4, <1>5, <1>6, <1>7, <1>8, <1>9, <1>10, <1>11, <1>12, <1>13,
     <1>14, <1>15 DEF Next, CallStep, ToolStep

-----------------------------------------------------------------------------
(* Counting.                                                               *)

\* The sets the ledger counts are finite, so their cardinalities are numbers.
LEMMA CountsFinite ==
    /\ IsFiniteSet(Reserved) /\ Cardinality(Reserved) \in Nat
    /\ IsFiniteSet(InFlight) /\ Cardinality(InFlight) \in Nat
    /\ IsFiniteSet(ReservedTools) /\ Cardinality(ReservedTools) \in Nat
    /\ \A role \in Roles :
           IsFiniteSet(ReservedFor(role)) /\ Cardinality(ReservedFor(role)) \in Nat
<1>1. Reserved \subseteq Calls /\ InFlight \subseteq Calls /\ ReservedTools \subseteq ToolCalls
  BY DEF Reserved, InFlight, ReservedTools
<1>2. \A role \in Roles : ReservedFor(role) \subseteq Calls
  BY <1>1 DEF ReservedFor
<1>3. IsFiniteSet(Calls) /\ IsFiniteSet(ToolCalls)
  BY ClientAssumption
<1> QED
  BY <1>1, <1>2, <1>3, FS_Subset, FS_CardinalityType

\* One element more, one element less.
LEMMA CountOneMore ==
    ASSUME NEW S, IsFiniteSet(S), NEW x, x \notin S
    PROVE  Cardinality(S \cup {x}) = Cardinality(S) + 1
BY FS_AddElement

\* As above, for an element taken out.
LEMMA CountOneLess ==
    ASSUME NEW S, IsFiniteSet(S), NEW x \in S
    PROVE  Cardinality(S \ {x}) = Cardinality(S) - 1 /\ Cardinality(S) >= 1
<1>1. Cardinality(S \ {x}) = Cardinality(S) - 1
  BY FS_RemoveElement
<1>2. Cardinality(S \ {x}) \in Nat /\ Cardinality(S) \in Nat
  BY FS_RemoveElement, FS_CardinalityType
<1> QED
  BY <1>1, <1>2

\* A step that leaves the provider counters and the calls alone keeps the
\* provider accounts.
LEMMA ProviderFrame ==
    ASSUME call' = call,
           ledger'.provider_reserved = ledger.provider_reserved,
           ledger'.provider_started = ledger.provider_started,
           ledger'.provider_ended = ledger.provider_ended,
           ledger'.provider_by_role = ledger.provider_by_role
    PROVE  /\ Cardinality(Reserved') = Cardinality(Reserved)
           /\ Cardinality(InFlight') = Cardinality(InFlight)
           /\ Ended(ledger') = Ended(ledger)
           /\ RoleAccountsBalance => RoleAccountsBalance'
<1>1. Reserved' = Reserved /\ InFlight' = InFlight
  BY DEF Reserved, InFlight
<1>2. \A role \in Roles : ReservedFor(role)' = ReservedFor(role)
  BY <1>1 DEF ReservedFor
<1>3. Ended(ledger') = Ended(ledger) /\ ByRole(ledger') = ByRole(ledger)
  BY DEF Ended, ByRole
<1> QED
  BY <1>1, <1>2, <1>3 DEF RoleAccountsBalance

\* The counters the invariant speaks of are the same in two ledgers.
SameAccounts(l, m) ==
    /\ m.provider_reserved = l.provider_reserved
    /\ m.provider_started = l.provider_started
    /\ m.provider_ended = l.provider_ended
    /\ m.provider_by_role = l.provider_by_role
    /\ m.tool_reserved = l.tool_reserved
    /\ m.tool_started = l.tool_started
    /\ m.charged = l.charged

\* Remembering a refusal, and counting it, leaves the accounts alone.
LEMMA ExhaustionFrame ==
    ASSUME NEW l \in LedgerState, NEW category
    PROVE  /\ SameAccounts(l, Exhaustion(l, category))
           /\ SameAccounts(l, ElapsedExhaustion(l))
           /\ SameAccounts(l, [Exhaustion(l, category) EXCEPT !.provider_rejected = @ + 1])
           /\ SameAccounts(l, [Exhaustion(l, category) EXCEPT !.tool_rejected = @ + 1])
BY DEF SameAccounts, LedgerState, Exhaustion, ElapsedExhaustion

\* A method that refuses leaves the accounts alone.
LEMMA RefusalFrame ==
    ASSUME NEW l \in LedgerState, NEW e
    PROVE  /\ \A role : ProviderRefusal(l, role, e) # NoRefusal
                 => SameAccounts(l, ReserveProvider(l, role, e))
           /\ ToolRefusal(l, e) # NoRefusal => SameAccounts(l, ReserveTool(l, e))
           /\ \A account, amount : ChargeRefusal(l, account, amount, e) # NoRefusal
                 => SameAccounts(l, Charge(l, account, amount, e))
<1>1. ASSUME NEW role, ProviderRefusal(l, role, e) # NoRefusal
      PROVE  SameAccounts(l, ReserveProvider(l, role, e))
  BY <1>1, ExhaustionFrame DEF ReserveProvider
<1>2. ASSUME ToolRefusal(l, e) # NoRefusal
      PROVE  SameAccounts(l, ReserveTool(l, e))
  BY <1>2, ExhaustionFrame DEF ReserveTool
<1>3. ASSUME NEW account, NEW amount, ChargeRefusal(l, account, amount, e) # NoRefusal
      PROVE  SameAccounts(l, Charge(l, account, amount, e))
  BY <1>3, ExhaustionFrame DEF Charge
<1> QED
  BY <1>1, <1>2, <1>3

-----------------------------------------------------------------------------
(* The steps of a provider call.                                           *)

\* reserve_provider is granted.
LEMMA TakeIInv ==
    ASSUME IInv, NEW c \in Calls, NEW role \in CallRoles, Take(c, role)
    PROVE  WithinLimits' /\ AccountsExact' /\ RoleAccountsBalance'
<1> USE BudgetAssumption, ClientAssumption DEF IInv
<1>1. /\ ledger \in LedgerState /\ call \in [Calls -> CallState] /\ role \in Roles
      /\ call[c] = Idle /\ UNCHANGED tool
      /\ call' = [call EXCEPT ![c] = [holds |-> "reservation", role |-> role]]
      /\ ledger' = [ledger EXCEPT !.provider_reserved = @ + 1,
                                  !.provider_by_role[role] = @ + 1]
  BY DEF Take, TypeOK, ReserveProvider
<1>2. ledger.provider_started + ledger.provider_reserved < MaxProvider
  BY <1>1 DEF Take, ProviderRefusal, LedgerState, NoRefusal
<1>3. /\ ledger'.provider_reserved = ledger.provider_reserved + 1
      /\ ledger'.provider_started = ledger.provider_started
      /\ ledger'.provider_ended = ledger.provider_ended
      /\ ledger'.provider_by_role = [ledger.provider_by_role EXCEPT ![role] = @ + 1]
      /\ ledger'.tool_reserved = ledger.tool_reserved
      /\ ledger'.tool_started = ledger.tool_started
      /\ ledger'.charged = ledger.charged
  BY <1>1 DEF LedgerState
<1>4. /\ Reserved' = Reserved \cup {c} /\ c \notin Reserved
      /\ InFlight' = InFlight
      /\ ReservedTools' = ReservedTools
  BY <1>1 DEF Reserved, InFlight, ReservedTools, CallState, Idle
<1>5. /\ ReservedFor(role)' = ReservedFor(role) \cup {c} /\ c \notin ReservedFor(role)
      /\ \A q \in Roles \ {role} : ReservedFor(q)' = ReservedFor(q)
  BY <1>1, <1>4 DEF ReservedFor, Reserved, CallState, Idle
<1>6. /\ Cardinality(Reserved') = Cardinality(Reserved) + 1
      /\ Cardinality(ReservedFor(role)') = Cardinality(ReservedFor(role)) + 1
  BY <1>1, <1>4, <1>5, CountsFinite, CountOneMore
<1>7. WithinLimits'
  BY <1>1, <1>2, <1>3 DEF WithinLimits, LedgerState
<1>8. AccountsExact'
  BY <1>3, <1>4, <1>6 DEF AccountsExact, Ended
<1>9. RoleAccountsBalance'
  <2>1. \A q \in Roles : ledger.provider_by_role[q] \in Nat
    BY <1>1 DEF LedgerState
  <2>2. \A q \in Roles : ledger'.provider_by_role[q]
            = ledger.provider_by_role[q] + (IF q = role THEN 1 ELSE 0)
    BY <1>1, <1>3, <2>1 DEF LedgerState
  <2>3. ByRole(ledger') = ByRole(ledger) + 1
    BY <1>1, <2>1, <2>2 DEF ByRole, Roles
  <2>4. \A q \in Roles : Cardinality(ReservedFor(q)') <= ledger'.provider_by_role[q]
    BY <1>5, <1>6, <2>1, <2>2, CountsFinite DEF RoleAccountsBalance
  <2>5. ledger.provider_reserved \in Nat /\ ledger.provider_started \in Nat
    BY <1>1 DEF LedgerState
  <2> QED
    BY <1>3, <2>3, <2>4, <2>5 DEF RoleAccountsBalance
<1> QED
  BY <1>7, <1>8, <1>9

\* A reservation is committed.
LEMMA CommitIInv ==
    ASSUME IInv, NEW c \in Calls, Commit(c)
    PROVE  WithinLimits' /\ AccountsExact' /\ RoleAccountsBalance'
<1> USE BudgetAssumption, ClientAssumption DEF IInv
<1>1. /\ ledger \in LedgerState /\ call \in [Calls -> CallState]
      /\ call[c].holds = "reservation" /\ UNCHANGED tool
      /\ call' = [call EXCEPT ![c].holds = "guard"]
      /\ ledger' = CommitProvider(ledger)
  BY DEF Commit, TypeOK
<1>2. /\ Reserved' = Reserved \ {c} /\ c \in Reserved
      /\ InFlight' = InFlight \cup {c} /\ c \notin InFlight
      /\ ReservedTools' = ReservedTools
  BY <1>1 DEF Reserved, InFlight, ReservedTools, CallState, Idle
<1>3. \A q \in Roles : ReservedFor(q)' \subseteq ReservedFor(q)
  BY <1>1, <1>2 DEF ReservedFor, Reserved, CallState, Idle
<1>4. /\ Cardinality(Reserved') = Cardinality(Reserved) - 1
      /\ Cardinality(Reserved) >= 1
      /\ Cardinality(InFlight') = Cardinality(InFlight) + 1
  BY <1>2, CountsFinite, CountOneMore, CountOneLess
<1>5. \A q \in Roles : Cardinality(ReservedFor(q)') <= Cardinality(ReservedFor(q))
  BY <1>3, CountsFinite, FS_Subset
<1>6. /\ ledger'.provider_reserved = SaturatingSub(ledger.provider_reserved)
      /\ ledger'.provider_started = ledger.provider_started + 1
      /\ ledger'.provider_ended = ledger.provider_ended
      /\ ledger'.provider_by_role = ledger.provider_by_role
      /\ ledger'.tool_reserved = ledger.tool_reserved
      /\ ledger'.tool_started = ledger.tool_started
      /\ ledger'.charged = ledger.charged
  BY <1>1 DEF LedgerState, CommitProvider
<1>7. ledger'.provider_reserved = ledger.provider_reserved - 1
  BY <1>4, <1>6, CountsFinite DEF SaturatingSub, AccountsExact
<1>8. ledger.provider_reserved \in Nat /\ ledger.provider_started \in Nat
  BY <1>1 DEF LedgerState
<1>9. WithinLimits'
  BY <1>6, <1>7, <1>8 DEF WithinLimits
<1>10. AccountsExact'
  <2>1. Ended(ledger) \in Nat /\ Ended(ledger') = Ended(ledger)
    BY <1>1, <1>6 DEF Ended, LedgerState, InvocationTerminal
  <2> QED
    BY <1>2, <1>4, <1>6, <1>7, <2>1, CountsFinite DEF AccountsExact
<1>11. RoleAccountsBalance'
  <2>1. ByRole(ledger') = ByRole(ledger)
    BY <1>6 DEF ByRole
  <2>2. \A q \in Roles : ledger.provider_by_role[q] \in Nat
    BY <1>1 DEF LedgerState
  <2>3. \A q \in Roles : Cardinality(ReservedFor(q)') \in Nat
    BY <1>3, CountsFinite, FS_Subset, FS_CardinalityType
  <2> QED
    BY <1>5, <1>6, <1>7, <1>8, <2>1, <2>2, <2>3, CountsFinite DEF RoleAccountsBalance
<1> QED
  BY <1>9, <1>10, <1>11

\* A reservation is dropped before it was committed.
LEMMA DropIInv ==
    ASSUME IInv, NEW c \in Calls, DropReservation(c)
    PROVE  WithinLimits' /\ AccountsExact' /\ RoleAccountsBalance'
<1> USE BudgetAssumption, ClientAssumption DEF IInv
<1>0. PICK role \in Roles : role = call[c].role
  BY DEF DropReservation, TypeOK, CallState, Idle
<1>1. /\ ledger \in LedgerState /\ call \in [Calls -> CallState] /\ role \in Roles
      /\ call[c].holds = "reservation" /\ UNCHANGED tool
      /\ call' = [call EXCEPT ![c] = Idle]
      /\ ledger' = DropProviderReservation(ledger, role)
  BY <1>0 DEF DropReservation, TypeOK
<1>2. /\ Reserved' = Reserved \ {c} /\ c \in Reserved
      /\ InFlight' = InFlight
      /\ ReservedTools' = ReservedTools
  BY <1>1 DEF Reserved, InFlight, ReservedTools, CallState, Idle
<1>3. /\ ReservedFor(role)' = ReservedFor(role) \ {c} /\ c \in ReservedFor(role)
      /\ \A q \in Roles \ {role} : ReservedFor(q)' = ReservedFor(q)
  <2>1. \A d \in Calls \ {c} : call'[d] = call[d]
    BY <1>1
  <2> QED
    BY <1>0, <1>2, <2>1 DEF ReservedFor, Reserved
<1>4. /\ Cardinality(Reserved') = Cardinality(Reserved) - 1
      /\ Cardinality(Reserved) >= 1
      /\ Cardinality(ReservedFor(role)') = Cardinality(ReservedFor(role)) - 1
      /\ Cardinality(ReservedFor(role)) >= 1
  <2>1. IsFiniteSet(ReservedFor(role)) /\ IsFiniteSet(Reserved)
    BY <1>1, CountsFinite
  <2> QED
    BY <1>2, <1>3, <2>1, CountOneLess
<1>5. /\ ledger'.provider_reserved = SaturatingSub(ledger.provider_reserved)
      /\ ledger'.provider_started = ledger.provider_started
      /\ ledger'.provider_ended = ledger.provider_ended
      /\ ledger'.provider_by_role
            = [ledger.provider_by_role EXCEPT ![role] = SaturatingSub(@)]
      /\ ledger'.tool_reserved = ledger.tool_reserved
      /\ ledger'.tool_started = ledger.tool_started
      /\ ledger'.charged = ledger.charged
  BY <1>1 DEF LedgerState, DropProviderReservation
<1>6. ledger.provider_reserved \in Nat /\ ledger.provider_started \in Nat
  BY <1>1 DEF LedgerState
<1>7. ledger'.provider_reserved = ledger.provider_reserved - 1
  BY <1>4, <1>5, <1>6, CountsFinite DEF SaturatingSub, AccountsExact
<1>8. WithinLimits'
  BY <1>5, <1>6, <1>7 DEF WithinLimits
<1>9. AccountsExact'
  BY <1>2, <1>4, <1>5, <1>7, CountsFinite DEF AccountsExact, Ended
<1>10. RoleAccountsBalance'
  <2>1. \A q \in Roles : ledger.provider_by_role[q] \in Nat
    BY <1>1 DEF LedgerState
  <2>2. ledger.provider_by_role[role] >= 1
    BY <1>1, <1>4, <2>1, CountsFinite DEF RoleAccountsBalance
  <2>3. \A q \in Roles : ledger'.provider_by_role[q]
            = ledger.provider_by_role[q] - (IF q = role THEN 1 ELSE 0)
    BY <1>1, <1>5, <2>1, <2>2 DEF LedgerState, SaturatingSub
  <2>4. ByRole(ledger') = ByRole(ledger) - 1
    BY <1>1, <2>1, <2>3 DEF ByRole, Roles
  <2>5. \A q \in Roles : Cardinality(ReservedFor(q)') <= ledger'.provider_by_role[q]
    <3>1. \A q \in Roles : /\ Cardinality(ReservedFor(q)) \in Nat
                          /\ Cardinality(ReservedFor(q)) <= ledger.provider_by_role[q]
      BY CountsFinite DEF RoleAccountsBalance
    <3>2. Cardinality(ReservedFor(role)') <= ledger'.provider_by_role[role]
      BY <1>4, <2>1, <2>3, <3>1
    <3>3. \A q \in Roles \ {role} :
              Cardinality(ReservedFor(q)') <= ledger'.provider_by_role[q]
      BY <1>3, <2>1, <2>3, <3>1
    <3> QED
      BY <3>2, <3>3
  <2> QED
    BY <1>5, <1>6, <1>7, <2>4, <2>5 DEF RoleAccountsBalance
<1> QED
  BY <1>8, <1>9, <1>10

\* An invocation ends.
LEMMA FinishIInv ==
    ASSUME IInv, NEW c \in Calls, NEW how \in InvocationTerminal, Finish(c, how)
    PROVE  WithinLimits' /\ AccountsExact' /\ RoleAccountsBalance'
<1> USE BudgetAssumption, ClientAssumption DEF IInv
<1>1. /\ ledger \in LedgerState /\ call \in [Calls -> CallState]
      /\ call[c].holds = "guard" /\ UNCHANGED tool
      /\ call' = [call EXCEPT ![c] = Idle]
      /\ ledger' = [ledger EXCEPT !.provider_ended[how] = @ + 1]
  BY DEF Finish, TypeOK, FinishProvider
<1>2. /\ Reserved' = Reserved
      /\ InFlight' = InFlight \ {c} /\ c \in InFlight
      /\ ReservedTools' = ReservedTools
  BY <1>1 DEF Reserved, InFlight, ReservedTools, CallState, Idle
<1>3. \A q \in Roles : ReservedFor(q)' = ReservedFor(q)
  <2>1. \A d \in Calls \ {c} : call'[d] = call[d]
    BY <1>1
  <2>2. c \notin Reserved
    BY <1>1 DEF Reserved
  <2> QED
    BY <1>2, <2>1, <2>2 DEF ReservedFor, Reserved
<1>4. Cardinality(InFlight') = Cardinality(InFlight) - 1
  BY <1>2, CountsFinite, CountOneLess
<1>5. /\ ledger'.provider_reserved = ledger.provider_reserved
      /\ ledger'.provider_started = ledger.provider_started
      /\ ledger'.provider_ended = [ledger.provider_ended EXCEPT ![how] = @ + 1]
      /\ ledger'.provider_by_role = ledger.provider_by_role
      /\ ledger'.tool_reserved = ledger.tool_reserved
      /\ ledger'.tool_started = ledger.tool_started
      /\ ledger'.charged = ledger.charged
  BY <1>1 DEF LedgerState
<1>6. Ended(ledger) \in Nat /\ Ended(ledger') = Ended(ledger) + 1
  <2>1. \A t \in InvocationTerminal : ledger.provider_ended[t] \in Nat
    BY <1>1 DEF LedgerState
  <2>2. \A t \in InvocationTerminal : ledger'.provider_ended[t]
            = ledger.provider_ended[t] + (IF t = how THEN 1 ELSE 0)
    BY <1>1, <1>5, <2>1 DEF LedgerState
  <2> QED
    BY <2>1, <2>2 DEF Ended, InvocationTerminal
<1>7. WithinLimits'
  BY <1>5 DEF WithinLimits
<1>8. AccountsExact'
  BY <1>2, <1>4, <1>5, <1>6, CountsFinite DEF AccountsExact
<1>9. RoleAccountsBalance'
  <2>1. ByRole(ledger') = ByRole(ledger)
    BY <1>5 DEF ByRole
  <2> QED
    BY <1>3, <1>5, <2>1 DEF RoleAccountsBalance
<1> QED
  BY <1>7, <1>8, <1>9

-----------------------------------------------------------------------------
(* The steps of a tool call, and everything that charges or refuses.       *)

\* A step that leaves the provider side and the charges alone and keeps the
\* tool counters exact and within their limit.
LEMMA ToolIInv ==
    ASSUME IInv,
           call' = call,
           ledger'.provider_reserved = ledger.provider_reserved,
           ledger'.provider_started = ledger.provider_started,
           ledger'.provider_ended = ledger.provider_ended,
           ledger'.provider_by_role = ledger.provider_by_role,
           ledger'.charged = ledger.charged,
           ledger'.tool_started + ledger'.tool_reserved <= MaxTool,
           ledger'.tool_reserved = Cardinality(ReservedTools')
    PROVE  WithinLimits' /\ AccountsExact' /\ RoleAccountsBalance'
<1>1. WithinLimits'
  BY DEF IInv, WithinLimits
<1>2. AccountsExact'
  BY ProviderFrame DEF IInv, AccountsExact
<1>3. RoleAccountsBalance'
  BY ProviderFrame DEF IInv
<1> QED
  BY <1>1, <1>2, <1>3

\* A step that changes none of the counters the invariant speaks of.
LEMMA QuietIInv ==
    ASSUME IInv, call' = call, ReservedTools' = ReservedTools, SameAccounts(ledger, ledger')
    PROVE  WithinLimits' /\ AccountsExact' /\ RoleAccountsBalance'
<1>1. ledger'.tool_reserved = Cardinality(ReservedTools')
  BY DEF IInv, AccountsExact, SameAccounts
<1>2. ledger'.tool_started + ledger'.tool_reserved <= MaxTool
  BY DEF IInv, WithinLimits, SameAccounts
<1> QED
  BY <1>1, <1>2, ToolIInv DEF SameAccounts

\* reserve_tool is granted.
LEMMA TakeToolIInv ==
    ASSUME IInv, NEW t \in ToolCalls, TakeTool(t)
    PROVE  WithinLimits' /\ AccountsExact' /\ RoleAccountsBalance'
<1> USE BudgetAssumption, ClientAssumption
<1>1. /\ ledger \in LedgerState /\ tool \in [ToolCalls -> {"nothing", "reservation", "running"}]
      /\ tool[t] = "nothing" /\ call' = call
      /\ tool' = [tool EXCEPT ![t] = "reservation"]
      /\ ledger' = [ledger EXCEPT !.tool_reserved = @ + 1]
  BY DEF TakeTool, IInv, TypeOK, ReserveTool
<1>2. ReservedTools' = ReservedTools \cup {t} /\ t \notin ReservedTools
  BY <1>1 DEF ReservedTools
<1>3. Cardinality(ReservedTools') = Cardinality(ReservedTools) + 1
  BY <1>2, CountsFinite, CountOneMore
<1>4. ledger.tool_started + ledger.tool_reserved < MaxTool
  BY <1>1 DEF TakeTool, ToolRefusal, LedgerState, NoRefusal
<1>5. /\ ledger'.tool_reserved = Cardinality(ReservedTools')
      /\ ledger'.tool_started + ledger'.tool_reserved <= MaxTool
  BY <1>1, <1>3, <1>4 DEF LedgerState, IInv, AccountsExact
<1> QED
  BY <1>1, <1>5, ToolIInv DEF LedgerState

\* A tool reservation is committed or dropped.
LEMMA SettleToolIInv ==
    ASSUME IInv, NEW t \in ToolCalls, StartTool(t) \/ DropTool(t)
    PROVE  WithinLimits' /\ AccountsExact' /\ RoleAccountsBalance'
<1> USE BudgetAssumption, ClientAssumption
<1>1. /\ ledger \in LedgerState /\ tool \in [ToolCalls -> {"nothing", "reservation", "running"}]
      /\ tool[t] = "reservation" /\ call' = call
      /\ \/ tool' = [tool EXCEPT ![t] = "running"] /\ ledger' = CommitTool(ledger)
         \/ tool' = [tool EXCEPT ![t] = "nothing"] /\ ledger' = DropToolReservation(ledger)
  BY DEF StartTool, DropTool, IInv, TypeOK
<1>2. ReservedTools' = ReservedTools \ {t} /\ t \in ReservedTools
  BY <1>1 DEF ReservedTools
<1>3. /\ Cardinality(ReservedTools') = Cardinality(ReservedTools) - 1
      /\ Cardinality(ReservedTools) >= 1
  BY <1>2, CountsFinite, CountOneLess
<1>4. /\ ledger'.provider_reserved = ledger.provider_reserved
      /\ ledger'.provider_started = ledger.provider_started
      /\ ledger'.provider_ended = ledger.provider_ended
      /\ ledger'.provider_by_role = ledger.provider_by_role
      /\ ledger'.charged = ledger.charged
      /\ ledger'.tool_reserved = SaturatingSub(ledger.tool_reserved)
      /\ ledger'.tool_started \in {ledger.tool_started, ledger.tool_started + 1}
  BY <1>1 DEF LedgerState, CommitTool, DropToolReservation
<1>5. /\ ledger.tool_reserved \in Nat /\ ledger.tool_started \in Nat
      /\ ledger.tool_reserved = Cardinality(ReservedTools)
      /\ ledger.tool_started + ledger.tool_reserved <= MaxTool
  BY <1>1 DEF LedgerState, IInv, AccountsExact, WithinLimits
<1>6. ledger'.tool_reserved = ledger.tool_reserved - 1
  BY <1>3, <1>4, <1>5 DEF SaturatingSub
<1>7. /\ ledger'.tool_reserved = Cardinality(ReservedTools')
      /\ ledger'.tool_started + ledger'.tool_reserved <= MaxTool
  BY <1>3, <1>4, <1>5, <1>6
<1> QED
  BY <1>1, <1>4, <1>7, ToolIInv

\* A tool ends, or a call that was never started is answered.
LEMMA EndToolIInv ==
    ASSUME IInv, NEW t \in ToolCalls,
           (\E delivered \in BOOLEAN : EndTool(t, delivered)) \/ AnswerUnstarted(t)
    PROVE  WithinLimits' /\ AccountsExact' /\ RoleAccountsBalance'
<1>1. /\ ledger \in LedgerState /\ tool \in [ToolCalls -> {"nothing", "reservation", "running"}]
      /\ tool[t] # "reservation" /\ call' = call
      /\ tool' = [tool EXCEPT ![t] = "nothing"]
      /\ ledger' \in {ledger, RecordToolCompleted(ledger)}
  BY DEF EndTool, AnswerUnstarted, IInv, TypeOK
<1>2. ReservedTools' = ReservedTools
  BY <1>1 DEF ReservedTools
<1> QED
  BY <1>1, <1>2, QuietIInv DEF SameAccounts, RecordToolCompleted, LedgerState

\* A provider or tool reservation is refused.
LEMMA RefusedIInv ==
    ASSUME IInv,
           \/ \E c \in Calls, role \in CallRoles : BeRefused(c, role)
           \/ \E t \in ToolCalls : BeRefusedTool(t)
    PROVE  WithinLimits' /\ AccountsExact' /\ RoleAccountsBalance'
<1>1. ledger \in LedgerState /\ call' = call /\ tool' = tool
  BY DEF BeRefused, BeRefusedTool, IInv, TypeOK
<1>2. SameAccounts(ledger, ledger')
  BY <1>1, RefusalFrame DEF BeRefused, BeRefusedTool
<1>3. ReservedTools' = ReservedTools
  BY <1>1 DEF ReservedTools
<1> QED
  BY <1>1, <1>2, <1>3, QuietIInv

\* An amount is charged to an account, or refused.
LEMMA SpendIInv ==
    ASSUME IInv, NEW account \in Accounts, NEW amount \in Amounts, Spend(account, amount)
    PROVE  WithinLimits' /\ AccountsExact' /\ RoleAccountsBalance'
<1> USE BudgetAssumption, ClientAssumption
<1> DEFINE refusal == ChargeRefusal(ledger, account, amount, expired)
<1>1. /\ ledger \in LedgerState /\ call' = call /\ tool' = tool
      /\ ledger' = Charge(ledger, account, amount, expired)
  BY DEF Spend, IInv, TypeOK
<1>2. ReservedTools' = ReservedTools
  BY <1>1 DEF ReservedTools
<1>3. CASE refusal # NoRefusal
  BY <1>1, <1>2, <1>3, RefusalFrame, QuietIInv
<1>4. CASE refusal = NoRefusal
  <2>1. ledger' = [ledger EXCEPT !.charged[account] = @ + amount]
    BY <1>1, <1>4 DEF Charge
  <2>2. ledger.charged[account] + amount <= Limit[account]
    <3>1. ledger.charged[account] \in Nat /\ Limit[account] \in Nat /\ amount \in Nat
      BY <1>1 DEF LedgerState
    <3>2. ~(ledger.charged[account] + amount > Limit[account])
      BY <1>4 DEF ChargeRefusal, NoRefusal, Accounts
    <3> QED
      BY <3>1, <3>2
  <2>3. /\ ledger'.provider_reserved = ledger.provider_reserved
        /\ ledger'.provider_started = ledger.provider_started
        /\ ledger'.provider_ended = ledger.provider_ended
        /\ ledger'.provider_by_role = ledger.provider_by_role
        /\ ledger'.charged = [ledger.charged EXCEPT ![account] = @ + amount]
        /\ ledger'.tool_started = ledger.tool_started
        /\ ledger'.tool_reserved = ledger.tool_reserved
    BY <1>1, <2>1 DEF LedgerState
  <2>4. WithinLimits'
    <3>1. \A a \in Accounts : ledger'.charged[a] <= Limit[a]
      BY <1>1, <2>2, <2>3 DEF LedgerState, IInv, WithinLimits
    <3> QED
      BY <2>3, <3>1 DEF IInv, WithinLimits
  <2>5. AccountsExact'
    BY <1>1, <1>2, <2>3, ProviderFrame DEF IInv, AccountsExact
  <2>6. RoleAccountsBalance'
    BY <1>1, <2>3, ProviderFrame DEF IInv
  <2> QED
    BY <2>4, <2>5, <2>6
<1> QED
  BY <1>3, <1>4

-----------------------------------------------------------------------------
\* Every step preserves the invariant.
LEMMA NextIInv == IInv /\ [Next]_vars => IInv'
<1> SUFFICES ASSUME IInv, [Next]_vars PROVE WithinLimits' /\ AccountsExact' /\ RoleAccountsBalance'
  BY NextTypeOK DEF IInv
<1>1. ASSUME NEW c \in Calls, CallStep(c)
      PROVE  WithinLimits' /\ AccountsExact' /\ RoleAccountsBalance'
  <2>1. CASE \E role \in CallRoles : Take(c, role)
    BY <2>1, TakeIInv
  <2>2. CASE \E role \in CallRoles : BeRefused(c, role)
    BY <2>2, RefusedIInv
  <2>3. CASE Commit(c) \/ DropReservation(c)
    BY <2>3, CommitIInv, DropIInv
  <2>4. CASE \E how \in InvocationTerminal : Finish(c, how)
    BY <2>4, FinishIInv
  <2> QED
    BY <1>1, <2>1, <2>2, <2>3, <2>4 DEF CallStep
<1>2. ASSUME NEW t \in ToolCalls, ToolStep(t)
      PROVE  WithinLimits' /\ AccountsExact' /\ RoleAccountsBalance'
  BY <1>2, TakeToolIInv, RefusedIInv, SettleToolIInv, EndToolIInv DEF ToolStep
<1>3. ASSUME NEW account \in Accounts, NEW amount \in Amounts, Spend(account, amount)
      PROVE  WithinLimits' /\ AccountsExact' /\ RoleAccountsBalance'
  BY <1>3, SpendIInv
<1>4. CASE Expire \/ Terminate \/ UNCHANGED vars
  <2>1. ledger \in LedgerState /\ call' = call /\ tool' = tool
    BY <1>4 DEF Expire, Terminate, vars, IInv, TypeOK
  <2>2. ledger' \in {ledger, MarkTerminal(ledger)}
    BY <1>4 DEF Expire, Terminate, vars
  <2>3. ReservedTools' = ReservedTools
    BY <2>1 DEF ReservedTools
  <2> QED
    BY <2>1, <2>2, <2>3, QuietIInv DEF SameAccounts, MarkTerminal, LedgerState
<1> QED
  BY <1>1, <1>2, <1>3, <1>4 DEF Next

\* IInv holds in every reachable state.
THEOREM Invariance == Spec => []IInv
BY InitIInv, NextIInv, PTL DEF Spec

-----------------------------------------------------------------------------
\* No number of concurrent sessions overspends a run (reserve_provider,
\* reserve_tool and the charging methods), whatever the limits.
THEOREM NoOverspend == Spec => []WithinLimits
BY Invariance, PTL DEF IInv

\* The counters of the ledger are the reservations and guards alive.
THEOREM ExactAccounts == Spec => []AccountsExact
BY Invariance, PTL DEF IInv

\* The role accounts add up to what is reserved and started.
THEOREM BalancedRoles == Spec => []RoleAccountsBalance
BY Invariance, PTL DEF IInv

-----------------------------------------------------------------------------
\* What a step may do once the run is terminal or its time is over.
EndRespected ==
    ledger.terminal \/ expired =>
        /\ ledger'.provider_started + ledger'.provider_reserved
               <= ledger.provider_started + ledger.provider_reserved
        /\ ledger'.tool_started + ledger'.tool_reserved
               <= ledger.tool_started + ledger.tool_reserved
        /\ ledger'.charged = ledger.charged

\* No step of anyone grants anything after the end.
LEMMA StepRespectsEnd == IInv /\ [Next]_vars => EndRespected
<1> SUFFICES ASSUME IInv, [Next]_vars, ledger.terminal \/ expired
             PROVE  /\ ledger'.provider_started + ledger'.provider_reserved
                           <= ledger.provider_started + ledger.provider_reserved
                    /\ ledger'.tool_started + ledger'.tool_reserved
                           <= ledger.tool_started + ledger.tool_reserved
                    /\ ledger'.charged = ledger.charged
  BY DEF EndRespected
<1> DEFINE Goal == /\ ledger'.provider_started + ledger'.provider_reserved
                          <= ledger.provider_started + ledger.provider_reserved
                   /\ ledger'.tool_started + ledger'.tool_reserved
                          <= ledger.tool_started + ledger.tool_reserved
                   /\ ledger'.charged = ledger.charged
<1> USE BudgetAssumption, ClientAssumption
<1>1. /\ ledger \in LedgerState /\ expired \in BOOLEAN
      /\ ledger.provider_reserved \in Nat /\ ledger.provider_started \in Nat
      /\ ledger.tool_reserved \in Nat /\ ledger.tool_started \in Nat
  BY DEF IInv, TypeOK, LedgerState
<1>2. /\ \A role : ProviderRefusal(ledger, role, expired) # NoRefusal
      /\ ToolRefusal(ledger, expired) # NoRefusal
      /\ \A account, amount : ChargeRefusal(ledger, account, amount, expired) # NoRefusal
  BY <1>1 DEF ProviderRefusal, ToolRefusal, ChargeRefusal, Elapsed, NoRefusal, LedgerState
<1>3. SameAccounts(ledger, ledger') => Goal
  BY <1>1 DEF SameAccounts
<1>4. ASSUME NEW c \in Calls, NEW role \in CallRoles, Take(c, role) \/ BeRefused(c, role)
      PROVE  Goal
  BY <1>1, <1>2, <1>3, <1>4, RefusalFrame DEF Take, BeRefused
<1>5. ASSUME NEW c \in Calls, Commit(c) \/ DropReservation(c)
      PROVE  Goal
  <2>1. c \in Reserved /\ ledger' \in {CommitProvider(ledger),
                                       DropProviderReservation(ledger, call[c].role)}
    BY <1>5 DEF Commit, DropReservation, Reserved
  <2>2. ledger.provider_reserved >= 1
    BY <2>1, CountsFinite, CountOneLess DEF IInv, AccountsExact
  <2>3. SaturatingSub(ledger.provider_reserved) = ledger.provider_reserved - 1
    BY <1>1, <2>2 DEF SaturatingSub
  <2>4. /\ ledger'.provider_reserved = SaturatingSub(ledger.provider_reserved)
        /\ ledger'.provider_started \in {ledger.provider_started, ledger.provider_started + 1}
        /\ ledger'.tool_reserved = ledger.tool_reserved
        /\ ledger'.tool_started = ledger.tool_started
        /\ ledger'.charged = ledger.charged
    BY <1>1, <2>1 DEF LedgerState, CommitProvider, DropProviderReservation
  <2> QED
    BY <1>1, <2>2, <2>3, <2>4
<1>6. ASSUME NEW c \in Calls, NEW how \in InvocationTerminal, Finish(c, how)
      PROVE  Goal
  BY <1>1, <1>6 DEF Finish, FinishProvider, LedgerState
<1>7. ASSUME NEW t \in ToolCalls, TakeTool(t) \/ BeRefusedTool(t)
      PROVE  Goal
  BY <1>1, <1>2, <1>3, <1>7, RefusalFrame DEF TakeTool, BeRefusedTool
<1>8. ASSUME NEW t \in ToolCalls, StartTool(t) \/ DropTool(t)
      PROVE  Goal
  <2>1. t \in ReservedTools /\ ledger' \in {CommitTool(ledger), DropToolReservation(ledger)}
    BY <1>8 DEF StartTool, DropTool, ReservedTools
  <2>2. ledger.tool_reserved >= 1
    BY <2>1, CountsFinite, CountOneLess DEF IInv, AccountsExact
  <2>3. SaturatingSub(ledger.tool_reserved) = ledger.tool_reserved - 1
    BY <1>1, <2>2 DEF SaturatingSub
  <2>4. /\ ledger'.provider_reserved = ledger.provider_reserved
        /\ ledger'.provider_started = ledger.provider_started
        /\ ledger'.tool_reserved = SaturatingSub(ledger.tool_reserved)
        /\ ledger'.tool_started \in {ledger.tool_started, ledger.tool_started + 1}
        /\ ledger'.charged = ledger.charged
    BY <1>1, <2>1 DEF LedgerState, CommitTool, DropToolReservation
  <2> QED
    BY <1>1, <2>2, <2>3, <2>4
<1>9. ASSUME NEW t \in ToolCalls,
             (\E delivered \in BOOLEAN : EndTool(t, delivered)) \/ AnswerUnstarted(t)
      PROVE  Goal
  <2>1. ledger' \in {ledger, RecordToolCompleted(ledger)}
    BY <1>9 DEF EndTool, AnswerUnstarted
  <2> QED
    BY <1>1, <2>1 DEF RecordToolCompleted, LedgerState
<1>10. ASSUME NEW account \in Accounts, NEW amount \in Amounts, Spend(account, amount)
       PROVE  Goal
  BY <1>1, <1>2, <1>3, <1>10, RefusalFrame DEF Spend
<1>11. CASE Expire \/ Terminate \/ UNCHANGED vars
  <2>1. ledger' \in {ledger, MarkTerminal(ledger)}
    BY <1>11 DEF Expire, Terminate, vars
  <2> QED
    BY <1>1, <2>1 DEF MarkTerminal, LedgerState
<1>12. ASSUME NEW c \in Calls, CallStep(c) PROVE Goal
  BY <1>4, <1>5, <1>6, <1>12 DEF CallStep
<1>13. ASSUME NEW t \in ToolCalls, ToolStep(t) PROVE Goal
  BY <1>7, <1>8, <1>9, <1>13 DEF ToolStep
<1> QED
  BY <1>10, <1>11, <1>12, <1>13 DEF Next

\* Once a run is terminal or out of time nothing more is granted.
THEOREM EndIsFinal == Spec => NothingGrantedAfterEnd
<1>1. IInv /\ [Next]_vars => [EndRespected]_vars
  BY StepRespectsEnd
<1> QED
  BY <1>1, Invariance, PTL DEF Spec, NothingGrantedAfterEnd, EndRespected
=============================================================================
