-------------------------- MODULE ExecutionBudget --------------------------
(***************************************************************************)
(* One ExecutionBudgetLedger shared by the concurrent sessions of a run.   *)
(* A provider call holds a ProviderReservation, then a                     *)
(* ProviderInvocationGuard; a tool call holds a ToolReservation.  Each may *)
(* be dropped at any point where the owning future can be dropped or       *)
(* return early.  The deadline passes, and the coordinator marks the run   *)
(* terminal, whenever they like.                                           *)
(***************************************************************************)
EXTENDS BudgetState, FiniteSets

CONSTANTS
    Calls,        \* sessions that invoke a provider
    ToolCalls,    \* sessions that execute a tool
    CallRoles,    \* the roles they invoke for
    Amounts,      \* the amounts charged at once
    MaxRejected,  \* bound on the rejected counters, which only grow
    MaxCompleted  \* bound on tool_completed, which counts unstarted calls too

ASSUME ClientAssumption ==
    /\ IsFiniteSet(Calls)
    /\ IsFiniteSet(ToolCalls)
    /\ CallRoles \subseteq Roles
    /\ Amounts \subseteq Nat
    /\ MaxRejected \in Nat
    /\ MaxCompleted \in Nat

VARIABLES
    ledger,   \* the ledger under its mutex
    expired,  \* max_elapsed has passed since started_at
    call,     \* what each provider call holds, and for which role
    tool      \* what each tool call holds

vars == <<ledger, expired, call, tool>>

Idle == [holds |-> "nothing", role |-> "none"]

CallState == [holds : {"reservation", "guard"}, role : Roles] \cup {Idle}

Init ==
    /\ ledger = NewLedger
    /\ expired = FALSE
    /\ call = [c \in Calls |-> Idle]
    /\ tool = [t \in ToolCalls |-> "nothing"]

Take(c, role) ==
    /\ call[c] = Idle
    /\ ProviderRefusal(ledger, role, expired) = NoRefusal
    /\ ledger' = ReserveProvider(ledger, role, expired)
    /\ call' = [call EXCEPT ![c] = [holds |-> "reservation", role |-> role]]
    /\ UNCHANGED <<expired, tool>>

BeRefused(c, role) ==
    /\ call[c] = Idle
    /\ ProviderRefusal(ledger, role, expired) # NoRefusal
    /\ ledger.provider_rejected < MaxRejected
    /\ ledger' = ReserveProvider(ledger, role, expired)
    /\ UNCHANGED <<expired, call, tool>>

\* commit does not ask whether the run became terminal since.
Commit(c) ==
    /\ call[c].holds = "reservation"
    /\ ledger' = CommitProvider(ledger)
    /\ call' = [call EXCEPT ![c].holds = "guard"]
    /\ UNCHANGED <<expired, tool>>

DropReservation(c) ==
    /\ call[c].holds = "reservation"
    /\ ledger' = DropProviderReservation(ledger, call[c].role)
    /\ call' = [call EXCEPT ![c] = Idle]
    /\ UNCHANGED <<expired, tool>>

\* finish(how), or the guard's Drop, which reports Failed.
Finish(c, how) ==
    /\ call[c].holds = "guard"
    /\ ledger' = FinishProvider(ledger, how)
    /\ call' = [call EXCEPT ![c] = Idle]
    /\ UNCHANGED <<expired, tool>>

-----------------------------------------------------------------------------
TakeTool(t) ==
    /\ tool[t] = "nothing"
    /\ ToolRefusal(ledger, expired) = NoRefusal
    /\ ledger' = ReserveTool(ledger, expired)
    /\ tool' = [tool EXCEPT ![t] = "reservation"]
    /\ UNCHANGED <<expired, call>>

BeRefusedTool(t) ==
    /\ tool[t] = "nothing"
    /\ ToolRefusal(ledger, expired) # NoRefusal
    /\ ledger.tool_rejected < MaxRejected
    /\ ledger' = ReserveTool(ledger, expired)
    /\ UNCHANGED <<expired, call, tool>>

StartTool(t) ==
    /\ tool[t] = "reservation"
    /\ ledger' = CommitTool(ledger)
    /\ tool' = [tool EXCEPT ![t] = "running"]
    /\ UNCHANGED <<expired, call>>

DropTool(t) ==
    /\ tool[t] = "reservation"
    /\ ledger' = DropToolReservation(ledger)
    /\ tool' = [tool EXCEPT ![t] = "nothing"]
    /\ UNCHANGED <<expired, call>>

\* A tool that delivered its result is recorded; one cut short is not.
EndTool(t, delivered) ==
    /\ tool[t] = "running"
    /\ delivered => ledger.tool_completed < MaxCompleted
    /\ ledger' = IF delivered THEN RecordToolCompleted(ledger) ELSE ledger
    /\ tool' = [tool EXCEPT ![t] = "nothing"]
    /\ UNCHANGED <<expired, call>>

\* A duplicate, unknown or over-used tool call is answered with an error and
\* recorded as completed, although it reserved and started nothing.
AnswerUnstarted(t) ==
    /\ tool[t] = "nothing"
    /\ ledger.tool_completed < MaxCompleted
    /\ ledger' = RecordToolCompleted(ledger)
    /\ UNCHANGED <<expired, call, tool>>

-----------------------------------------------------------------------------
Spend(account, amount) ==
    /\ ledger' = Charge(ledger, account, amount, expired)
    /\ UNCHANGED <<expired, call, tool>>

Expire ==
    /\ ~expired
    /\ expired' = TRUE
    /\ UNCHANGED <<ledger, call, tool>>

Terminate ==
    /\ ~ledger.terminal
    /\ ledger' = MarkTerminal(ledger)
    /\ UNCHANGED <<expired, call, tool>>

CallStep(c) ==
    \/ \E role \in CallRoles : Take(c, role) \/ BeRefused(c, role)
    \/ Commit(c)
    \/ DropReservation(c)
    \/ \E how \in InvocationTerminal : Finish(c, how)

ToolStep(t) ==
    \/ TakeTool(t)
    \/ BeRefusedTool(t)
    \/ StartTool(t)
    \/ DropTool(t)
    \/ AnswerUnstarted(t)
    \/ \E delivered \in BOOLEAN : EndTool(t, delivered)

Next ==
    \/ \E c \in Calls : CallStep(c)
    \/ \E t \in ToolCalls : ToolStep(t)
    \/ \E account \in Accounts, amount \in Amounts : Spend(account, amount)
    \/ Expire
    \/ Terminate

Spec == Init /\ [][Next]_vars

-----------------------------------------------------------------------------
\* The ledger's counters are naturals and what each caller holds is known.
TypeOK ==
    /\ ledger \in LedgerState
    /\ expired \in BOOLEAN
    /\ call \in [Calls -> CallState]
    /\ tool \in [ToolCalls -> {"nothing", "reservation", "running"}]

Reserved == {c \in Calls : call[c].holds = "reservation"}

ReservedFor(role) == {c \in Reserved : call[c].role = role}

InFlight == {c \in Calls : call[c].holds = "guard"}

ReservedTools == {t \in ToolCalls : tool[t] = "reservation"}

Ended(l) ==
    l.provider_ended["Completed"] + l.provider_ended["Failed"]
        + l.provider_ended["Cancelled"] + l.provider_ended["TimedOut"]

ByRole(l) ==
    l.provider_by_role["Main"] + l.provider_by_role["Planner"]
        + l.provider_by_role["Executor"] + l.provider_by_role["Verifier"]
        + l.provider_by_role["Repair"]

\* No interleaving of reservations, commits and drops overspends the run:
\* what is started plus what is promised stays within each limit.
WithinLimits ==
    /\ ledger.provider_started + ledger.provider_reserved <= MaxProvider
    /\ ledger.tool_started + ledger.tool_reserved <= MaxTool
    /\ \A a \in Accounts : ledger.charged[a] <= Limit[a]

\* The ledger's counters are exact: one reservation for each reservation
\* object alive, and every started invocation has one terminal count or is in
\* flight, so that started minus ended (the observed provider count of
\* orchestration_observability_runtime.rs:219) is the number in flight.
AccountsExact ==
    /\ ledger.provider_reserved = Cardinality(Reserved)
    /\ ledger.provider_started = Ended(ledger) + Cardinality(InFlight)
    /\ ledger.tool_reserved = Cardinality(ReservedTools)

\* Every admitted invocation is on exactly one role's account and dropped
\* reservations are not; an account covers the reservations it may still have
\* to give back, so saturating_sub never hides a missing decrement.
RoleAccountsBalance ==
    /\ ByRole(ledger) = ledger.provider_reserved + ledger.provider_started
    /\ \A role \in Roles : Cardinality(ReservedFor(role)) <= ledger.provider_by_role[role]

\* Once the run is terminal or its time is over nothing more is promised:
\* a reservation taken before may still start, and nothing else.
NothingGrantedAfterEnd ==
    [][ledger.terminal \/ expired =>
          /\ ledger'.provider_started + ledger'.provider_reserved
                 <= ledger.provider_started + ledger.provider_reserved
          /\ ledger'.tool_started + ledger'.tool_reserved
                 <= ledger.tool_started + ledger.tool_reserved
          /\ ledger'.charged = ledger.charged]_vars
=============================================================================
