---------------------------- MODULE BudgetState ----------------------------
(***************************************************************************)
(* The record LedgerState of execution_budget.rs together with             *)
(* last_exhaustion, which is written only while the ledger's mutex is      *)
(* held.  <Method>Refusal is the exhaustion category a method returns, or  *)
(* NoRefusal; <Method> is the ledger it leaves behind, refused or not.     *)
(* `expired` is what started_at.elapsed() >= max_elapsed evaluates to.     *)
(*                                                                         *)
(* The five counters that only grow by an admitted amount (context bytes,  *)
(* output tokens, executor tasks, repair attempts, tool output bytes)      *)
(* share one shape: `charged` maps each account to what it has admitted.   *)
(***************************************************************************)
EXTENDS Integers

CONSTANTS
    MaxProvider,    \* max_provider_invocations
    MaxTool,        \* max_tool_calls
    Limit,          \* the limit of each account
    MaxConcurrency  \* max_executor_concurrency

Roles == {"Main", "Planner", "Executor", "Verifier", "Repair"}

Accounts == {"InputOrContextLimit", "OutputTokenLimit", "ExecutorTaskCount",
             "RepairAttempts", "AggregateToolOutput"}

ASSUME BudgetAssumption ==
    /\ MaxProvider \in Nat
    /\ MaxTool \in Nat
    /\ Limit \in [Accounts -> Nat]
    /\ MaxConcurrency \in Nat

NoRefusal == "none"

\* The exhaustion of any role's share is one category here.
BudgetExhaustionCategory ==
    Accounts \cup {"TotalElapsedTime", "RunTerminal", "TotalProviderInvocations",
                   "RoleProviderInvocations", "TotalToolCalls", "ExecutorConcurrency"}

InvocationTerminal == {"Completed", "Failed", "Cancelled", "TimedOut"}

LedgerState ==
    [ provider_reserved : Nat,
      provider_started : Nat,
      provider_ended : [InvocationTerminal -> Nat],
      provider_rejected : Nat,
      provider_by_role : [Roles -> Nat],
      tool_reserved : Nat,
      tool_started : Nat,
      tool_completed : Nat,
      tool_rejected : Nat,
      charged : [Accounts -> Nat],
      elapsed_exhausted : BOOLEAN,
      terminal : BOOLEAN,
      last_exhaustion : BudgetExhaustionCategory \cup {NoRefusal} ]

NewLedger ==
    [ provider_reserved |-> 0,
      provider_started |-> 0,
      provider_ended |-> [t \in InvocationTerminal |-> 0],
      provider_rejected |-> 0,
      provider_by_role |-> [role \in Roles |-> 0],
      tool_reserved |-> 0,
      tool_started |-> 0,
      tool_completed |-> 0,
      tool_rejected |-> 0,
      charged |-> [a \in Accounts |-> 0],
      elapsed_exhausted |-> FALSE,
      terminal |-> FALSE,
      last_exhaustion |-> NoRefusal ]

\* exhaustion(): every refusal is remembered.
Exhaustion(l, category) == [l EXCEPT !.last_exhaustion = category]

\* check_elapsed(), which every method consults unless the run is terminal.
Elapsed(l, expired) == expired /\ ~l.terminal

ElapsedExhaustion(l) ==
    [Exhaustion(l, "TotalElapsedTime") EXCEPT !.elapsed_exhausted = TRUE]

-----------------------------------------------------------------------------
(* Provider invocations.                                                   *)

\* from_resolved gives every role the limit of the whole run.
RoleLimit(role) == MaxProvider

\* Mutant: a terminal run still hands out provider reservations.
ProviderRefusalIgnoringTerminal(l, role, expired) ==
    IF Elapsed(l, expired) THEN "TotalElapsedTime"
    ELSE IF l.provider_started + l.provider_reserved >= MaxProvider
         THEN "TotalProviderInvocations"
    ELSE IF l.provider_by_role[role] >= RoleLimit(role) THEN "RoleProviderInvocations"
    ELSE NoRefusal

ProviderRefusal(l, role, expired) ==
    IF Elapsed(l, expired) THEN "TotalElapsedTime"
    ELSE IF l.terminal THEN "RunTerminal"
    ELSE IF l.provider_started + l.provider_reserved >= MaxProvider
         THEN "TotalProviderInvocations"
    ELSE IF l.provider_by_role[role] >= RoleLimit(role) THEN "RoleProviderInvocations"
    ELSE NoRefusal

\* A refusal for time or termination is not counted as rejected.
ReserveProvider(l, role, expired) ==
    LET refusal == ProviderRefusal(l, role, expired) IN
    IF refusal = NoRefusal
    THEN [l EXCEPT !.provider_reserved = @ + 1,
                   !.provider_by_role[role] = @ + 1]
    ELSE IF refusal = "TotalElapsedTime" THEN ElapsedExhaustion(l)
    ELSE IF refusal = "RunTerminal" THEN Exhaustion(l, refusal)
    ELSE [Exhaustion(l, refusal) EXCEPT !.provider_rejected = @ + 1]

SaturatingSub(n) == IF n = 0 THEN 0 ELSE n - 1

\* Mutant: a committed reservation stays reserved.
CommitProviderKeepingReservation(l) == [l EXCEPT !.provider_started = @ + 1]

\* ProviderReservation::commit and commit_with_guard.
CommitProvider(l) ==
    [l EXCEPT !.provider_reserved = SaturatingSub(@), !.provider_started = @ + 1]

\* Mutant: a dropped reservation stays on its role's account.
DropProviderReservationKeepingRole(l, role) ==
    [l EXCEPT !.provider_reserved = SaturatingSub(@)]

\* Drop of a ProviderReservation that was not committed.
DropProviderReservation(l, role) ==
    [l EXCEPT !.provider_reserved = SaturatingSub(@),
              !.provider_by_role[role] = SaturatingSub(@)]

\* ProviderInvocationGuard::finish, also by its Drop with Failed.
FinishProvider(l, how) == [l EXCEPT !.provider_ended[how] = @ + 1]

-----------------------------------------------------------------------------
(* Tool calls.                                                             *)

ToolRefusal(l, expired) ==
    IF Elapsed(l, expired) THEN "TotalElapsedTime"
    ELSE IF l.terminal THEN "RunTerminal"
    ELSE IF l.tool_started + l.tool_reserved >= MaxTool THEN "TotalToolCalls"
    ELSE NoRefusal

ReserveTool(l, expired) ==
    LET refusal == ToolRefusal(l, expired) IN
    IF refusal = NoRefusal THEN [l EXCEPT !.tool_reserved = @ + 1]
    ELSE IF refusal = "TotalElapsedTime" THEN ElapsedExhaustion(l)
    ELSE [Exhaustion(l, refusal) EXCEPT !.tool_rejected = @ + 1]

CommitTool(l) == [l EXCEPT !.tool_reserved = SaturatingSub(@), !.tool_started = @ + 1]

DropToolReservation(l) == [l EXCEPT !.tool_reserved = SaturatingSub(@)]

RecordToolCompleted(l) == [l EXCEPT !.tool_completed = @ + 1]

-----------------------------------------------------------------------------
(* reserve_context, record_output_tokens, admit_executor_tasks,            *)
(* admit_repair_attempt and record_tool_output.                            *)

\* Mutant: the amount asked for is not looked at.
ChargeRefusalIgnoringAmount(l, account, amount, expired) ==
    IF Elapsed(l, expired) THEN "TotalElapsedTime"
    ELSE IF l.terminal THEN "RunTerminal"
    ELSE IF l.charged[account] > Limit[account] THEN account
    ELSE NoRefusal

ChargeRefusal(l, account, amount, expired) ==
    IF Elapsed(l, expired) THEN "TotalElapsedTime"
    ELSE IF l.terminal THEN "RunTerminal"
    ELSE IF l.charged[account] + amount > Limit[account] THEN account
    ELSE IF account = "ExecutorTaskCount" /\ MaxConcurrency = 0 THEN "ExecutorConcurrency"
    ELSE NoRefusal

Charge(l, account, amount, expired) ==
    LET refusal == ChargeRefusal(l, account, amount, expired) IN
    IF refusal = NoRefusal THEN [l EXCEPT !.charged[account] = @ + amount]
    ELSE IF refusal = "TotalElapsedTime" THEN ElapsedExhaustion(l)
    ELSE Exhaustion(l, refusal)

MarkTerminal(l) == [l EXCEPT !.terminal = TRUE]
=============================================================================
