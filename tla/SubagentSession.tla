--------------------------- MODULE SubagentSession ---------------------------
(***************************************************************************)
(* The sessions of one stage: SubagentRuntime::run_subagent, several at    *)
(* once, over one budget ledger and one cleanup, and the coordinator that  *)
(* joins them and finishes the run.                                        *)
(*                                                                         *)
(* A provider turn and a tool call take the same seven steps, each with    *)
(* its own lock: own a cleanup reservation, reserve budget, register a     *)
(* cleanup child, commit, resolve the ownership, run, complete the child.  *)
(* `at` is the next of them.  A session that returns early, or is dropped  *)
(* at an await, drops its locals one by one ("unwinding").                 *)
(*                                                                         *)
(* The cleanup is its flags: what it has open is what the sessions' guards *)
(* hold, by the theorem NoOrphans of OrchestrationCleanupProofs.           *)
(***************************************************************************)
EXTENDS BudgetState, FiniteSets

CONSTANTS
    Sessions,       \* the subagent sessions of the stage
    RoleOf,         \* the role each of them runs for
    MaxTurns,       \* max_provider_turns of a session
    MaxSessionTools,\* max_tool_calls of a session
    Amounts         \* the tokens and bytes recorded at once

ASSUME SessionAssumption ==
    /\ IsFiniteSet(Sessions)
    /\ RoleOf \in [Sessions -> Roles]
    /\ MaxTurns \in Nat
    /\ MaxSessionTools \in Nat
    /\ Amounts \subseteq Nat

VARIABLES
    ledger,     \* the ExecutionBudgetLedger
    expired,    \* its max_elapsed has passed
    cleanup,    \* the flags of OrchestrationCleanup
    session,    \* the locals of each session
    cancelled,  \* the cancellation token of the batch
    timed_out,  \* the sessions whose timeout_signal is cancelled
    owner,      \* the coordinator that joins the sessions
    late        \* history: what each session started after the cancellation

vars == <<ledger, expired, cleanup, session, cancelled, timed_out, owner, late>>

Kinds == {"provider", "tool"}

\* What an invocation answers: text, a text over the output cap, a call of a
\* tool, a response of another route, an error, or how the select ended it.
Answers == {"none", "text", "overlong", "call", "misrouted", "error",
            "cancelled", "timed out"}

\* The locals of a session; owns and child are a CleanupReservationGuard and a
\* CleanupChildGuard with a handle, budget is a reservation or a guard.
NewSessionRecord ==
    [ at |-> "start", kind |-> "provider", owns |-> FALSE, child |-> FALSE,
      budget |-> "nothing", answer |-> "none", turns |-> 0, tools |-> 0,
      status |-> "none" ]

Init ==
    /\ ledger = NewLedger
    /\ expired = FALSE
    /\ cleanup = [requested |-> FALSE, complete |-> FALSE]
    /\ session = [s \in Sessions |-> NewSessionRecord]
    /\ cancelled = FALSE
    /\ timed_out = {}
    /\ owner = "joining"
    /\ late = [s \in Sessions |-> [kind \in Kinds |-> 0]]

-----------------------------------------------------------------------------
Goto(s, step) == session' = [session EXCEPT ![s].at = step]

\* Return with a status: the locals are dropped first.
Leave(s, status) ==
    session' = [session EXCEPT ![s].at = "unwinding", ![s].status = status,
                               ![s].answer = "none"]

\* Cleanup refuses to register anything once it has begun.
CanRegister == ~cleanup.requested /\ ~cleanup.complete

\* run_subagent: validated, routed, and not cancelled before the start.
Start(s) ==
    /\ session[s].at = "start"
    /\ IF cancelled THEN Leave(s, "CancelledBeforeStart") ELSE Goto(s, "top")
    /\ UNCHANGED <<ledger, expired, cleanup, cancelled, timed_out, owner, late>>

Own(s) ==
    session' = IF CanRegister
               THEN [session EXCEPT ![s].at = "owned", ![s].owns = TRUE]
               ELSE [session EXCEPT ![s].at = "unwinding", ![s].status = "InternalFailure"]

\* Mutant: the loop does not look at the cancellation token.
TopIgnoringCancellation(s) ==
    /\ session[s].at = "top"
    /\ IF s \in timed_out THEN Leave(s, "TimedOut")
       ELSE IF session[s].turns >= MaxTurns THEN Leave(s, "BudgetExhausted")
       ELSE Own(s)
    /\ UNCHANGED <<ledger, expired, cleanup, cancelled, timed_out, owner, late>>

\* The head of the loop in run_tool_session.
Top(s) ==
    /\ session[s].at = "top"
    /\ IF cancelled THEN Leave(s, "Cancelled")
       ELSE IF s \in timed_out THEN Leave(s, "TimedOut")
       ELSE IF session[s].turns >= MaxTurns THEN Leave(s, "BudgetExhausted")
       ELSE Own(s)
    /\ UNCHANGED <<ledger, expired, cleanup, cancelled, timed_out, owner, late>>

\* An approved tool call registers its ownership.
Call(s) ==
    /\ session[s].at = "calling"
    /\ Own(s)
    /\ UNCHANGED <<ledger, expired, cleanup, cancelled, timed_out, owner, late>>

Refusal(s) ==
    IF session[s].kind = "provider" THEN ProviderRefusal(ledger, RoleOf[s], expired)
                                    ELSE ToolRefusal(ledger, expired)

\* Mutant: a refused session goes on.
ReserveIgnoringRefusal(s) ==
    /\ session[s].at = "owned"
    /\ ledger' = IF session[s].kind = "provider"
                 THEN ReserveProvider(ledger, RoleOf[s], expired)
                 ELSE ReserveTool(ledger, expired)
    /\ session' = [session EXCEPT ![s].at = "reserved", ![s].budget = "reservation"]
    /\ UNCHANGED <<expired, cleanup, cancelled, timed_out, owner, late>>

\* reserve_provider or reserve_tool.
Reserve(s) ==
    /\ session[s].at = "owned"
    /\ ledger' = IF session[s].kind = "provider"
                 THEN ReserveProvider(ledger, RoleOf[s], expired)
                 ELSE ReserveTool(ledger, expired)
    /\ IF Refusal(s) = NoRefusal
       THEN session' = [session EXCEPT ![s].at = "reserved", ![s].budget = "reservation"]
       ELSE Leave(s, "BudgetExhausted")
    /\ UNCHANGED <<expired, cleanup, cancelled, timed_out, owner, late>>

RegisterChild(s) ==
    /\ session[s].at = "reserved"
    /\ IF CanRegister
       THEN session' = [session EXCEPT ![s].at = "registered", ![s].child = TRUE]
       ELSE Leave(s, "InternalFailure")
    /\ UNCHANGED <<ledger, expired, cleanup, cancelled, timed_out, owner, late>>

\* commit_with_guard leaves a guard; a tool's commit leaves nothing.
Commit(s) ==
    /\ session[s].at = "registered"
    /\ ledger' = IF session[s].kind = "provider" THEN CommitProvider(ledger)
                                                 ELSE CommitTool(ledger)
    /\ session' = [session EXCEPT ![s].at = "committed", ![s].budget = "guard"]
    /\ late' = IF cancelled THEN [late EXCEPT ![s][session[s].kind] = @ + 1] ELSE late
    /\ UNCHANGED <<expired, cleanup, cancelled, timed_out, owner>>

Resolve(s) ==
    /\ session[s].at = "committed"
    /\ session' = [session EXCEPT ![s].at = "running", ![s].owns = FALSE]
    /\ UNCHANGED <<ledger, expired, cleanup, cancelled, timed_out, owner, late>>

\* The provider or the tool delivers; a provider may fail, time out or report
\* a cancellation on its own account.
Answer(s, answer) ==
    /\ session[s].at = "running"
    /\ answer \in IF session[s].kind = "provider" THEN Answers \ {"none"}
                                                  ELSE {"text", "error", "cancelled"}
    /\ session' = [session EXCEPT ![s].at = "answered", ![s].answer = answer]
    /\ UNCHANGED <<ledger, expired, cleanup, cancelled, timed_out, owner, late>>

\* Mutant: the select waits for the answer and for the token only.
InterruptByCancellationOnly(s) ==
    /\ session[s].at = "running"
    /\ cancelled
    /\ session' = [session EXCEPT ![s].at = "answered", ![s].answer = "cancelled"]
    /\ UNCHANGED <<ledger, expired, cleanup, cancelled, timed_out, owner, late>>

\* The other branches of the select.
Interrupt(s) ==
    /\ session[s].at = "running"
    /\ \/ /\ cancelled
          /\ session' = [session EXCEPT ![s].at = "answered", ![s].answer = "cancelled"]
       \/ /\ s \in timed_out
          /\ session' = [session EXCEPT ![s].at = "answered",
                            ![s].answer = IF session[s].kind = "provider"
                                          THEN "timed out" ELSE "cancelled"]
    /\ UNCHANGED <<ledger, expired, cleanup, cancelled, timed_out, owner, late>>

\* child.complete().  A tool's commit kept no guard, so its call ends here.
CompleteChild(s) ==
    /\ session[s].at = "answered"
    /\ session' =
          IF session[s].kind = "provider"
          THEN [session EXCEPT ![s].child = FALSE, ![s].at = "settling"]
          ELSE LET status == IF s \in timed_out THEN "TimedOut"
                             ELSE IF session[s].answer = "cancelled" THEN "Cancelled"
                             ELSE "none"
               IN  [session EXCEPT ![s].child = FALSE, ![s].budget = "nothing",
                       ![s].answer = "none", ![s].status = status,
                       ![s].at = IF status = "none" THEN "reporting" ELSE "unwinding"]
    /\ UNCHANGED <<ledger, expired, cleanup, cancelled, timed_out, owner, late>>

\* The terminal a provider invocation is recorded with, and the status a
\* failed one gives the session.
TerminalOf(answer) ==
    CASE answer = "cancelled" -> "Cancelled"
      [] answer = "timed out" -> "TimedOut"
      [] answer = "error"     -> "Failed"
      [] OTHER                -> "Completed"

\* Mutant: only a completed invocation is recorded.
SettleCompletedOnly(s) ==
    /\ session[s].at = "settling"
    /\ LET how == TerminalOf(session[s].answer) IN
       /\ ledger' = IF how = "Completed" THEN FinishProvider(ledger, how) ELSE ledger
       /\ session' = [session EXCEPT ![s].budget = "nothing", ![s].turns = @ + 1,
                         ![s].at = IF how = "Completed" THEN "metering" ELSE "unwinding",
                         ![s].answer = IF how = "Completed" THEN @ ELSE "none",
                         ![s].status = IF how = "Completed" THEN "none" ELSE how]
    /\ UNCHANGED <<expired, cleanup, cancelled, timed_out, owner, late>>

\* ProviderInvocationGuard::finish, then the error return.
Settle(s) ==
    /\ session[s].at = "settling"
    /\ LET how == TerminalOf(session[s].answer) IN
       /\ ledger' = FinishProvider(ledger, how)
       /\ session' = [session EXCEPT ![s].budget = "nothing", ![s].turns = @ + 1,
                         ![s].at = IF how = "Completed" THEN "metering" ELSE "unwinding",
                         ![s].answer = IF how = "Completed" THEN @ ELSE "none",
                         ![s].status = IF how = "Completed" THEN "none" ELSE how]
    /\ UNCHANGED <<expired, cleanup, cancelled, timed_out, owner, late>>

-----------------------------------------------------------------------------
(* What a completed turn leads to.                                         *)

\* A call of a tool: over the session's limit, answered with an error
\* (duplicate, unknown or over-used), or approved.
Dispatch(s, approved) ==
    session' =
        IF session[s].tools >= MaxSessionTools
        THEN [session EXCEPT ![s].at = "unwinding", ![s].status = "BudgetExhausted",
                             ![s].answer = "none"]
        ELSE [session EXCEPT ![s].tools = @ + 1, ![s].kind = "tool", ![s].answer = "none",
                             ![s].at = IF approved THEN "calling" ELSE "reporting"]

\* record_output_tokens, unless no usage was reported (0), then the response.
Meter(s, tokens, approved) ==
    /\ session[s].at = "metering"
    /\ LET refusal == IF tokens = 0 THEN NoRefusal
                      ELSE ChargeRefusal(ledger, "OutputTokenLimit", tokens, expired)
           answer == session[s].answer
       IN  /\ ledger' = IF tokens = 0 THEN ledger
                        ELSE Charge(ledger, "OutputTokenLimit", tokens, expired)
           /\ IF refusal # NoRefusal THEN Leave(s, "BudgetExhausted")
              ELSE IF answer = "misrouted" THEN Leave(s, "InvalidResponse")
              ELSE IF answer = "text" THEN Leave(s, "Completed")
              ELSE IF answer = "overlong" THEN Leave(s, "OutputLimitReached")
              ELSE Dispatch(s, approved)
    /\ UNCHANGED <<expired, cleanup, cancelled, timed_out, owner, late>>

\* record_tool_output.
Report(s, bytes) ==
    /\ session[s].at = "reporting"
    /\ ledger' = Charge(ledger, "AggregateToolOutput", bytes, expired)
    /\ IF ChargeRefusal(ledger, "AggregateToolOutput", bytes, expired) = NoRefusal
       THEN Goto(s, "counting")
       ELSE Leave(s, "BudgetExhausted")
    /\ UNCHANGED <<expired, cleanup, cancelled, timed_out, owner, late>>

\* record_tool_completed, and the next turn.
Count(s) ==
    /\ session[s].at = "counting"
    /\ ledger' = RecordToolCompleted(ledger)
    /\ session' = [session EXCEPT ![s].at = "top", ![s].kind = "provider"]
    /\ UNCHANGED <<expired, cleanup, cancelled, timed_out, owner, late>>

\* What the drop of the next local leaves, last declared first.
Unwound(t) ==
    IF t.budget = "guard" THEN [t EXCEPT !.budget = "nothing"]
    ELSE IF t.child THEN [t EXCEPT !.child = FALSE]
    ELSE IF t.budget = "reservation" THEN [t EXCEPT !.budget = "nothing"]
    ELSE IF t.owns THEN [t EXCEPT !.owns = FALSE]
    ELSE [t EXCEPT !.at = "returned"]

UnwoundLedger(t, role) ==
    IF t.budget = "guard" /\ t.kind = "provider" THEN FinishProvider(ledger, "Failed")
    ELSE IF t.budget = "reservation" /\ ~t.child
    THEN IF t.kind = "provider" THEN DropProviderReservation(ledger, role)
                                ELSE DropToolReservation(ledger)
    ELSE ledger

Unwind(s) ==
    /\ session[s].at = "unwinding"
    /\ session' = [session EXCEPT ![s] = Unwound(session[s])]
    /\ ledger' = UnwoundLedger(session[s], RoleOf[s])
    /\ UNCHANGED <<expired, cleanup, cancelled, timed_out, owner, late>>

-----------------------------------------------------------------------------
(* The tokens, the timers and the coordinator.                             *)

Cancel ==
    /\ ~cancelled
    /\ cancelled' = TRUE
    /\ UNCHANGED <<ledger, expired, cleanup, session, timed_out, owner, late>>

\* The session timer of run_subagent, which then awaits the session.
Timeout(s) ==
    /\ session[s].at \notin {"start", "returned"}
    /\ s \notin timed_out
    /\ timed_out' = timed_out \cup {s}
    /\ UNCHANGED <<ledger, expired, cleanup, session, cancelled, owner, late>>

Expire ==
    /\ ~expired
    /\ expired' = TRUE
    /\ UNCHANGED <<ledger, cleanup, session, cancelled, timed_out, owner, late>>

\* Mutant: the coordinator goes on after the first session it joins.
BeginFinishAfterFirst ==
    /\ owner = "joining"
    /\ \E s \in Sessions : session[s].at = "returned"
    /\ cleanup' = [cleanup EXCEPT !.requested = TRUE]
    /\ owner' = "begun"
    /\ UNCHANGED <<ledger, expired, session, cancelled, timed_out, late>>

\* finish_outcome, once every session has been joined.
BeginFinish ==
    /\ owner = "joining"
    /\ \A s \in Sessions : session[s].at = "returned"
    /\ cleanup' = [cleanup EXCEPT !.requested = TRUE]
    /\ owner' = "begun"
    /\ UNCHANGED <<ledger, expired, session, cancelled, timed_out, late>>

MarkRunTerminal ==
    /\ owner = "begun"
    /\ ledger' = MarkTerminal(ledger)
    /\ owner' = "terminal"
    /\ UNCHANGED <<expired, cleanup, session, cancelled, timed_out, late>>

\* cleanup.complete fails if a session still holds a guard.
CompleteFinish ==
    /\ owner = "terminal"
    /\ IF \A s \in Sessions : ~session[s].owns /\ ~session[s].child
       THEN cleanup' = [cleanup EXCEPT !.complete = TRUE] /\ owner' = "complete"
       ELSE owner' = "failed" /\ UNCHANGED cleanup
    /\ UNCHANGED <<ledger, expired, session, cancelled, timed_out, late>>

\* The lifecycle owner aborts the coordinator: its JoinSet is dropped.
Abort ==
    /\ owner = "joining"
    /\ owner' = "aborted"
    /\ UNCHANGED <<ledger, expired, cleanup, session, cancelled, timed_out, late>>

\* An aborted task is dropped at an await, or before it was polled.
DropSession(s) ==
    /\ owner = "aborted"
    /\ session[s].at \in {"start", "running"}
    /\ Leave(s, "Dropped")
    /\ UNCHANGED <<ledger, expired, cleanup, cancelled, timed_out, owner, late>>

\* What a session does when it is polled; the answer is the provider's.
SessionStep(s) ==
    \/ Start(s) \/ Top(s) \/ Call(s) \/ Reserve(s) \/ RegisterChild(s) \/ Commit(s)
    \/ Resolve(s) \/ Interrupt(s) \/ CompleteChild(s) \/ Settle(s)
    \/ \E tokens \in Amounts \cup {0}, approved \in BOOLEAN : Meter(s, tokens, approved)
    \/ \E bytes \in Amounts : Report(s, bytes)
    \/ Count(s) \/ Unwind(s) \/ DropSession(s)

OwnerStep == BeginFinish \/ MarkRunTerminal \/ CompleteFinish

Next ==
    \/ \E s \in Sessions :
          SessionStep(s) \/ Timeout(s) \/ \E answer \in Answers : Answer(s, answer)
    \/ OwnerStep
    \/ Cancel
    \/ Expire
    \/ Abort

\* A task that can run is polled and a timer fires; a provider or a tool need
\* never answer.
Fairness ==
    /\ \A s \in Sessions : WF_vars(SessionStep(s)) /\ WF_vars(Timeout(s))
    /\ WF_vars(OwnerStep)

Spec == Init /\ [][Next]_vars

FairSpec == Spec /\ Fairness

-----------------------------------------------------------------------------
\* However each session ended, cleanup.complete finds nothing open when the
\* coordinator has joined them all: finish_outcome does not fail there, which
\* would leave the session Running.
CleanupNeverRefused == owner # "failed"

\* When nothing runs any more, after a normal end or after an abort, the
\* ledger owes nothing: every reservation was committed or given back and
\* every started invocation has ended, on every early return.
LedgerSettled ==
    (\A s \in Sessions : session[s].at = "returned") =>
        /\ ledger.provider_reserved = 0
        /\ ledger.tool_reserved = 0
        /\ ledger.provider_started
              = ledger.provider_ended["Completed"] + ledger.provider_ended["Failed"]
                + ledger.provider_ended["Cancelled"] + ledger.provider_ended["TimedOut"]

\* A cancellation is noticed between two turns: whatever was under way when it
\* came, a session starts at most one more invocation and one more tool.
LittleAfterCancellation ==
    \A s \in Sessions, kind \in Kinds : late[s][kind] <= 1

\* Every session returns, by its timer at the latest, and the run is finished
\* or aborted, even if no provider and no tool ever answers.
SessionsReturn ==
    []<>(/\ \A s \in Sessions : session[s].at = "returned"
         /\ owner \in {"complete", "aborted"})

\* What a session holds, as ExecutionBudget describes its clients.
HeldCall(t, role) ==
    IF t.kind = "provider" /\ t.budget # "nothing"
    THEN [holds |-> t.budget, role |-> role]
    ELSE [holds |-> "nothing", role |-> "none"]

HeldTool(t) ==
    IF t.kind = "tool" /\ t.budget = "guard" THEN "running"
    ELSE IF t.kind = "tool" THEN t.budget
    ELSE "nothing"

HeldCalls == [s \in Sessions |-> HeldCall(session[s], RoleOf[s])]

HeldTools == [s \in Sessions |-> HeldTool(session[s])]

\* The sessions as clients of the ledger.
Budget ==
    INSTANCE ExecutionBudget WITH
        Calls <- Sessions,
        ToolCalls <- Sessions,
        CallRoles <- Roles,
        MaxRejected <- Cardinality(Sessions),
        MaxCompleted <- MaxSessionTools * Cardinality(Sessions),
        call <- HeldCalls,
        tool <- HeldTools

\* Sessions use the ledger as ExecutionBudget says clients do, so what is
\* proved of the ledger holds of every run.  (Most steps leave the ledger alone;
\* the first disjunct adds no behaviour, it is the cheap one to evaluate.)
ImplementsBudget ==
    Budget!Init /\ [][UNCHANGED Budget!vars \/ Budget!Next]_(Budget!vars)
=============================================================================
