----------------------- MODULE SubagentSessionProofs -----------------------
(***************************************************************************)
(* Proofs about SubagentSession, for any number of sessions, any roles and *)
(* any limits: the sessions are clients of the ledger as ExecutionBudget   *)
(* describes them, so that its theorems hold of every run of a stage.      *)
(***************************************************************************)
EXTENDS SubagentSession, FiniteSetTheorems, TLAPS

-----------------------------------------------------------------------------
(* The inductive invariant.                                                *)

Steps == {"start", "top", "calling", "owned", "reserved", "registered", "committed",
          "running", "answered", "settling", "metering", "reporting", "counting",
          "unwinding", "returned"}

Statuses == {"none", "CancelledBeforeStart", "InternalFailure", "TimedOut", "BudgetExhausted",
             "Cancelled", "Completed", "Failed", "InvalidResponse", "OutputLimitReached",
             "Dropped"}

SessionRecord ==
    [ at : Steps, kind : Kinds, owns : BOOLEAN, child : BOOLEAN,
      budget : {"nothing", "reservation", "guard"}, answer : Answers, turns : Nat,
      tools : 0..MaxSessionTools, status : Statuses ]

Owners == {"joining", "begun", "terminal", "complete", "failed", "aborted"}

TypeOK ==
    /\ ledger \in LedgerState
    /\ expired \in BOOLEAN
    /\ cleanup \in [requested : BOOLEAN, complete : BOOLEAN]
    /\ session \in [Sessions -> SessionRecord]
    /\ cancelled \in BOOLEAN
    /\ timed_out \subseteq Sessions
    /\ owner \in Owners
    /\ late \in [Sessions -> [Kinds -> 0..1]]

\* What the locals of a session hold at each step, and for which invocation.
HoldsAtStep(t) ==
    /\ t.at \in {"start", "top", "settling", "metering"} => t.kind = "provider"
    /\ t.at \in {"calling", "reporting", "counting"} => t.kind = "tool"
    /\ t.at \in {"start", "top", "calling", "owned", "metering", "reporting", "counting",
                 "returned"} => t.budget = "nothing"
    /\ t.at \in {"reserved", "registered"} => t.budget = "reservation"
    /\ t.at \in {"committed", "running", "answered", "settling"} => t.budget = "guard"
    /\ t.at = "returned" => ~t.owns /\ ~t.child
    /\ t.at \in {"reserved", "start", "top", "calling", "owned", "settling", "metering",
                 "reporting", "counting"} => ~t.child
    /\ t.kind = "tool" => t.tools >= 1

\* The coordinator begins to finish only when every session has returned, and
\* the run is terminal from then on.
OwnerWaits ==
    /\ owner \notin {"joining", "aborted"} =>
          \A s \in Sessions : session[s].at = "returned"
    /\ owner # "failed"
    /\ ledger.terminal => owner \in {"terminal", "complete"}

\* A session that can still start something has not done so since the
\* cancellation.
LateAtStep(s) ==
    /\ ~cancelled => late[s]["provider"] = 0 /\ late[s]["tool"] = 0
    /\ session[s].kind = "provider" /\ session[s].at \in {"owned", "reserved", "registered"} =>
          late[s]["provider"] = 0
    /\ \/ session[s].at \in {"owned", "reserved", "registered", "settling", "metering", "calling"}
       \/ session[s].kind = "provider" /\ session[s].at \in {"committed", "running", "answered"}
       => late[s]["tool"] = 0

\* A refused session is on its way out, so no session is refused twice.
Gone == {s \in Sessions : session[s].at \in {"unwinding", "returned"}}

RefusedAreGone ==
    /\ ledger.provider_rejected <= Cardinality(Gone)
    /\ ledger.tool_rejected <= Cardinality(Gone)

\* How many of a session's tool calls were recorded, and which they are.
Recorded(t) == IF t.kind = "tool" THEN t.tools - 1 ELSE t.tools

RecordedCalls ==
    {c \in Sessions \X (1..MaxSessionTools) : c[2] <= Recorded(session[c[1]])}

IInv ==
    /\ TypeOK
    /\ \A s \in Sessions : HoldsAtStep(session[s]) /\ LateAtStep(s)
    /\ OwnerWaits
    /\ RefusedAreGone
    /\ ledger.tool_completed = Cardinality(RecordedCalls)

-----------------------------------------------------------------------------
(* The theorems about the ledger, for the sessions as its clients.         *)

Client ==
    INSTANCE ExecutionBudgetProofs WITH
        Calls <- Sessions,
        ToolCalls <- Sessions,
        CallRoles <- Roles,
        MaxRejected <- Cardinality(Sessions),
        MaxCompleted <- MaxSessionTools * Cardinality(Sessions),
        call <- HeldCalls,
        tool <- HeldTools

\* The types of the ledger are the same in both modules.
LEMMA SameTypes ==
    /\ Client!LedgerState = LedgerState
    /\ Client!Roles = Roles
    /\ Client!Accounts = Accounts
    /\ Client!InvocationTerminal = InvocationTerminal
<1>1. /\ Client!Roles = Roles
      /\ Client!Accounts = Accounts
      /\ Client!InvocationTerminal = InvocationTerminal
  BY DEF Client!Roles, Roles, Client!Accounts, Accounts,
     Client!InvocationTerminal, InvocationTerminal
<1>2. /\ Client!BudgetExhaustionCategory = BudgetExhaustionCategory
      /\ Client!NoRefusal = NoRefusal
  BY <1>1 DEF Client!BudgetExhaustionCategory, BudgetExhaustionCategory,
     Client!NoRefusal, NoRefusal
<1> QED
  BY <1>1, <1>2 DEF Client!LedgerState, LedgerState

\* So are finite sets and their sizes.
LEMMA SameSizes ==
    ASSUME NEW S
    PROVE  /\ Client!IsFiniteSet(S) = IsFiniteSet(S)
           /\ Client!Cardinality(S) = Cardinality(S)
BY DEF Client!IsFiniteSet, IsFiniteSet, Client!Cardinality, Cardinality
\* The methods of the ledger are the same in both modules.
LEMMA SameMethods ==
    ASSUME NEW l, NEW role, NEW e, NEW how, NEW account, NEW amount
    PROVE  /\ Client!ProviderRefusal(l, role, e) = ProviderRefusal(l, role, e)
           /\ Client!ReserveProvider(l, role, e) = ReserveProvider(l, role, e)
           /\ Client!CommitProvider(l) = CommitProvider(l)
           /\ Client!DropProviderReservation(l, role) = DropProviderReservation(l, role)
           /\ Client!FinishProvider(l, how) = FinishProvider(l, how)
           /\ Client!ToolRefusal(l, e) = ToolRefusal(l, e)
           /\ Client!ReserveTool(l, e) = ReserveTool(l, e)
           /\ Client!CommitTool(l) = CommitTool(l)
           /\ Client!DropToolReservation(l) = DropToolReservation(l)
           /\ Client!RecordToolCompleted(l) = RecordToolCompleted(l)
           /\ Client!ChargeRefusal(l, account, amount, e) = ChargeRefusal(l, account, amount, e)
           /\ Client!Charge(l, account, amount, e) = Charge(l, account, amount, e)
           /\ Client!MarkTerminal(l) = MarkTerminal(l)
           /\ Client!NoRefusal = NoRefusal
<1> USE DEF Client!NoRefusal, NoRefusal, Client!Elapsed, Elapsed, Client!Exhaustion, Exhaustion,
            Client!ElapsedExhaustion, ElapsedExhaustion, Client!SaturatingSub, SaturatingSub
<1>1. /\ Client!ProviderRefusal(l, role, e) = ProviderRefusal(l, role, e)
      /\ Client!ToolRefusal(l, e) = ToolRefusal(l, e)
      /\ Client!ChargeRefusal(l, account, amount, e) = ChargeRefusal(l, account, amount, e)
  BY DEF Client!ProviderRefusal, ProviderRefusal, Client!RoleLimit, RoleLimit,
     Client!ToolRefusal, ToolRefusal, Client!ChargeRefusal, ChargeRefusal
<1>2. Client!ReserveProvider(l, role, e) = ReserveProvider(l, role, e)
  BY <1>1 DEF Client!ReserveProvider, ReserveProvider
<1>3. Client!ReserveTool(l, e) = ReserveTool(l, e)
  BY <1>1 DEF Client!ReserveTool, ReserveTool
<1>4. Client!Charge(l, account, amount, e) = Charge(l, account, amount, e)
  BY <1>1 DEF Client!Charge, Charge
<1>5. /\ Client!CommitProvider(l) = CommitProvider(l)
      /\ Client!DropProviderReservation(l, role) = DropProviderReservation(l, role)
      /\ Client!FinishProvider(l, how) = FinishProvider(l, how)
  BY DEF Client!CommitProvider, CommitProvider, Client!DropProviderReservation,
     DropProviderReservation, Client!FinishProvider, FinishProvider
<1>6. /\ Client!CommitTool(l) = CommitTool(l)
      /\ Client!DropToolReservation(l) = DropToolReservation(l)
      /\ Client!RecordToolCompleted(l) = RecordToolCompleted(l)
      /\ Client!MarkTerminal(l) = MarkTerminal(l)
  BY DEF Client!CommitTool, CommitTool, Client!DropToolReservation, DropToolReservation,
     Client!RecordToolCompleted, RecordToolCompleted, Client!MarkTerminal, MarkTerminal
<1> QED
  BY <1>1, <1>2, <1>3, <1>4, <1>5, <1>6 DEF Client!NoRefusal, NoRefusal

\* What the limits must be for the theorems about the ledger: they are.
LEMMA ClientAssumptions ==
    /\ MaxProvider \in Nat /\ MaxTool \in Nat /\ MaxConcurrency \in Nat
    /\ Limit \in [Client!Accounts -> Nat]
    /\ Client!IsFiniteSet(Sessions)
    /\ Roles \subseteq Client!Roles
    /\ Amounts \subseteq Nat
    /\ Cardinality(Sessions) \in Nat
    /\ MaxSessionTools * Cardinality(Sessions) \in Nat
BY FS_CardinalityType, SessionAssumption, BudgetAssumption, SameSizes, SameTypes

-----------------------------------------------------------------------------
(* What the methods leave behind is a ledger, with the counters of refused *)
(* and recorded calls they say.                                            *)

\* The counters the invariant relates to the sessions, and the terminal mark.
SameRecords(l, m) ==
    /\ m.provider_rejected = l.provider_rejected
    /\ m.tool_rejected = l.tool_rejected
    /\ m.tool_completed = l.tool_completed
    /\ m.terminal = l.terminal

\* Reserving, granted.
LEMMA GrantedLedger ==
    ASSUME NEW l \in LedgerState, NEW role \in Roles, NEW e \in BOOLEAN
    PROVE  /\ ProviderRefusal(l, role, e) = NoRefusal =>
                  SameRecords(l, ReserveProvider(l, role, e))
           /\ ToolRefusal(l, e) = NoRefusal => SameRecords(l, ReserveTool(l, e))
BY DEF SameRecords, ReserveProvider, ReserveTool, LedgerState

\* Reserving, refused: at most one refusal is counted.
LEMMA RefusedLedger ==
    ASSUME NEW l \in LedgerState, NEW role \in Roles, NEW e \in BOOLEAN,
           NEW m \in {ReserveProvider(l, role, e), ReserveTool(l, e)}
    PROVE  /\ m.provider_rejected <= l.provider_rejected + 1
           /\ m.tool_rejected <= l.tool_rejected + 1
           /\ m.tool_completed = l.tool_completed
           /\ m.terminal = l.terminal
<1>1. /\ l.provider_rejected \in Nat
      /\ l.tool_rejected \in Nat
  BY DEF LedgerState
<1>2. CASE m = ReserveProvider(l, role, e)
  BY <1>1, <1>2 DEF ReserveProvider, LedgerState, Exhaustion, ElapsedExhaustion
<1>3. CASE m = ReserveTool(l, e)
  BY <1>1, <1>3 DEF ReserveTool, LedgerState, Exhaustion, ElapsedExhaustion
<1> QED
  BY <1>2, <1>3

\* The other methods.
LEMMA SettledLedger ==
    ASSUME NEW l \in LedgerState, NEW role \in Roles, NEW how \in InvocationTerminal,
           NEW account \in Accounts, NEW amount \in Nat, NEW e \in BOOLEAN
    PROVE  /\ SameRecords(l, CommitProvider(l))
           /\ SameRecords(l, DropProviderReservation(l, role))
           /\ SameRecords(l, FinishProvider(l, how))
           /\ SameRecords(l, CommitTool(l))
           /\ SameRecords(l, DropToolReservation(l))
           /\ SameRecords(l, Charge(l, account, amount, e))
BY DEF SameRecords, CommitProvider, DropProviderReservation, FinishProvider, CommitTool,
   DropToolReservation, Charge, LedgerState, Exhaustion, ElapsedExhaustion

\* All of them leave a ledger.
LEMMA LedgerType ==
    ASSUME NEW l \in LedgerState, NEW role \in Roles, NEW how \in InvocationTerminal,
           NEW account \in Accounts, NEW amount \in Nat, NEW e \in BOOLEAN
    PROVE  /\ ReserveProvider(l, role, e) \in LedgerState
           /\ CommitProvider(l) \in LedgerState
           /\ DropProviderReservation(l, role) \in LedgerState
           /\ FinishProvider(l, how) \in LedgerState
           /\ ReserveTool(l, e) \in LedgerState
           /\ CommitTool(l) \in LedgerState
           /\ DropToolReservation(l) \in LedgerState
           /\ RecordToolCompleted(l) \in LedgerState
           /\ Charge(l, account, amount, e) \in LedgerState
           /\ MarkTerminal(l) \in LedgerState
<1> USE SameTypes, SameMethods, ClientAssumptions
<1>1. ReserveProvider(l, role, e) \in LedgerState
  <2>1. Client!ReserveProvider(l, role, e) \in Client!LedgerState
    BY Client!ReserveProviderType
  <2> QED
    BY <2>1
<1>2. ReserveTool(l, e) \in LedgerState
  <2>1. Client!ReserveTool(l, e) \in Client!LedgerState
    BY Client!ReserveToolType
  <2> QED
    BY <2>1
<1>3. Charge(l, account, amount, e) \in LedgerState
  <2>1. Client!Charge(l, account, amount, e) \in Client!LedgerState
    BY Client!ChargeType
  <2> QED
    BY <2>1
<1>4. /\ CommitProvider(l) \in LedgerState
      /\ DropProviderReservation(l, role) \in LedgerState
      /\ FinishProvider(l, how) \in LedgerState
      /\ CommitTool(l) \in LedgerState
      /\ DropToolReservation(l) \in LedgerState
      /\ RecordToolCompleted(l) \in LedgerState
      /\ MarkTerminal(l) \in LedgerState
  <2>1. /\ Client!CommitProvider(l) \in Client!LedgerState
        /\ Client!DropProviderReservation(l, role) \in Client!LedgerState
        /\ Client!FinishProvider(l, how) \in Client!LedgerState
        /\ Client!CommitTool(l) \in Client!LedgerState
        /\ Client!DropToolReservation(l) \in Client!LedgerState
        /\ Client!RecordToolCompleted(l) \in Client!LedgerState
        /\ Client!MarkTerminal(l) \in Client!LedgerState
    BY Client!SettleType
  <2> QED
    BY <2>1
<1> QED
  BY <1>1, <1>2, <1>3, <1>4

-----------------------------------------------------------------------------
(* The steps of a session.                                                 *)

\* A step of session s moves it along its steps and leaves the other sessions,
\* the flags and the coordinator alone.
Moves(s) ==
    /\ session' \in [Sessions -> SessionRecord]
    /\ \A q \in Sessions \ {s} : session'[q] = session[q]
    /\ session[s].at # "returned"
    /\ session[s].at = "unwinding" => session'[s].at \in {"unwinding", "returned"}
    /\ HoldsAtStep(session'[s])
    /\ UNCHANGED <<expired, cleanup, cancelled, timed_out, owner>>

\* The locals of a session are a record, and fit its step.
LEMMA LocalsType ==
    ASSUME IInv, NEW s \in Sessions
    PROVE  /\ session \in [Sessions -> SessionRecord]
           /\ session[s] \in SessionRecord
           /\ HoldsAtStep(session[s])
BY DEF IInv, TypeOK

\* Replacing the locals of one session.
LEMMA LocalsReplaced ==
    ASSUME IInv, NEW s \in Sessions, NEW u \in SessionRecord, HoldsAtStep(u),
           session[s].at # "returned",
           session[s].at = "unwinding" => u.at \in {"unwinding", "returned"},
           session' = [session EXCEPT ![s] = u],
           UNCHANGED <<expired, cleanup, cancelled, timed_out, owner>>
    PROVE  Moves(s)
BY LocalsType DEF Moves

\* Returning early.
LEMMA LeaveMoves ==
    ASSUME IInv, NEW s \in Sessions, NEW status \in Statuses, Leave(s, status),
           session[s].at # "returned",
           UNCHANGED <<expired, cleanup, cancelled, timed_out, owner>>
    PROVE  /\ Moves(s)
           /\ session'[s].at = "unwinding"
           /\ session'[s].kind = session[s].kind
           /\ session'[s].budget = session[s].budget
           /\ session'[s].tools = session[s].tools
<1>1. session[s] \in SessionRecord /\ HoldsAtStep(session[s])
  BY LocalsType
<1>2. PICK u : u = [session[s] EXCEPT !.at = "unwinding", !.status = status, !.answer = "none"]
  OBVIOUS
<1>3. /\ u \in SessionRecord
      /\ u.at = "unwinding"
      /\ u.kind = session[s].kind
      /\ u.budget = session[s].budget
      /\ u.tools = session[s].tools
  BY <1>1, <1>2 DEF SessionRecord, Steps, Answers
<1>4. HoldsAtStep(u)
  BY <1>1, <1>3 DEF HoldsAtStep
<1>5. session' = [session EXCEPT ![s] = u]
  BY <1>2, LocalsType DEF Leave
<1>6. session'[s] = u
  BY <1>5, LocalsType
<1> QED
  BY <1>3, <1>4, <1>5, <1>6, LocalsReplaced

\* Going on to the next turn or to the count.
LEMMA GotoMoves ==
    ASSUME IInv, NEW s \in Sessions,
           NEW step \in {"top", "counting"}, Goto(s, step),
           session[s].at = IF step = "top" THEN "start" ELSE "reporting",
           UNCHANGED <<expired, cleanup, cancelled, timed_out, owner>>
    PROVE  /\ Moves(s)
           /\ session'[s].at = step
           /\ session'[s].kind = session[s].kind
           /\ session'[s].budget = session[s].budget
           /\ session'[s].tools = session[s].tools
<1>1. /\ session[s] \in SessionRecord /\ HoldsAtStep(session[s])
      /\ UNCHANGED <<expired, cleanup, cancelled, timed_out, owner>>
  BY LocalsType DEF Goto
<1>2. PICK u : u = [session[s] EXCEPT !.at = step]
  OBVIOUS
<1>3. /\ u \in SessionRecord
      /\ u.at = step
      /\ u.kind = session[s].kind
      /\ u.budget = session[s].budget
      /\ u.tools = session[s].tools
      /\ u.owns = session[s].owns
      /\ u.child = session[s].child
  BY <1>1, <1>2 DEF SessionRecord, Steps
<1>4. HoldsAtStep(u)
  BY <1>1, <1>3 DEF HoldsAtStep, Goto
<1>5. session' = [session EXCEPT ![s] = u]
  BY <1>2, LocalsType DEF Goto
<1>6. /\ session[s].at # "returned"
      /\ session[s].at = "unwinding" => u.at \in {"unwinding", "returned"}
  BY <1>3 DEF Goto
<1>7. session'[s] = u
  BY <1>5, LocalsType
<1> QED
  BY <1>1, <1>3, <1>4, <1>5, <1>6, <1>7, LocalsReplaced

\* Registering an ownership, or failing to.
LEMMA OwnMoves ==
    ASSUME IInv, NEW s \in Sessions, Own(s),
           session[s].at \in {"top", "calling"},
           UNCHANGED <<expired, cleanup, cancelled, timed_out, owner>>
    PROVE  /\ Moves(s)
           /\ session'[s].at \in {"owned", "unwinding"}
           /\ session'[s].kind = session[s].kind
           /\ session'[s].budget = session[s].budget
           /\ session'[s].tools = session[s].tools
<1>1. /\ session[s] \in SessionRecord /\ HoldsAtStep(session[s])
      /\ UNCHANGED <<expired, cleanup, cancelled, timed_out, owner>>
  BY LocalsType DEF Own
<1>2. CASE CanRegister
  <2>1. PICK u : u = [session[s] EXCEPT !.at = "owned", !.owns = TRUE]
    OBVIOUS
  <2>2. /\ u \in SessionRecord
        /\ u.at = "owned"
        /\ u.kind = session[s].kind
        /\ u.budget = session[s].budget
        /\ u.tools = session[s].tools
        /\ u.child = session[s].child
    BY <1>1, <1>2, <2>1 DEF SessionRecord, Steps
  <2>3. HoldsAtStep(u)
    BY <1>1, <1>2, <2>2 DEF HoldsAtStep, Own
  <2>4. session' = [session EXCEPT ![s] = u]
    BY <1>2, <2>1, LocalsType DEF Own
  <2>5. /\ session[s].at # "returned"
        /\ session[s].at = "unwinding" => u.at \in {"unwinding", "returned"}
    BY <1>2, <2>2 DEF Own
  <2>6. session'[s] = u
    BY <2>4, LocalsType
  <2> QED
    BY <1>1, <1>2, <2>2, <2>3, <2>4, <2>5, <2>6, LocalsReplaced
<1>3. CASE ~CanRegister
  <2>1. PICK u : u = [session[s] EXCEPT !.at = "unwinding", !.status = "InternalFailure"]
    OBVIOUS
  <2>2. /\ u \in SessionRecord
        /\ u.at = "unwinding"
        /\ u.kind = session[s].kind
        /\ u.budget = session[s].budget
        /\ u.tools = session[s].tools
        /\ u.child = session[s].child
    BY <1>1, <1>3, <2>1 DEF SessionRecord, Steps, Statuses
  <2>3. HoldsAtStep(u)
    BY <1>1, <1>3, <2>2 DEF HoldsAtStep, Own
  <2>4. session' = [session EXCEPT ![s] = u]
    BY <1>3, <2>1, LocalsType DEF Own
  <2>5. /\ session[s].at # "returned"
        /\ session[s].at = "unwinding" => u.at \in {"unwinding", "returned"}
    BY <1>3, <2>2 DEF Own
  <2>6. session'[s] = u
    BY <2>4, LocalsType
  <2> QED
    BY <1>1, <1>3, <2>2, <2>3, <2>4, <2>5, <2>6, LocalsReplaced
<1> QED
  BY <1>2, <1>3

\* reserve_provider or reserve_tool is granted.
LEMMA ReserveMoves ==
    ASSUME IInv, NEW s \in Sessions, Reserve(s),
           Refusal(s) = NoRefusal
    PROVE  /\ Moves(s)
           /\ session[s].at = "owned"
           /\ session'[s].at = "reserved"
           /\ session'[s].budget = "reservation"
           /\ session'[s].kind = session[s].kind
           /\ session'[s].tools = session[s].tools
<1>1. /\ session[s] \in SessionRecord /\ HoldsAtStep(session[s])
      /\ session[s].at = "owned"
      /\ UNCHANGED <<expired, cleanup, cancelled, timed_out, owner>>
  BY LocalsType DEF Reserve
<1>2. PICK u : u = [session[s] EXCEPT !.at = "reserved", !.budget = "reservation"]
  OBVIOUS
<1>3. /\ u \in SessionRecord
      /\ u.at = "reserved"
      /\ u.budget = "reservation"
      /\ u.kind = session[s].kind
      /\ u.tools = session[s].tools
      /\ u.child = session[s].child
  BY <1>1, <1>2 DEF SessionRecord, Steps
<1>4. HoldsAtStep(u)
  BY <1>1, <1>3 DEF HoldsAtStep, Reserve
<1>5. session' = [session EXCEPT ![s] = u]
  BY <1>2, LocalsType DEF Reserve
<1>6. /\ session[s].at # "returned"
      /\ session[s].at = "unwinding" => u.at \in {"unwinding", "returned"}
  BY <1>3 DEF Reserve
<1>7. session'[s] = u
  BY <1>5, LocalsType
<1> QED
  BY <1>1, <1>3, <1>4, <1>5, <1>6, <1>7, LocalsReplaced

\* A child is registered.
LEMMA RegisterMoves ==
    ASSUME IInv, NEW s \in Sessions, RegisterChild(s), CanRegister
    PROVE  /\ Moves(s)
           /\ session[s].at = "reserved"
           /\ session'[s].at = "registered"
           /\ session'[s].kind = session[s].kind
           /\ session'[s].budget = session[s].budget
           /\ session'[s].tools = session[s].tools
<1>1. /\ session[s] \in SessionRecord /\ HoldsAtStep(session[s])
      /\ session[s].at = "reserved"
      /\ UNCHANGED <<expired, cleanup, cancelled, timed_out, owner>>
  BY LocalsType DEF RegisterChild
<1>2. PICK u : u = [session[s] EXCEPT !.at = "registered", !.child = TRUE]
  OBVIOUS
<1>3. /\ u \in SessionRecord
      /\ u.at = "registered"
      /\ u.kind = session[s].kind
      /\ u.budget = session[s].budget
      /\ u.tools = session[s].tools
  BY <1>1, <1>2 DEF SessionRecord, Steps
<1>4. HoldsAtStep(u)
  BY <1>1, <1>3 DEF HoldsAtStep, RegisterChild
<1>5. session' = [session EXCEPT ![s] = u]
  BY <1>2, LocalsType DEF RegisterChild
<1>6. /\ session[s].at # "returned"
      /\ session[s].at = "unwinding" => u.at \in {"unwinding", "returned"}
  BY <1>3 DEF RegisterChild
<1>7. session'[s] = u
  BY <1>5, LocalsType
<1> QED
  BY <1>1, <1>3, <1>4, <1>5, <1>6, <1>7, LocalsReplaced

\* A reservation is committed.
LEMMA CommitMoves ==
    ASSUME IInv, NEW s \in Sessions, Commit(s)
    PROVE  /\ Moves(s)
           /\ session[s].at = "registered"
           /\ session'[s].at = "committed"
           /\ session'[s].budget = "guard"
           /\ session'[s].kind = session[s].kind
           /\ session'[s].tools = session[s].tools
<1>1. /\ session[s] \in SessionRecord /\ HoldsAtStep(session[s])
      /\ session[s].at = "registered"
      /\ UNCHANGED <<expired, cleanup, cancelled, timed_out, owner>>
  BY LocalsType DEF Commit
<1>2. PICK u : u = [session[s] EXCEPT !.at = "committed", !.budget = "guard"]
  OBVIOUS
<1>3. /\ u \in SessionRecord
      /\ u.at = "committed"
      /\ u.budget = "guard"
      /\ u.kind = session[s].kind
      /\ u.tools = session[s].tools
  BY <1>1, <1>2 DEF SessionRecord, Steps
<1>4. HoldsAtStep(u)
  BY <1>1, <1>3 DEF HoldsAtStep, Commit
<1>5. session' = [session EXCEPT ![s] = u]
  BY <1>2, LocalsType DEF Commit
<1>6. /\ session[s].at # "returned"
      /\ session[s].at = "unwinding" => u.at \in {"unwinding", "returned"}
  BY <1>3 DEF Commit
<1>7. session'[s] = u
  BY <1>5, LocalsType
<1> QED
  BY <1>1, <1>3, <1>4, <1>5, <1>6, <1>7, LocalsReplaced

\* The ownership is resolved.
LEMMA ResolveMoves ==
    ASSUME IInv, NEW s \in Sessions, Resolve(s)
    PROVE  /\ Moves(s)
           /\ session[s].at = "committed"
           /\ session'[s].at = "running"
           /\ session'[s].kind = session[s].kind
           /\ session'[s].budget = session[s].budget
           /\ session'[s].tools = session[s].tools
<1>1. /\ session[s] \in SessionRecord /\ HoldsAtStep(session[s])
      /\ session[s].at = "committed"
      /\ UNCHANGED <<expired, cleanup, cancelled, timed_out, owner>>
  BY LocalsType DEF Resolve
<1>2. PICK u : u = [session[s] EXCEPT !.at = "running", !.owns = FALSE]
  OBVIOUS
<1>3. /\ u \in SessionRecord
      /\ u.at = "running"
      /\ u.kind = session[s].kind
      /\ u.budget = session[s].budget
      /\ u.tools = session[s].tools
  BY <1>1, <1>2 DEF SessionRecord, Steps
<1>4. HoldsAtStep(u)
  BY <1>1, <1>3 DEF HoldsAtStep, Resolve
<1>5. session' = [session EXCEPT ![s] = u]
  BY <1>2, LocalsType DEF Resolve
<1>6. /\ session[s].at # "returned"
      /\ session[s].at = "unwinding" => u.at \in {"unwinding", "returned"}
  BY <1>3 DEF Resolve
<1>7. session'[s] = u
  BY <1>5, LocalsType
<1> QED
  BY <1>1, <1>3, <1>4, <1>5, <1>6, <1>7, LocalsReplaced

\* An answer arrives.
LEMMA AnswerMoves ==
    ASSUME IInv, NEW s \in Sessions, NEW answer \in Answers,
           session[s].at = "running",
           session' = [session EXCEPT ![s].at = "answered", ![s].answer = answer],
           UNCHANGED <<expired, cleanup, cancelled, timed_out, owner>>
    PROVE  /\ Moves(s)
           /\ session[s].at = "running"
           /\ session'[s].at = "answered"
           /\ session'[s].kind = session[s].kind
           /\ session'[s].budget = session[s].budget
           /\ session'[s].tools = session[s].tools
<1>1. /\ session[s] \in SessionRecord /\ HoldsAtStep(session[s])
      /\ session[s].at = "running"
      /\ UNCHANGED <<expired, cleanup, cancelled, timed_out, owner>>
  BY LocalsType DEF Answers
<1>2. PICK u : u = [session[s] EXCEPT !.at = "answered", !.answer = answer]
  OBVIOUS
<1>3. /\ u \in SessionRecord
      /\ u.at = "answered"
      /\ u.kind = session[s].kind
      /\ u.budget = session[s].budget
      /\ u.tools = session[s].tools
  BY <1>1, <1>2 DEF SessionRecord, Steps
<1>4. HoldsAtStep(u)
  BY <1>1, <1>3 DEF HoldsAtStep, Answers
<1>5. session' = [session EXCEPT ![s] = u]
  BY <1>2, LocalsType DEF Answers
<1>6. /\ session[s].at # "returned"
      /\ session[s].at = "unwinding" => u.at \in {"unwinding", "returned"}
  BY <1>3 DEF Answers
<1>7. session'[s] = u
  BY <1>5, LocalsType
<1> QED
  BY <1>1, <1>3, <1>4, <1>5, <1>6, <1>7, LocalsReplaced

\* The child of a provider turn is completed.
LEMMA TurnCompletedMoves ==
    ASSUME IInv, NEW s \in Sessions, CompleteChild(s),
           session[s].kind = "provider"
    PROVE  /\ Moves(s)
           /\ session[s].at = "answered"
           /\ session'[s].at = "settling"
           /\ session'[s].kind = session[s].kind
           /\ session'[s].budget = session[s].budget
           /\ session'[s].tools = session[s].tools
<1>1. /\ session[s] \in SessionRecord /\ HoldsAtStep(session[s])
      /\ session[s].at = "answered"
      /\ UNCHANGED <<expired, cleanup, cancelled, timed_out, owner>>
  BY LocalsType DEF CompleteChild
<1>2. PICK u : u = [session[s] EXCEPT !.child = FALSE, !.at = "settling"]
  OBVIOUS
<1>3. /\ u \in SessionRecord
      /\ u.at = "settling"
      /\ ~u.child
      /\ u.kind = session[s].kind
      /\ u.budget = session[s].budget
      /\ u.tools = session[s].tools
  BY <1>1, <1>2 DEF SessionRecord, Steps
<1>4. HoldsAtStep(u)
  BY <1>1, <1>3 DEF HoldsAtStep, CompleteChild
<1>5. session' = [session EXCEPT ![s] = u]
  BY <1>2, LocalsType DEF CompleteChild
<1>6. /\ session[s].at # "returned"
      /\ session[s].at = "unwinding" => u.at \in {"unwinding", "returned"}
  BY <1>3 DEF CompleteChild
<1>7. session'[s] = u
  BY <1>5, LocalsType
<1> QED
  BY <1>1, <1>3, <1>4, <1>5, <1>6, <1>7, LocalsReplaced

\* The invocation is recorded.
LEMMA SettleMoves ==
    ASSUME IInv, NEW s \in Sessions, Settle(s)
    PROVE  /\ Moves(s)
           /\ session[s].at = "settling"
           /\ session'[s].at \in {"metering", "unwinding"}
           /\ session'[s].budget = "nothing"
           /\ session'[s].kind = session[s].kind
           /\ session'[s].tools = session[s].tools
<1>1. /\ session[s] \in SessionRecord /\ HoldsAtStep(session[s])
      /\ session[s].at = "settling"
      /\ UNCHANGED <<expired, cleanup, cancelled, timed_out, owner>>
  BY LocalsType DEF Settle
<1>2. PICK n \in Nat : n = session[s].turns + 1
  BY <1>1 DEF SessionRecord
<1>3. PICK how \in InvocationTerminal : how = TerminalOf(session[s].answer)
  BY DEF TerminalOf, InvocationTerminal
<1>4. how \in Statuses /\ "none" \in Statuses /\ "none" \in Answers
  BY DEF InvocationTerminal, Statuses, Answers
<1>5. PICK u : u = [session[s] EXCEPT !.budget = "nothing", !.turns = n,
                       !.at = IF how = "Completed" THEN "metering" ELSE "unwinding",
                       !.answer = IF how = "Completed" THEN @ ELSE "none",
                       !.status = IF how = "Completed" THEN "none" ELSE how]
  OBVIOUS
<1>6. /\ u \in SessionRecord
      /\ u.at \in {"metering", "unwinding"}
      /\ u.budget = "nothing"
      /\ u.kind = session[s].kind
      /\ u.tools = session[s].tools
      /\ u.child = session[s].child
  BY <1>1, <1>4, <1>5 DEF SessionRecord, Steps
<1>7. HoldsAtStep(u)
  BY <1>1, <1>6 DEF HoldsAtStep
<1>8. session' = [session EXCEPT ![s] = u]
  BY <1>2, <1>3, <1>5, LocalsType DEF Settle
<1>9. session'[s] = u
  BY <1>8, LocalsType
<1> QED
  BY <1>1, <1>6, <1>7, <1>8, <1>9, LocalsReplaced

\* The next turn.
LEMMA CountMoves ==
    ASSUME IInv, NEW s \in Sessions, Count(s)
    PROVE  /\ Moves(s)
           /\ session[s].at = "counting"
           /\ session'[s].at = "top"
           /\ session'[s].kind = "provider"
           /\ session'[s].budget = session[s].budget
           /\ session'[s].tools = session[s].tools
<1>1. /\ session[s] \in SessionRecord /\ HoldsAtStep(session[s])
      /\ session[s].at = "counting"
      /\ UNCHANGED <<expired, cleanup, cancelled, timed_out, owner>>
  BY LocalsType DEF Count
<1>2. PICK u : u = [session[s] EXCEPT !.at = "top", !.kind = "provider"]
  OBVIOUS
<1>3. /\ u \in SessionRecord
      /\ u.at = "top"
      /\ u.kind = "provider"
      /\ u.budget = session[s].budget
      /\ u.tools = session[s].tools
      /\ u.child = session[s].child
  BY <1>1, <1>2 DEF SessionRecord, Steps, Kinds
<1>4. HoldsAtStep(u)
  BY <1>1, <1>3 DEF HoldsAtStep, Count
<1>5. session' = [session EXCEPT ![s] = u]
  BY <1>2, LocalsType DEF Count
<1>6. /\ session[s].at # "returned"
      /\ session[s].at = "unwinding" => u.at \in {"unwinding", "returned"}
  BY <1>3 DEF Count
<1>7. session'[s] = u
  BY <1>5, LocalsType
<1> QED
  BY <1>1, <1>3, <1>4, <1>5, <1>6, <1>7, LocalsReplaced

\* The child of a tool call is completed.
LEMMA ToolCompletedMoves ==
    ASSUME IInv, NEW s \in Sessions, CompleteChild(s), session[s].kind = "tool"
    PROVE  /\ Moves(s)
           /\ session[s].at = "answered"
           /\ session'[s].at \in {"reporting", "unwinding"}
           /\ session'[s].budget = "nothing"
           /\ session'[s].kind = session[s].kind
           /\ session'[s].tools = session[s].tools
<1>1. /\ session[s] \in SessionRecord /\ HoldsAtStep(session[s])
      /\ session[s].at = "answered"
      /\ UNCHANGED <<expired, cleanup, cancelled, timed_out, owner>>
  BY LocalsType DEF CompleteChild
<1>2. PICK status \in {"TimedOut", "Cancelled", "none"} :
         status = IF s \in timed_out THEN "TimedOut"
                  ELSE IF session[s].answer = "cancelled" THEN "Cancelled"
                  ELSE "none"
  OBVIOUS
<1>3. status \in Statuses /\ "none" \in Answers
  BY DEF Statuses, Answers
<1>4. PICK u : u = [session[s] EXCEPT !.child = FALSE, !.budget = "nothing",
                       !.answer = "none", !.status = status,
                       !.at = IF status = "none" THEN "reporting" ELSE "unwinding"]
  OBVIOUS
<1>5. /\ u \in SessionRecord
      /\ u.at \in {"reporting", "unwinding"}
      /\ u.budget = "nothing"
      /\ u.kind = session[s].kind
      /\ u.tools = session[s].tools
      /\ ~u.child
  BY <1>1, <1>3, <1>4 DEF SessionRecord, Steps
<1>6. HoldsAtStep(u)
  BY <1>1, <1>5 DEF HoldsAtStep
<1>7. session' = [session EXCEPT ![s] = u]
  BY <1>2, <1>4, LocalsType DEF CompleteChild
<1>8. session'[s] = u
  BY <1>7, LocalsType
<1> QED
  BY <1>1, <1>5, <1>6, <1>7, <1>8, LocalsReplaced

\* A call of a tool is dispatched.
LEMMA DispatchMoves ==
    ASSUME IInv, NEW s \in Sessions, NEW approved \in BOOLEAN, Dispatch(s, approved),
           session[s].at = "metering",
           UNCHANGED <<expired, cleanup, cancelled, timed_out, owner>>
    PROVE  /\ Moves(s)
           /\ session'[s].at \in {"calling", "reporting", "unwinding"}
           /\ session'[s].budget = session[s].budget
           /\ Recorded(session'[s]) = Recorded(session[s])
<1>1. /\ session[s] \in SessionRecord /\ HoldsAtStep(session[s])
      /\ session[s].kind = "provider" /\ session[s].budget = "nothing" /\ ~session[s].child
      /\ "none" \in Answers /\ "tool" \in Kinds /\ "BudgetExhausted" \in Statuses
  BY LocalsType DEF HoldsAtStep, Answers, Kinds, Statuses
<1>2. CASE session[s].tools >= MaxSessionTools
  <2>1. PICK u : u = [session[s] EXCEPT !.at = "unwinding", !.status = "BudgetExhausted",
                                        !.answer = "none"]
    OBVIOUS
  <2>2. /\ u \in SessionRecord
        /\ u.at = "unwinding"
        /\ u.kind = session[s].kind
        /\ u.budget = session[s].budget
        /\ u.tools = session[s].tools
    BY <1>1, <2>1 DEF SessionRecord, Steps
  <2>3. HoldsAtStep(u) /\ Recorded(u) = Recorded(session[s])
    BY <1>1, <2>2 DEF HoldsAtStep, Recorded
  <2>4. session' = [session EXCEPT ![s] = u]
    BY <1>2, <2>1, LocalsType DEF Dispatch
  <2>5. session'[s] = u
    BY <2>4, LocalsType
  <2> QED
    BY <2>2, <2>3, <2>4, <2>5, LocalsReplaced
<1>3. CASE ~(session[s].tools >= MaxSessionTools)
  <2>1. PICK n \in 0..MaxSessionTools : n = session[s].tools + 1
    BY <1>1, <1>3, SessionAssumption DEF SessionRecord
  <2>2. PICK u : u = [session[s] EXCEPT !.tools = n, !.kind = "tool", !.answer = "none",
                                        !.at = IF approved THEN "calling" ELSE "reporting"]
    OBVIOUS
  <2>3. /\ u \in SessionRecord
        /\ u.at \in {"calling", "reporting"}
        /\ u.kind = "tool"
        /\ u.budget = session[s].budget
        /\ u.child = session[s].child
        /\ u.tools = n
    BY <1>1, <2>2 DEF SessionRecord, Steps
  <2>4. session[s].tools \in Nat
    BY <1>1, SessionAssumption DEF SessionRecord
  <2>5. HoldsAtStep(u) /\ Recorded(u) = Recorded(session[s])
    BY <1>1, <2>1, <2>3, <2>4 DEF HoldsAtStep, Recorded
  <2>6. session' = [session EXCEPT ![s] = u]
    BY <1>3, <2>1, <2>2, LocalsType DEF Dispatch
  <2>7. session'[s] = u
    BY <2>6, LocalsType
  <2> QED
    BY <1>1, <2>3, <2>5, <2>6, <2>7, LocalsReplaced
<1> QED
  BY <1>2, <1>3

\* One local is dropped.
LEMMA UnwindMoves ==
    ASSUME IInv, NEW s \in Sessions, Unwind(s)
    PROVE  /\ Moves(s)
           /\ session[s].at = "unwinding"
           /\ session'[s] = Unwound(session[s])
           /\ session'[s].at \in {"unwinding", "returned"}
           /\ session'[s].kind = session[s].kind
           /\ session'[s].tools = session[s].tools
<1>1. /\ session[s] \in SessionRecord /\ HoldsAtStep(session[s])
      /\ session[s].at = "unwinding"
      /\ session' = [session EXCEPT ![s] = Unwound(session[s])]
      /\ UNCHANGED <<expired, cleanup, cancelled, timed_out, owner>>
  BY LocalsType DEF Unwind
<1>2. PICK u : u = Unwound(session[s])
  OBVIOUS
<1>3. /\ u \in SessionRecord
      /\ u.at \in {"unwinding", "returned"}
      /\ u.at = "returned" => u.budget = "nothing" /\ ~u.owns /\ ~u.child
      /\ u.kind = session[s].kind
      /\ u.tools = session[s].tools
  BY <1>1, <1>2 DEF SessionRecord, Steps, Unwound
<1>4. HoldsAtStep(u)
  BY <1>1, <1>3 DEF HoldsAtStep
<1>5. session' = [session EXCEPT ![s] = u] /\ session'[s] = u
  BY <1>1, <1>2, LocalsType
<1> QED
  BY <1>1, <1>2, <1>3, <1>4, <1>5, LocalsReplaced

-----------------------------------------------------------------------------
(* What the steps of a session preserve.                                   *)

\* Sessions are only ever added to those on their way out, one at a time.
LEMMA GoneGrows ==
    ASSUME IInv, NEW s \in Sessions, Moves(s)
    PROVE  /\ Cardinality(Gone) \in Nat
           /\ Cardinality(Gone') \in Nat
           /\ Cardinality(Gone) <= Cardinality(Gone')
           /\ s \notin Gone /\ s \in Gone' => Cardinality(Gone') = Cardinality(Gone) + 1
<1>1. Gone' = Gone \/ (Gone' = Gone \cup {s} /\ s \notin Gone)
  BY DEF Moves, Gone
<1>2. IsFiniteSet(Gone)
  BY FS_Subset, SessionAssumption DEF Gone
<1>3. Cardinality(Gone) \in Nat
  BY <1>2, FS_CardinalityType
<1>4. CASE Gone' = Gone
  BY <1>3, <1>4
<1>5. CASE Gone' = Gone \cup {s} /\ s \notin Gone
  <2>1. Cardinality(Gone \cup {s}) = Cardinality(Gone) + 1
    BY <1>2, <1>5, FS_AddElement
  <2> QED
    BY <1>3, <1>5, <2>1
<1> QED
  BY <1>1, <1>4, <1>5

\* The recorded tool calls are those of the sessions one by one.
LEMMA RecordedKept ==
    ASSUME IInv, NEW s \in Sessions, Moves(s), Recorded(session'[s]) = Recorded(session[s])
    PROVE  RecordedCalls' = RecordedCalls
<1>1. \A q \in Sessions : Recorded(session'[q]) = Recorded(session[q])
  BY DEF Moves
<1> QED
  BY <1>1 DEF RecordedCalls

\* The parts of the invariant that are about one session, or about all.
LEMMA MoveInv ==
    ASSUME IInv, NEW s \in Sessions, Moves(s),
           late' \in [Sessions -> [Kinds -> 0..1]],
           \A q \in Sessions \ {s} : late'[q] = late[q],
           LateAtStep(s)',
           ledger' \in LedgerState, ledger'.terminal = ledger.terminal,
           RefusedAreGone',
           ledger'.tool_completed = Cardinality(RecordedCalls')
    PROVE  IInv'
<1>1. TypeOK'
  BY DEF IInv, TypeOK, Moves
<1>2. ASSUME NEW q \in Sessions PROVE HoldsAtStep(session'[q]) /\ LateAtStep(q)'
  <2>1. CASE q = s
    BY <2>1 DEF Moves
  <2>2. CASE q # s
    <3>1. session'[q] = session[q] /\ late'[q] = late[q] /\ cancelled' = cancelled
      BY <2>2 DEF Moves
    <3>2. HoldsAtStep(session[q]) /\ LateAtStep(q)
      BY DEF IInv
    <3> QED
      BY <3>1, <3>2 DEF LateAtStep
  <2> QED
    BY <2>1, <2>2
<1>3. OwnerWaits'
  <2>1. owner \in {"joining", "aborted"}
    BY DEF IInv, OwnerWaits, Moves
  <2> QED
    BY <2>1 DEF IInv, OwnerWaits, Moves
<1> QED
  BY <1>1, <1>2, <1>3 DEF IInv

\* A step that is refused nothing and records no tool call.
LEMMA QuietMoveInv ==
    ASSUME IInv, NEW s \in Sessions, Moves(s), late' = late, LateAtStep(s)',
           ledger' \in LedgerState, SameRecords(ledger, ledger'),
           Recorded(session'[s]) = Recorded(session[s])
    PROVE  IInv'
<1>1. RefusedAreGone'
  <2>1. /\ ledger.provider_rejected \in Nat /\ ledger.tool_rejected \in Nat
        /\ RefusedAreGone
    BY DEF IInv, TypeOK, LedgerState
  <2>2. /\ Cardinality(Gone) \in Nat /\ Cardinality(Gone') \in Nat
        /\ Cardinality(Gone) <= Cardinality(Gone')
    BY GoneGrows
  <2> QED
    BY <2>1, <2>2 DEF RefusedAreGone, SameRecords
<1>2. ledger'.tool_completed = Cardinality(RecordedCalls')
  BY RecordedKept DEF IInv, SameRecords
<1>3. late' \in [Sessions -> [Kinds -> 0..1]] /\ ledger'.terminal = ledger.terminal
  BY DEF IInv, TypeOK, SameRecords
<1> QED
  BY <1>1, <1>2, <1>3, MoveInv

\* Leaving, refused nothing.
LEMMA LeaveInv ==
    ASSUME IInv, NEW s \in Sessions, NEW status \in Statuses, Leave(s, status),
           session[s].at # "returned",
           UNCHANGED <<expired, cleanup, cancelled, timed_out, owner, late>>,
           ledger' \in LedgerState, SameRecords(ledger, ledger')
    PROVE  IInv'
<1>1. /\ Moves(s)
      /\ session'[s].at = "unwinding"
      /\ Recorded(session'[s]) = Recorded(session[s])
  BY LeaveMoves DEF Recorded
<1>2. LateAtStep(s)'
  BY <1>1 DEF IInv, LateAtStep
<1> QED
  BY <1>1, <1>2, QuietMoveInv

\* The steps that only move on, and take no lock of the ledger.
LEMMA WalkInv ==
    ASSUME IInv, NEW s \in Sessions,
           \/ Start(s) \/ Top(s) \/ Call(s) \/ RegisterChild(s) \/ Resolve(s) \/ DropSession(s)
    PROVE  IInv'
<1>1. /\ ledger' = ledger /\ late' = late /\ ledger \in LedgerState
      /\ UNCHANGED <<expired, cleanup, cancelled, timed_out, owner>>
  BY DEF Start, Top, Call, RegisterChild, Resolve, DropSession, IInv, TypeOK
<1>2. SameRecords(ledger, ledger')
  BY <1>1 DEF SameRecords
<1>3. ASSUME NEW status \in Statuses, Leave(s, status), session[s].at # "returned"
      PROVE  IInv'
  BY <1>1, <1>2, <1>3, LeaveInv
<1>4. ASSUME Own(s), session[s].at \in {"top", "calling"},
             session[s].at = "top" => ~cancelled
      PROVE  IInv'
  <2>1. /\ Moves(s)
        /\ session'[s].at \in {"owned", "unwinding"}
        /\ session'[s].kind = session[s].kind
        /\ Recorded(session'[s]) = Recorded(session[s])
    BY <1>1, <1>4, OwnMoves DEF Recorded
  <2>2. HoldsAtStep(session[s]) /\ LateAtStep(s)
    BY DEF IInv
  <2>3. LateAtStep(s)'
    BY <1>1, <1>4, <2>1, <2>2 DEF LateAtStep, HoldsAtStep
  <2> QED
    BY <1>1, <1>2, <2>1, <2>3, QuietMoveInv
<1>5. CASE Start(s)
  <2>1. CASE cancelled
    BY <1>3, <1>5, <2>1 DEF Start, Statuses
  <2>2. CASE ~cancelled
    <3>1. Goto(s, "top") /\ session[s].at = "start"
      BY <1>5, <2>2 DEF Start
    <3>2. /\ Moves(s)
          /\ session'[s].at = "top"
          /\ Recorded(session'[s]) = Recorded(session[s])
      BY <1>1, <3>1, GotoMoves DEF Recorded
    <3>3. LateAtStep(s)'
      BY <1>1, <3>2 DEF IInv, LateAtStep
    <3> QED
      BY <1>1, <1>2, <3>2, <3>3, QuietMoveInv
  <2> QED
    BY <2>1, <2>2
<1>6. CASE Top(s)
  BY <1>3, <1>4, <1>6 DEF Top, Statuses
<1>7. CASE Call(s)
  BY <1>4, <1>7 DEF Call
<1>8. CASE RegisterChild(s)
  <2>1. CASE CanRegister
    <3>1. /\ Moves(s)
          /\ session[s].at = "reserved"
          /\ session'[s].at = "registered"
          /\ session'[s].kind = session[s].kind
          /\ Recorded(session'[s]) = Recorded(session[s])
      BY <1>8, <2>1, RegisterMoves DEF Recorded
    <3>2. LateAtStep(s)'
      BY <1>1, <3>1 DEF IInv, LateAtStep
    <3> QED
      BY <1>1, <1>2, <3>1, <3>2, QuietMoveInv
  <2>2. CASE ~CanRegister
    BY <1>3, <1>8, <2>2 DEF RegisterChild, Statuses
  <2> QED
    BY <2>1, <2>2
<1>9. CASE Resolve(s)
  <2>1. /\ Moves(s)
        /\ session[s].at = "committed"
        /\ session'[s].at = "running"
        /\ session'[s].kind = session[s].kind
        /\ Recorded(session'[s]) = Recorded(session[s])
    BY <1>9, ResolveMoves DEF Recorded
  <2>2. LateAtStep(s)'
    BY <1>1, <2>1 DEF IInv, LateAtStep
  <2> QED
    BY <1>1, <1>2, <2>1, <2>2, QuietMoveInv
<1>10. CASE DropSession(s)
  BY <1>3, <1>10 DEF DropSession, Statuses
<1> QED
  BY <1>5, <1>6, <1>7, <1>8, <1>9, <1>10

\* The answer, however it comes, and the end of the child.
LEMMA AnswerInv ==
    ASSUME IInv, NEW s \in Sessions,
           (\E answer \in Answers : Answer(s, answer)) \/ Interrupt(s) \/ CompleteChild(s)
    PROVE  IInv'
<1>1. /\ ledger' = ledger /\ late' = late /\ ledger \in LedgerState
      /\ UNCHANGED <<expired, cleanup, cancelled, timed_out, owner>>
      /\ session[s] \in SessionRecord /\ HoldsAtStep(session[s]) /\ LateAtStep(s)
  BY DEF Answer, Interrupt, CompleteChild, IInv, TypeOK
<1>2. SameRecords(ledger, ledger')
  BY <1>1 DEF SameRecords
<1>3. CASE (\E answer \in Answers : Answer(s, answer)) \/ Interrupt(s)
  <2>1. PICK answer \in Answers :
           /\ session[s].at = "running"
           /\ session' = [session EXCEPT ![s].at = "answered", ![s].answer = answer]
    BY <1>3 DEF Answer, Interrupt, Answers
  <2>2. /\ Moves(s)
        /\ session'[s].at = "answered"
        /\ session'[s].kind = session[s].kind
        /\ session'[s].tools = session[s].tools
    BY <1>1, <2>1, AnswerMoves, Zenon
  <2>3. Recorded(session'[s]) = Recorded(session[s])
    BY <2>2 DEF Recorded
  <2>4. LateAtStep(s)'
    BY <1>1, <2>1, <2>2 DEF LateAtStep
  <2> QED
    BY <1>1, <1>2, <2>2, <2>3, <2>4, QuietMoveInv
<1>4. CASE CompleteChild(s)
  <2>1. session[s].kind \in {"provider", "tool"}
    BY <1>1 DEF SessionRecord, Kinds
  <2>2. /\ Moves(s)
        /\ session[s].at = "answered"
        /\ \/ session'[s].at = "settling" /\ session[s].kind = "provider"
           \/ session'[s].at \in {"reporting", "unwinding"} /\ session[s].kind = "tool"
        /\ session'[s].kind = session[s].kind
        /\ Recorded(session'[s]) = Recorded(session[s])
    BY <1>4, <2>1, TurnCompletedMoves, ToolCompletedMoves DEF Recorded
  <2>3. LateAtStep(s)'
    BY <1>1, <2>2 DEF LateAtStep
  <2> QED
    BY <1>1, <1>2, <2>2, <2>3, QuietMoveInv
<1> QED
  BY <1>3, <1>4

\* A reservation is asked for.
LEMMA ReserveInv ==
    ASSUME IInv, NEW s \in Sessions, Reserve(s)
    PROVE  IInv'
<1>1. /\ late' = late /\ ledger \in LedgerState /\ expired \in BOOLEAN
      /\ UNCHANGED <<expired, cleanup, cancelled, timed_out, owner>>
      /\ session[s] \in SessionRecord /\ LateAtStep(s)
      /\ session[s].at = "owned"
      /\ RoleOf[s] \in Roles
  BY SessionAssumption DEF Reserve, IInv, TypeOK
<1>2. /\ ledger' \in {ReserveProvider(ledger, RoleOf[s], expired), ReserveTool(ledger, expired)}
      /\ ledger' \in LedgerState
  BY <1>1, LedgerType DEF Reserve, InvocationTerminal, Accounts
<1>3. CASE Refusal(s) = NoRefusal
  <2>1. /\ Moves(s)
        /\ session'[s].at = "reserved"
        /\ session'[s].kind = session[s].kind
        /\ Recorded(session'[s]) = Recorded(session[s])
    BY <1>3, ReserveMoves DEF Recorded
  <2>2. SameRecords(ledger, ledger')
    BY <1>1, <1>3, GrantedLedger DEF Reserve, Refusal
  <2>3. LateAtStep(s)'
    BY <1>1, <2>1 DEF LateAtStep
  <2> QED
    BY <1>1, <1>2, <2>1, <2>2, <2>3, QuietMoveInv
<1>4. CASE Refusal(s) # NoRefusal
  <2>1. /\ Moves(s)
        /\ session'[s].at = "unwinding"
        /\ Recorded(session'[s]) = Recorded(session[s])
    BY <1>1, <1>4, LeaveMoves DEF Reserve, Recorded, Statuses
  <2>2. /\ ledger'.provider_rejected <= ledger.provider_rejected + 1
        /\ ledger'.tool_rejected <= ledger.tool_rejected + 1
        /\ ledger'.tool_completed = ledger.tool_completed
        /\ ledger'.terminal = ledger.terminal
    BY <1>1, <1>2, RefusedLedger
  <2>3. RefusedAreGone'
    <3>1. s \notin Gone /\ s \in Gone'
      BY <1>1, <2>1 DEF Gone
    <3>2. /\ Cardinality(Gone) \in Nat
          /\ Cardinality(Gone') = Cardinality(Gone) + 1
      BY <2>1, <3>1, GoneGrows
    <3>3. /\ ledger.provider_rejected \in Nat /\ ledger.tool_rejected \in Nat
          /\ ledger'.provider_rejected \in Nat /\ ledger'.tool_rejected \in Nat
      BY <1>1, <1>2 DEF LedgerState
    <3> QED
      BY <2>2, <3>2, <3>3 DEF IInv, RefusedAreGone
  <2>4. LateAtStep(s)'
    BY <1>1, <2>1 DEF LateAtStep
  <2>5. ledger'.tool_completed = Cardinality(RecordedCalls')
    BY <2>1, <2>2, RecordedKept DEF IInv
  <2>6. late' \in [Sessions -> [Kinds -> 0..1]]
    BY <1>1 DEF IInv, TypeOK
  <2> QED
    BY <1>1, <1>2, <2>1, <2>2, <2>3, <2>4, <2>5, <2>6, MoveInv
<1> QED
  BY <1>3, <1>4

\* A reservation is committed: what is late is the first of its kind.
LEMMA CommitInv ==
    ASSUME IInv, NEW s \in Sessions, Commit(s)
    PROVE  IInv'
<1>1. /\ ledger \in LedgerState /\ ledger' \in {CommitProvider(ledger), CommitTool(ledger)}
      /\ late \in [Sessions -> [Kinds -> 0..1]]
      /\ session[s] \in SessionRecord /\ LateAtStep(s)
      /\ cancelled' = cancelled
  BY DEF Commit, IInv, TypeOK
<1>2. /\ Moves(s)
      /\ session[s].at = "registered"
      /\ session'[s].at = "committed"
      /\ session'[s].kind = session[s].kind
      /\ Recorded(session'[s]) = Recorded(session[s])
  BY CommitMoves DEF Recorded
<1>3. ledger' \in LedgerState /\ SameRecords(ledger, ledger')
  <2>1. "Main" \in Roles /\ "Failed" \in InvocationTerminal /\ "RepairAttempts" \in Accounts
    BY DEF Roles, InvocationTerminal, Accounts
  <2> QED
    BY <1>1, <2>1, LedgerType, SettledLedger
<1>4. PICK kind \in Kinds : kind = session[s].kind /\ late[s][kind] = 0
  BY <1>1, <1>2 DEF LateAtStep, SessionRecord, Kinds
<1>5. late' = IF cancelled THEN [late EXCEPT ![s][kind] = 1] ELSE late
  BY <1>1, <1>4 DEF Commit
<1>6. /\ late' \in [Sessions -> [Kinds -> 0..1]]
      /\ \A q \in Sessions \ {s} : late'[q] = late[q]
      /\ \A k \in Kinds \ {kind} : late'[s][k] = late[s][k]
      /\ ~cancelled => late' = late
  BY <1>1, <1>5
<1>7. LateAtStep(s)'
  BY <1>1, <1>2, <1>4, <1>6 DEF LateAtStep, Kinds
<1>8. RefusedAreGone' /\ ledger'.tool_completed = Cardinality(RecordedCalls')
  <2>1. /\ ledger.provider_rejected \in Nat /\ ledger.tool_rejected \in Nat
        /\ RefusedAreGone
    BY DEF IInv, TypeOK, LedgerState
  <2>2. /\ Cardinality(Gone) \in Nat /\ Cardinality(Gone') \in Nat
        /\ Cardinality(Gone) <= Cardinality(Gone')
    BY <1>2, GoneGrows
  <2>3. RefusedAreGone'
    BY <1>3, <2>1, <2>2 DEF RefusedAreGone, SameRecords
  <2> QED
    BY <1>2, <1>3, <2>3, RecordedKept DEF IInv, SameRecords
<1> QED
  BY <1>2, <1>3, <1>6, <1>7, <1>8, MoveInv DEF SameRecords

\* An invocation is settled, metered, reported or dropped.
LEMMA SettleInv ==
    ASSUME IInv, NEW s \in Sessions, Settle(s)
    PROVE  IInv'
<1>1. /\ ledger \in LedgerState /\ expired \in BOOLEAN /\ late' = late
      /\ cancelled' = cancelled /\ LateAtStep(s)
      /\ ledger' = FinishProvider(ledger, TerminalOf(session[s].answer))
  BY DEF Settle, IInv, TypeOK
<1>2. /\ Moves(s)
      /\ session[s].at = "settling"
      /\ session'[s].at \in {"metering", "unwinding"}
      /\ session'[s].kind = session[s].kind
      /\ Recorded(session'[s]) = Recorded(session[s])
  BY SettleMoves DEF Recorded
<1>3. ledger' \in LedgerState /\ SameRecords(ledger, ledger')
  <2>1. TerminalOf(session[s].answer) \in InvocationTerminal
    BY DEF TerminalOf, InvocationTerminal
  <2>2. "Main" \in Roles /\ "RepairAttempts" \in Accounts
    BY DEF Roles, Accounts
  <2> QED
    BY <1>1, <2>1, <2>2, LedgerType, SettledLedger
<1>4. LateAtStep(s)'
  BY <1>1, <1>2 DEF LateAtStep
<1> QED
  BY <1>1, <1>2, <1>3, <1>4, QuietMoveInv

\* Charging an account leaves a ledger with the same records.
LEMMA ChargedLedger ==
    ASSUME IInv, NEW account \in Accounts, NEW amount \in Nat
    PROVE  /\ Charge(ledger, account, amount, expired) \in LedgerState
           /\ SameRecords(ledger, Charge(ledger, account, amount, expired))
<1>1. "Main" \in Roles /\ "Failed" \in InvocationTerminal
  BY DEF Roles, InvocationTerminal
<1>2. ledger \in LedgerState /\ expired \in BOOLEAN
  BY DEF IInv, TypeOK
<1> QED
  BY <1>1, <1>2, LedgerType, SettledLedger

\* What a completed turn used is charged, and it is followed by a tool call or
\* by the end of the session.
LEMMA MeterInv ==
    ASSUME IInv, NEW s \in Sessions, NEW tokens \in Amounts \cup {0}, NEW approved \in BOOLEAN,
           Meter(s, tokens, approved)
    PROVE  IInv'
<1>1. /\ session[s].at = "metering" /\ late' = late
      /\ UNCHANGED <<expired, cleanup, cancelled, timed_out, owner>>
      /\ ledger \in LedgerState /\ LateAtStep(s)
  BY DEF Meter, IInv, TypeOK
<1>2. ledger' \in LedgerState /\ SameRecords(ledger, ledger')
  <2>1. tokens \in Nat /\ "OutputTokenLimit" \in Accounts
    BY SessionAssumption DEF Accounts
  <2>2. ledger' \in {ledger, Charge(ledger, "OutputTokenLimit", tokens, expired)}
    BY DEF Meter
  <2> QED
    BY <1>1, <2>1, <2>2, ChargedLedger DEF SameRecords
<1>3. CASE Dispatch(s, approved)
  <2>1. /\ Moves(s)
        /\ session'[s].at \in {"calling", "reporting", "unwinding"}
        /\ Recorded(session'[s]) = Recorded(session[s])
    BY <1>1, <1>3, DispatchMoves
  <2>2. LateAtStep(s)'
    BY <1>1, <2>1 DEF LateAtStep
  <2> QED
    BY <1>1, <1>2, <2>1, <2>2, QuietMoveInv
<1>4. ASSUME NEW status \in Statuses, Leave(s, status) PROVE IInv'
  BY <1>1, <1>2, <1>4, LeaveInv
<1>5. \/ Dispatch(s, approved)
      \/ \E status \in Statuses : Leave(s, status)
  BY DEF Meter, Statuses
<1> QED
  BY <1>3, <1>4, <1>5

\* The output of a tool is charged.
LEMMA ReportInv ==
    ASSUME IInv, NEW s \in Sessions, NEW bytes \in Amounts, Report(s, bytes)
    PROVE  IInv'
<1>1. /\ session[s].at = "reporting" /\ late' = late
      /\ UNCHANGED <<expired, cleanup, cancelled, timed_out, owner>>
      /\ ledger \in LedgerState /\ LateAtStep(s)
  BY DEF Report, IInv, TypeOK
<1>2. ledger' \in LedgerState /\ SameRecords(ledger, ledger')
  <2>1. bytes \in Nat /\ "AggregateToolOutput" \in Accounts
    BY SessionAssumption DEF Accounts
  <2> QED
    BY <2>1, ChargedLedger DEF Report
<1>3. CASE Goto(s, "counting")
  <2>1. /\ Moves(s)
        /\ session'[s].at = "counting"
        /\ Recorded(session'[s]) = Recorded(session[s])
    BY <1>1, <1>3, GotoMoves DEF Recorded
  <2>2. LateAtStep(s)'
    BY <1>1, <2>1 DEF LateAtStep
  <2> QED
    BY <1>1, <1>2, <2>1, <2>2, QuietMoveInv
<1>4. CASE Leave(s, "BudgetExhausted")
  BY <1>1, <1>2, <1>4, LeaveInv DEF Statuses
<1> QED
  BY <1>3, <1>4 DEF Report

\* A tool call that a session is about to record is one of those it may make,
\* and was not recorded.
LEMMA OneMoreRecorded ==
    ASSUME IInv, NEW s \in Sessions, session[s].at = "counting"
    PROVE  /\ IsFiniteSet(Sessions \X (1..MaxSessionTools))
           /\ Cardinality(Sessions \X (1..MaxSessionTools))
                 = MaxSessionTools * Cardinality(Sessions)
           /\ RecordedCalls \subseteq Sessions \X (1..MaxSessionTools)
           /\ <<s, session[s].tools>> \in Sessions \X (1..MaxSessionTools)
           /\ <<s, session[s].tools>> \notin RecordedCalls
           /\ IsFiniteSet(RecordedCalls)
<1>1. session[s] \in SessionRecord /\ HoldsAtStep(session[s]) /\ MaxSessionTools \in Nat
  BY SessionAssumption DEF IInv, TypeOK
<1>2. session[s].kind = "tool" /\ session[s].tools \in 1..MaxSessionTools
  BY <1>1 DEF HoldsAtStep, SessionRecord
<1>3. IsFiniteSet(1..MaxSessionTools) /\ Cardinality(1..MaxSessionTools) = MaxSessionTools
  BY <1>1, FS_Interval
<1>4. /\ IsFiniteSet(Sessions \X (1..MaxSessionTools))
      /\ Cardinality(Sessions \X (1..MaxSessionTools))
            = Cardinality(Sessions) * Cardinality(1..MaxSessionTools)
  BY <1>3, SessionAssumption, FS_Product
<1>5. Cardinality(Sessions) * MaxSessionTools = MaxSessionTools * Cardinality(Sessions)
  BY <1>1, ClientAssumptions
<1>6. RecordedCalls \subseteq Sessions \X (1..MaxSessionTools)
  BY DEF RecordedCalls
<1>7. <<s, session[s].tools>> \notin RecordedCalls
  <2>1. ~(session[s].tools <= Recorded(session[s]))
    BY <1>2 DEF Recorded
  <2> QED
    BY <2>1 DEF RecordedCalls
<1> QED
  BY <1>2, <1>3, <1>4, <1>5, <1>6, <1>7, FS_Subset

\* The call is recorded: it joins the recorded ones.
LEMMA CountInv ==
    ASSUME IInv, NEW s \in Sessions, Count(s)
    PROVE  IInv'
<1>1. /\ session[s].at = "counting" /\ late' = late /\ cancelled' = cancelled
      /\ ledger \in LedgerState /\ LateAtStep(s)
      /\ ledger' = RecordToolCompleted(ledger)
      /\ session[s] \in SessionRecord /\ HoldsAtStep(session[s])
  BY DEF Count, IInv, TypeOK
<1>2. /\ Moves(s)
      /\ session'[s].at = "top"
      /\ session'[s].kind = "provider"
      /\ session'[s].tools = session[s].tools
  BY CountMoves
<1>3. /\ ledger' \in LedgerState
      /\ ledger'.provider_rejected = ledger.provider_rejected
      /\ ledger'.tool_rejected = ledger.tool_rejected
      /\ ledger'.tool_completed = ledger.tool_completed + 1
      /\ ledger'.terminal = ledger.terminal
  BY <1>1 DEF RecordToolCompleted, LedgerState
<1>4. LateAtStep(s)' /\ late' \in [Sessions -> [Kinds -> 0..1]]
  BY <1>1, <1>2 DEF LateAtStep, IInv, TypeOK
<1>5. RefusedAreGone'
  <2>1. /\ ledger.provider_rejected \in Nat /\ ledger.tool_rejected \in Nat
        /\ RefusedAreGone
    BY <1>1 DEF IInv, LedgerState
  <2>2. /\ Cardinality(Gone) \in Nat /\ Cardinality(Gone') \in Nat
        /\ Cardinality(Gone) <= Cardinality(Gone')
    BY <1>2, GoneGrows
  <2> QED
    BY <1>3, <2>1, <2>2 DEF RefusedAreGone
<1>6. RecordedCalls' = RecordedCalls \cup {<<s, session[s].tools>>}
  <2>1. PICK n \in 1..MaxSessionTools :
           /\ n = session[s].tools
           /\ Recorded(session[s]) = n - 1
           /\ Recorded(session'[s]) = n
    BY <1>1, <1>2, SessionAssumption DEF HoldsAtStep, SessionRecord, Recorded
  <2>2. \A q \in Sessions \ {s} : Recorded(session'[q]) = Recorded(session[q])
    BY <1>2 DEF Moves
  <2>3. ASSUME NEW c \in Sessions \X (1..MaxSessionTools)
        PROVE  c \in RecordedCalls' <=> c \in RecordedCalls \cup {<<s, n>>}
    <3>1. PICK q \in Sessions, i \in 1..MaxSessionTools : c = <<q, i>>
      OBVIOUS
    <3>2. CASE q = s
      <4>1. i <= n <=> i <= n - 1 \/ i = n
        BY SessionAssumption
      <4> QED
        BY <2>1, <3>1, <3>2, <4>1 DEF RecordedCalls
    <3>3. CASE q # s
      BY <2>2, <3>1, <3>3 DEF RecordedCalls
    <3> QED
      BY <3>2, <3>3
  <2>4. /\ RecordedCalls \subseteq Sessions \X (1..MaxSessionTools)
        /\ RecordedCalls' \subseteq Sessions \X (1..MaxSessionTools)
        /\ <<s, n>> \in Sessions \X (1..MaxSessionTools)
    BY DEF RecordedCalls
  <2> QED
    BY <2>1, <2>3, <2>4
<1>7. ledger'.tool_completed = Cardinality(RecordedCalls')
  <2>1. Cardinality(RecordedCalls') = Cardinality(RecordedCalls) + 1
    BY <1>1, <1>6, OneMoreRecorded, FS_AddElement
  <2> QED
    BY <1>3, <2>1 DEF IInv
<1> QED
  BY <1>1, <1>2, <1>3, <1>4, <1>5, <1>7, MoveInv

\* A local is dropped.
LEMMA UnwindInv ==
    ASSUME IInv, NEW s \in Sessions, Unwind(s)
    PROVE  IInv'
<1>1. /\ ledger \in LedgerState /\ expired \in BOOLEAN /\ late' = late
      /\ cancelled' = cancelled /\ LateAtStep(s)
      /\ ledger' = UnwoundLedger(session[s], RoleOf[s])
      /\ RoleOf[s] \in Roles
  BY SessionAssumption DEF Unwind, IInv, TypeOK
<1>2. /\ Moves(s)
      /\ session'[s].at \in {"unwinding", "returned"}
      /\ Recorded(session'[s]) = Recorded(session[s])
  BY UnwindMoves DEF Recorded
<1>3. ledger' \in LedgerState /\ SameRecords(ledger, ledger')
  <2>1. "Failed" \in InvocationTerminal /\ "RepairAttempts" \in Accounts
    BY DEF InvocationTerminal, Accounts
  <2>2. ledger' \in {ledger, FinishProvider(ledger, "Failed"),
                     DropProviderReservation(ledger, RoleOf[s]), DropToolReservation(ledger)}
    BY <1>1 DEF UnwoundLedger
  <2> QED
    BY <1>1, <2>1, <2>2, LedgerType, SettledLedger DEF SameRecords
<1>4. LateAtStep(s)'
  BY <1>1, <1>2 DEF LateAtStep
<1> QED
  BY <1>1, <1>2, <1>3, <1>4, QuietMoveInv

-----------------------------------------------------------------------------
(* The tokens, the timers and the coordinator leave the sessions alone.    *)

\* What the invariant says of the sessions, when they do not move.
LEMMA StillInv ==
    ASSUME IInv, session' = session, late' = late,
           TypeOK', OwnerWaits',
           SameRecords([ledger EXCEPT !.terminal = ledger'.terminal], ledger'),
           cancelled => cancelled'
    PROVE  IInv'
<1>1. /\ ledger'.provider_rejected = ledger.provider_rejected
      /\ ledger'.tool_rejected = ledger.tool_rejected
      /\ ledger'.tool_completed = ledger.tool_completed
  BY DEF SameRecords, IInv, TypeOK, LedgerState
<1>2. Gone' = Gone /\ RecordedCalls' = RecordedCalls
  BY DEF Gone, RecordedCalls
<1>3. ASSUME NEW s \in Sessions PROVE HoldsAtStep(session'[s]) /\ LateAtStep(s)'
  BY DEF IInv, LateAtStep
<1> QED
  BY <1>1, <1>2, <1>3 DEF IInv, RefusedAreGone

\* The coordinator finishes, or is aborted.
LEMMA OwnerInv ==
    ASSUME IInv, OwnerStep \/ Abort
    PROVE  IInv'
<1>1. /\ session' = session /\ late' = late /\ cancelled' = cancelled
      /\ UNCHANGED <<expired, timed_out>>
      /\ ledger \in LedgerState /\ ledger' \in {ledger, MarkTerminal(ledger)}
  BY DEF OwnerStep, BeginFinish, MarkRunTerminal, CompleteFinish, Abort, IInv, TypeOK
<1>2. /\ ledger' \in LedgerState
      /\ SameRecords([ledger EXCEPT !.terminal = ledger'.terminal], ledger')
  BY <1>1 DEF SameRecords, MarkTerminal, LedgerState
<1>3. cleanup' \in [requested : BOOLEAN, complete : BOOLEAN] /\ owner' \in Owners
  BY DEF OwnerStep, BeginFinish, MarkRunTerminal, CompleteFinish, Abort, IInv, TypeOK, Owners
<1>4. TypeOK'
  BY <1>1, <1>2, <1>3 DEF IInv, TypeOK
<1>5. OwnerWaits'
  <2>1. OwnerWaits /\ \A s \in Sessions : HoldsAtStep(session[s])
    BY DEF IInv
  <2>2. CASE BeginFinish \/ Abort
    BY <1>1, <2>1, <2>2 DEF BeginFinish, Abort, OwnerWaits
  <2>3. CASE MarkRunTerminal
    BY <1>1, <2>1, <2>3 DEF MarkRunTerminal, OwnerWaits
  <2>4. CASE CompleteFinish
    BY <1>1, <2>1, <2>4 DEF CompleteFinish, OwnerWaits, HoldsAtStep
  <2> QED
    BY <2>2, <2>3, <2>4 DEF OwnerStep
<1> QED
  BY <1>1, <1>2, <1>4, <1>5, StillInv

\* A token is cancelled or a timer fires.
LEMMA SignalInv ==
    ASSUME IInv, Cancel \/ Expire \/ (\E s \in Sessions : Timeout(s)) \/ UNCHANGED vars
    PROVE  IInv'
<1>1. /\ UNCHANGED <<session, late, ledger, owner, cleanup>>
      /\ ledger \in LedgerState
      /\ cancelled => cancelled'
  BY DEF Cancel, Expire, Timeout, vars, IInv, TypeOK
<1>2. TypeOK'
  BY <1>1 DEF Cancel, Expire, Timeout, vars, IInv, TypeOK
<1>3. OwnerWaits'
  BY <1>1 DEF IInv, OwnerWaits
<1>4. SameRecords([ledger EXCEPT !.terminal = ledger'.terminal], ledger')
  BY <1>1 DEF SameRecords, LedgerState
<1> QED
  BY <1>1, <1>2, <1>3, <1>4, StillInv

-----------------------------------------------------------------------------
\* Init establishes the invariant.
LEMMA InitIInv == Init => IInv
<1> SUFFICES ASSUME Init PROVE IInv
  OBVIOUS
<1>1. NewSessionRecord \in SessionRecord /\ HoldsAtStep(NewSessionRecord)
  BY SessionAssumption DEF NewSessionRecord, SessionRecord, HoldsAtStep, Steps, Kinds, Answers,
     Statuses
<1>2. ledger \in LedgerState
  BY DEF Init, NewLedger, LedgerState, NoRefusal
<1>3. TypeOK
  <2>1. late \in [Sessions -> [Kinds -> 0..1]]
    BY DEF Init
  <2>2. session \in [Sessions -> SessionRecord]
    BY <1>1 DEF Init
  <2> QED
    BY <1>2, <2>1, <2>2 DEF Init, TypeOK, Owners
<1>4. \A s \in Sessions : session[s] = NewSessionRecord
  BY DEF Init
<1>5. \A s \in Sessions : HoldsAtStep(session[s]) /\ LateAtStep(s)
  BY <1>1, <1>4 DEF Init, LateAtStep, Kinds, NewSessionRecord
<1>6. OwnerWaits
  BY DEF Init, OwnerWaits, NewLedger
<1>7. Gone = {}
  BY <1>4 DEF Gone, NewSessionRecord
<1>8. RecordedCalls = {}
  <2>1. \A s \in Sessions : Recorded(session[s]) = 0
    BY <1>4 DEF NewSessionRecord, Recorded
  <2>2. \A s \in Sessions, i \in 1..MaxSessionTools : ~(i <= Recorded(session[s]))
    BY <2>1, SessionAssumption
  <2> QED
    BY <2>2 DEF RecordedCalls
<1>9. Cardinality({}) = 0
  BY FS_EmptySet
<1> QED
  BY <1>3, <1>5, <1>6, <1>7, <1>8, <1>9 DEF Init, NewLedger, IInv, RefusedAreGone

\* Every step preserves it.
LEMMA NextIInv == IInv /\ [Next]_vars => IInv'
<1> SUFFICES ASSUME IInv, [Next]_vars PROVE IInv'
  OBVIOUS
<1>1. ASSUME NEW s \in Sessions, SessionStep(s) PROVE IInv'
  BY <1>1, WalkInv, AnswerInv, ReserveInv, CommitInv, SettleInv, MeterInv, ReportInv, CountInv,
     UnwindInv DEF SessionStep
<1>2. ASSUME NEW s \in Sessions, NEW answer \in Answers, Answer(s, answer) PROVE IInv'
  BY <1>2, AnswerInv
<1> QED
  BY <1>1, <1>2, OwnerInv, SignalInv DEF Next

\* IInv holds in every reachable state, for any number of sessions.
THEOREM Invariance == Spec => []IInv
BY InitIInv, NextIInv, PTL DEF Spec

\* finish_outcome never fails in cleanup.complete: it is called when every
\* session has returned, and a session returns only after dropping its guards.
THEOREM CleanupAccepted == Spec => []CleanupNeverRefused
<1>1. IInv => CleanupNeverRefused
  BY DEF IInv, OwnerWaits, CleanupNeverRefused
<1> QED
  BY <1>1, Invariance, PTL

\* After a cancellation each of any number of sessions starts at most one more
\* invocation and one more tool.
THEOREM LittleLate == Spec => []LittleAfterCancellation
<1>1. IInv => LittleAfterCancellation
  BY DEF IInv, TypeOK, LittleAfterCancellation
<1> QED
  BY <1>1, Invariance, PTL

-----------------------------------------------------------------------------
(* The sessions are clients of the ledger.                                 *)

\* What the sessions hold, after a step of one of them.
LEMMA HeldAfter ==
    ASSUME IInv, NEW s \in Sessions, Moves(s)
    PROVE  /\ HeldCalls' = [HeldCalls EXCEPT ![s] = HeldCall(session'[s], RoleOf[s])]
           /\ HeldTools' = [HeldTools EXCEPT ![s] = HeldTool(session'[s])]
           /\ HeldCalls[s] = HeldCall(session[s], RoleOf[s])
           /\ HeldTools[s] = HeldTool(session[s])
           /\ HeldCalls = [HeldCalls EXCEPT ![s] = HeldCalls[s]]
           /\ HeldTools = [HeldTools EXCEPT ![s] = HeldTools[s]]
BY DEF Moves, HeldCalls, HeldTools

\* A step of a session that holds no more and no less.
LEMMA HeldSame ==
    ASSUME IInv, NEW s \in Sessions, Moves(s),
           session'[s].budget = session[s].budget,
           session'[s].kind = session[s].kind \/ session[s].budget = "nothing"
    PROVE  HeldCalls' = HeldCalls /\ HeldTools' = HeldTools
<1>1. /\ session[s].kind \in {"provider", "tool"} /\ session'[s].kind \in {"provider", "tool"}
  BY DEF IInv, TypeOK, Moves, SessionRecord, Kinds
<1>2. /\ HeldCall(session'[s], RoleOf[s]) = HeldCall(session[s], RoleOf[s])
      /\ HeldTool(session'[s]) = HeldTool(session[s])
  BY <1>1 DEF HeldCall, HeldTool
<1> QED
  BY <1>2, HeldAfter

\* The steps that the ledger does not see.
LEMMA WalkHeld ==
    ASSUME IInv, NEW s \in Sessions,
           \/ Start(s) \/ Top(s) \/ Call(s) \/ RegisterChild(s) \/ Resolve(s) \/ DropSession(s)
           \/ Interrupt(s) \/ (\E answer \in Answers : Answer(s, answer))
    PROVE  UNCHANGED Client!vars
<1>1. /\ ledger' = ledger /\ expired' = expired
      /\ UNCHANGED <<expired, cleanup, cancelled, timed_out, owner>>
  BY DEF Start, Top, Call, RegisterChild, Resolve, DropSession, Interrupt, Answer
<1> DEFINE Same == /\ Moves(s)
                   /\ session'[s].budget = session[s].budget
                   /\ session'[s].kind = session[s].kind
<1>2. ASSUME NEW status \in Statuses, Leave(s, status), session[s].at # "returned" PROVE Same
  BY <1>1, <1>2, LeaveMoves
<1>3. ASSUME Own(s), session[s].at \in {"top", "calling"} PROVE Same
  BY <1>1, <1>3, OwnMoves
<1>4. ASSUME Start(s) PROVE Same
  BY <1>1, <1>2, <1>4, GotoMoves DEF Start, Statuses
<1>5. ASSUME Top(s) \/ Call(s) PROVE Same
  BY <1>2, <1>3, <1>5 DEF Top, Call, Statuses
<1>6. ASSUME RegisterChild(s) PROVE Same
  BY <1>2, <1>6, RegisterMoves DEF RegisterChild, Statuses
<1>7. ASSUME Resolve(s) PROVE Same
  BY <1>7, ResolveMoves
<1>8. ASSUME DropSession(s) PROVE Same
  BY <1>2, <1>8 DEF DropSession, Statuses
<1>9. ASSUME Interrupt(s) \/ \E answer \in Answers : Answer(s, answer) PROVE Same
  <2>1. PICK answer \in Answers :
           /\ session[s].at = "running"
           /\ session' = [session EXCEPT ![s].at = "answered", ![s].answer = answer]
    BY <1>9 DEF Answer, Interrupt, Answers
  <2> QED
    BY <1>1, <2>1, AnswerMoves, Zenon
<1>10. Same
  BY <1>4, <1>5, <1>6, <1>7, <1>8, <1>9
<1> QED
  BY <1>1, <1>10, HeldSame DEF Client!vars

\* A reservation is taken or refused.
LEMMA ReserveHeld ==
    ASSUME IInv, NEW s \in Sessions, Reserve(s)
    PROVE  Client!Next
<1>1. /\ session[s] \in SessionRecord /\ HoldsAtStep(session[s]) /\ session[s].at = "owned"
      /\ UNCHANGED <<expired, cleanup, cancelled, timed_out, owner>>
      /\ RoleOf[s] \in Roles
  BY SessionAssumption DEF Reserve, IInv, TypeOK
<1>2. session[s].budget = "nothing" /\ session[s].kind \in {"provider", "tool"}
  BY <1>1 DEF HoldsAtStep, SessionRecord, Kinds
<1>3. s \notin Gone /\ Gone \subseteq Sessions
  BY <1>1 DEF Gone
<1>4. Cardinality(Gone) < Cardinality(Sessions)
  <2>1. Gone \in SUBSET Sessions /\ Gone # Sessions /\ IsFiniteSet(Sessions)
    BY <1>3, SessionAssumption
  <2>2. Cardinality(Gone) <= Cardinality(Sessions) /\ Cardinality(Gone) # Cardinality(Sessions)
    BY <2>1, FS_Subset
  <2>3. Cardinality(Gone) \in Nat /\ Cardinality(Sessions) \in Nat
    BY <2>1, FS_Subset, FS_CardinalityType
  <2> QED
    BY <2>2, <2>3
<1>5. /\ ledger.provider_rejected < Cardinality(Sessions)
      /\ ledger.tool_rejected < Cardinality(Sessions)
  <2>1. /\ ledger.provider_rejected \in Nat /\ ledger.tool_rejected \in Nat
        /\ RefusedAreGone
    BY DEF IInv, TypeOK, LedgerState
  <2>2. Cardinality(Gone) \in Nat /\ Cardinality(Sessions) \in Nat
    BY <1>3, SessionAssumption, FS_Subset, FS_CardinalityType
  <2> QED
    BY <1>4, <2>1, <2>2 DEF RefusedAreGone
<1>6. CASE Refusal(s) = NoRefusal
  <2>1. /\ Moves(s)
        /\ session'[s].budget = "reservation"
        /\ session'[s].kind = session[s].kind
    BY <1>6, ReserveMoves
  <2>2. CASE session[s].kind = "provider"
    <3>1. /\ HeldCalls[s] = Client!Idle
          /\ HeldCalls' = [HeldCalls EXCEPT ![s] = [holds |-> "reservation", role |-> RoleOf[s]]]
          /\ HeldTools' = HeldTools
      <4>1. /\ HeldCall(session[s], RoleOf[s]) = Client!Idle
            /\ HeldCall(session'[s], RoleOf[s]) = [holds |-> "reservation", role |-> RoleOf[s]]
        BY <1>2, <2>1, <2>2 DEF HeldCall, Client!Idle
      <4>2. HeldTool(session[s]) = "nothing" /\ HeldTool(session'[s]) = "nothing"
        BY <1>2, <2>1, <2>2 DEF HeldTool
      <4> QED
        BY <2>1, <4>1, <4>2, HeldAfter
    <3>2. /\ Client!ProviderRefusal(ledger, RoleOf[s], expired) = Client!NoRefusal
          /\ ledger' = Client!ReserveProvider(ledger, RoleOf[s], expired)
      BY <1>6, <2>2, SameMethods DEF Reserve, Refusal
    <3>3. Client!Take(s, RoleOf[s])
      BY <1>1, <3>1, <3>2 DEF Client!Take
    <3> QED
      BY <1>1, <3>3, SameTypes DEF Client!Next, Client!CallStep
  <2>3. CASE session[s].kind = "tool"
    <3>1. /\ HeldTools[s] = "nothing"
          /\ HeldTools' = [HeldTools EXCEPT ![s] = "reservation"]
          /\ HeldCalls' = HeldCalls
      <4>1. HeldCall(session[s], RoleOf[s]) = HeldCall(session'[s], RoleOf[s])
        BY <1>2, <2>1, <2>3 DEF HeldCall
      <4>2. HeldTool(session[s]) = "nothing" /\ HeldTool(session'[s]) = "reservation"
        BY <1>2, <2>1, <2>3 DEF HeldTool
      <4> QED
        BY <2>1, <4>1, <4>2, HeldAfter
    <3>2. /\ Client!ToolRefusal(ledger, expired) = Client!NoRefusal
          /\ ledger' = Client!ReserveTool(ledger, expired)
      BY <1>6, <2>3, SameMethods DEF Reserve, Refusal
    <3>3. Client!TakeTool(s)
      BY <1>1, <3>1, <3>2 DEF Client!TakeTool
    <3> QED
      BY <3>3 DEF Client!Next, Client!ToolStep
  <2> QED
    BY <1>2, <2>2, <2>3
<1>7. CASE Refusal(s) # NoRefusal
  <2>1. Leave(s, "BudgetExhausted") /\ "BudgetExhausted" \in Statuses
    BY <1>7 DEF Reserve, Statuses
  <2>2. /\ Moves(s)
        /\ session'[s].budget = session[s].budget
        /\ session'[s].kind = session[s].kind
    BY <1>1, <2>1, LeaveMoves
  <2>3. HeldCalls' = HeldCalls /\ HeldTools' = HeldTools
    BY <2>2, HeldSame
  <2>4. HeldCalls[s] = Client!Idle /\ HeldTools[s] = "nothing"
    BY <1>2, <2>2, HeldAfter DEF HeldCall, HeldTool, Client!Idle
  <2>5. CASE session[s].kind = "provider"
    <3>1. /\ Client!ProviderRefusal(ledger, RoleOf[s], expired) # Client!NoRefusal
          /\ ledger' = Client!ReserveProvider(ledger, RoleOf[s], expired)
      BY <1>7, <2>5, SameMethods DEF Reserve, Refusal
    <3>2. Client!BeRefused(s, RoleOf[s])
      BY <1>1, <1>5, <2>3, <2>4, <3>1 DEF Client!BeRefused
    <3> QED
      BY <1>1, <3>2, SameTypes DEF Client!Next, Client!CallStep
  <2>6. CASE session[s].kind = "tool"
    <3>1. /\ Client!ToolRefusal(ledger, expired) # Client!NoRefusal
          /\ ledger' = Client!ReserveTool(ledger, expired)
      BY <1>7, <2>6, SameMethods DEF Reserve, Refusal
    <3>2. Client!BeRefusedTool(s)
      BY <1>1, <1>5, <2>3, <2>4, <3>1 DEF Client!BeRefusedTool
    <3> QED
      BY <3>2 DEF Client!Next, Client!ToolStep
  <2> QED
    BY <1>2, <2>5, <2>6
<1> QED
  BY <1>6, <1>7

\* A reservation is committed.
LEMMA CommitHeld ==
    ASSUME IInv, NEW s \in Sessions, Commit(s)
    PROVE  Client!Next
<1>1. /\ session[s] \in SessionRecord /\ HoldsAtStep(session[s])
      /\ session[s].at = "registered" /\ expired' = expired
  BY DEF Commit, IInv, TypeOK
<1>2. session[s].budget = "reservation" /\ session[s].kind \in {"provider", "tool"}
  BY <1>1 DEF HoldsAtStep, SessionRecord, Kinds
<1>3. /\ Moves(s)
      /\ session'[s].budget = "guard"
      /\ session'[s].kind = session[s].kind
  BY CommitMoves
<1>4. CASE session[s].kind = "provider"
  <2>1. /\ HeldCalls[s] = [holds |-> "reservation", role |-> RoleOf[s]]
        /\ HeldCalls' = [HeldCalls EXCEPT ![s] = [holds |-> "guard", role |-> RoleOf[s]]]
        /\ HeldTools' = HeldTools
    BY <1>2, <1>3, <1>4, HeldAfter DEF HeldCall, HeldTool
  <2>2. HeldCalls' = [HeldCalls EXCEPT ![s].holds = "guard"] /\ HeldCalls[s].holds = "reservation"
    <3>1. [HeldCalls[s] EXCEPT !.holds = "guard"] = [holds |-> "guard", role |-> RoleOf[s]]
      BY <2>1
    <3>2. HeldCalls[s].holds = "reservation"
      BY <2>1
    <3>3. HeldCalls' = [HeldCalls EXCEPT ![s] = [HeldCalls[s] EXCEPT !.holds = "guard"]]
      BY <2>1, <3>1, Zenon
    <3> QED
      BY <3>2, <3>3, Zenon
  <2>3. ledger' = Client!CommitProvider(ledger)
    BY <1>4, SameMethods DEF Commit
  <2>4. Client!Commit(s)
    BY <1>1, <2>1, <2>2, <2>3, Zenon DEF Client!Commit
  <2> QED
    BY <2>4 DEF Client!Next, Client!CallStep
<1>5. CASE session[s].kind = "tool"
  <2>1. /\ HeldTools[s] = "reservation"
        /\ HeldTools' = [HeldTools EXCEPT ![s] = "running"]
        /\ HeldCalls' = HeldCalls
    <3>1. HeldCall(session[s], RoleOf[s]) = HeldCall(session'[s], RoleOf[s])
      BY <1>2, <1>3, <1>5 DEF HeldCall
    <3>2. HeldTool(session[s]) = "reservation" /\ HeldTool(session'[s]) = "running"
      BY <1>2, <1>3, <1>5 DEF HeldTool
    <3> QED
      BY <1>3, <3>1, <3>2, HeldAfter
  <2>2. ledger' = Client!CommitTool(ledger)
    BY <1>5, SameMethods DEF Commit
  <2>3. Client!StartTool(s)
    BY <1>1, <2>1, <2>2 DEF Client!StartTool
  <2> QED
    BY <2>3 DEF Client!Next, Client!ToolStep
<1> QED
  BY <1>2, <1>4, <1>5

\* The guard of an invocation reports how it ended; a running tool has none.
LEMMA GuardHeld ==
    ASSUME IInv, NEW s \in Sessions, Moves(s), expired' = expired,
           session[s].budget = "guard", session'[s].budget = "nothing",
           session'[s].kind = session[s].kind,
           \/ session[s].kind = "tool" /\ ledger' = ledger
           \/ /\ session[s].kind = "provider"
              /\ \E how \in InvocationTerminal : ledger' = FinishProvider(ledger, how)
    PROVE  Client!Next
<1>1. CASE session[s].kind = "tool"
  <2>1. /\ HeldTools[s] = "running"
        /\ HeldTools' = [HeldTools EXCEPT ![s] = "nothing"]
        /\ HeldCalls' = HeldCalls
    <3>1. HeldCall(session[s], RoleOf[s]) = HeldCall(session'[s], RoleOf[s])
      BY <1>1 DEF HeldCall
    <3>2. HeldTool(session[s]) = "running" /\ HeldTool(session'[s]) = "nothing"
      BY <1>1 DEF HeldTool
    <3> QED
      BY <3>1, <3>2, HeldAfter
  <2>2. Client!EndTool(s, FALSE)
    BY <1>1, <2>1 DEF Client!EndTool
  <2> QED
    BY <2>2 DEF Client!Next, Client!ToolStep
<1>2. CASE session[s].kind = "provider"
  <2>1. /\ HeldCalls[s] = [holds |-> "guard", role |-> RoleOf[s]]
        /\ HeldCalls' = [HeldCalls EXCEPT ![s] = Client!Idle]
        /\ HeldTools' = HeldTools
    BY <1>2, HeldAfter DEF HeldCall, HeldTool, Client!Idle
  <2>2. PICK how \in InvocationTerminal : ledger' = Client!FinishProvider(ledger, how)
    BY <1>2, SameMethods
  <2>3. Client!Finish(s, how)
    BY <2>1, <2>2 DEF Client!Finish
  <2> QED
    BY <2>3, SameTypes DEF Client!Next, Client!CallStep
<1> QED
  BY <1>1, <1>2

\* The child is completed and the invocation settled.
LEMMA SettleHeld ==
    ASSUME IInv, NEW s \in Sessions, CompleteChild(s) \/ Settle(s)
    PROVE  Client!Next \/ UNCHANGED Client!vars
<1>1. /\ session[s] \in SessionRecord /\ HoldsAtStep(session[s]) /\ expired' = expired
      /\ session[s].at \in {"answered", "settling"}
  BY DEF CompleteChild, Settle, IInv, TypeOK
<1>2. session[s].budget = "guard" /\ session[s].kind \in {"provider", "tool"}
  BY <1>1 DEF HoldsAtStep, SessionRecord, Kinds
<1>3. CASE CompleteChild(s) /\ session[s].kind = "provider"
  <2>1. HeldCalls' = HeldCalls /\ HeldTools' = HeldTools
    BY <1>3, TurnCompletedMoves, HeldSame
  <2> QED
    BY <1>3, <2>1 DEF CompleteChild, Client!vars
<1>4. CASE CompleteChild(s) /\ session[s].kind = "tool"
  <2>1. ledger' = ledger
    BY <1>4 DEF CompleteChild
  <2> QED
    BY <1>1, <1>2, <1>4, <2>1, ToolCompletedMoves, GuardHeld
<1>5. CASE Settle(s)
  <2>1. session[s].kind = "provider"
    BY <1>1, <1>5 DEF Settle, HoldsAtStep
  <2>2. \E how \in InvocationTerminal : ledger' = FinishProvider(ledger, how)
    <3>1. TerminalOf(session[s].answer) \in InvocationTerminal
      BY DEF TerminalOf, InvocationTerminal
    <3> QED
      BY <1>5, <3>1 DEF Settle
  <2> QED
    BY <1>1, <1>2, <1>5, <2>1, <2>2, SettleMoves, GuardHeld
<1> QED
  BY <1>2, <1>3, <1>4, <1>5

\* An account is charged.
LEMMA ChargeHeld ==
    ASSUME IInv, NEW s \in Sessions,
           \/ \E tokens \in Amounts \cup {0}, approved \in BOOLEAN : Meter(s, tokens, approved)
           \/ \E bytes \in Amounts : Report(s, bytes)
    PROVE  Client!Next \/ UNCHANGED Client!vars
<1>1. /\ session[s] \in SessionRecord /\ HoldsAtStep(session[s])
      /\ session[s].at \in {"metering", "reporting"}
      /\ UNCHANGED <<expired, cleanup, cancelled, timed_out, owner>>
  BY DEF Meter, Report, IInv, TypeOK
<1>2. session[s].budget = "nothing"
  BY <1>1 DEF HoldsAtStep
<1>3. \/ \E approved \in BOOLEAN : session[s].at = "metering" /\ Dispatch(s, approved)
      \/ session[s].at = "reporting" /\ Goto(s, "counting")
      \/ \E status \in Statuses : Leave(s, status)
  BY DEF Meter, Report, Statuses
<1>4. Moves(s) /\ session'[s].budget = session[s].budget
  BY <1>1, <1>3, DispatchMoves, GotoMoves, LeaveMoves
<1>5. HeldCalls' = HeldCalls /\ HeldTools' = HeldTools
  BY <1>2, <1>4, HeldSame
<1>6. \/ ledger' = ledger
      \/ \E account \in Accounts, amount \in Amounts :
            ledger' = Charge(ledger, account, amount, expired)
  <2>1. "OutputTokenLimit" \in Accounts /\ "AggregateToolOutput" \in Accounts
    BY DEF Accounts
  <2> QED
    BY <2>1 DEF Meter, Report
<1>7. CASE ledger' = ledger
  BY <1>1, <1>5, <1>7 DEF Client!vars
<1>8. ASSUME NEW account \in Accounts, NEW amount \in Amounts,
             ledger' = Charge(ledger, account, amount, expired)
      PROVE  Client!Next
  <2>1. Client!Spend(account, amount)
    BY <1>1, <1>5, <1>8, SameMethods DEF Client!Spend
  <2> QED
    BY <2>1, SameTypes DEF Client!Next
<1> QED
  BY <1>6, <1>7, <1>8

\* A tool call is recorded: there is room, for this one was not recorded yet.
LEMMA CountHeld ==
    ASSUME IInv, NEW s \in Sessions, Count(s)
    PROVE  Client!Next
<1>1. /\ session[s].at = "counting" /\ HoldsAtStep(session[s]) /\ expired' = expired
      /\ ledger' = Client!RecordToolCompleted(ledger)
  BY SameMethods DEF Count, IInv
<1>2. /\ Moves(s)
      /\ session'[s].budget = session[s].budget
      /\ session[s].budget = "nothing"
  BY <1>1, CountMoves DEF HoldsAtStep
<1>3. HeldCalls' = HeldCalls /\ HeldTools' = HeldTools
  BY <1>2, HeldSame
<1>4. HeldTools[s] = "nothing"
  BY <1>2, HeldAfter DEF HeldTool
<1>5. ledger.tool_completed < MaxSessionTools * Cardinality(Sessions)
  <2>1. PICK All : All = Sessions \X (1..MaxSessionTools)
    OBVIOUS
  <2>2. /\ IsFiniteSet(All) /\ Cardinality(All) = MaxSessionTools * Cardinality(Sessions)
        /\ RecordedCalls \in SUBSET All /\ RecordedCalls # All
    BY <1>1, <2>1, OneMoreRecorded
  <2>3. /\ Cardinality(RecordedCalls) <= Cardinality(All)
        /\ Cardinality(RecordedCalls) # Cardinality(All)
        /\ Cardinality(RecordedCalls) \in Nat /\ Cardinality(All) \in Nat
    BY <2>2, FS_Subset, FS_CardinalityType
  <2>4. Cardinality(RecordedCalls) < Cardinality(All)
    BY <2>3
  <2> QED
    BY <2>2, <2>4 DEF IInv
<1>6. Client!AnswerUnstarted(s)
  BY <1>1, <1>3, <1>4, <1>5 DEF Client!AnswerUnstarted
<1> QED
  BY <1>6 DEF Client!Next, Client!ToolStep

\* A local is dropped.
LEMMA UnwindHeld ==
    ASSUME IInv, NEW s \in Sessions, Unwind(s)
    PROVE  Client!Next \/ UNCHANGED Client!vars
<1>1. /\ session[s] \in SessionRecord
      /\ expired' = expired
      /\ ledger' = UnwoundLedger(session[s], RoleOf[s])
  BY DEF Unwind, IInv, TypeOK
<1>2. /\ Moves(s)
      /\ session'[s] = Unwound(session[s])
      /\ session'[s].kind = session[s].kind
  BY UnwindMoves
<1>3. /\ session[s].budget \in {"nothing", "reservation", "guard"}
      /\ session[s].kind \in {"provider", "tool"}
      /\ session[s].child \in BOOLEAN
  BY <1>1 DEF SessionRecord, Kinds
<1>4. CASE session[s].budget = "guard"
  <2>1. session'[s].budget = "nothing"
    BY <1>1, <1>2, <1>4 DEF Unwound, SessionRecord
  <2>2. \/ session[s].kind = "tool" /\ ledger' = ledger
        \/ session[s].kind = "provider" /\ ledger' = FinishProvider(ledger, "Failed")
    BY <1>1, <1>3, <1>4 DEF UnwoundLedger
  <2>3. "Failed" \in InvocationTerminal
    BY DEF InvocationTerminal
  <2> QED
    BY <1>1, <1>2, <1>4, <2>1, <2>2, <2>3, GuardHeld
<1>5. CASE session[s].budget = "reservation" /\ ~session[s].child
  <2>1. session'[s].budget = "nothing"
    BY <1>1, <1>2, <1>5 DEF Unwound, SessionRecord
  <2>2. CASE session[s].kind = "provider"
    <3>1. /\ HeldCall(session[s], RoleOf[s]) = [holds |-> "reservation", role |-> RoleOf[s]]
          /\ HeldCall(session'[s], RoleOf[s]) = Client!Idle
      BY <1>2, <1>5, <2>1, <2>2 DEF HeldCall, Client!Idle
    <3>2. HeldTool(session[s]) = "nothing" /\ HeldTool(session'[s]) = "nothing"
      BY <1>2, <2>2 DEF HeldTool
    <3>3. /\ HeldCalls[s] = [holds |-> "reservation", role |-> RoleOf[s]]
          /\ HeldCalls' = [HeldCalls EXCEPT ![s] = Client!Idle]
          /\ HeldTools' = HeldTools
      BY <1>2, <3>1, <3>2, HeldAfter
    <3>4. ledger' = Client!DropProviderReservation(ledger, RoleOf[s])
      BY <1>1, <1>5, <2>2, SameMethods DEF UnwoundLedger
    <3>5. HeldCalls[s].holds = "reservation" /\ HeldCalls[s].role = RoleOf[s]
      BY <3>3
    <3>6. Client!DropReservation(s)
      BY <1>1, <3>3, <3>4, <3>5, Zenon DEF Client!DropReservation
    <3> QED
      BY <3>6 DEF Client!Next, Client!CallStep
  <2>3. CASE session[s].kind = "tool"
    <3>1. HeldCall(session[s], RoleOf[s]) = HeldCall(session'[s], RoleOf[s])
      BY <1>2, <2>3 DEF HeldCall
    <3>2. HeldTool(session[s]) = "reservation" /\ HeldTool(session'[s]) = "nothing"
      BY <1>2, <1>5, <2>1, <2>3 DEF HeldTool
    <3>3. /\ HeldTools[s] = "reservation"
          /\ HeldTools' = [HeldTools EXCEPT ![s] = "nothing"]
          /\ HeldCalls' = HeldCalls
      BY <1>2, <3>1, <3>2, HeldAfter
    <3>4. ledger' = Client!DropToolReservation(ledger)
      BY <1>1, <1>5, <2>3, SameMethods DEF UnwoundLedger
    <3>5. Client!DropTool(s)
      BY <1>1, <3>3, <3>4 DEF Client!DropTool
    <3> QED
      BY <3>5 DEF Client!Next, Client!ToolStep
  <2> QED
    BY <1>3, <2>2, <2>3
<1>6. CASE session[s].budget = "nothing" \/ (session[s].budget = "reservation" /\ session[s].child)
  <2>1. session'[s].budget = session[s].budget
    BY <1>1, <1>2, <1>6 DEF Unwound, SessionRecord
  <2>2. HeldCalls' = HeldCalls /\ HeldTools' = HeldTools
    BY <1>2, <2>1, HeldSame
  <2>3. ledger' = ledger
    BY <1>1, <1>6 DEF UnwoundLedger
  <2> QED
    BY <1>1, <2>2, <2>3 DEF Client!vars
<1> QED
  BY <1>3, <1>4, <1>5, <1>6

\* Every step of the stage is a step of the ledger's clients or none.
LEMMA StepsOfClients == IInv /\ [Next]_vars => [Client!Next]_(Client!vars)
<1> SUFFICES ASSUME IInv, [Next]_vars PROVE Client!Next \/ UNCHANGED Client!vars
  OBVIOUS
<1>1. ASSUME NEW s \in Sessions, SessionStep(s) PROVE Client!Next \/ UNCHANGED Client!vars
  BY <1>1, WalkHeld, ReserveHeld, CommitHeld, SettleHeld, ChargeHeld, CountHeld, UnwindHeld
     DEF SessionStep
<1>2. ASSUME NEW s \in Sessions, NEW answer \in Answers, Answer(s, answer)
      PROVE  UNCHANGED Client!vars
  BY <1>2, WalkHeld
<1>3. CASE UNCHANGED <<ledger, expired, session>>
  BY <1>3 DEF Client!vars, HeldCalls, HeldTools
<1>4. CASE MarkRunTerminal
  <2>1. /\ ~ledger.terminal /\ ledger' = Client!MarkTerminal(ledger)
        /\ UNCHANGED <<expired, session>>
    BY <1>4, SameMethods DEF IInv, OwnerWaits, MarkRunTerminal
  <2>2. Client!Terminate
    BY <2>1 DEF Client!Terminate, HeldCalls, HeldTools
  <2> QED
    BY <2>2 DEF Client!Next
<1>5. CASE Expire
  <2>1. Client!Expire
    BY <1>5 DEF Expire, Client!Expire, HeldCalls, HeldTools
  <2> QED
    BY <2>1 DEF Client!Next
<1>6. CASE \/ BeginFinish \/ CompleteFinish \/ Cancel \/ Abort \/ UNCHANGED vars
           \/ \E s \in Sessions : Timeout(s)
  BY <1>3, <1>6 DEF BeginFinish, CompleteFinish, Cancel, Abort, Timeout, vars
<1> QED
  BY <1>1, <1>2, <1>4, <1>5, <1>6 DEF Next, OwnerStep

\* The first state of the stage is the first state of the ledger.
LEMMA StartOfClients == Init => Client!Init
<1> SUFFICES ASSUME Init PROVE Client!Init
  OBVIOUS
<1>1. ledger = Client!NewLedger
  BY DEF Init, NewLedger, Client!NewLedger, Roles, Client!Roles, Accounts, Client!Accounts,
     InvocationTerminal, Client!InvocationTerminal, NoRefusal, Client!NoRefusal
<1>2. \A s \in Sessions : /\ HeldCall(session[s], RoleOf[s]) = Client!Idle
                          /\ HeldTool(session[s]) = "nothing"
  BY DEF Init, NewSessionRecord, HeldCall, HeldTool, Client!Idle
<1> QED
  BY <1>1, <1>2 DEF Init, Client!Init, HeldCalls, HeldTools

\* A stage of any number of sessions uses the ledger as ExecutionBudget says.
LEMMA StageIsClient == Spec => Client!Spec
BY StartOfClients, StepsOfClients, Invariance, PTL DEF Spec, Client!Spec

\* Budget and Client are the same instance of ExecutionBudget.
LEMMA SameProvider ==
    ASSUME NEW c
    PROVE  Client!CallStep(c) => Budget!CallStep(c)
BY DEF Budget!CallStep, Client!CallStep, Budget!Take, Client!Take, Budget!BeRefused,
   Client!BeRefused, Budget!Commit, Client!Commit, Budget!DropReservation,
   Client!DropReservation, Budget!Finish, Client!Finish, Budget!Idle, Client!Idle,
   Budget!Roles, Client!Roles, Budget!InvocationTerminal, Client!InvocationTerminal,
   Budget!ProviderRefusal, Client!ProviderRefusal, Budget!RoleLimit, Client!RoleLimit,
   Budget!NoRefusal, Client!NoRefusal, Budget!Elapsed, Client!Elapsed,
   Budget!ReserveProvider, Client!ReserveProvider, Budget!Exhaustion, Client!Exhaustion,
   Budget!ElapsedExhaustion, Client!ElapsedExhaustion, Budget!CommitProvider,
   Client!CommitProvider, Budget!SaturatingSub, Client!SaturatingSub,
   Budget!DropProviderReservation, Client!DropProviderReservation, Budget!FinishProvider,
   Client!FinishProvider

\* The same for tools.
LEMMA SameTool ==
    ASSUME NEW t
    PROVE  Client!ToolStep(t) => Budget!ToolStep(t)
BY DEF Budget!ToolStep, Client!ToolStep, Budget!TakeTool, Client!TakeTool, Budget!BeRefusedTool,
   Client!BeRefusedTool, Budget!StartTool, Client!StartTool, Budget!DropTool, Client!DropTool,
   Budget!AnswerUnstarted, Client!AnswerUnstarted, Budget!EndTool, Client!EndTool,
   Budget!ToolRefusal, Client!ToolRefusal, Budget!NoRefusal, Client!NoRefusal,
   Budget!Elapsed, Client!Elapsed, Budget!ReserveTool, Client!ReserveTool,
   Budget!Exhaustion, Client!Exhaustion, Budget!ElapsedExhaustion, Client!ElapsedExhaustion,
   Budget!CommitTool, Client!CommitTool, Budget!SaturatingSub, Client!SaturatingSub,
   Budget!DropToolReservation, Client!DropToolReservation, Budget!RecordToolCompleted,
   Client!RecordToolCompleted

\* The same for the whole of it.
LEMMA SameBudget ==
    /\ Client!Init => Budget!Init
    /\ Client!Next => Budget!Next
    /\ Client!vars = Budget!vars
<1>1. Client!Init => Budget!Init
  BY DEF Client!Init, Budget!Init, Client!NewLedger, Budget!NewLedger, Client!Roles,
     Budget!Roles, Client!Accounts, Budget!Accounts, Client!InvocationTerminal,
     Budget!InvocationTerminal, Client!NoRefusal, Budget!NoRefusal, Client!Idle, Budget!Idle
<1>2. ASSUME NEW account, NEW amount
      PROVE  Client!Spend(account, amount) => Budget!Spend(account, amount)
  BY DEF Client!Spend, Budget!Spend, Client!Charge, Budget!Charge, Client!ChargeRefusal,
     Budget!ChargeRefusal, Client!NoRefusal, Budget!NoRefusal, Client!Elapsed, Budget!Elapsed,
     Client!Exhaustion, Budget!Exhaustion, Client!ElapsedExhaustion, Budget!ElapsedExhaustion
<1>3. Client!Expire \/ Client!Terminate => Budget!Expire \/ Budget!Terminate
  BY DEF Client!Expire, Budget!Expire, Client!Terminate, Budget!Terminate, Client!MarkTerminal,
     Budget!MarkTerminal
<1>4. Client!Accounts = Budget!Accounts
  BY DEF Client!Accounts, Budget!Accounts
<1>5. Client!Next => Budget!Next
  BY <1>2, <1>3, <1>4, SameProvider, SameTool DEF Client!Next, Budget!Next
<1>6. Client!vars = Budget!vars
  BY DEF Client!vars, Budget!vars
<1> QED
  BY <1>1, <1>5, <1>6

\* The sessions of a stage, any number of them in any interleaving, use the
\* ledger as ExecutionBudget says its clients do.
THEOREM StageUsesBudget == Spec => ImplementsBudget
<1>1. [Client!Next]_(Client!vars) => [UNCHANGED Budget!vars \/ Budget!Next]_(Budget!vars)
  BY SameBudget DEF Client!vars, Budget!vars
<1>2. Client!Init => Budget!Init
  BY SameBudget
<1> QED
  BY <1>1, <1>2, StageIsClient, PTL DEF Client!Spec, ImplementsBudget

-----------------------------------------------------------------------------
(* What is proved of the ledger holds of every stage.                      *)

\* When every session has returned, however it ended, nothing is reserved and
\* every started invocation was recorded with its terminal.
THEOREM StageSettles == Spec => []LedgerSettled
<1>1. Client!Spec => []Client!AccountsExact
  BY Client!ExactAccounts, ClientAssumptions
<1>2. IInv /\ Client!AccountsExact => LedgerSettled
  <2> SUFFICES ASSUME IInv, Client!AccountsExact,
                      \A s \in Sessions : session[s].at = "returned"
               PROVE  /\ ledger.provider_reserved = 0
                      /\ ledger.tool_reserved = 0
                      /\ ledger.provider_started
                            = ledger.provider_ended["Completed"] + ledger.provider_ended["Failed"]
                              + ledger.provider_ended["Cancelled"]
                              + ledger.provider_ended["TimedOut"]
    BY DEF LedgerSettled
  <2>1. \A s \in Sessions : /\ session[s].budget = "nothing"
                            /\ session[s].kind \in {"provider", "tool"}
    BY DEF IInv, TypeOK, SessionRecord, Kinds, HoldsAtStep
  <2>2. \A s \in Sessions : HeldCalls[s].holds = "nothing" /\ HeldTools[s] = "nothing"
    BY <2>1 DEF HeldCalls, HeldTools, HeldCall, HeldTool
  <2>3. Client!Reserved = {} /\ Client!InFlight = {} /\ Client!ReservedTools = {}
    BY <2>2 DEF Client!Reserved, Client!InFlight, Client!ReservedTools
  <2>4. Client!Cardinality({}) = 0
    BY SameSizes, FS_EmptySet
  <2>5. /\ ledger.provider_ended["Completed"] \in Nat /\ ledger.provider_ended["Failed"] \in Nat
        /\ ledger.provider_ended["Cancelled"] \in Nat /\ ledger.provider_ended["TimedOut"] \in Nat
    BY DEF IInv, TypeOK, LedgerState, InvocationTerminal
  <2> QED
    BY <2>3, <2>4, <2>5 DEF Client!AccountsExact, Client!Ended
<1> QED
  BY <1>1, <1>2, StageIsClient, Invariance, PTL

\* No stage overspends its run, whatever its sessions do and however many
\* there are: what is started and what is reserved stays within every limit.
THEOREM StageWithinLimits == Spec => []Budget!WithinLimits
<1>1. Client!Spec => []Client!WithinLimits
  BY Client!NoOverspend, ClientAssumptions
<1>2. Client!WithinLimits => Budget!WithinLimits
  BY DEF Client!WithinLimits, Budget!WithinLimits, Client!Accounts, Budget!Accounts
<1> QED
  BY <1>1, <1>2, StageIsClient, PTL

\* Once the run is terminal or out of time, no step of any session is granted an
\* invocation, a tool call or a charge.
THEOREM StageRespectsEnd == Spec => Budget!NothingGrantedAfterEnd
<1>1. Client!Spec => Client!NothingGrantedAfterEnd
  BY Client!EndIsFinal, ClientAssumptions
<1> QED
  BY <1>1, StageIsClient, PTL
     DEF Client!NothingGrantedAfterEnd, Budget!NothingGrantedAfterEnd, Client!vars, Budget!vars
=============================================================================
