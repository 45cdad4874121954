# Syndrid orchestration: TLA+ models, TLC runs and TLAPS proofs

SyndridCLI is a fork of the Codex CLI. What it adds is an orchestration runtime:
one user turn is planned, executed by a batch of subagents, verified and possibly
repaired, each role on its own provider, under one execution budget, one cleanup
ledger and one session state. This directory models that runtime. The upstream
Codex code is outside it.

All paths below are relative to `src/codex-rs/core/src/syndrid_orchestration/`
unless they start with `src/`.

## 1. Inventory

| Component | State | Operations | Interaction |
|---|---|---|---|
| Session execution state (`session_execution.rs`) | one record under a mutex: status, active and next generation, selections, resolved policy, validation, routing-update flag | select_mode/strategy/routing_profile, begin_routing_update, begin_run, transition, terminalize_generation, mark_policy_valid/invalid, reset_to_idle, mark_timed_out_after_cleanup | called by the coordinator, the TUI's selections and re-routing, and the app server |
| Execution budget ledger (`execution_budget*.rs`) | counters under a mutex, a deadline, a terminal mark | reserve/commit/drop of provider and tool reservations, invocation guards, charges, mark_terminal | shared by every subagent session of a run |
| Cleanup ownership (`orchestration_cleanup.rs`) | open children and reservations by handle, requested and complete flags, generation | register, settle, begin, complete, guards with Drop | every role stage, provider call and tool call registers here |
| Terminal cause arbitration (`orchestration_failure.rs`) | the accepted cause, frozen flag | submit, freeze | stages, timeout and lifecycle submit; `finish_outcome` freezes |
| Subagent session (`subagent.rs`, `subagent_tools.rs`) | locals of one async task: turns, tool calls, guards | run_subagent, run_tool_session | uses ledger, cleanup, provider, tools; ended by token or timer |
| Subagent batch (`subagent_batch.rs`) | slots, next index, aggregate reservation, JoinSet, three flags, the token | run | spawns sessions, joins them, cancels the rest |
| Repair (`subagent_repair.rs`) | the timer of the repair, which attempt runs | run (an attempt with the original instruction, then one with the correction); a batch of repairs, called by tests only | the repair stage of the coordinator, on the run's ledger and token |
| Live coordinator (`live_coordinator*.rs`) | stage, role outcomes | run, run_inner, finish_outcome | owns a run from begin_run to the terminal transition |
| Production lifecycle (`production_lifecycle.rs`) | handle, coordinator and bridge tasks, first cancellation reason | request_cancel, complete, shutdown, abort_and_join, Drop | owns the tasks of one turn for the app server |
| Production turns (`src/codex-rs/app-server/src/thread_state.rs`, `request_processors/turn_processor.rs`, `src/codex-rs/app-server-client/src/production_orchestration_turn.rs`) | the registered turn and its task | turn/start, turn/interrupt, clear_listener, clear_production_orchestration | starts, cancels and reports a turn |
| Production request and dispatch (`production_request.rs`, `production_dispatch.rs`) | per turn: the binding of each role, the reported routes, the selection gate | begin_turn, prepare_role_binding, prepare_round_robin_binding, invoke | picks the account of every provider call of a turn; parallel subagents share it |
| Rotation, cooldown, account pools (`rotation_state.rs`, `cooldown_state.rs`, `account_pools.rs`) | round-robin cursors and cooldown deadlines in memory, the pool registry on disk | reserve_next_eligible_member, commit, record, status, load/save of the registry | used by dispatch; cursors and cooldowns outlive a turn |
| Observability (`orchestration_observability*.rs`, `observation_delivery.rs`) | a watch channel of snapshots with a sequence number | publish, deliver | published by the coordinator alone, read by the TUI |
| Routing profiles, modes, policies (`routing_profiles.rs`, `execution_modes.rs`, `orchestration_policy.rs`, `role_capabilities.rs`, `strategy_candidates.rs`) | registries | validate, resolve | read before a run |
| Provider adapters and credentials (`invocation.rs`, `openrouter_*.rs`, `omniroute.rs`, `codex_*.rs`, `openai_compatible.rs`, `credential_store.rs`) | connection, OAuth state | HTTP calls, key storage | behind `SubagentProvider` |
| Sequential workflow crate (`src/codex-rs/orchestration/src/`) | stage cursor, handoffs | begin_stage, complete_stage | a deterministic machine of an earlier path (`run_orchestrated_task`); a production turn does not use it |
| Client composition and session re-routing (`src/codex-rs/tui/src/syndrid_composition.rs`, `src/codex-rs/tui/src/app/event_dispatch.rs`, `src/codex-rs/app-server/src/production_turn.rs`, `src/codex-rs/app-server-client/src/trusted_*.rs`) | the published runtime, the session override and saved profile, the saved default, the setup dialog; on the server the authorization of the next turn | select strategy or mode, open, edit, cancel and apply a setup, save or clear a routing, install a runtime, authorize a turn | selects on the session, re-routes under a guard, sends runtimes to the server; reads `is_task_running` |
| Terminal user interface (`src/codex-rs/tui/src/`) | widgets | screens and layout | turns input into the events above |

### What is hard

* **Interleavings.** The ledger, the cleanup, the cause arbiter and the session are each one
  mutex, and every method is one critical section, but an operation of a run takes many of them:
  a provider call takes seven, `turn/start` takes three. Anything may happen in between.
* **Drops.** A future is dropped where it awaits (timeout, `select!`, abort). Guards give back
  what they hold in `Drop`; whatever is not owned by a guard stays as it was.
* **Three clocks.** A subagent has its own timeout, the batch has one, the coordinator has a total
  one, and the lifecycle bounds `complete()`. Each may fire in the step in which the work ends.
* **Steps that may fail one by one.** Applying a setup selects a strategy and a mode, saves, takes a
  guard, installs, publishes and gives back; each may fail and has its own restoration, while turns
  start and end on other threads.
* **Cancellation.** Tokens form a tree (run, batch, task). `select!` may take the answer although
  the token is cancelled.
* **Stale callers.** A run that was abandoned or timed out may still call the session or the
  cleanup with its old generation.
* **Persistence.** Registries of pools and profiles and the saved setup survive a process. Runs,
  ledgers, sessions, cursors and cooldowns do not: a crash loses them, and nothing recovers them.

### What makes each component correct

| Component | Correctness |
|---|---|
| Session | one owner at a time; an old generation is powerless; selection is frozen while a run or an update holds the session; Running only with a validated policy |
| Ledger | never above a limit however many sessions reserve at once; reserved and in-flight equal what is really held; nothing granted after the end |
| Cleanup | open work is exactly what guards hold; complete implies quiet; the strongest cause wins in any order |
| Subagent session | returns although a provider never answers; leaves ledger and cleanup settled on every path; starts almost nothing after cancellation |
| Batch | every task has a final state; a failure stops the batch under CancelRemaining |
| Coordinator | the session ends in the status the outcome says; Completed only through the gates; a timeout is reported as one |
| Repair | a rejected result completes only through an attempt that succeeded; a repair that runs out of time has timed out, however its session ends, and the session is waited for |
| Dispatch, rotation, cooldown | in one turn a role keeps one account, however many calls select at once or are dropped in between; no eligible member of a pool is passed over for long, and the pool is not given up while one is left; an account rests as long as its failures asked; the reported route is the used one; nobody is stuck behind the gate |
| Setup and re-routing | routing never changes under a run; a failed re-routing leaves app and server as they were; what the app shows is what the server runs, unless the server refused the way back |
| Lifecycle and turns | nothing runs that no interrupt or teardown can reach; a turn gives the thread up; a failed turn says so |

## 2. Modules and how they correspond to the code

Two kinds of module. A *record* module has no variables: its operators are the methods of a
mutex-protected struct, functions from a record to a record (`CanX` is the condition under which
`x` returns Ok; a call that returns an error and changes nothing is a disabled action). A
*specification* module has the callers as processes.

| Module | Models | State | Actions |
|---|---|---|---|
| `SessionState` | `session_execution.rs` methods | - | record operators |
| `SessionExecution` | the session and everybody who holds a clone of it | `session` is `SessionExecutionInner`; `pc`, `generation` of each run; `guards` the `SessionRoutingUpdateGuard`s | one per call of the session from `run`/`run_inner`, one per selection of the user, take and drop of a routing guard, reset |
| `SessionSetup` | the client's event handlers around the session; extends `SessionExecution` | `server` the authorization and whether it is stranded (history), `routes` published runtime, override and saved profile, `default`, `dialog`, `ui` the place and locals of the current handler, `task_running`, `turn` and `bound` of each run | one per event, one per step of a handler between two calls that may fail, the restorations, the three steps of a turn's admission |
| `RunOccupancy` | what the session promises: one owner at a time | owner | take, give back, lose |
| `BudgetState` | `ExecutionBudgetLedger` methods | - | record operators |
| `ExecutionBudget` | concurrent holders of reservations and guards | `ledger`, `expired`, what each call holds | reserve, refusal, commit, drop, finish, charge, expire, terminal |
| `CleanupState` | `OrchestrationCleanup` and `TerminalCauseArbiter` methods | - | record operators |
| `OrchestrationCleanup` | owners of child and reservation guards, submitters of causes, `finish_outcome` | `cleanup`, `cause`, `guard` of each owner | take, release, submit, begin, freeze, complete |
| `SubagentSession` | `run_subagent` and `run_tool_session`, several at once over one ledger and cleanup, and the owner that joins them | `ledger`, flags of the cleanup, locals of each session | the seven steps of a call, answers, interruption, unwinding, drop, the steps of the owner |
| `SubagentBatch` | `SubagentBatchRuntime::run`, the executor stage of `LiveCoordinator` | `slot`, `next`, `reserved`, flags, token | spawn, refuse, join, timeout, cancel, end |
| `LiveCoordinator` | `run`, `run_inner`, `finish_outcome`, and `SubagentRepairRuntime::run`; extends `SubagentBatch`, `CleanupState`, `SessionState` | `contract` of the request, the three records, `stage`, `role` outcomes, whether the provider verifier rejected, `outcome` | one per stretch between two awaits, both attempts of a repair and its timeout included |
| `PoolDispatch` | `ProductionRoleDispatcher`, `rotation_state.rs`, `cooldown_state.rs` | `cooling`, `cursors`, `turn_cache`, `selected_routes`, `gate`, the place of each call | begin and end of a turn, the steps of a call under one lock or between two awaits, drop of a call at any await, the clock |
| `ProductionTurn` | `turn/start`, `turn/interrupt`, listener teardown, the task of a turn with its `ProductionOrchestrationLifecycle` | the thread state, task/coordinator/bridge of each turn, marks of aborts, first reason | the three steps of `turn/start`, interrupt, teardown, the steps of the task, Drop |

Composition: `LiveCoordinator` runs `SubagentBatch` as its executor stage on the same records that
`SessionExecution` and `OrchestrationCleanup` use. `SubagentSession` refines `ExecutionBudget`
(`ImplementsBudget`), so what is proved of the ledger with arbitrary clients holds for the ledger
under real sessions. `SessionExecution` refines `RunOccupancy`; `SessionSetup` puts the client
around the same runs, so its run checks the session's properties with the callers the program has.
`PoolDispatch` stands beside `SubagentSession`: it is what happens inside one provider call.
`ProductionTurn` keeps of the coordinator only that it takes and gives back the session.

Abstractions worth knowing:

* Names, prompts, payloads and messages are absent; a role's answer is one of the kinds the code
  tells apart.
* The ledger's charge accounts are one function from accounts to counters.
* In `SubagentSession` the cleanup is its two flags, because `NoOrphans` shows that what it has
  open is what the guards hold.
* In `SubagentBatch` one sum stands for the three sums the code reserves in the same way.
* In `LiveCoordinator` the validations before the first role are one verdict, and so are the other
  errors of the batch's `validate()`, which all end the run as Failed. What is prepared for a repair is
  ready, or cannot be, or has no budget: the last two end the run differently. A repair session is one
  step, as every role is; `SubagentSession` opens it.
* In `SessionSetup` whether a runtime can be assembled for a strategy, mode and profile is a constant
  relation; a message to the server is taken or refused (a full or closed queue). A session
  whose runtime cannot be assembled starts without one. The pool candidate of the dialog is left out,
  and so is applying a setup without a routing candidate: opening the dialog always makes one.
  `server.stranded` is history: an attempt to go back to the old runtime failed, which the code can
  only report, and nothing was installed since. Of the runtime a turn was admitted with the model keeps
  the strategy, which is all that is compared later. The saved default is read at the next start only,
  so the run's `VIEW` leaves it out.
* In `PoolDispatch` `cooling[t]` is `expires_at - now`, so an expired and a removed record are both 0;
  an edition of a pool is its fingerprint; a target without a cooldown key is one whose failures carry
  no hint. A role may have no automatic candidates: in an automatic turn an exact one is then taken
  from its assignment, and a pooled one gives the gate back, asks for it again, looks at the cache
  again and selects without recording a route. The look at the cooldown and the call are two steps. A
  member whose binding cannot be built ends the call with the cursor still before it. `resting`, the
  rests that were asked for, `warned`, what of them a call has seen since it began, `recovered`,
  whether a cooldown ended while it was selecting, and `waits` are history.
* `ImplementsBudget` is stated over the ledger's variables with the stutter as its first disjunct, so
  that TLC need not look for a ledger action to explain a step that leaves the ledger alone.
* In `ProductionTurn` a turn is its number; the code's ids are UUIDs. `turn/start` fetches the thread
  state and locks it in one step. The module leaves out the Codex turns of the thread (an active one
  refuses the request, which changes nothing), the removal of the thread's entry from the manager, panics of the coordinator, and the owner's `request_cancel` and `shutdown`, which
  only tests call. A free session may still refuse a run, for the reasons `SessionExecution` has.

## 3. Runs

| Run | Asks | Bounds |
|---|---|---|
| `setup` | Do runs, re-routings and selections ever share the session, or use an old generation? Does routing change under a run? Does a failed re-routing restore everything? Is what the app shows what the server runs? Does the session refine `RunOccupancy`? | 3 runs, 2 generations, 3 events, 2 strategies x 2 modes x 2 profiles with one combination that cannot be assembled |
| `setup_preview` | (violated) Does a setup that is not applied leave the session alone? | the same |
| `session_reuse` | (violated) Does a refusal mean that another run is live? | `SessionExecution` with 3 runs, 2 generations, 2 updaters, 2 x 2 selections with one unresolvable pair; nobody calls `reset_to_idle` |
| `budget` | Are limits kept and counters exact under every interleaving of reserve, commit, drop and charge? | 2 calls, 2 tool calls, 2 provider starts, 1 tool start |
| `cleanup` | Can work be orphaned, begun late, or a weaker cause win? | 2 owners and a stale one, 3 handles |
| `subagent` | Does every exit of a session settle ledger and cleanup? Does it refine the ledger's specification? Does it return although its provider never answers? | 2 sessions, 2 turns and 1 tool call each, 2 provider starts for both together |
| `coordinator` | Does the session agree with the outcome? Is Completed earned, through a repair if the verifier or the host rejected? Is a timeout reported as one? Is no task lost, and does a failure stop the rest? Does every run end? | 2 tasks one by one or side by side, an aggregate budget for 1 or 2, all contracts, both failure policies, both attempts of a repair |
| `coordinator_partial` | (violated) Is a Completed run whole? | the same |
| `dispatch` | Does a role keep its account? Is the pool used fairly, and given up only when nothing is left? Does an account rest as long as it asked? Is the reported route the used one? Does every call come to an end? | 2 callers, a pooled and an exact role, 2 accounts, a pool and its edited form, hints of up to 2 ticks or none, manual and automatic turns, each role with and without candidates |
| `turn` | Is anything ever out of reach of interrupt and teardown? Does a turn give the thread up? | 2 turns |
| `turn_report` | (violated) Does the client hear of every failed turn? | 2 turns |
| `turn_session` | (violated) Is a turn's status final only after its run gave the session back? | 2 turns |

**Why the bounds are enough to be interesting.** Three runs with two generations include the
refused, the abandoned and the late run, and the exhaustion of the generation counter. Two calls
with two starts compete for the last one. Two sessions over a ledger of two starts (each wants
two) are refused in the middle of their work. Three events are a setup opened, edited and applied,
or two re-routings and a selection. Two tasks include the one that waits for the other, the one that
runs beside it, and the one the budget refuses. Two callers of one role meet at the selection gate,
between its two locks, and in flight to the account both fail on, with hints of different lengths; two
members with one edited away make a cursor point past its pool. Two turns are a turn and the
one that replaces it. Counters that only grow (`MaxRejected`, `MaxCompleted`, `MaxGeneration`,
`MaxHandle`, `MaxTurns`, `MaxEvents`) have a named bound in the guard, and a cooldown is at most
`MaxHint` ticks. Limits are chosen so that each of them refuses something.

`dispatch` checks for deadlock: turns follow one another and a call can always go on or be dropped.
Elsewhere `CHECK_DEADLOCK FALSE` is said because everything ends: runs, batches and turns are finite
and the bounds on counters stop the rest. That they end well is said by the properties.

**Mutants.** Beside a definition there may be one whose comment begins with "Mutant:", the same
definition with a mistake that this code could have (a dropped guard, a missing reset, an
off-by-one). It is used by no specification; put in the place of the definition it makes TLC find the
property `PROJECT.json` names violated, which shows that the property depends on the code.

**Fairness.** tokio polls a ready task, so the steps of a task that can run are weakly fair; timers
fire, so timeouts are; an abort takes effect when its task yields. Providers, tools and users are
not fair: a provider may never answer (`subagent`), a role is relied upon to end only once its token
is cancelled (`coordinator`), a coordinator need not end at all (`turn`). The selection gate of
`dispatch` is a tokio mutex, which serves its waiters in order: acquiring it is strongly fair. The
client of a turn drains its event channel or drops it: a client that does neither blocks the task in
`send`, which is outside the claim.

## 4. Proofs

TLAPS proves for all values of the constants what the runs check on small ones:

* `SessionExecutionProofs`. The properties of the session that `setup` checks, including the
  refinement of `RunOccupancy`, and three more that no run lists: types, `RunningIsValidated` and
  that the selection is frozen while a run or an update holds the session. They are theorems of
  `SessionExecution`, whose callers may call anything at any time. The inductive invariant adds to
  them that an abandoned run keeps the session, that there is at most one holder, that an unheld
  session is not active, that no two runs share a generation, that every generation in use was
  issued before `next_generation`, and that the policy is validated from `mark_policy_valid` on. The
  last is needed since `RunningIsValidated` alone does not survive `EnterRunning`.
* `SessionSetupProofs`. Every step of the client or of a turn is, for the session, one of its own
  steps or none (`ClientUsesSession`), so the theorems on the session hold with this client. The routing
  properties of `setup` follow from an invariant of the handlers, one part per question: the guard is
  held at every step of a re-routing, a failure is noted only on the way back, the published routing is
  the old one until a publication succeeds, and server and app differ only at the steps between the
  installation and the publication or its undoing, unless the server refused the undoing.
* `ExecutionBudgetProofs`. `WithinLimits`, `AccountsExact` and `RoleAccountsBalance` are inductive
  together with the types and not one by one: that a drop does not make a counter negative follows
  from the exactness of the accounts, whose preservation needs cardinalities of the sets of holders
  (`FiniteSetTheorems`). Assumes that there are finitely many calls.
* `OrchestrationCleanupProofs`. `HandlesGiven` (a guard's handle is below the next one) is the
  strengthening that makes `OpenIffGuarded` inductive: a new handle is nobody else's.
* `ProductionTurnProofs`. `TaskOwns` ties the lifetimes of coordinator and bridge to the point the
  task has reached and every started turn to `admitted`; `UnregisteredTurnIsCancelled` says the same
  as `UnregisteredRunIsCancelled` for an admitted turn whose coordinator is not spawned yet: a
  teardown may come between the steps of `turn/start`, and the coordinator spawned afterwards must
  find its token cancelled.

* `LiveCoordinatorProofs`. The safety properties of the batch and of the coordinator, for any number of
  tasks, any concurrency and budget. `BatchInv` is what the loop of the batch keeps: tasks are spawned
  in order, the loop ends only for a reason that shows in its flags, and under CancelRemaining a joined
  failure has cancelled the token. `RunInv` says what each stage of the run may rely on: the status and
  generation of the session, the one child that is open while a role is awaited and how many handles
  were given out (so that registering the next never fails), that the only cause before the end can be
  the total timeout, and the gates passed so far, a rejection that still waits for its repair included.
  `SessionMatchesOutcome` alone is not inductive, since
  `finish_outcome` calls three records, each of which may refuse; the stage facts show that none does.
* `PoolDispatchProofs`. For any callers, roles, targets and pools. `OneTargetPerRole`: what is called
  is what the turn holds for the role, and that is written once, by a caller that has the gate and found
  the cache empty after it had it. `RotationFair`: a member that has waited w times while eligible is at most
  n - 1 - w places ahead of the cursor in a pool of n, so w stays below n. The step uses that
  `reserve_next_eligible_member` takes the eligible member nearest to the cursor; that there is a
  nearest one is the existence of a least element of a set of naturals, taken from the well-foundedness of
  `<` (`WellFoundedInduction`). `RestHonoured`: the recorded cooldown
  is never shorter than what the target asked for, and what a call has passed its check for was not
  resting when it began. `NothingLeftToTry`: unless a cooldown has ended, every try but the last found one
  member fewer, so as many tries as the pool has members leave none; the argument counts the members
  that were cooling at each look (`FiniteSetTheorems`).
* `SubagentSessionProofs`. `StageUsesBudget` is the refinement: every step of a session, of the
  coordinator or of a timer is a step of the ledger's clients or leaves them alone. It needs what the locals of
  a session hold at each step (`HoldsAtStep`), that the run is not terminal before the coordinator says so
  (`OwnerWaits`), and that the bounds of `ExecutionBudget` are never in the way: a refused session is on its way
  out, so refusals are at most as many as sessions; and the recorded tool calls are the pairs of a session and
  the number of a call it has reported, a subset of all the pairs there can be, to which a record always
  adds one. `ExecutionBudgetProofs` is then instantiated with the sessions as clients, and its theorems
  hold of every stage: `StageSettles` (`LedgerSettled`), `StageWithinLimits` and `StageRespectsEnd`.
  `CleanupAccepted` and `LittleLate` follow from the invariant; the second needs that a session
  which can still start something has not done so since the cancellation (`LateAtStep`).

Each inductive invariant was also checked by TLC as an invariant of its run before it was proved.

Assumptions are the named `ASSUME`s of the modules, all evaluated by TLC on every run. Besides types
and finiteness there is one: `CoordinatorAssumption` says that the run under study is the first of its
session (its generation is 1) and that the cap on handles leaves room for the four children a run
registers; the cap stands for the u64 of the code.

**Only model-checked**: the four liveness properties `SessionsReturn`, `RunEnds`, `CallsAnswered` and
`TurnReleased`. They rest on fairness, which is beyond the prover. Every invariant and action property
that a passing run checks is a theorem.

## 5. Findings

1. `session_reuse`. `begin_run` refuses a session whose last run has ended with
   `RunAlreadyActive`, and no code outside the tests calls `reset_to_idle`.
2. `coordinator_partial`. A batch that timed out or ran out of its budget leaves tasks TimedOut,
   Cancelled or NotStarted; the run is reported as Completed.
3. `turn_report`. A failed turn clears its registration before it reports; a new `turn/start` in
   between aborts the reporting task.
4. `turn_session`. `complete()` aborts a run after 30 s without cancelling it first, so
   `finish_outcome` never runs and the session is never given back.
5. `setup_preview`. The readiness check of the setup dialog selects the candidate on a clone of the
   session that shares its state: opening or editing the dialog changes the live selection, and
   Cancel leaves it changed while the server still runs the old runtime.

Each is stated, with the line of the document or comment it contradicts, in `PROJECT.json`.

Two observations have no run, because no document states the rule they would break. When a saved
setup fails later, the default is put back to the session's selection
(`src/codex-rs/tui/src/app/event_dispatch.rs:1820`), which need not be the default that was on disk.
And the first attempt of a repair repeats the original instruction (`subagent_repair.rs:347`); when it
succeeds the result counts as repaired.

## 6. Not modelled

* Upstream Codex: the agent, sandbox, protocol, state stores and the chat interface. It is more than
  nine tenths of the repository's lines and none of its behaviour is the orchestration's; a turn of
  the orchestration uses it behind the provider, tool and notification interfaces the models have. The
  share of the repository that the models cover is therefore small, and of
  `syndrid_orchestration/` and its client it is the part that keeps state.
* Provider adapters and credentials: HTTP, OAuth, platform key stores. A provider is a call that
  answers, fails or never returns.
* Registries and validations of routing profiles, modes, policies and account pools: no state that
  two actors share; their verdict is an input.
* The batch of repairs and `reserve_next_member`, which only tests call.
* Observability: projections for display, with one publisher.
* The sequential workflow and the orchestration adapter: an earlier path with one caller.
* Conversions of results and handoffs, screens of the terminal user interface.

## 7. Plan

What the models say of safety is proved. Worth doing next:

1. Relate `SubagentSession` to `OrchestrationCleanup` as it is related to `ExecutionBudget`: the flags
   and the guards of the sessions stand for a cleanup with handles, which needs a history of the
   handles that the sessions were given.
2. State between `SubagentBatch` and `SubagentSession` what a batch relies on: a task whose token is
   cancelled ends, and the state it is joined with is the status its session returned.
3. The parts of the liveness arguments that are safety: at every step that is not the last, some
   fair action is possible.
