--------------------------- MODULE SubagentBatch ---------------------------
(***************************************************************************)
(* SubagentBatchRuntime::run: one loop that spawns the tasks of a batch    *)
(* into a JoinSet, joins whichever ends first, and cancels the rest when a *)
(* task fails, the batch budget is spent, its timeout passes or its caller *)
(* cancels.  The JoinSet is the set of tasks whose slot is "Running".      *)
(*                                                                         *)
(* A task is a call of run_subagent, of which only the end is of interest  *)
(* here (SubagentSession shows that it ends).  Three sums are reserved     *)
(* alike for a batch (provider turns, tool calls, output bytes); one       *)
(* stands for them.                                                        *)
(***************************************************************************)
EXTENDS Integers, FiniteSets

CONSTANTS
    NumTasks,           \* the tasks of the request, which validate() accepted
    MaxBatchConcurrency,\* SUBAGENT_BATCH_MAX_CONCURRENCY
    Needs,              \* what a task may use of the batch budget
    BatchLimits         \* the batch budgets a policy may set

Tasks == 1..NumTasks

ASSUME BatchAssumption ==
    /\ NumTasks \in Nat \ {0}
    /\ MaxBatchConcurrency \in Nat \ {0}
    /\ BatchLimits \subseteq Nat
    /\ \A limit \in BatchLimits : Needs \subseteq 0..limit

VARIABLES
    request,            \* its policy and tasks: never changes
    slot,               \* SubagentTaskState of each task
    answer,             \* how each spawned task ended
    next,               \* the next task to spawn
    reserved,           \* AggregateReservation
    phase,              \* where the loop is
    stopped,            \* `cancelled`
    timed_out,
    budget_exhausted,
    token               \* request.cancellation is cancelled

batch == <<request, slot, answer, next, reserved, phase, stopped, timed_out,
           budget_exhausted, token>>

SubagentTaskState ==
    {"Queued", "Running", "Completed", "Failed", "Cancelled", "TimedOut",
     "BudgetExhausted", "NotStarted"}

\* How a task ends: with an outcome or an Err ("Failed"), or by a JoinError.
Outcomes == {"Completed", "Failed", "Cancelled", "TimedOut", "BudgetExhausted"}
JoinErrors == {"panicked", "aborted"}

BatchRequest ==
    [ failure_policy : {"ContinueIndependent", "CancelRemaining"},
      max_concurrency : 1..MaxBatchConcurrency,
      need : [Tasks -> Needs],
      limit : BatchLimits ]

BatchInit ==
    /\ request \in BatchRequest
    /\ slot = [t \in Tasks |-> "Queued"]
    /\ answer = [t \in Tasks |-> "none"]
    /\ next = 1
    /\ reserved = 0
    /\ phase = "spawning"
    /\ stopped = FALSE
    /\ timed_out = FALSE
    /\ budget_exhausted = FALSE
    /\ token = FALSE

JoinSet == {t \in Tasks : slot[t] = "Running"}

-----------------------------------------------------------------------------
\* The condition of the inner loop.
CanSpawn ==
    /\ ~stopped
    /\ ~token
    /\ next <= NumTasks
    /\ Cardinality(JoinSet) < request.max_concurrency

\* Mutant: each task is compared with the whole budget.
FitsWithoutSum(t) == request.need[t] <= request.limit

\* AggregateReservation::reserve
Fits(t) == reserved + request.need[t] <= request.limit

Spawn ==
    /\ phase = "spawning"
    /\ CanSpawn
    /\ Fits(next)
    /\ reserved' = reserved + request.need[next]
    /\ slot' = [slot EXCEPT ![next] = "Running"]
    /\ next' = next + 1
    /\ UNCHANGED <<request, answer, phase, stopped, timed_out, budget_exhausted, token>>

\* Mutant: a task that does not fit is passed over.
RefuseSpawnSkipping ==
    /\ phase = "spawning"
    /\ CanSpawn
    /\ ~Fits(next)
    /\ next' = next + 1
    /\ UNCHANGED <<request, slot, answer, reserved, phase, stopped, timed_out,
                   budget_exhausted, token>>

\* The aggregate reservation fails: nothing more is spawned.
RefuseSpawn ==
    /\ phase = "spawning"
    /\ CanSpawn
    /\ ~Fits(next)
    /\ budget_exhausted' = TRUE
    /\ stopped' = TRUE
    /\ UNCHANGED <<request, slot, answer, next, reserved, phase, timed_out, token>>

\* Mutant: a batch that is being stopped does not join what it spawned.
EndSpawningEarly ==
    /\ phase = "spawning"
    /\ ~CanSpawn
    /\ IF JoinSet = {} \/ stopped
       THEN /\ phase' = "done"
            /\ slot' = [t \in Tasks |-> IF slot[t] = "Queued" THEN "NotStarted" ELSE slot[t]]
            /\ UNCHANGED token
       ELSE /\ token' = token
            /\ phase' = IF token THEN "draining" ELSE "joining"
            /\ UNCHANGED slot
    /\ UNCHANGED <<request, answer, next, reserved, stopped, timed_out, budget_exhausted>>

\* Nothing more to spawn for now: the batch is over, is being stopped (its
\* token is cancelled and what runs is drained), or joins the next task.
EndSpawning ==
    /\ phase = "spawning"
    /\ ~CanSpawn
    /\ IF JoinSet = {}
       THEN /\ phase' = "done"
            /\ slot' = [t \in Tasks |-> IF slot[t] = "Queued" THEN "NotStarted" ELSE slot[t]]
            /\ UNCHANGED token
       ELSE /\ token' = (token \/ stopped \/ timed_out)
            /\ phase' = IF token' THEN "draining" ELSE "joining"
            /\ UNCHANGED slot
    /\ UNCHANGED <<request, answer, next, reserved, stopped, timed_out, budget_exhausted>>

\* batch_timeout passes before a task is joined.
BatchTimeout ==
    /\ phase = "joining"
    /\ timed_out' = TRUE
    /\ token' = TRUE
    /\ phase' = "draining"
    /\ UNCHANGED <<request, slot, answer, next, reserved, stopped, budget_exhausted>>

\* The state a joined task is given.
JoinedState(t) ==
    CASE answer[t] = "panicked" -> "Failed"
      [] answer[t] = "aborted"  -> IF timed_out THEN "TimedOut"
                                   ELSE IF token THEN "Cancelled" ELSE "Failed"
      [] OTHER -> IF timed_out /\ answer[t] = "Cancelled" THEN "TimedOut" ELSE answer[t]

\* Mutant: CancelRemaining is forgotten.
StopsBatchNever(state) == FALSE

StopsBatch(state) ==
    state \in {"Failed", "BudgetExhausted"} /\ request.failure_policy = "CancelRemaining"

Join(t) ==
    /\ phase \in {"joining", "draining"}
    /\ t \in JoinSet
    /\ answer[t] # "none"
    /\ LET state == JoinedState(t) IN
       /\ slot' = [slot EXCEPT ![t] = state]
       /\ budget_exhausted' = (budget_exhausted \/ state = "BudgetExhausted")
       /\ token' = (token \/ StopsBatch(state))
       /\ stopped' = (stopped \/ timed_out \/ token')
    /\ phase' = "spawning"
    /\ UNCHANGED <<request, answer, next, reserved, timed_out>>

\* A task ends, in whichever way.
TaskEnds(t, how) ==
    /\ t \in JoinSet
    /\ answer[t] = "none"
    /\ answer' = [answer EXCEPT ![t] = how]
    /\ UNCHANGED <<request, slot, next, reserved, phase, stopped, timed_out,
                   budget_exhausted, token>>

\* final_state
BatchStatus ==
    IF timed_out THEN "TimedOut"
    ELSE IF budget_exhausted THEN "BudgetExhausted"
    ELSE IF token \/ stopped THEN "Cancelled"
    ELSE IF \E t \in Tasks : slot[t] = "Failed" THEN "PartiallyFailed"
    ELSE "Completed"

LoopStep == Spawn \/ RefuseSpawn \/ EndSpawning \/ \E t \in Tasks : Join(t)

TaskStep(t) == \E how \in Outcomes \cup JoinErrors : TaskEnds(t, how)

BatchStep == LoopStep \/ BatchTimeout \/ \E t \in Tasks : TaskStep(t)

-----------------------------------------------------------------------------
\* The type invariant of the batch; its aggregate reservation is within the
\* batch budget.
BatchTypeOK ==
    /\ request \in BatchRequest
    /\ slot \in [Tasks -> SubagentTaskState]
    /\ answer \in [Tasks -> Outcomes \cup JoinErrors \cup {"none"}]
    /\ next \in 1..(NumTasks + 1)
    /\ reserved \in 0..request.limit
    /\ phase \in {"spawning", "joining", "draining", "done"}
    /\ stopped \in BOOLEAN
    /\ timed_out \in BOOLEAN
    /\ budget_exhausted \in BOOLEAN
    /\ token \in BOOLEAN

\* run() returns with every task it spawned joined, and calls NotStarted
\* exactly the tasks it never spawned.
AllTasksAccounted ==
    phase = "done" =>
        \A t \in Tasks :
            /\ slot[t] \notin {"Queued", "Running"}
            /\ slot[t] = "NotStarted" <=> t >= next

\* A batch reported as Completed or PartiallyFailed left no task out and
\* spent no budget: every way to stop early shows in the status.
UnstoppedBatchRanEverything ==
    (phase = "done" /\ BatchStatus \in {"Completed", "PartiallyFailed"}) =>
        \A t \in Tasks :
            slot[t] \in {"Completed", "Failed", "Cancelled", "TimedOut"}

\* Under CancelRemaining no task is spawned after a failed one was joined,
\* and those that run are told to stop.
FailureStopsBatch ==
    [][ /\ request.failure_policy = "CancelRemaining"
        /\ \E t \in Tasks : slot[t] \in {"Failed", "BudgetExhausted"}
        => next' = next /\ token' ]_batch
=============================================================================
