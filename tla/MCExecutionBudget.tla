------------------------- MODULE MCExecutionBudget -------------------------
(* An instance of ExecutionBudget for TLC.                                 *)
EXTENDS ExecutionBudget, TLC

CONSTANTS c1, c2, t1, t2

MCCalls == {c1, c2}
MCToolCalls == {t1, t2}
MCCallRoles == {"Executor", "Verifier"}

\* Context has room for one unit and so has the task count, which the
\* concurrency of 0 refuses; the others refuse the smallest amount.
MCLimit ==
    [a \in Accounts |-> IF a \in {"InputOrContextLimit", "ExecutorTaskCount"} THEN 1 ELSE 0]

Symmetry == Permutations(MCCalls) \cup Permutations(MCToolCalls)
=============================================================================
