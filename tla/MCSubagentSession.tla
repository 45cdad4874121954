------------------------- MODULE MCSubagentSession -------------------------
(* Instances of SubagentSession for TLC.                                   *)
EXTENDS SubagentSession, TLC

CONSTANTS s1, s2

MCSessions == {s1, s2}
MCRoleOf == [s \in MCSessions |-> "Executor"]

\* One unit of tokens and one of tool output for the whole run.
MCLimit == [a \in Accounts |-> 1]
=============================================================================
