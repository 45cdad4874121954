--------------------------- MODULE MCSessionSetup ---------------------------
(* Instances of SessionSetup for TLC.                                      *)
EXTENDS SessionSetup, TLC

CONSTANTS r1, r2, r3, u1, single, manual, fast, deep, p1, p2

MCRuns == {r1, r2, r3}
MCUpdaters == {u1}
MCStrategies == {single, manual}
MCModes == {fast, deep}
MCProfiles == {p1, p2}
MCResolvable == MCStrategies \X MCModes

\* The second profile lacks a role that the deep mode needs.
MCAssemblable == ({manual} \X MCModes \X MCProfiles) \ {<<manual, deep, p2>>}

\* The saved default is written by the handlers and read at the next start only:
\* states that differ in nothing else have the same future.
WithoutDefault ==
    <<vars, server, routes, dialog, task_running, ui, events, turnVars>>

Symmetry == Permutations(MCRuns)
=============================================================================
