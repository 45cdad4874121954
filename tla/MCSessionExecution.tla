------------------------- MODULE MCSessionExecution -------------------------
(* Instances of SessionExecution for TLC.                                  *)
EXTENDS SessionExecution

CONSTANTS r1, r2, r3, u1, u2, sequential, automatic, balanced, custom, p1

MCRuns == {r1, r2, r3}
MCUpdaters == {u1, u2}
MCStrategies == {sequential, automatic}
MCModes == {balanced, custom}
MCProfiles == {p1}

\* The custom mode does not resolve under one of the strategies.
MCResolvable == (MCStrategies \X MCModes) \ {<<automatic, custom>>}
=============================================================================
