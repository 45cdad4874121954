----------------------- MODULE MCOrchestrationCleanup -----------------------
(* An instance of OrchestrationCleanup for TLC.                            *)
EXTENDS OrchestrationCleanup, TLC

CONSTANTS o1, o2, stale, g1, g2

MCOwners == {o1, o2, stale}

\* One task carries the generation of an earlier run.
MCGenerationOf == [o \in MCOwners |-> IF o = stale THEN g1 ELSE g2]

Symmetry == Permutations({o1, o2})
=============================================================================
