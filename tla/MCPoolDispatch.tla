--------------------------- MODULE MCPoolDispatch ---------------------------
(* Instances of PoolDispatch for TLC.                                      *)
EXTENDS PoolDispatch, TLC

CONSTANTS c1, c2, executor, verifier, a, b, full, edited

MCCallers == {c1, c2}
MCRoles == {executor, verifier}
MCTargets == {a, b}
MCEditions == {full, edited}

\* The edited pool has lost a member.
MCMembers == full :> <<a, b>> @@ edited :> <<b>>

\* The verifier is bound to an account that is also in the pool.
MCDirect == executor :> Pool @@ verifier :> b

\* First only the verifier has automatic candidates, then only the executor.
MCCandidates ==
    full :> (executor :> <<>> @@ verifier :> <<b>>) @@
    edited :> (executor :> <<a, Pool>> @@ verifier :> <<>>)
=============================================================================
