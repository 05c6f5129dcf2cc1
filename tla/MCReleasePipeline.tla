-------------------------- MODULE MCReleasePipeline --------------------------
(***************************************************************************)
(* An instance of ReleasePipeline: a stable release and a prerelease, and  *)
(* sources that agree with themselves or state one version wrongly.        *)
(***************************************************************************)
EXTENDS ReleasePipeline, TLC

CONSTANTS v1, beta, pep_beta, r1, r2

MCPep440 == v1 :> v1 @@ beta :> pep_beta

Agreeing(v, r) == [release |-> v, key |-> Pep440[v], wheel |-> Pep440[v],
                   package |-> Pep440[v], plugin |-> v, revision |-> r]

MCSources ==
    {Agreeing(v1, r1), Agreeing(v1, r2), Agreeing(beta, r2),
     [Agreeing(v1, r1) EXCEPT !.plugin = beta],
     [Agreeing(beta, r2) EXCEPT !.key = beta],
     [Agreeing(v1, r1) EXCEPT !.wheel = pep_beta]}
=============================================================================
