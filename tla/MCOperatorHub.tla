----------------------------- MODULE MCOperatorHub -----------------------------
(***************************************************************************)
(* An instance of OperatorHub for TLC: three callers and as many operators *)
(* as the operator bundles, more than capacity and callers can exceed.     *)
(***************************************************************************)
EXTENDS OperatorHub, TLC

CONSTANTS t1, t2, t3, postgresql, redis, elasticsearch, minio, prometheus

ThreeCallers == {t1, t2, t3}

\* Numbers for the versions, which the hub only compares for equality.
Bundled ==
    postgresql :> 5 @@ redis :> 7 @@ elasticsearch :> 8 @@ minio :> 5 @@ prometheus :> 70

\* Callers are interchangeable: the run checks safety only.
Symmetry == Permutations(ThreeCallers)
================================================================================
