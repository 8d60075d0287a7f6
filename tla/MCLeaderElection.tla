---------------------------- MODULE MCLeaderElection ----------------------------
(***************************************************************************)
(* Instances of LeaderElection for TLC.  One tick is 5 seconds, so the     *)
(* lease lasts 3 ticks, a renewal is due after 2 and a retry after 1.      *)
(***************************************************************************)
EXTENDS LeaderElection

CONSTANTS r1, r2

MCReplicas == {r1, r2}

\* The clock of r2 runs as far ahead of the clock of r1 as Skew allows.
MCOffset == [r \in MCReplicas |-> IF r = r2 THEN Skew ELSE 0]
================================================================================
