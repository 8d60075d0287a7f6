------------------------------- MODULE LeaseLock -------------------------------
(***************************************************************************)
(* What the operator's leader election promises to the controllers: a lock *)
(* that is granted to one replica at a time and that is never handed from  *)
(* one replica to the next without having been given up in between.  The   *)
(* grant may lapse at any moment (a lease expires whether or not its owner *)
(* notices), so nothing is promised about how long it lasts.               *)
(* LeaderElection implements this specification.                           *)
(***************************************************************************)
CONSTANT Replicas

VARIABLE granted    \* the replicas that may act as the leader

TypeOK == granted \subseteq Replicas

Init == granted = {}

\* A replica learns that the lease is its own while nobody else may act.
Grant(r) == granted = {} /\ granted' = {r}

\* The grant lapses: released, expired, or its owner is gone.
Lapse == granted # {} /\ granted' = {}

Next == (\E r \in Replicas : Grant(r)) \/ Lapse

Spec == Init /\ [][Next]_granted
================================================================================
