---------------------------- MODULE MCClusterStatus ----------------------------
(***************************************************************************)
(* ClusterStatusUpdates for TLC: the one accepted number of replicas, a    *)
(* rejected spec that keeps it (errors 1) and one that does not (errors 2).*)
(***************************************************************************)
EXTENDS ClusterStatusUpdates

MCSpecs == {<<1, 0>>, <<1, 1>>, <<3, 2>>}
================================================================================
