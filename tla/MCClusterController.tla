-------------------------- MODULE MCClusterController --------------------------
(***************************************************************************)
(* Instances of ClusterController for TLC: specs that are accepted, with   *)
(* edits that an apply refuses and allows, and one with an HPA, which is   *)
(* rejected.                                                               *)
(***************************************************************************)
EXTENDS ClusterController, TLC

CONSTANTS w1, w2

OneWorker  == {w1}
TwoWorkers == {w1, w2}

\* Workers are interchangeable: safety properties may use this.
Symmetry == Permutations(TwoWorkers)

Base       == [replicas |-> 1, autoscaled |-> FALSE, image |-> "0.4.0",
               port |-> 9092, log |-> "info", extra |-> Unset]
NewImage   == [Base EXCEPT !.image = "0.4.1"]
NewLog     == [Base EXCEPT !.log = "debug"]
Extended   == [Base EXCEPT !.extra = "ssd"]
Autoscaled == [Base EXCEPT !.autoscaled = TRUE]
ThreeOld   == [Base EXCEPT !.replicas = 3]

OneSpec  == {Base}
FourSpecs == {Extended, NewImage, NewLog, Autoscaled}
================================================================================
