--------------------------- MODULE MCTopicController ---------------------------
(***************************************************************************)
(* Instances of TopicController for TLC: specs that differ in the number of*)
(* partitions, in what they ask for and in the cluster they refer to.      *)
(***************************************************************************)
EXTENDS TopicController

CONSTANTS w1, c1, c2

OneWorker   == {w1}
OneCluster  == {c1}
TwoClusters == {c1, c2}

Three       == [ref |-> c1, partitions |-> 3, supported |-> TRUE]
Six         == [Three EXCEPT !.partitions = 6]
Compacted   == [Three EXCEPT !.supported = FALSE]
Moved       == [Three EXCEPT !.ref = c2]

LocalSpecs  == {Three, Six, Compacted}
MovingSpecs == {Three, Moved}
================================================================================
