----------------------------- MODULE ClusterStatus -----------------------------
(***************************************************************************)
(* The status of a StreamlineCluster as the controller builds it: pure     *)
(* functions of the object that was read, the ready pods that were counted *)
(* and the clock (src/conditions.rs and the status builders of             *)
(* src/controllers/cluster.rs).                                            *)
(*                                                                         *)
(* A message is abstracted to the pair of numbers it is formatted from;    *)
(* the text around them follows from the reason.  The endpoints follow     *)
(* from the number of replicas and leaderId is always absent.              *)
(***************************************************************************)
EXTENDS Integers, Sequences

\* What .metadata and .spec contribute: the generation, the replicas the spec
\* asks for and the identity of its validation errors, 0 when it is accepted.
Object(gen, replicas, errors) ==
    [generation |-> gen, replicas |-> replicas, errors |-> errors]

\* An object without status.
NoStatus == [phase |-> "none", readyReplicas |-> 0, replicas |-> 0,
             endpoints |-> 0, conditions |-> <<>>, observedGeneration |-> 0,
             lastUpdated |-> 0]

build_condition(type, status, reason, message, now) ==
    [type |-> type, status |-> status, reason |-> reason, message |-> message,
     lastTransitionTime |-> now]

\* Mutant of set_condition: the transition time is renewed on every call.
set_condition_renew(conditions, new) ==
    IF \E i \in DOMAIN conditions : conditions[i].type = new.type
    THEN [i \in DOMAIN conditions |->
            IF conditions[i].type = new.type THEN new ELSE conditions[i]]
    ELSE Append(conditions, new)

\* The first condition of the same type is replaced when its status changes,
\* and takes over reason and message only when it does not.
set_condition(conditions, new) ==
    LET same == {i \in DOMAIN conditions : conditions[i].type = new.type}
        first == CHOOSE i \in same : \A j \in same : i <= j
    IN  IF same = {} THEN Append(conditions, new)
        ELSE [conditions EXCEPT ![first] =
                IF @.status # new.status THEN new
                ELSE [@ EXCEPT !.reason = new.reason, !.message = new.message]]

\* The condition list of a status with the four conditions set one after the
\* other.  It is seeded from the conditions already published.
seeded_conditions(current, ready, available, progressing, degraded) ==
    set_condition(set_condition(set_condition(set_condition(
        current.conditions, ready), available), progressing), degraded)

\* Mutant of with_stable_timestamp: lastUpdated is stamped on every reconcile.
with_new_timestamp(current, status, now) == [status EXCEPT !.lastUpdated = now]

\* lastUpdated moves only when the rest of the status changed.
with_stable_timestamp(current, status, now) ==
    [status EXCEPT !.lastUpdated =
        IF [current EXCEPT !.lastUpdated = status.lastUpdated] # status
        THEN now ELSE current.lastUpdated]

invalid_spec_conditions(current, errors, now) ==
    LET c(type, status, message) ==
            build_condition(type, status, "InvalidSpec", message, now)
    IN  seeded_conditions(current,
            c("Ready", "False", <<errors, 0>>), c("Available", "False", <<errors, 0>>),
            c("Progressing", "False", <<0, 0>>), c("Degraded", "True", <<errors, 0>>))

\* A spec the operator refuses to render.
invalid_status(object, current, now) ==
    with_stable_timestamp(current,
        [phase |-> "Failed", readyReplicas |-> 0, replicas |-> object.replicas,
         endpoints |-> 0,
         conditions |-> invalid_spec_conditions(current, object.errors, now),
         observedGeneration |-> object.generation, lastUpdated |-> 0],
        now)

\* Mutant of phase_of: too many brokers count as running.
phase_at_least(ready, desired) ==
    IF ready >= desired THEN "Running" ELSE "Pending"

phase_of(ready, desired) ==
    IF ready = desired THEN "Running"
    ELSE IF ready > 0 THEN "Scaling" ELSE "Pending"

\* The four conditions of an accepted spec with `ready` of `desired` brokers.
observed_conditions(current, ready, desired, now) ==
    LET count == <<ready, desired>>
        none  == <<0, 0>>
        c(type, status, reason, message) ==
            build_condition(type, status, reason, message, now)
    IN  seeded_conditions(current,
           IF ready = desired
           THEN c("Ready", "True", "AllBrokersReady", count)
           ELSE c("Ready", "False", "BrokersNotReady", count),
           IF ready > 0
           THEN c("Available", "True", "MinimumAvailable", <<ready, 0>>)
           ELSE c("Available", "False", "NoBrokersAvailable", none),
           IF ready < desired
           THEN c("Progressing", "True", "ScalingUp", count)
           ELSE IF ready > desired
           THEN c("Progressing", "True", "ScalingDown", count)
           ELSE c("Progressing", "False", "UpToDate", none),
           IF ready = desired
           THEN c("Degraded", "False", "Healthy", none)
           ELSE IF ready = 0
           THEN c("Degraded", "True", "NoBrokersReady", count)
           ELSE IF ready < desired
           THEN c("Degraded", "True", "PartiallyReady", count)
           ELSE c("Degraded", "True", "TooManyReadyBrokers", count))

observed_status(object, current, ready, now) ==
    with_stable_timestamp(current,
        [phase |-> phase_of(ready, object.replicas), readyReplicas |-> ready,
         replicas |-> object.replicas, endpoints |-> object.replicas,
         conditions |-> observed_conditions(current, ready, object.replicas, now),
         observedGeneration |-> object.generation, lastUpdated |-> 0],
        now)

\* What reconcile publishes for an object it read with status `current`.
desired_status(object, current, ready, now) ==
    IF object.errors # 0 THEN invalid_status(object, current, now)
    ELSE observed_status(object, current, ready, now)
================================================================================
