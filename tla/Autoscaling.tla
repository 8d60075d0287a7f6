----------------------------- MODULE Autoscaling -----------------------------
(***************************************************************************)
(* The HPA and the scaling recommendation of src/controllers/autoscaling.rs*)
(* as functions of their arguments.  Names, labels and the owner of the    *)
(* HPA are fixed.  Loads and targets are natural numbers, far below 2^63.  *)
(***************************************************************************)
EXTENDS Integers, Sequences

CONSTANTS Absent, I32       \* I32: 2^31, or less to let the narrowing bite

\* AutoScalingConfig with its serde defaults (Default::default() differs: all
\* its numbers are 0).
AutoScalingConfig ==
    [enabled |-> FALSE, min_replicas |-> 1, max_replicas |-> 10,
     target_cpu_utilization |-> 70, target_memory_utilization |-> 80,
     custom_metrics |-> <<>>, behavior |-> Absent, partition_aware |-> FALSE,
     target_lag_per_partition |-> 10000, target_messages_per_second |-> 100000]

MetricTarget(type, value, average, utilization) ==
    [type |-> type, value |-> value, average_value |-> average,
     average_utilization |-> utilization]

resource_metric(name, utilization) ==
    [type |-> "Resource", name |-> name,
     target |-> MetricTarget("Utilization", Absent, Absent, utilization)]
pods_metric(name, average) ==
    [type |-> "Pods", name |-> name,
     target |-> MetricTarget("AverageValue", Absent, average, Absent)]

\* An unknown metric type, "Object" among them, is taken for "Pods".
build_custom_metric(c) ==
    [type |-> IF c.metric_type = "External" THEN "External" ELSE "Pods",
     name |-> c.name, target |-> c.target]

build_scaling_rules(r) ==
    IF r = Absent THEN Absent
    ELSE [r EXCEPT !.policies = IF @ = <<>> THEN Absent ELSE @]

build_behavior(b) ==
    IF b = Absent THEN Absent
    ELSE [scale_up |-> build_scaling_rules(b.scale_up),
          scale_down |-> build_scaling_rules(b.scale_down)]

build_hpa(a) ==
    [target |-> "statefulset", min_replicas |-> a.min_replicas,
     max_replicas |-> a.max_replicas, behavior |-> build_behavior(a.behavior),
     metrics |->
        << resource_metric("cpu", a.target_cpu_utilization),
           resource_metric("memory", a.target_memory_utilization) >>
        \o [i \in DOMAIN a.custom_metrics |-> build_custom_metric(a.custom_metrics[i])]
        \o (IF ~a.partition_aware THEN <<>>
            ELSE << pods_metric("streamline_consumer_lag", a.target_lag_per_partition),
                    pods_metric("streamline_messages_per_second",
                                a.target_messages_per_second) >>)]

hpa_action(a) == IF a.enabled THEN "Apply" ELSE "Delete"

-------------------------------------------------------------------------------
AtLeast(m, n) == IF n < m THEN m ELSE n
AtMost(m, n)  == IF n > m THEN m ELSE n

\* `as i32`: from an i64 it wraps, from an f64 it saturates.
narrowed(n)  == ((n + I32) % (2 * I32)) - I32
saturated(n) == AtMost(I32 - 1, n)

\* (a / b).ceil() of two f64: a division by zero is infinite.
ceil_div(a, b) == IF b = 0 THEN I32 ELSE (a + b - 1) \div b

looks_at_lag(m, a) == a.partition_aware /\ m.total_lag > 0

lag_per_broker(cur, m) == m.total_lag \div cur
target_lag(m, a) == a.target_lag_per_partition * m.total_partitions
high_lag(cur, m, a) == lag_per_broker(cur, m) > a.target_lag_per_partition * 2
low_lag(cur, m, a) ==
    lag_per_broker(cur, m) < a.target_lag_per_partition \div 4 /\ cur > a.min_replicas

\* The divisions of integers panic on zero.
panics(cur, m, a) ==
    \/ cur = 0 /\ (looks_at_lag(m, a) \/ m.total_partitions > 0)
    \/ cur > 0 /\ looks_at_lag(m, a) /\ high_lag(cur, m, a) /\ target_lag(m, a) = 0

\* Mutant of by_lag: scales down one broker at a time.
by_lag_stepwise(cur, m, a) ==
    IF ~looks_at_lag(m, a) THEN cur
    ELSE IF high_lag(cur, m, a)
         THEN AtLeast(cur, narrowed(AtLeast(1, m.total_lag \div target_lag(m, a))))
    ELSE IF low_lag(cur, m, a) THEN AtLeast(1, cur - 1)
    ELSE cur

\* More than twice the target lag scales up, less than a quarter down.
by_lag(cur, m, a) ==
    IF ~looks_at_lag(m, a) THEN cur
    ELSE IF high_lag(cur, m, a)
         THEN AtLeast(cur, narrowed(AtLeast(1, m.total_lag \div target_lag(m, a))))
    ELSE IF low_lag(cur, m, a)
         THEN AtMost(cur, AtLeast(1, saturated(ceil_div(m.total_lag, target_lag(m, a)))))
    ELSE cur

\* More than one and a half times the target throughput scales up.
by_throughput(r, cur, m, a) ==
    IF m.messages_per_second * 2 > a.target_messages_per_second * 3 * cur
    THEN AtLeast(r, saturated(ceil_div(m.messages_per_second, a.target_messages_per_second)))
    ELSE r

\* One broker for a hundred partitions.
by_partitions(r, m) ==
    IF m.total_partitions > 0 THEN AtLeast(r, AtLeast(1, m.total_partitions \div 100)) ELSE r

\* generate_recommendation, with the criteria that moved it.
generate_recommendation(cur, m, a) ==
    LET lag        == by_lag(cur, m, a)
        throughput == by_throughput(lag, cur, m, a)
        partitions == by_partitions(throughput, m)
        triggering == (IF lag # cur THEN {"consumer_lag"} ELSE {})
                      \cup (IF throughput # lag THEN {"messages_per_second"} ELSE {})
                      \cup (IF partitions # throughput THEN {"partition_count"} ELSE {})
    IN  [recommended_replicas |-> AtMost(a.max_replicas, AtLeast(a.min_replicas, partitions)),
         triggering_metrics |-> triggering]
==============================================================================
