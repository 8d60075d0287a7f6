------------------------------ MODULE MCScaling ------------------------------
(***************************************************************************)
(* An instance of Scaling for TLC.  Lag is aimed at 4 per partition and    *)
(* throughput at 2 per broker.                                             *)
(***************************************************************************)
EXTENDS Scaling

Load(mps, lag, partitions, connections) ==
    [messages_per_second |-> mps, total_lag |-> lag,
     total_partitions |-> partitions, connections |-> connections]

\* Silence, and clients that are connected without throughput.
SomeLoads == {Load(0, 0, 2, 0), Load(0, 24, 300, 1)}

\* Backlogs that are low, within bounds, high, and wrap; throughput that is
\* high for one broker and for all; no, few and many partitions.
SomeMeasured ==
    {Load(mps, lag, partitions, 1) :
        mps \in {0, 5, 20}, lag \in {0, 1, 3, 8, 17, 24, 72}, partitions \in {0, 2, 300}}

Aware == [AutoScalingConfig EXCEPT
            !.partition_aware = TRUE, !.max_replicas = 5,
            !.target_lag_per_partition = 4, !.target_messages_per_second = 2]
Plain == [Aware EXCEPT
            !.enabled = TRUE,
            !.custom_metrics = <<[name |-> "requests", metric_type |-> "Object",
                                  target |-> MetricTarget("Value", "10", Absent, Absent)]>>]
Hpa   == [Plain EXCEPT
            !.behavior = [scale_up |-> Absent,
                          scale_down |-> [stabilization_window_seconds |-> 300,
                                          select_policy |-> "Max", policies |-> <<>>]]]

Zero == [ScaleToZeroConfig EXCEPT !.enabled = TRUE,
            !.idle_timeout_seconds = 1, !.cooldown_seconds = 1]
Keda == [Zero EXCEPT !.keda_enabled = TRUE, !.keda = KedaConfig, !.idle_timeout_seconds = 0]

\* Either an HPA or KEDA may scale, too; the latter without an idle timeout.  An
\* edit adds the behavior of the HPA alone, or drops it.
SomeConfigs == {[autoscaling |-> Hpa, zero |-> Zero],
                [autoscaling |-> Plain, zero |-> Zero],
                [autoscaling |-> Aware, zero |-> Keda]}

\* An edit adds or drops a node selector together with a new image.
Template(image, node_selector) == [image |-> image, node_selector |-> node_selector]
SomeTemplates == {Template("0.4.0", Absent), Template("0.4.1", "ssd")}
==============================================================================
