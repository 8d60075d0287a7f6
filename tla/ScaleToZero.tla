----------------------------- MODULE ScaleToZero -----------------------------
(***************************************************************************)
(* Idle detection, the decision to scale to zero or back, and the KEDA     *)
(* ScaledObject of src/controllers/scale_to_zero.rs as functions of their  *)
(* arguments.  Ages take the place of timestamps.                          *)
(***************************************************************************)
EXTENDS Integers, Sequences

CONSTANT Absent

\* ScaleToZeroConfig and KedaConfig with their serde defaults.
KedaConfig ==
    [polling_interval |-> 30, cooldown_period |-> 300, min_replica_count |-> 0,
     max_replica_count |-> 10, triggers |-> <<>>]

ScaleToZeroConfig ==
    [enabled |-> FALSE, idle_timeout_seconds |-> 300, min_active_replicas |-> 1,
     cooldown_seconds |-> 120, keda_enabled |-> FALSE, keda |-> Absent]

\* Mutant of build_activity_snapshot: open connections do not count.
build_activity_snapshot_throughput(mps, connections, since, timeout) ==
    [idle_duration_seconds |-> since, is_idle |-> mps = 0 /\ since >= timeout]

\* since: the time since the last activity that the caller has seen.
build_activity_snapshot(mps, connections, since, timeout) ==
    [idle_duration_seconds |-> since,
     is_idle |-> mps = 0 /\ connections = 0 /\ since >= timeout]

ScaleAction(action, target) == [action |-> action, target_replicas |-> target]

\* Mutant of evaluate: the cooldown is forgotten.
evaluate_without_cooldown(s, c, cur, since_up) ==
    CASE ~c.enabled -> ScaleAction("None", cur)
      [] c.enabled /\ cur = 0 /\ ~s.is_idle -> ScaleAction("Activate", c.min_active_replicas)
      [] c.enabled /\ s.is_idle /\ s.idle_duration_seconds >= c.idle_timeout_seconds ->
            ScaleAction("ScaleToZero", 0)
      [] OTHER -> ScaleAction("None", cur)

\* evaluate: since_up is the time since the last scale-up, Absent for none.
\* The backlog does not count: a cluster with consumer lag goes to sleep, too.
evaluate(s, c, cur, since_up) ==
    IF ~c.enabled THEN ScaleAction("None", cur)
    ELSE IF cur = 0 /\ ~s.is_idle THEN ScaleAction("Activate", c.min_active_replicas)
    ELSE IF since_up # Absent /\ since_up < c.cooldown_seconds
         THEN ScaleAction("InCooldown", cur)
    ELSE IF s.is_idle /\ s.idle_duration_seconds >= c.idle_timeout_seconds
         THEN ScaleAction("ScaleToZero", 0)
    ELSE ScaleAction("None", cur)

\* apply_scale_action makes a call for these only.
acts(d) == d.action \notin {"None", "InCooldown"}

\* The trigger that is used when none is given asks the default HTTP port,
\* whatever the port of the cluster.
DefaultTrigger == [type |-> "metrics-api", port |-> 9094, value |-> "active_connections"]

build_keda_scaled_object(k) ==
    [target |-> "statefulset", pollingInterval |-> k.polling_interval,
     cooldownPeriod |-> k.cooldown_period, minReplicaCount |-> k.min_replica_count,
     maxReplicaCount |-> k.max_replica_count,
     triggers |-> IF k.triggers = <<>> THEN <<DefaultTrigger>> ELSE k.triggers]
==============================================================================
