------------------------------- MODULE Scaling -------------------------------
(***************************************************************************)
(* Who decides how many brokers run: the reconciler of the StatefulSet     *)
(* (src/controllers/cluster.rs), of an HPA (autoscaling.rs) and of a KEDA  *)
(* ScaledObject (scale_to_zero.rs), the loop that scales to zero and back, *)
(* a caller that follows recommendations, and whoever else scales.         *)
(*                                                                         *)
(* The API server keeps, for every field of an object that is set, the     *)
(* managers that own it.  POST makes its manager the owner of all that it  *)
(* sets.  An update takes over the fields that it changes.  A server-side  *)
(* apply without force is refused (409) if it would change a field that    *)
(* somebody else owns; otherwise it shares or changes the others, adds     *)
(* what nobody has set, and drops what it alone had set and wants no more. *)
(* On a name that is not there it creates.  The manager of an apply and    *)
(* that of an update differ even when they have one name.                  *)
(*                                                                         *)
(* Of the code here the operator process runs reconcile_statefulset only;  *)
(* HPAs, ScaledObjects, recommendations and scale-to-zero are offered by   *)
(* the crate, and their caller is modelled as their documentation has it.  *)
(***************************************************************************)
EXTENDS Integers, Sequences

CONSTANTS
    Absent, I32,    \* see Autoscaling
    Templates,      \* [image, node_selector] that a user may choose
    Configs,        \* [autoscaling, zero] that a caller may pass
    Loads,          \* [messages_per_second, total_lag, total_partitions, connections]
    Measured,       \* the loads for which recommendations are compared
    OthersChoice,   \* the numbers of brokers that others scale to
    MaxReplicas,    \* bound on the brokers that recommendations start from
    MaxAge,         \* bound on the ages
    MaxEdits,       \* bound on the edits of template and configuration
    MaxFaults       \* bound on failed calls and on what others do

ASSUME ScalingAssumption ==
    /\ MaxAge \in Nat
    /\ \A c \in Configs : {c.zero.idle_timeout_seconds, c.zero.cooldown_seconds,
                           c.zero.min_active_replicas} \subseteq Int

INSTANCE Autoscaling
INSTANCE ScaleToZero

\* PartitionMetrics, with the connections that scale-to-zero sees: counts and
\* rates are not negative, nor are the targets and the upper limit of a
\* configuration.  The lower limit may be anything.
PartitionMetrics ==
    [messages_per_second : Nat, total_lag : Nat, total_partitions : Nat, connections : Nat]

Sensible(a) ==
    /\ a.max_replicas \in Nat /\ a.min_replicas \in Int
    /\ a.target_lag_per_partition \in Nat /\ a.target_messages_per_second \in Nat

ASSUME RecommendationAssumption ==
    /\ I32 \in Nat \ {0}
    /\ Measured \subseteq PartitionMetrics
    /\ \A c \in Configs : Sensible(c.autoscaling)

VARIABLES
    spec,       \* replicas and template in the spec of the cluster
    config,     \* the configuration that the caller passes
    load,       \* what the metrics say
    age,        \* how long there has been no activity
    since_up,   \* how long ago the loop scaled up, Absent for never
    present,    \* the objects that are there
    val,        \* val[f]: the value of field f of its object, Absent if not set
    owners,     \* owners[f]: the managers that own it
    posted,     \* for the properties: the fields that a POST has set
    call,       \* the reconciler's call in flight
    scaler,     \* the loop's decision until it is applied (and, for the
                \* properties, whether activity has arrived since)
    edits, faults

objVars == <<present, val, owners, posted>>
envVars == <<load, age, since_up>>
vars == <<spec, config, envVars, objVars, call, scaler, edits, faults>>

-------------------------------------------------------------------------------
Objects == {"statefulset", "hpa", "scaledobject"}

\* The fields that can differ.  A node selector stands for all that a cluster
\* may leave out (limits, environment entries by name); lists of metrics,
\* policies and triggers are one field each.  What the API server fills in
\* when it creates an object belongs to the creator, too, and is left out.
FieldsOf(o) ==
    CASE o = "statefulset"  -> {"replicas", "image", "nodeSelector"}
      [] o = "hpa"          -> {"minReplicas", "maxReplicas", "metrics",
                                "scaleUp.stabilizationWindowSeconds",
                                "scaleUp.selectPolicy", "scaleUp.policies",
                                "scaleDown.stabilizationWindowSeconds",
                                "scaleDown.selectPolicy", "scaleDown.policies"}
      [] o = "scaledobject" -> {"pollingInterval", "cooldownPeriod", "minReplicaCount",
                                "maxReplicaCount", "triggers"}
Fields == UNION {FieldsOf(o) : o \in Objects}

\* Managers: of the POST, of the operator's apply and merge patch, and others.
Managers == {"creator", "applier", "patcher", "other"}

Exists(o) == o \in present
Nothing == [f \in Fields |-> Absent]

\* Object o is there, and manager owns what it has set.
Created(o, want, manager) ==
    /\ present' = present \cup {o}
    /\ val' = [f \in Fields |-> IF f \in FieldsOf(o) THEN want[f] ELSE val[f]]
    /\ owners' = [f \in Fields |-> IF f \notin FieldsOf(o) THEN owners[f]
                                  ELSE IF want[f] = Absent THEN {} ELSE {manager}]
    /\ posted' = IF manager = "creator"
                 THEN posted \cup {f \in FieldsOf(o) : want[f] # Absent} ELSE posted

Removed(o) ==
    /\ present' = present \ {o}
    /\ val' = [f \in Fields |-> IF f \in FieldsOf(o) THEN Absent ELSE val[f]]
    /\ owners' = [f \in Fields |-> IF f \in FieldsOf(o) THEN {} ELSE owners[f]]
    /\ posted' = posted \ FieldsOf(o)

\* A field is updated: a change of its value changes hands.
Updated(f, value, manager) ==
    /\ val' = [val EXCEPT ![f] = value]
    /\ owners' = [owners EXCEPT ![f] = IF val[f] = value THEN @ ELSE {manager}]
    /\ UNCHANGED <<present, posted>>

Conflicts(o, want) ==
    \E f \in FieldsOf(o) :
        want[f] # Absent /\ val[f] # want[f] /\ owners[f] \ {"applier"} # {}

\* What an apply that is not refused leaves of field f.
Merged(o, want) ==
    /\ val' = [f \in Fields |->
                  IF f \notin FieldsOf(o) THEN val[f]
                  ELSE IF want[f] # Absent THEN want[f]
                  ELSE IF owners[f] = {"applier"} THEN Absent ELSE val[f]]
    /\ owners' = [f \in Fields |->
                  IF f \notin FieldsOf(o) THEN owners[f]
                  ELSE IF want[f] = Absent THEN owners[f] \ {"applier"}
                  ELSE IF val[f] = want[f] THEN owners[f] \cup {"applier"}
                  ELSE {"applier"}]
    /\ UNCHANGED <<present, posted>>

\* A server-side apply without force, and a POST.
Applied(o, want) ==
    \/ ~Exists(o) /\ Created(o, want, "applier")
    \/ Exists(o) /\ Conflicts(o, want) /\ UNCHANGED objVars
    \/ Exists(o) /\ ~Conflicts(o, want) /\ Merged(o, want)

Posted(o, want) ==
    IF Exists(o) THEN UNCHANGED objVars ELSE Created(o, want, "creator")

-------------------------------------------------------------------------------
Idle == [verb |-> "none"]

TypeOK ==
    /\ present \subseteq Objects
    /\ DOMAIN val = Fields
    /\ owners \in [Fields -> SUBSET Managers]
    /\ posted \subseteq {f \in Fields : \E o \in present : f \in FieldsOf(o)}
    /\ call # Idle => call.obj \in Objects

Init ==
    /\ spec \in [replicas : {1}, template : Templates]
    /\ config \in Configs
    /\ load \in Loads
    /\ age = 0 /\ since_up = Absent
    /\ present = {}
    /\ val = Nothing
    /\ owners = [f \in Fields |-> {}]
    /\ posted = {}
    /\ call = Idle
    /\ scaler = Idle
    /\ edits = 0 /\ faults = 0

Fault == faults < MaxFaults /\ faults' = faults + 1
Edit  == edits < MaxEdits /\ edits' = edits + 1

\* The object is to be there: a cluster that validate accepts, an HPA that
\* hpa_action applies, a ScaledObject that has a configuration.
Wanted(o) ==
    CASE o = "statefulset"  -> spec.replicas = 1
      [] o = "hpa"          -> hpa_action(config.autoscaling) = "Apply"
      [] o = "scaledobject" -> config.zero.keda_enabled /\ config.zero.keda # Absent

\* What build_statefulset, build_hpa and build_keda_scaled_object render.
RenderedHpa(h) ==
    LET rules(direction) == IF h.behavior = Absent THEN Absent ELSE h.behavior[direction]
        rule(direction, r) ==
            IF rules(direction) = Absent THEN Absent ELSE rules(direction)[r]
    IN  [Nothing EXCEPT
            !["minReplicas"] = h.min_replicas,
            !["maxReplicas"] = h.max_replicas,
            !["metrics"] = h.metrics,
            !["scaleUp.stabilizationWindowSeconds"] = rule("scale_up", "stabilization_window_seconds"),
            !["scaleUp.selectPolicy"] = rule("scale_up", "select_policy"),
            !["scaleUp.policies"] = rule("scale_up", "policies"),
            !["scaleDown.stabilizationWindowSeconds"] = rule("scale_down", "stabilization_window_seconds"),
            !["scaleDown.selectPolicy"] = rule("scale_down", "select_policy"),
            !["scaleDown.policies"] = rule("scale_down", "policies")]

RenderedKeda(k) ==
    [f \in Fields |-> IF f \in FieldsOf("scaledobject") THEN k[f] ELSE Absent]

Rendered(o) ==
    CASE o = "statefulset"  -> [Nothing EXCEPT
                                  !["replicas"] = spec.replicas,
                                  !["image"] = spec.template.image,
                                  !["nodeSelector"] = spec.template.node_selector]
      [] o = "hpa"          -> RenderedHpa(build_hpa(config.autoscaling))
      [] o = "scaledobject" -> RenderedKeda(build_keda_scaled_object(config.zero.keda))

\* reconcile_statefulset, reconcile_hpa and reconcile_keda_scaled_object begin
\* with a get.  Whatever its error is, it is taken for "not there".
GetObject(o) ==
    /\ call = Idle /\ Wanted(o)
    /\ \/ /\ call' = [verb |-> IF Exists(o) THEN "apply" ELSE "create",
                      obj |-> o, want |-> Rendered(o)]
          /\ UNCHANGED faults
       \/ /\ Fault
          /\ call' = [verb |-> "create", obj |-> o, want |-> Rendered(o)]
    /\ UNCHANGED <<spec, config, envVars, objVars, scaler, edits>>

\* Mutant of SendApply: it is forced.
SendApplyForced ==
    /\ call.verb = "apply"
    /\ IF Exists(call.obj) THEN Merged(call.obj, call.want)
       ELSE Created(call.obj, call.want, "applier")
    /\ call' = Idle
    /\ UNCHANGED <<spec, config, envVars, scaler, edits, faults>>

\* The second call; an object may have come or gone since the first.
SendApply ==
    /\ call.verb = "apply"
    /\ Applied(call.obj, call.want)
    /\ call' = Idle
    /\ UNCHANGED <<spec, config, envVars, scaler, edits, faults>>

SendCreate ==
    /\ call.verb = "create"
    /\ Posted(call.obj, call.want)
    /\ call' = Idle
    /\ UNCHANGED <<spec, config, envVars, scaler, edits, faults>>

SendFails ==
    /\ call # Idle
    /\ Fault
    /\ call' = Idle
    /\ UNCHANGED <<spec, config, envVars, objVars, scaler, edits>>

\* delete_hpa and delete_keda_scaled_object.  A failure (Fault and no other
\* change) is reported by the first and not by the second.
DeleteObject(o) ==
    /\ call = Idle
    /\ \/ o = "hpa" /\ hpa_action(config.autoscaling) = "Delete"
       \/ o = "scaledobject" /\ ~config.zero.keda_enabled
    /\ Exists(o)
    /\ Removed(o)
    /\ UNCHANGED <<spec, config, envVars, call, scaler, edits, faults>>

-------------------------------------------------------------------------------
Active(l) == l.messages_per_second > 0 \/ l.connections > 0

\* One cycle of the idle-check loop: the caller takes a snapshot and evaluates
\* it with the replicas of the StatefulSet ...
Evaluate ==
    /\ scaler = Idle /\ Exists("statefulset")
    /\ LET s == build_activity_snapshot(load.messages_per_second, load.connections,
                                        age, config.zero.idle_timeout_seconds)
           d == evaluate(s, config.zero, val["replicas"], since_up)
       IN  /\ acts(d)
           /\ scaler' = [verb |-> "act", decision |-> d, zero |-> config.zero,
                         arrived |-> FALSE]
    /\ UNCHANGED <<spec, config, envVars, objVars, call, edits, faults>>

\* ... and has it applied (apply_scale_action: a merge patch, which finds the
\* StatefulSet gone or fails now and then).
Act ==
    /\ scaler # Idle
    /\ IF Exists("statefulset")
       THEN Updated("replicas", scaler.decision.target_replicas, "patcher")
       ELSE UNCHANGED objVars
    /\ since_up' = IF scaler.decision.action = "Activate" /\ Exists("statefulset")
                   THEN 0 ELSE since_up
    /\ scaler' = Idle
    /\ UNCHANGED <<spec, config, load, age, call, edits, faults>>

ActFails ==
    /\ scaler # Idle /\ Fault
    /\ scaler' = Idle
    /\ UNCHANGED <<spec, config, envVars, objVars, call, edits>>

\* A caller takes over the recommended number of brokers.
FollowRecommendation ==
    /\ ~panics(spec.replicas, load, config.autoscaling)
    /\ spec' = [spec EXCEPT !.replicas = generate_recommendation(@, load,
                                config.autoscaling).recommended_replicas]
    /\ UNCHANGED <<config, envVars, objVars, call, scaler, edits, faults>>

-------------------------------------------------------------------------------
(***************************************************************************)
(* Users, clients, time, and whoever else scales the StatefulSet.          *)
(***************************************************************************)
EditTemplate(t) ==
    /\ Edit /\ spec.template # t
    /\ spec' = [spec EXCEPT !.template = t]
    /\ UNCHANGED <<config, envVars, objVars, call, scaler, faults>>

EditConfig(c) ==
    /\ Edit /\ config # c
    /\ config' = c
    /\ UNCHANGED <<spec, envVars, objVars, call, scaler, faults>>

LoadChanges(l) ==
    /\ load # l
    /\ load' = l
    /\ age' = IF Active(load) \/ Active(l) THEN 0 ELSE age
    /\ scaler' = IF scaler # Idle /\ Active(l) THEN [scaler EXCEPT !.arrived = TRUE]
                 ELSE scaler
    /\ UNCHANGED <<spec, config, since_up, objVars, call, edits, faults>>

TimePasses ==
    /\ age' = IF Active(load) THEN 0 ELSE AtMost(MaxAge, age + 1)
    /\ since_up' = IF since_up = Absent THEN Absent ELSE AtMost(MaxAge, since_up + 1)
    /\ UNCHANGED <<spec, config, load, objVars, call, scaler, edits, faults>>

\* KEDA, an HPA or kubectl scale.
OthersScale(n) ==
    /\ Exists("statefulset") /\ Fault
    /\ Updated("replicas", n, "other")
    /\ UNCHANGED <<spec, config, envVars, call, scaler, edits>>

OthersDelete(o) ==
    /\ Exists(o) /\ Fault
    /\ Removed(o)
    /\ UNCHANGED <<spec, config, envVars, call, scaler, edits>>

Others ==
    \/ \E t \in Templates : EditTemplate(t)
    \/ \E c \in Configs : EditConfig(c)
    \/ \E l \in Loads : LoadChanges(l)
    \/ TimePasses
    \/ \E n \in OthersChoice : OthersScale(n)
    \/ \E o \in Objects : OthersDelete(o)

Next ==
    \/ \E o \in Objects : GetObject(o) \/ DeleteObject(o)
    \/ SendApply \/ SendCreate \/ SendFails
    \/ Evaluate \/ Act \/ ActFails
    \/ FollowRecommendation
    \/ Others

Spec == Init /\ [][Next]_vars

\* The loop polls (polling_interval_seconds) and time passes.
FairSpec ==
    Spec /\ WF_vars(Evaluate) /\ WF_vars(Act) /\ WF_vars(TimePasses)

-------------------------------------------------------------------------------
(***************************************************************************)
(* Properties.                                                             *)
(***************************************************************************)
\* The operator's applies never change a field that was set when the object
\* was created by POST, as every object is that the get did not find; and one
\* that wants another value of such a field changes nothing at all.  So a
\* reconciliation neither wakes a cluster that was put to sleep nor undoes what
\* an HPA or a user did to the replicas, and a new image or new bounds never
\* arrive, nor what was edited together with them.  (An edit that only adds
\* what was not set, such as a node selector or a scaling behavior, does.)
Refusable(want) ==
    {f \in posted \cap FieldsOf(call.obj) : want[f] # Absent /\ want[f] # val[f]}

AppliesKeepPostedFields ==
    [][SendApply =>
          /\ \A f \in posted : val'[f] = val[f]
          /\ Refusable(call.want) # {} => val' = val]_vars

\* The loop puts a cluster to sleep only if it has had no activity for the
\* timeout, or activity that arrived after the snapshot, and not within the
\* cooldown of its own last activation.  (With min_active_replicas = 0, which
\* nothing rejects, an activation does it, too.)
PutsToSleep == Act /\ val["replicas"] # val'["replicas"] /\ val'["replicas"] = 0

SleepsOnlyWhenQuiet ==
    [][PutsToSleep /\ scaler.zero.min_active_replicas > 0 =>
          /\ \/ ~Active(load) /\ age >= scaler.zero.idle_timeout_seconds
             \/ scaler.arrived
          /\ since_up = Absent \/ since_up >= scaler.zero.cooldown_seconds]_vars

Enabled == config.zero.enabled /\ config.zero.min_active_replicas > 0
Asleep  == Exists("statefulset") /\ val["replicas"] = 0
Awake   == Exists("statefulset") /\ val["replicas"] # 0

\* A cluster whose clients stay connected does not stay asleep, and one that
\* stays without activity does not stay awake, whatever else happened to its
\* replicas.
FollowsActivity ==
    /\ <>[](Enabled /\ load.connections > 0) => <>[]~Asleep
    /\ <>[](Enabled /\ ~Active(load)) => <>[]~Awake

Recommended(cur, l, a) == generate_recommendation(cur, l, a).recommended_replicas

\* The quotient does not fit 32 bits.
Overflows(l, a) == target_lag(l, a) > 0 /\ l.total_lag \div target_lag(l, a) >= I32

\* Following the recommendation twice is following it once, unless it scales
\* for throughput while there is a backlog, which the two criteria may do in
\* turns.
Settles(cur, l, a) ==
    LET next == Recommended(cur, l, a)
    IN  ~panics(next, l, a) /\ (l.total_lag = 0 \/ l.messages_per_second = 0)
            => Recommended(next, l, a) = next

\* Of two loads that differ in their backlog, the larger one does not get fewer
\* brokers, unless its quotient wraps.
Monotone(cur, l, m, a) ==
    l = [m EXCEPT !.total_lag = l.total_lag] /\ 0 < l.total_lag /\ l.total_lag <= m.total_lag
        => Recommended(cur, l, a) <= Recommended(cur, m, a) \/ Overflows(m, a)

\* The configurations whose recommendations settle and are monotone.
SteadyConfigs ==
    {a \in {c.autoscaling : c \in Configs} :
        \A cur \in 0..MaxReplicas : \A m \in {l \in Measured : ~panics(cur, l, a)} :
            Settles(cur, m, a) /\ \A l \in Measured : Monotone(cur, l, m, a)}

\* Recommendations are steady, from whatever number of brokers they start.
RecommendationIsSteady == config.autoscaling \in SteadyConfigs
==============================================================================
