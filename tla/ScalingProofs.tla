---------------------------- MODULE ScalingProofs ----------------------------
(***************************************************************************)
(* Proofs about Scaling, for all values of its constants.  The operator's  *)
(* applies never change what was set when an object was created by POST:   *)
(* every such field has an owner other than the manager of the applies,    *)
(* since an update hands a field over to another manager, and an apply     *)
(* takes a field over only if nobody else owns it.  A decision to sleep    *)
(* still has its reason when it is applied.  And recommendations are       *)
(* steady: following one for the load it was made for changes nothing      *)
(* more, and a larger backlog never gets fewer brokers.                    *)
(***************************************************************************)
EXTENDS Scaling, TLAPS

OwnedByOthers == \A f \in posted : owners[f] \ {"applier"} # {}

IInv == TypeOK /\ OwnedByOthers

\* Every field belongs to one object.
LEMMA FieldsOfObjects ==
    /\ \A o \in Objects : FieldsOf(o) \subseteq Fields
    /\ \A o, p \in Objects : FieldsOf(o) \cap FieldsOf(p) # {} => o = p
    /\ "replicas" \in Fields
<1>1. \A o \in Objects : FieldsOf(o) \subseteq Fields
  BY DEF Fields
<1>2. ASSUME NEW o \in Objects, NEW p \in Objects, NEW f \in FieldsOf(o) \cap FieldsOf(p)
      PROVE  o = p
  <2>1. o \in {"statefulset", "hpa", "scaledobject"} /\ p \in {"statefulset", "hpa", "scaledobject"}
    BY DEF Objects
  <2>2. /\ FieldsOf("statefulset") = {"replicas", "image", "nodeSelector"}
        /\ FieldsOf("hpa") = {"minReplicas", "maxReplicas", "metrics",
                "scaleUp.stabilizationWindowSeconds", "scaleUp.selectPolicy",
                "scaleUp.policies", "scaleDown.stabilizationWindowSeconds",
                "scaleDown.selectPolicy", "scaleDown.policies"}
        /\ FieldsOf("scaledobject") = {"pollingInterval", "cooldownPeriod",
                "minReplicaCount", "maxReplicaCount", "triggers"}
    BY DEF FieldsOf
  <2> QED  BY <1>2, <2>1, <2>2
<1>3. "replicas" \in FieldsOf("statefulset") /\ "statefulset" \in Objects
  BY DEF FieldsOf, Objects
<1> QED  BY <1>1, <1>2, <1>3

\* What is not there has no field that a POST has set.
LEMMA AbsentObjects ==
    ASSUME IInv, NEW o \in Objects, ~Exists(o)
    PROVE  posted \cap FieldsOf(o) = {}
BY FieldsOfObjects DEF IInv, TypeOK, Exists

\* Whoever creates an object owns it, and a POST is not the applier's.
LEMMA CreatedInvariant ==
    ASSUME IInv, NEW o \in Objects, ~Exists(o), UNCHANGED call \/ call' = Idle, NEW want,
           NEW manager \in {"creator", "applier"}, Created(o, want, manager)
    PROVE  IInv'
<1>1. posted \cap FieldsOf(o) = {} /\ FieldsOf(o) \subseteq Fields
  BY AbsentObjects, FieldsOfObjects
<1>2. TypeOK'
  <2>1. owners' \in [Fields -> SUBSET Managers]
    BY DEF IInv, TypeOK, Created, Managers
  <2>2. posted' \subseteq {f \in Fields : \E p \in present' : f \in FieldsOf(p)}
    BY <1>1 DEF IInv, TypeOK, Created
  <2> QED  BY <2>1, <2>2 DEF IInv, TypeOK, Created
<1>3. ASSUME NEW f \in posted' PROVE owners'[f] \ {"applier"} # {}
  <2>1. CASE f \in posted
    <3>1. f \in Fields /\ f \notin FieldsOf(o)
      BY <1>1, <2>1 DEF IInv, TypeOK
    <3> QED  BY <2>1, <3>1 DEF IInv, OwnedByOthers, Created
  <2>2. CASE f \notin posted
    <3>1. manager = "creator" /\ f \in FieldsOf(o) /\ f \in Fields /\ want[f] # Absent
      BY <1>1, <1>3, <2>2 DEF Created
    <3>2. owners'[f] = {"creator"}
      BY <3>1 DEF Created
    <3> QED  BY <3>2
  <2> QED  BY <2>1, <2>2
<1> QED  BY <1>2, <1>3 DEF IInv, OwnedByOthers

\* An update by another manager leaves the field with that manager.
LEMMA UpdatedInvariant ==
    ASSUME IInv, NEW f \in Fields, NEW value, NEW manager \in Managers \ {"applier"},
           Updated(f, value, manager), UNCHANGED call
    PROVE  IInv'
<1>1. TypeOK'
  BY DEF IInv, TypeOK, Updated
<1>2. ASSUME NEW g \in posted' PROVE owners'[g] \ {"applier"} # {}
  <2>1. owners'[g] = owners[g] \/ owners'[g] = {manager}
    BY DEF IInv, TypeOK, Updated
  <2> QED  BY <1>2, <2>1 DEF IInv, OwnedByOthers, Updated
<1> QED  BY <1>1, <1>2 DEF IInv, OwnedByOthers

\* An apply that is not refused leaves what a POST has set: it changes only
\* what nobody else owns.
LEMMA MergedKeeps ==
    ASSUME IInv, NEW o, NEW want, ~Conflicts(o, want), Merged(o, want), NEW f \in posted
    PROVE  val'[f] = val[f] /\ owners'[f] \ {"applier"} # {}
<1>1. f \in Fields /\ owners[f] \ {"applier"} # {}
  BY DEF IInv, TypeOK, OwnedByOthers
<1>2. CASE f \notin FieldsOf(o)
  BY <1>1, <1>2 DEF Merged
<1>3. CASE f \in FieldsOf(o) /\ want[f] = Absent
  <2>1. val'[f] = val[f]
    BY <1>1, <1>3 DEF Merged
  <2>2. owners'[f] = owners[f] \ {"applier"}
    BY <1>1, <1>3 DEF Merged
  <2> QED  BY <1>1, <2>1, <2>2
<1>4. CASE f \in FieldsOf(o) /\ want[f] # Absent
  <2>1. val[f] = want[f]
    BY <1>1, <1>4 DEF Conflicts
  <2>2. val'[f] = val[f]
    BY <1>1, <1>4, <2>1 DEF Merged
  <2>3. owners'[f] = owners[f] \cup {"applier"}
    BY <1>1, <1>4, <2>1 DEF Merged
  <2> QED  BY <1>1, <2>2, <2>3
<1> QED  BY <1>2, <1>3, <1>4

\* An apply creates an object of its own, or leaves the owners of what a POST
\* has set.
LEMMA AppliedInvariant ==
    ASSUME IInv, NEW o \in Objects, NEW want, Applied(o, want), call' = Idle
    PROVE  IInv'
<1>1. CASE ~Exists(o) /\ Created(o, want, "applier")
  BY <1>1, CreatedInvariant
<1>2. CASE UNCHANGED objVars
  BY <1>2 DEF objVars, IInv, TypeOK, OwnedByOthers
<1>3. CASE ~Conflicts(o, want) /\ Merged(o, want)
  <2>1. owners' \in [Fields -> SUBSET Managers]
    BY <1>3 DEF IInv, TypeOK, Merged, Managers
  <2>2. TypeOK'
    BY <1>3, <2>1 DEF IInv, TypeOK, Merged
  <2>3. OwnedByOthers'
    BY <1>3, MergedKeeps DEF OwnedByOthers, Merged
  <2> QED  BY <2>2, <2>3 DEF IInv
<1> QED  BY <1>1, <1>2, <1>3 DEF Applied

\* A POST creates an object that the poster owns.
LEMMA PostedInvariant ==
    ASSUME IInv, NEW o \in Objects, NEW want, Posted(o, want), call' = Idle
    PROVE  IInv'
<1>1. CASE Exists(o)
  BY <1>1 DEF Posted, objVars, IInv, TypeOK, OwnedByOthers
<1>2. CASE ~Exists(o)
  BY <1>2, CreatedInvariant DEF Posted
<1> QED  BY <1>1, <1>2

\* A deletion ends all ownership.
LEMMA RemovedInvariant ==
    ASSUME IInv, NEW o, Removed(o), UNCHANGED call
    PROVE  IInv'
<1>1. owners' \in [Fields -> SUBSET Managers]
  BY DEF IInv, TypeOK, Removed
<1>2. TypeOK'
  BY <1>1 DEF IInv, TypeOK, Removed
<1>3. ASSUME NEW f \in posted' PROVE owners'[f] = owners[f] /\ f \in posted
  BY <1>3 DEF IInv, TypeOK, Removed
<1> QED  BY <1>2, <1>3 DEF IInv, OwnedByOthers

\* Nothing else touches the objects.
LEMMA UnchangedInvariant ==
    ASSUME IInv, UNCHANGED objVars,
           UNCHANGED call \/ call' = Idle \/ call'.obj \in Objects
    PROVE  IInv'
BY DEF objVars, IInv, TypeOK, OwnedByOthers

\* Type correctness and the ownership of fields are inductive.
THEOREM FieldsStayOwned == Spec => []IInv
<1>1. Init => IInv
  <2> SUFFICES ASSUME Init PROVE IInv
    OBVIOUS
  <2>1. TypeOK
    BY DEF Init, TypeOK, Nothing
  <2>2. OwnedByOthers
    BY DEF Init, OwnedByOthers
  <2> QED  BY <2>1, <2>2 DEF IInv
<1>2. IInv /\ [Next]_vars => IInv'
  <2> SUFFICES ASSUME IInv, [Next]_vars PROVE IInv'
    OBVIOUS
  <2>1. ASSUME NEW o \in Objects, GetObject(o) PROVE IInv'
    BY <2>1, UnchangedInvariant DEF GetObject
  <2>2. ASSUME NEW o \in Objects, DeleteObject(o) PROVE IInv'
    BY <2>2, RemovedInvariant DEF DeleteObject
  <2>0. call.verb # "none" => call.obj \in Objects
    BY DEF IInv, TypeOK, Idle
  <2>3. CASE SendApply
    BY <2>0, <2>3, AppliedInvariant DEF SendApply
  <2>4. CASE SendCreate
    BY <2>0, <2>4, PostedInvariant DEF SendCreate
  <2>5. CASE SendFails
    BY <2>5, UnchangedInvariant DEF SendFails
  <2>6. CASE Evaluate
    BY <2>6, UnchangedInvariant DEF Evaluate
  <2>7. CASE Act
    <3>1. CASE Exists("statefulset")
      <4>1. Updated("replicas", scaler.decision.target_replicas, "patcher")
        BY <2>7, <3>1 DEF Act
      <4>2. "patcher" \in Managers \ {"applier"} /\ UNCHANGED call
        BY <2>7 DEF Managers, Act
      <4> QED  BY <4>1, <4>2, FieldsOfObjects, UpdatedInvariant
    <3>2. CASE ~Exists("statefulset")
      BY <2>7, <3>2, UnchangedInvariant DEF Act
    <3> QED  BY <3>1, <3>2
  <2>8. CASE ActFails
    BY <2>8, UnchangedInvariant DEF ActFails
  <2>9. CASE FollowRecommendation
    BY <2>9, UnchangedInvariant DEF FollowRecommendation
  <2>10. CASE Others
    <3>1. ASSUME NEW t \in Templates, EditTemplate(t) PROVE IInv'
      BY <3>1, UnchangedInvariant DEF EditTemplate
    <3>2. ASSUME NEW c \in Configs, EditConfig(c) PROVE IInv'
      BY <3>2, UnchangedInvariant DEF EditConfig
    <3>3. ASSUME NEW l \in Loads, LoadChanges(l) PROVE IInv'
      BY <3>3, UnchangedInvariant DEF LoadChanges
    <3>4. CASE TimePasses
      BY <3>4, UnchangedInvariant DEF TimePasses
    <3>5. ASSUME NEW n \in OthersChoice, OthersScale(n) PROVE IInv'
      <4>1. Updated("replicas", n, "other")
        BY <3>5 DEF OthersScale
      <4>2. "other" \in Managers \ {"applier"} /\ UNCHANGED call
        BY <3>5 DEF Managers, OthersScale
      <4> QED  BY <4>1, <4>2, FieldsOfObjects, UpdatedInvariant
    <3>6. ASSUME NEW o \in Objects, OthersDelete(o) PROVE IInv'
      BY <3>6, RemovedInvariant DEF OthersDelete
    <3> QED  BY <2>10, <3>1, <3>2, <3>3, <3>4, <3>5, <3>6 DEF Others
  <2>11. CASE UNCHANGED vars
    BY <2>11, UnchangedInvariant DEF vars
  <2> QED
    BY <2>1, <2>2, <2>3, <2>4, <2>5, <2>6, <2>7, <2>8, <2>9, <2>10, <2>11 DEF Next
<1> QED  BY <1>1, <1>2, PTL DEF Spec

\* What a POST has set, as the reconciler does whenever its get finds no object,
\* is never changed by its server-side applies, and one that would change it
\* does nothing: no reconciliation wakes a cluster that was scaled to zero, and
\* none rolls out a spec in which such a field was edited.
THEOREM AppliesKeep == Spec => AppliesKeepPostedFields
<1>1. IInv /\ [Next]_vars
         => [SendApply => /\ \A f \in posted : val'[f] = val[f]
                          /\ Refusable(call.want) # {} => val' = val]_vars
  <2> SUFFICES ASSUME IInv, SendApply
               PROVE  /\ \A f \in posted : val'[f] = val[f]
                      /\ Refusable(call.want) # {} => val' = val
    OBVIOUS
  <2> DEFINE o == call.obj
  <2>1. o \in Objects /\ Applied(o, call.want)
    BY DEF IInv, TypeOK, SendApply, Idle
  <2>2. CASE ~Exists(o) /\ Created(o, call.want, "applier")
    <3>1. posted \cap FieldsOf(o) = {}
      BY <2>1, <2>2, AbsentObjects
    <3>2. Refusable(call.want) = {}
      BY <3>1 DEF Refusable
    <3> QED  BY <2>2, <3>1, <3>2 DEF Created, IInv, TypeOK
  <2>3. CASE UNCHANGED objVars
    BY <2>3 DEF objVars
  <2>4. CASE ~Conflicts(o, call.want) /\ Merged(o, call.want)
    <3>1. Refusable(call.want) = {}
      BY <2>4 DEF Refusable, Conflicts, IInv, OwnedByOthers
    <3> QED  BY <2>4, <3>1, MergedKeeps
  <2> QED  BY <2>1, <2>2, <2>3, <2>4 DEF Applied
<1> QED  BY <1>1, FieldsStayOwned, PTL DEF Spec, AppliesKeepPostedFields

-------------------------------------------------------------------------------
\* What the loop has decided still has its reason while nothing has arrived.
Quiet    == ~Active(load) /\ age >= scaler.zero.idle_timeout_seconds
CooledUp == since_up = Absent \/ since_up >= scaler.zero.cooldown_seconds

AgesOK == age \in 0..MaxAge /\ (since_up = Absent \/ since_up \in 0..MaxAge)

DecisionHolds ==
    scaler # Idle =>
        /\ scaler = [verb |-> "act", decision |-> scaler.decision,
                     zero |-> scaler.zero, arrived |-> scaler.arrived]
        /\ scaler.zero \in {c.zero : c \in Configs}
        /\ \/ /\ scaler.decision.action = "ScaleToZero"
              /\ Quiet \/ scaler.arrived
              /\ CooledUp
           \/ scaler.decision = ScaleAction("Activate", scaler.zero.min_active_replicas)

LoopInv == config \in Configs /\ AgesOK /\ DecisionHolds

\* The thresholds are integers, and so are the ages; decisions are records of
\* other kinds than Idle.
LEMMA ZeroTyped ==
    ASSUME NEW z \in {c.zero : c \in Configs}
    PROVE  /\ z.idle_timeout_seconds \in Int /\ z.cooldown_seconds \in Int
           /\ z.min_active_replicas \in Int
BY ScalingAssumption

\* evaluate puts a cluster to sleep only after the timeout and the cooldown.
LEMMA EvaluateIsRight ==
    ASSUME NEW z \in {c.zero : c \in Configs}, AgesOK, NEW cur,
           NEW d, d = evaluate(build_activity_snapshot(load.messages_per_second,
                                  load.connections, age, z.idle_timeout_seconds),
                               z, cur, since_up),
           acts(d)
    PROVE  \/ /\ d.action = "ScaleToZero"
              /\ load.messages_per_second = 0 /\ load.connections = 0
              /\ age >= z.idle_timeout_seconds
              /\ since_up = Absent \/ since_up >= z.cooldown_seconds
           \/ d = ScaleAction("Activate", z.min_active_replicas)
<1> DEFINE s == build_activity_snapshot(load.messages_per_second, load.connections,
                                        age, z.idle_timeout_seconds)
<1>1. \/ d = ScaleAction("Activate", z.min_active_replicas)
      \/ /\ d = ScaleAction("ScaleToZero", 0)
         /\ s.is_idle
         /\ ~(since_up # Absent /\ since_up < z.cooldown_seconds)
  <2>1. ~acts(ScaleAction("None", cur)) /\ ~acts(ScaleAction("InCooldown", cur))
    BY DEF acts, ScaleAction
  <2>2. d = evaluate(s, z, cur, since_up)
    OBVIOUS
  <2> HIDE DEF s
  <2> QED  BY <2>1, <2>2 DEF evaluate
<1>2. s.is_idle = (load.messages_per_second = 0 /\ load.connections = 0
                      /\ age >= z.idle_timeout_seconds)
  BY DEF build_activity_snapshot
<1>3. ~(since_up # Absent /\ since_up < z.cooldown_seconds)
         => since_up = Absent \/ since_up >= z.cooldown_seconds
  BY ZeroTyped, ScalingAssumption DEF AgesOK
<1>4. ScaleAction("ScaleToZero", 0).action = "ScaleToZero"
  BY DEF ScaleAction
<1> HIDE DEF s
<1> QED  BY <1>1, <1>2, <1>3, <1>4

\* The reason of a decision outlasts changes of the load and the passing of
\* time, or activity has arrived.
LEMMA DecisionOutlastsTime ==
    ASSUME LoopInv, TimePasses
    PROVE  LoopInv'
<1>1. AgesOK'
  BY ScalingAssumption DEF LoopInv, AgesOK, TimePasses, AtMost
<1>2. ASSUME scaler # Idle, Quiet PROVE Quiet'
  <2>1. scaler.zero.idle_timeout_seconds \in Int
    BY <1>2, ZeroTyped DEF LoopInv, DecisionHolds
  <2>2. age' >= age
    BY <1>2, ScalingAssumption DEF LoopInv, AgesOK, TimePasses, AtMost, Quiet
  <2> QED  BY <1>1, <1>2, <2>1, <2>2, ScalingAssumption
           DEF LoopInv, AgesOK, TimePasses, Quiet, Active
<1>3. ASSUME scaler # Idle, CooledUp PROVE CooledUp'
  <2>1. scaler.zero.cooldown_seconds \in Int
    BY <1>3, ZeroTyped DEF LoopInv, DecisionHolds
  <2> QED  BY <1>3, <2>1, ScalingAssumption
           DEF LoopInv, AgesOK, TimePasses, AtMost, CooledUp
<1>4. scaler' = scaler /\ config' = config
  BY DEF TimePasses
<1> QED  BY <1>1, <1>2, <1>3, <1>4 DEF LoopInv, DecisionHolds

\* A new load only adds activity.
LEMMA DecisionOutlastsLoad ==
    ASSUME LoopInv, NEW l \in Loads, LoadChanges(l)
    PROVE  LoopInv'
<1>1. AgesOK' /\ config' \in Configs
  BY ScalingAssumption DEF LoopInv, AgesOK, LoadChanges
<1>2. CASE scaler = Idle
  BY <1>1, <1>2 DEF LoopInv, DecisionHolds, LoadChanges
<1>3. CASE scaler # Idle /\ Active(l)
  <2>1. scaler' = [scaler EXCEPT !.arrived = TRUE] /\ since_up' = since_up
    BY <1>3 DEF LoadChanges
  <2> QED
    <3>1. /\ scaler'.decision = scaler.decision /\ scaler'.zero = scaler.zero
          /\ scaler'.arrived = TRUE /\ scaler'.verb = "act"
          /\ scaler' = [verb |-> "act", decision |-> scaler.decision,
                        zero |-> scaler.zero, arrived |-> TRUE]
      <4>1. PICK x, y, z : scaler = [verb |-> "act", decision |-> x, zero |-> y, arrived |-> z]
        BY <1>3 DEF LoopInv, DecisionHolds
      <4> QED  BY <2>1, <4>1
    <3>2. CooledUp => CooledUp'
      BY <2>1, <3>1 DEF CooledUp
    <3> QED  BY <1>1, <1>3, <3>1, <3>2 DEF LoopInv, DecisionHolds
<1>4. CASE scaler # Idle /\ ~Active(l)
  <2>1. scaler' = scaler /\ since_up' = since_up /\ load' = l
    BY <1>4 DEF LoadChanges
  <2>2. Quiet => Quiet'
    BY <1>4, <2>1 DEF Quiet, LoadChanges
  <2>3. CooledUp => CooledUp'
    BY <2>1 DEF CooledUp
  <2> QED  BY <1>1, <1>4, <2>1, <2>2, <2>3 DEF LoopInv, DecisionHolds
<1> QED  BY <1>2, <1>3, <1>4

\* A decision holds when it is made.
LEMMA EvaluateInvariant ==
    ASSUME LoopInv, Evaluate
    PROVE  LoopInv'
<1> DEFINE d == evaluate(build_activity_snapshot(load.messages_per_second,
                            load.connections, age, config.zero.idle_timeout_seconds),
                         config.zero, val["replicas"], since_up)
<1>1. /\ acts(d)
      /\ scaler' = [verb |-> "act", decision |-> d, zero |-> config.zero, arrived |-> FALSE]
      /\ UNCHANGED <<config, load, age, since_up>>
  BY DEF Evaluate, envVars
<1>2. config.zero \in {c.zero : c \in Configs}
  BY DEF LoopInv
<1>3. \/ /\ d.action = "ScaleToZero"
         /\ load.messages_per_second = 0 /\ load.connections = 0
         /\ age >= config.zero.idle_timeout_seconds
         /\ since_up = Absent \/ since_up >= config.zero.cooldown_seconds
      \/ d = ScaleAction("Activate", config.zero.min_active_replicas)
  BY <1>1, <1>2, EvaluateIsRight DEF LoopInv
<1> HIDE DEF d
<1>4. /\ scaler'.decision = d /\ scaler'.zero = config.zero /\ scaler'.arrived = FALSE
      /\ scaler' = [verb |-> "act", decision |-> scaler'.decision,
                    zero |-> scaler'.zero, arrived |-> scaler'.arrived]
  BY <1>1
<1>5. d.action = "ScaleToZero" /\ load.messages_per_second = 0 /\ load.connections = 0
         /\ age >= config.zero.idle_timeout_seconds => Quiet'
  BY <1>1, <1>4 DEF Quiet, Active
<1>6. since_up = Absent \/ since_up >= config.zero.cooldown_seconds => CooledUp'
  BY <1>1, <1>4 DEF CooledUp
<1>7. DecisionHolds'
  BY <1>2, <1>3, <1>4, <1>5, <1>6 DEF DecisionHolds
<1>8. AgesOK' /\ config' \in Configs
  BY <1>1 DEF LoopInv, AgesOK
<1> QED  BY <1>7, <1>8 DEF LoopInv

\* A cycle ends, and may have been an activation.
LEMMA CycleEnds ==
    ASSUME LoopInv, scaler' = Idle, UNCHANGED <<config, load, age>>,
           since_up' \in {0, since_up}
    PROVE  LoopInv'
BY ScalingAssumption DEF LoopInv, AgesOK, DecisionHolds

\* Whatever else happens leaves the loop, its configuration or the facts alone.
LEMMA LoopLeftAlone ==
    ASSUME LoopInv, config' \in Configs, UNCHANGED <<load, age, since_up, scaler>>
    PROVE  LoopInv'
BY DEF LoopInv, AgesOK, DecisionHolds, Quiet, CooledUp

\* A decision of the loop has its reason until it is applied.
THEOREM DecisionsHold == Spec => []LoopInv
<1>1. Init => LoopInv
  BY ScalingAssumption DEF Init, LoopInv, AgesOK, DecisionHolds
<1>2. LoopInv /\ [Next]_vars => LoopInv'
  <2> SUFFICES ASSUME LoopInv, [Next]_vars PROVE LoopInv'
    OBVIOUS
  <2>0. config \in Configs
    BY DEF LoopInv
  <2>1. ASSUME NEW o \in Objects, GetObject(o) \/ DeleteObject(o) PROVE LoopInv'
    BY <2>0, <2>1, LoopLeftAlone DEF GetObject, DeleteObject, envVars
  <2>2. CASE SendApply \/ SendCreate \/ SendFails
    BY <2>0, <2>2, LoopLeftAlone DEF SendApply, SendCreate, SendFails, envVars
  <2>3. CASE Evaluate
    BY <2>3, EvaluateInvariant
  <2>4. CASE Act
    BY <2>4, CycleEnds DEF Act
  <2>5. CASE ActFails
    BY <2>5, CycleEnds DEF ActFails, envVars
  <2>6. CASE FollowRecommendation
    BY <2>0, <2>6, LoopLeftAlone DEF FollowRecommendation, envVars
  <2>7. CASE Others
    <3>1. ASSUME NEW t \in Templates, EditTemplate(t) PROVE LoopInv'
      BY <2>0, <3>1, LoopLeftAlone DEF EditTemplate, envVars
    <3>2. ASSUME NEW c \in Configs, EditConfig(c) PROVE LoopInv'
      BY <3>2, LoopLeftAlone DEF EditConfig, envVars
    <3>3. ASSUME NEW l \in Loads, LoadChanges(l) PROVE LoopInv'
      BY <3>3, DecisionOutlastsLoad
    <3>4. CASE TimePasses
      BY <3>4, DecisionOutlastsTime
    <3>5. ASSUME NEW n \in OthersChoice, OthersScale(n) PROVE LoopInv'
      BY <2>0, <3>5, LoopLeftAlone DEF OthersScale, envVars
    <3>6. ASSUME NEW o \in Objects, OthersDelete(o) PROVE LoopInv'
      BY <2>0, <3>6, LoopLeftAlone DEF OthersDelete, envVars
    <3> QED  BY <2>7, <3>1, <3>2, <3>3, <3>4, <3>5, <3>6 DEF Others
  <2>8. CASE UNCHANGED vars
    BY <2>0, <2>8, LoopLeftAlone DEF vars, envVars
  <2> QED  BY <2>1, <2>2, <2>3, <2>4, <2>5, <2>6, <2>7, <2>8 DEF Next
<1> QED  BY <1>1, <1>2, PTL DEF Spec

\* The loop never puts a cluster to sleep that was active within the timeout,
\* other than by activity that arrived after its snapshot, or that it woke
\* within the cooldown.
THEOREM SleepsRightly == Spec => SleepsOnlyWhenQuiet
<1>1. LoopInv /\ [Next]_vars
         => [PutsToSleep /\ scaler.zero.min_active_replicas > 0 =>
                /\ \/ ~Active(load) /\ age >= scaler.zero.idle_timeout_seconds
                   \/ scaler.arrived
                /\ since_up = Absent \/ since_up >= scaler.zero.cooldown_seconds]_vars
  <2> SUFFICES ASSUME LoopInv, PutsToSleep, scaler.zero.min_active_replicas > 0
               PROVE  (Quiet \/ scaler.arrived) /\ CooledUp
    BY DEF Quiet, CooledUp
  <2>0. Act /\ val["replicas"] # val'["replicas"] /\ val'["replicas"] = 0
    BY DEF PutsToSleep
  <2>1. Updated("replicas", scaler.decision.target_replicas, "patcher")
    BY <2>0 DEF Act, objVars
  <2>2. scaler.decision.target_replicas = 0
    <3>1. val' = [val EXCEPT !["replicas"] = scaler.decision.target_replicas]
      BY <2>1 DEF Updated
    <3> QED  BY <2>0, <3>1
  <2>3. scaler.decision # ScaleAction("Activate", scaler.zero.min_active_replicas)
    BY <2>2 DEF ScaleAction
  <2> QED  BY <2>0, <2>3 DEF LoopInv, DecisionHolds, Act
<1> QED  BY <1>1, DecisionsHold, PTL DEF Spec, SleepsOnlyWhenQuiet

-------------------------------------------------------------------------------
(***************************************************************************)
(* Recommendations.  What lag, throughput and partitions ask for does not  *)
(* depend on the current number of brokers; only the decision whether to   *)
(* look at them does, and that is monotone in it.                          *)
(***************************************************************************)
\* Integer division, of which the provers know the defining inequalities.
LEMMA DivMonotone ==
    ASSUME NEW a \in Int, NEW b \in Int, NEW c \in Nat \ {0}, a <= b
    PROVE  a \div c \in Int /\ b \div c \in Int /\ a \div c <= b \div c
OBVIOUS

\* Division by more gives less.
LEMMA DivAntitone ==
    ASSUME NEW a \in Nat, NEW c \in Nat \ {0}, NEW d \in Nat \ {0}, c <= d
    PROVE  a \div c \in Nat /\ a \div d \in Nat /\ a \div d <= a \div c
OBVIOUS

\* Multiplication by a count keeps the order.
LEMMA ProductMonotone ==
    ASSUME NEW a \in Nat, NEW b \in Nat, NEW c \in Nat, b <= c
    PROVE  a * b \in Nat /\ a * c \in Nat /\ a * b <= a * c
OBVIOUS

\* A cast to i32 never exceeds its largest value, and keeps what fits.
LEMMA Narrowing ==
    ASSUME NEW n \in Int
    PROVE  /\ narrowed(n) \in Int /\ narrowed(n) <= I32 - 1
           /\ n \in 0..(I32 - 1) => narrowed(n) = n
<1>1. I32 \in Nat \ {0}
  BY RecommendationAssumption
<1>2. (n + I32) % (2 * I32) \in 0..(2 * I32 - 1)
  BY <1>1
<1>3. ASSUME n \in 0..(I32 - 1) PROVE (n + I32) % (2 * I32) = n + I32
  BY <1>1, <1>3
<1> QED  BY <1>1, <1>2, <1>3 DEF narrowed

\* Division rounded up: at least the quotient, and monotone.
LEMMA CeilDiv ==
    ASSUME NEW a \in Nat, NEW b \in Nat
    PROVE  /\ ceil_div(a, b) \in Int
           /\ b # 0 => a \div b \in Nat /\ a \div b <= ceil_div(a, b)
           /\ \A c \in Nat : a <= c => ceil_div(a, b) <= ceil_div(c, b)
<1>1. I32 \in Nat
  BY RecommendationAssumption
<1>2. CASE b = 0
  BY <1>1, <1>2 DEF ceil_div
<1>3. CASE b # 0
  <2>1. \A c \in Nat : ceil_div(c, b) = (c + b - 1) \div b
    BY <1>3 DEF ceil_div
  <2>2. ceil_div(a, b) = (a + b - 1) \div b /\ (a + b - 1) \div b \in Int
    BY <1>3, <2>1, DivMonotone
  <2>3. a \div b <= (a + b - 1) \div b /\ a \div b \in Nat
    BY <1>3, DivMonotone
  <2>4. ASSUME NEW c \in Nat, a <= c
        PROVE  ceil_div(a, b) <= ceil_div(c, b)
    <3>1. (a + b - 1) \div b <= (c + b - 1) \div b
      BY <1>3, <2>4, DivMonotone
    <3> QED  BY <2>1, <3>1
  <2>5. b # 0 => a \div b \in Nat /\ a \div b <= ceil_div(a, b)
    BY <2>2, <2>3
  <2>6. ceil_div(a, b) \in Int
    BY <2>2
  <2> QED  BY <2>4, <2>5, <2>6
<1> QED  BY <1>2, <1>3

\* The brokers that a high lag, a low lag and the throughput ask for.
NeededMore(m, a) == narrowed(AtLeast(1, m.total_lag \div target_lag(m, a)))
NeededLess(m, a) == AtLeast(1, saturated(ceil_div(m.total_lag, target_lag(m, a))))
NeededRate(m, a) == saturated(ceil_div(m.messages_per_second, a.target_messages_per_second))

Hot(cur, m, a) == m.messages_per_second * 2 > a.target_messages_per_second * 3 * cur

Limited(r, m, a) == AtMost(a.max_replicas, AtLeast(a.min_replicas, by_partitions(r, m)))

\* The recommendation is made of the two criteria, then limited.
LEMMA RecommendedIs ==
    ASSUME NEW cur, NEW m, NEW a
    PROVE  Recommended(cur, m, a)
              = Limited(by_throughput(by_lag(cur, m, a), cur, m, a), m, a)
BY DEF Recommended, generate_recommendation, Limited

\* The lag a configuration tolerates is a count.
LEMMA TargetLag ==
    ASSUME NEW m \in PartitionMetrics, NEW a, Sensible(a)
    PROVE  target_lag(m, a) \in Nat
<1>1. m.total_partitions \in Nat /\ a.target_lag_per_partition \in Nat
  BY DEF PartitionMetrics, Sensible
<1> QED  BY <1>1, ProductMonotone DEF target_lag

\* What a high lag asks for is not more than what a low lag would leave.
LEMMA Needed ==
    ASSUME NEW m \in PartitionMetrics, NEW a, Sensible(a)
    PROVE  /\ NeededLess(m, a) \in Nat \ {0} /\ NeededRate(m, a) \in Int
           /\ target_lag(m, a) # 0 =>
                 NeededMore(m, a) \in Int /\ NeededMore(m, a) <= NeededLess(m, a)
<1> DEFINE l == m.total_lag
           g == target_lag(m, a)
           q == l \div g
           c == ceil_div(l, g)
<1>1. I32 \in Nat \ {0} /\ l \in Nat /\ g \in Nat
  BY RecommendationAssumption, TargetLag DEF PartitionMetrics
<1>2. c \in Int /\ (g # 0 => q \in Nat /\ q <= c)
  BY <1>1, CeilDiv
<1>3. NeededLess(m, a) \in Nat \ {0}
  <2> HIDE DEF c
  <2> QED  BY <1>1, <1>2 DEF NeededLess, AtLeast, saturated, AtMost, c
<1>4. NeededRate(m, a) \in Int
  <2> DEFINE r == ceil_div(m.messages_per_second, a.target_messages_per_second)
  <2>1. r \in Int
    BY CeilDiv DEF PartitionMetrics, Sensible
  <2>2. NeededRate(m, a) = saturated(r)
    BY DEF NeededRate
  <2> HIDE DEF r
  <2> QED  BY <1>1, <2>1, <2>2 DEF saturated, AtMost
<1>5. ASSUME g # 0 PROVE NeededMore(m, a) \in Int /\ NeededMore(m, a) <= NeededLess(m, a)
  <2>1. NeededMore(m, a) = narrowed(AtLeast(1, q)) /\ NeededLess(m, a) = AtLeast(1, saturated(c))
    BY DEF NeededMore, NeededLess
  <2> HIDE DEF q, c
  <2>2. AtLeast(1, q) \in Nat \ {0}
    BY <1>2, <1>5 DEF AtLeast
  <2> DEFINE n == AtLeast(1, q)
             k == narrowed(n)
  <2>3. k \in Int /\ k <= I32 - 1 /\ (n <= I32 - 1 => k = n)
    BY <1>1, <2>2, Narrowing
  <2> DEFINE e == AtLeast(1, saturated(c))
  <2>4. /\ e \in Int /\ 1 <= e /\ (I32 - 1 <= e \/ c <= e)
    BY <1>1, <1>2 DEF AtLeast, saturated, AtMost
  <2>5. n = 1 \/ n = q
    BY <1>2, <1>5 DEF AtLeast
  <2> HIDE DEF n, k, e
  <2>6. k <= e
    BY <1>1, <1>2, <1>5, <2>2, <2>3, <2>4, <2>5 DEF n
  <2> QED  BY <2>1, <2>3, <2>6 DEF k, n, e
<1> QED  BY <1>3, <1>4, <1>5

\* The limits are monotone and idempotent; where they raise a number above the
\* lower limit, it is the partitions that do.
LEMMA Limits ==
    ASSUME NEW m \in PartitionMetrics, NEW a, Sensible(a), NEW x \in Int, NEW y \in Int
    PROVE  LET n == Limited(x, m, a)
               k == Limited(y, m, a)
           IN  /\ n \in Int /\ (0 <= x => 0 <= n)
               /\ x <= n \/ n = a.max_replicas
               /\ n <= a.max_replicas
               /\ x <= y => n <= k
               /\ y = n => k = n
               /\ a.min_replicas < n /\ x < n => n <= k
<1> DEFINE hi == a.max_replicas
           lo == a.min_replicas
           some == m.total_partitions > 0
           p == AtLeast(1, m.total_partitions \div 100)
<1>1. hi \in Nat /\ lo \in Int /\ m.total_partitions \in Nat
  BY DEF Sensible, PartitionMetrics
<1>2. p \in Int
  <2>1. m.total_partitions \div 100 \in Int
    BY <1>1
  <2> QED  BY <2>1 DEF AtLeast
<1>3. ASSUME NEW r
      PROVE  Limited(r, m, a) = AtMost(hi, AtLeast(lo, IF some THEN AtLeast(r, p) ELSE r))
  BY DEF Limited, by_partitions
<1>4. some \in BOOLEAN
  OBVIOUS
<1> HIDE DEF hi, lo, some, p
<1> DEFINE n == Limited(x, m, a)
           k == Limited(y, m, a)
<1>5. n = AtMost(hi, AtLeast(lo, IF some THEN AtLeast(x, p) ELSE x))
      /\ k = AtMost(hi, AtLeast(lo, IF some THEN AtLeast(y, p) ELSE y))
  BY <1>3
<1> HIDE DEF n, k
<1>6. CASE some
  <2>1. n = AtMost(hi, AtLeast(lo, AtLeast(x, p))) /\ k = AtMost(hi, AtLeast(lo, AtLeast(y, p)))
    BY <1>5, <1>6
  <2>2. /\ n \in Int /\ (0 <= x => 0 <= n)
        /\ x <= n \/ n = hi
        /\ n <= hi
    BY <1>1, <1>2, <2>1 DEF AtMost, AtLeast, hi, lo
  <2>3. /\ x <= y => n <= k
        /\ lo < n /\ x < n => n <= k
    BY <1>1, <1>2, <2>1 DEF AtMost, AtLeast, hi, lo
  <2>4. y = n => k = n
    BY <1>1, <1>2, <2>1 DEF AtMost, AtLeast, hi, lo
  <2> QED  BY <2>2, <2>3, <2>4 DEF n, k, hi, lo
<1>7. CASE ~some
  <2>1. n = AtMost(hi, AtLeast(lo, x)) /\ k = AtMost(hi, AtLeast(lo, y))
    BY <1>5, <1>7
  <2>2. /\ n \in Int /\ (0 <= x => 0 <= n)
        /\ x <= n \/ n = hi
        /\ n <= hi
        /\ x <= y => n <= k
        /\ lo < n /\ x < n => n <= k
        /\ y = n => k = n
    BY <1>1, <2>1 DEF AtMost, AtLeast, hi, lo
  <2> QED  BY <2>2 DEF n, k, hi, lo
<1> QED  BY <1>6, <1>7

\* More brokers do not make the lag of each one higher, nor the throughput.
LEMMA MoreBrokers ==
    ASSUME NEW m \in PartitionMetrics, NEW a, Sensible(a),
           NEW c \in Nat, NEW d \in Nat, c <= d
    PROVE  /\ c # 0 /\ high_lag(d, m, a) => high_lag(c, m, a)
           /\ c # 0 /\ low_lag(c, m, a) => low_lag(d, m, a)
           /\ Hot(d, m, a) => Hot(c, m, a)
<1>1. /\ m.total_lag \in Nat /\ m.messages_per_second \in Nat /\ a.min_replicas \in Int
      /\ a.target_lag_per_partition \in Nat /\ a.target_messages_per_second \in Nat
  BY DEF PartitionMetrics, Sensible
<1>2. ASSUME c # 0
      PROVE  /\ high_lag(d, m, a) => high_lag(c, m, a)
             /\ low_lag(c, m, a) => low_lag(d, m, a)
  <2> DEFINE x == lag_per_broker(c, m)
             y == lag_per_broker(d, m)
             h == a.target_lag_per_partition * 2
             q == a.target_lag_per_partition \div 4
  <2>1. x \in Nat /\ y \in Nat /\ y <= x
    BY <1>1, <1>2, DivAntitone DEF lag_per_broker
  <2>2. h \in Int /\ q \in Int
    BY <1>1
  <2>3. /\ high_lag(c, m, a) <=> x > h
        /\ high_lag(d, m, a) <=> y > h
        /\ low_lag(c, m, a) <=> x < q /\ c > a.min_replicas
        /\ low_lag(d, m, a) <=> y < q /\ d > a.min_replicas
    BY DEF high_lag, low_lag
  <2> HIDE DEF x, y, h, q
  <2>4. high_lag(d, m, a) => high_lag(c, m, a)
    BY <2>1, <2>2, <2>3
  <2>5. low_lag(c, m, a) => low_lag(d, m, a)
    BY <1>1, <2>1, <2>2, <2>3
  <2> QED  BY <2>4, <2>5
<1>3. Hot(d, m, a) => Hot(c, m, a)
  <2> DEFINE t == a.target_messages_per_second * 3
  <2>1. t \in Nat
    BY <1>1
  <2>2. t * c \in Nat /\ t * d \in Nat /\ t * c <= t * d
    <3> HIDE DEF t
    <3> QED  BY <2>1, ProductMonotone
  <2>3. /\ Hot(c, m, a) <=> m.messages_per_second * 2 > t * c
        /\ Hot(d, m, a) <=> m.messages_per_second * 2 > t * d
    BY DEF Hot
  <2> HIDE DEF t
  <2> QED  BY <1>1, <2>2, <2>3
<1> QED  BY <1>2, <1>3

\* What lag and throughput make of the current number.
LEMMA Criteria ==
    ASSUME NEW m \in PartitionMetrics, NEW a, Sensible(a), NEW c \in Nat, ~panics(c, m, a)
    PROVE  /\ ~looks_at_lag(m, a) => by_lag(c, m, a) = c
           /\ looks_at_lag(m, a) => c # 0
           /\ looks_at_lag(m, a) /\ high_lag(c, m, a) =>
                 /\ by_lag(c, m, a) = AtLeast(c, NeededMore(m, a))
                 /\ target_lag(m, a) # 0
           /\ looks_at_lag(m, a) /\ ~high_lag(c, m, a) /\ low_lag(c, m, a) =>
                 by_lag(c, m, a) = AtMost(c, NeededLess(m, a))
           /\ looks_at_lag(m, a) /\ ~high_lag(c, m, a) /\ ~low_lag(c, m, a) =>
                 by_lag(c, m, a) = c
           /\ by_lag(c, m, a) \in Nat
<1>1. looks_at_lag(m, a) => c # 0
  BY DEF panics
<1>2. looks_at_lag(m, a) /\ high_lag(c, m, a) => target_lag(m, a) # 0
  BY <1>1 DEF panics
<1>3. by_lag(c, m, a) =
         IF ~looks_at_lag(m, a) THEN c
         ELSE IF high_lag(c, m, a) THEN AtLeast(c, NeededMore(m, a))
         ELSE IF low_lag(c, m, a) THEN AtMost(c, NeededLess(m, a))
         ELSE c
  BY DEF by_lag, NeededMore, NeededLess
<1>4. CASE ~looks_at_lag(m, a)
  BY <1>3, <1>4
<1>5. CASE looks_at_lag(m, a) /\ high_lag(c, m, a)
  <2>1. by_lag(c, m, a) = AtLeast(c, NeededMore(m, a))
    BY <1>3, <1>5
  <2>2. NeededMore(m, a) \in Int
    BY <1>2, <1>5, Needed
  <2>3. AtLeast(c, NeededMore(m, a)) \in Nat
    BY <2>2 DEF AtLeast
  <2> QED  BY <1>1, <1>2, <1>5, <2>1, <2>3
<1>6. CASE looks_at_lag(m, a) /\ ~high_lag(c, m, a) /\ low_lag(c, m, a)
  <2>1. by_lag(c, m, a) = AtMost(c, NeededLess(m, a))
    BY <1>3, <1>6
  <2>2. NeededLess(m, a) \in Nat
    BY Needed
  <2>3. AtMost(c, NeededLess(m, a)) \in Nat
    BY <2>2 DEF AtMost
  <2> QED  BY <1>1, <1>6, <2>1, <2>3
<1>7. CASE looks_at_lag(m, a) /\ ~high_lag(c, m, a) /\ ~low_lag(c, m, a)
  BY <1>1, <1>3, <1>7
<1> QED  BY <1>4, <1>5, <1>6, <1>7

\* What the criterion of the message rate does to a recommendation.
LEMMA Throughput ==
    ASSUME NEW m \in PartitionMetrics, NEW a, Sensible(a), NEW c \in Nat, NEW r \in Int
    PROVE  /\ Hot(c, m, a) => by_throughput(r, c, m, a) = AtLeast(r, NeededRate(m, a))
           /\ ~Hot(c, m, a) => by_throughput(r, c, m, a) = r
           /\ m.messages_per_second = 0 => ~Hot(c, m, a)
           /\ by_throughput(r, c, m, a) \in Int /\ r <= by_throughput(r, c, m, a)
<1>1. by_throughput(r, c, m, a) = IF Hot(c, m, a) THEN AtLeast(r, NeededRate(m, a)) ELSE r
  BY DEF by_throughput, Hot, NeededRate
<1>2. NeededRate(m, a) \in Int
  BY Needed
<1>3. AtLeast(r, NeededRate(m, a)) \in Int /\ r <= AtLeast(r, NeededRate(m, a))
  BY <1>2 DEF AtLeast
<1>4. m.messages_per_second = 0 => ~Hot(c, m, a)
  <2>1. a.target_messages_per_second * 3 \in Nat
    BY DEF Sensible
  <2>2. a.target_messages_per_second * 3 * c \in Nat
    BY <2>1, ProductMonotone
  <2> QED  BY <2>2 DEF Hot
<1> QED  BY <1>1, <1>2, <1>3, <1>4

\* Without a backlog: if the throughput asks for more brokers again, it asked
\* for as many before.
LEMMA RateSettles ==
    ASSUME NEW m \in PartitionMetrics, NEW a, Sensible(a), NEW cur \in Nat,
           ~panics(cur, m, a), ~panics(Recommended(cur, m, a), m, a), ~looks_at_lag(m, a)
    PROVE  Recommended(Recommended(cur, m, a), m, a) = Recommended(cur, m, a)
<1> DEFINE n == Recommended(cur, m, a)
           x == by_throughput(cur, cur, m, a)
           y == by_throughput(n, n, m, a)
           hi == a.max_replicas
<1>1. x \in Int /\ cur <= x
  BY Throughput
<1>2. n = Limited(x, m, a)
  <2>1. by_lag(cur, m, a) = cur
    BY Criteria
  <2> QED  BY <2>1, RecommendedIs
<1>3. n \in Nat /\ (x <= n \/ n = hi)
  <2>1. Limited(x, m, a) \in Int /\ 0 <= Limited(x, m, a)
        /\ (x <= Limited(x, m, a) \/ Limited(x, m, a) = hi)
    BY <1>1, Limits
  <2> HIDE DEF n
  <2> QED  BY <1>2, <2>1
<1>4. Recommended(n, m, a) = Limited(y, m, a)
  <2>1. by_lag(n, m, a) = n
    BY <1>3, Criteria
  <2> QED  BY <2>1, RecommendedIs
<1>5. y \in Int /\ n <= y /\ hi \in Nat
  BY <1>3, Throughput DEF Sensible
<1>6. Limited(y, m, a) \in Int /\ n <= Limited(y, m, a) /\ Limited(y, m, a) <= hi
  <2>1. Limited(n, m, a) = n
    <3> HIDE DEF n
    <3> QED  BY <1>1, <1>2, <1>3, Limits
  <2>2. /\ Limited(n, m, a) <= Limited(y, m, a)
        /\ Limited(y, m, a) \in Int /\ Limited(y, m, a) <= hi
    <3> HIDE DEF n, y
    <3> QED  BY <1>3, <1>5, Limits
  <2> HIDE DEF n, y
  <2> QED  BY <2>1, <2>2
<1>7. CASE n = hi
  <2> HIDE DEF n, y, hi
  <2> QED  BY <1>3, <1>4, <1>5, <1>6, <1>7 DEF n
<1>8. CASE n # hi
  <2>1. y = n
    <3>1. CASE Hot(n, m, a)
      <4>1. Hot(cur, m, a)
        <5> HIDE DEF n
        <5>1. cur <= n
          BY <1>1, <1>3, <1>8
        <5> QED  BY <1>3, <3>1, <5>1, MoreBrokers
      <4>2. x = AtLeast(cur, NeededRate(m, a)) /\ y = AtLeast(n, NeededRate(m, a))
        BY <1>3, <3>1, <4>1, Throughput
      <4>3. NeededRate(m, a) \in Int
        BY Needed
      <4> HIDE DEF n, x, y
      <4> QED  BY <1>1, <1>3, <1>8, <4>2, <4>3 DEF AtLeast
    <3>2. CASE ~Hot(n, m, a)
      BY <1>3, <3>2, Throughput
    <3> QED  BY <3>1, <3>2
  <2>2. Limited(y, m, a) = n
    <3> HIDE DEF n, y
    <3> QED  BY <1>1, <1>2, <1>3, <2>1, Limits
  <2> QED  BY <1>4, <2>2
<1> QED  BY <1>7, <1>8

\* Without throughput: what the lag asks for is between what it asked for
\* before and the current number, which the limits do not tell apart.
LEMMA LagSettles ==
    ASSUME NEW m \in PartitionMetrics, NEW a, Sensible(a), NEW cur \in Nat,
           ~panics(cur, m, a), ~panics(Recommended(cur, m, a), m, a),
           looks_at_lag(m, a), m.messages_per_second = 0
    PROVE  Recommended(Recommended(cur, m, a), m, a) = Recommended(cur, m, a)
<1> DEFINE n == Recommended(cur, m, a)
           x == by_lag(cur, m, a)
           y == by_lag(n, m, a)
           hi == a.max_replicas
           lo == a.min_replicas
           more == NeededMore(m, a)
           less == NeededLess(m, a)
<1>1. x \in Nat /\ cur # 0 /\ hi \in Nat /\ lo \in Int
  BY Criteria DEF Sensible
<1>2. n = Limited(x, m, a)
  <2>1. by_throughput(x, cur, m, a) = x
    <3> HIDE DEF x
    <3>1. ~Hot(cur, m, a)
      BY <1>1, Throughput
    <3> QED  BY <1>1, <3>1, Throughput
  <2> QED  BY <2>1, RecommendedIs
<1>3. n \in Nat /\ (x <= n \/ n = hi)
  <2>1. Limited(x, m, a) \in Int /\ 0 <= Limited(x, m, a)
        /\ (x <= Limited(x, m, a) \/ Limited(x, m, a) = hi)
    BY <1>1, Limits
  <2> HIDE DEF n, x
  <2> QED  BY <1>1, <1>2, <2>1
<1>4. y \in Nat /\ n # 0
  BY <1>3, Criteria
<1>5. Recommended(n, m, a) = Limited(y, m, a)
  <2>1. by_throughput(y, n, m, a) = y
    <3> HIDE DEF n, y
    <3>1. ~Hot(n, m, a)
      BY <1>3, <1>4, Throughput
    <3> QED  BY <1>3, <1>4, <3>1, Throughput
  <2> QED  BY <2>1, RecommendedIs
<1>6. Limited(n, m, a) = n
  <2> HIDE DEF n, x
  <2> QED  BY <1>1, <1>2, <1>3, Limits
<1>7. /\ Limited(y, m, a) \in Int /\ Limited(y, m, a) <= hi
      /\ n <= y => n <= Limited(y, m, a)
      /\ y <= n => Limited(y, m, a) <= n
      /\ lo < n /\ x < n => n <= Limited(y, m, a)
  <2> HIDE DEF n, x, y
  <2>1. /\ Limited(y, m, a) \in Int /\ Limited(y, m, a) <= hi
        /\ lo < Limited(x, m, a) /\ x < Limited(x, m, a) => Limited(x, m, a) <= Limited(y, m, a)
    BY <1>1, <1>4, Limits
  <2>2. /\ n <= y => Limited(n, m, a) <= Limited(y, m, a)
        /\ y <= n => Limited(y, m, a) <= Limited(n, m, a)
    BY <1>3, <1>4, Limits
  <2> QED  BY <1>2, <1>6, <2>1, <2>2
<1>8. less \in Nat \ {0}
  BY Needed
<1>9. CASE y = n
  BY <1>5, <1>6, <1>9
\* More is asked for: then it was before, or less was, which is not less.
<1>10. CASE high_lag(n, m, a)
  <2>1. y = AtLeast(n, more) /\ more \in Int /\ more <= less
    BY <1>3, <1>10, Criteria, Needed
  <2>2. CASE n = hi
    <3> HIDE DEF n, y, more
    <3> QED  BY <1>3, <1>4, <1>5, <1>7, <2>1, <2>2 DEF AtLeast, n
  <2>3. CASE n # hi
    <3>1. x <= n
      BY <1>3, <2>3
    <3>2. CASE high_lag(cur, m, a)
      <4>1. x = AtLeast(cur, more)
        BY <3>2, Criteria
      <4>2. y = n
        <5> HIDE DEF n, x, y, more
        <5> QED  BY <1>1, <1>3, <2>1, <3>1, <4>1 DEF AtLeast
      <4> QED  BY <1>9, <4>2
    <3>3. CASE ~high_lag(cur, m, a)
      <4>1. n < cur
        <5>1. ~(cur <= n)
          <6> HIDE DEF n
          <6> QED  BY <1>1, <1>3, <1>10, <3>3, MoreBrokers
        <5> HIDE DEF n
        <5> QED  BY <1>3, <5>1
      <4>2. x < cur
        <5> HIDE DEF n, x
        <5> QED  BY <1>1, <1>3, <3>1, <4>1
      <4>3. low_lag(cur, m, a)
        <5>1. ~low_lag(cur, m, a) => x = cur
          BY <3>3, Criteria
        <5> HIDE DEF x
        <5> QED  BY <4>2, <5>1
      <4>4. x = AtMost(cur, less)
        BY <3>3, <4>3, Criteria
      <4>5. y = n
        <5> HIDE DEF n, x, y, more, less
        <5> QED  BY <1>1, <1>3, <1>8, <2>1, <3>1, <4>2, <4>4 DEF AtLeast, AtMost
      <4> QED  BY <1>9, <4>5
    <3> QED  BY <3>2, <3>3
  <2> QED  BY <2>2, <2>3
\* Less is asked for: then more brokers than that were not asked for because of
\* the lag, and the limits undo it.
<1>11. CASE ~high_lag(n, m, a) /\ low_lag(n, m, a)
  <2>1. y = AtMost(n, less) /\ lo < n
    BY <1>1, <1>3, <1>11, Criteria DEF low_lag, Sensible
  <2>2. CASE n <= less
    <3> HIDE DEF n, y, less
    <3>1. y = n
      BY <1>3, <1>8, <2>1, <2>2 DEF AtMost
    <3> QED  BY <1>9, <3>1
  <2>3. CASE ~(n <= less)
    <3>1. y <= n
      <4> HIDE DEF n, y, less
      <4> QED  BY <1>3, <1>8, <2>1 DEF AtMost
    <3>2. x < n
      <4>1. CASE high_lag(cur, m, a)
        <5>1. x = AtLeast(cur, more) /\ more \in Int /\ more <= less
          BY <4>1, Criteria, Needed
        <5>2. ~(n <= cur)
          <6> HIDE DEF n
          <6> QED  BY <1>3, <1>4, <1>11, <4>1, MoreBrokers
        <5> HIDE DEF n, x, more, less
        <5> QED  BY <1>1, <1>3, <1>8, <2>3, <5>1, <5>2 DEF AtLeast
      <4>2. CASE ~high_lag(cur, m, a) /\ low_lag(cur, m, a)
        <5>1. x = AtMost(cur, less)
          BY <4>2, Criteria
        <5> HIDE DEF n, x, less
        <5> QED  BY <1>1, <1>3, <1>8, <2>3, <5>1 DEF AtMost
      <4>3. CASE ~high_lag(cur, m, a) /\ ~low_lag(cur, m, a)
        <5>1. x = cur
          BY <4>3, Criteria
        <5>2. ~(n <= cur)
          <6> HIDE DEF n
          <6> QED  BY <1>3, <1>4, <1>11, <4>3, MoreBrokers
        <5> HIDE DEF n, x
        <5> QED  BY <1>1, <1>3, <5>1, <5>2
      <4> QED  BY <4>1, <4>2, <4>3
    <3> HIDE DEF n, x, y
    <3> QED  BY <1>3, <1>5, <1>7, <2>1, <3>1, <3>2 DEF n
  <2> QED  BY <2>2, <2>3
<1>12. CASE ~high_lag(n, m, a) /\ ~low_lag(n, m, a)
  <2>1. y = n
    BY <1>3, <1>12, Criteria
  <2> QED  BY <1>9, <2>1
<1> QED  BY <1>10, <1>11, <1>12

\* Following a recommendation settles, by either criterion.
LEMMA AllSettle ==
    ASSUME NEW m \in PartitionMetrics, NEW a, Sensible(a), NEW cur \in Nat, ~panics(cur, m, a)
    PROVE  Settles(cur, m, a)
<1> DEFINE n == Recommended(cur, m, a)
<1>1. SUFFICES ASSUME ~panics(n, m, a), m.total_lag = 0 \/ m.messages_per_second = 0
               PROVE  Recommended(n, m, a) = n
  BY DEF Settles
<1>2. CASE ~looks_at_lag(m, a)
  BY <1>1, <1>2, RateSettles
<1>3. CASE looks_at_lag(m, a)
  <2>1. m.messages_per_second = 0
    BY <1>1, <1>3 DEF looks_at_lag
  <2> QED  BY <1>1, <1>3, <2>1, LagSettles
<1> QED  BY <1>2, <1>3

\* A larger backlog is higher lag for each broker, and less of a low one; what
\* it asks for is larger, too, unless the quotient wraps.
LEMMA AllMonotone ==
    ASSUME NEW m \in PartitionMetrics, NEW l \in PartitionMetrics, NEW a, Sensible(a),
           NEW cur \in Nat, ~panics(cur, m, a)
    PROVE  Monotone(cur, l, m, a)
<1> SUFFICES ASSUME l = [m EXCEPT !.total_lag = l.total_lag],
                    0 < l.total_lag, l.total_lag <= m.total_lag, ~Overflows(m, a)
             PROVE  Recommended(cur, l, a) <= Recommended(cur, m, a)
  BY DEF Monotone
<1>1. /\ l.messages_per_second = m.messages_per_second
      /\ l.total_partitions = m.total_partitions
      /\ l.total_lag \in Nat /\ m.total_lag \in Nat
  BY DEF PartitionMetrics
<1> DEFINE x == by_lag(cur, l, a)
           y == by_lag(cur, m, a)
<1>2. target_lag(l, a) = target_lag(m, a)
  BY <1>1 DEF target_lag
<1>3. looks_at_lag(l, a) <=> looks_at_lag(m, a)
  BY <1>1 DEF looks_at_lag
<1>4. /\ Hot(cur, l, a) <=> Hot(cur, m, a)
      /\ NeededRate(l, a) = NeededRate(m, a)
      /\ \A r : by_partitions(r, l) = by_partitions(r, m)
  BY <1>1 DEF Hot, NeededRate, by_partitions
<1>5. ASSUME looks_at_lag(m, a)
      PROVE  /\ high_lag(cur, l, a) => high_lag(cur, m, a)
             /\ low_lag(cur, m, a) => low_lag(cur, l, a)
             /\ cur # 0
  <2>1. cur # 0
    BY <1>5, Criteria
  <2> DEFINE p == lag_per_broker(cur, l)
             q == lag_per_broker(cur, m)
             h == a.target_lag_per_partition * 2
             k == a.target_lag_per_partition \div 4
  <2>2. p \in Int /\ q \in Int /\ p <= q
    BY <1>1, <2>1, DivMonotone DEF lag_per_broker
  <2>3. h \in Int /\ k \in Int
    BY DEF Sensible
  <2>4. /\ high_lag(cur, l, a) <=> p > h
        /\ high_lag(cur, m, a) <=> q > h
        /\ low_lag(cur, l, a) <=> p < k /\ cur > a.min_replicas
        /\ low_lag(cur, m, a) <=> q < k /\ cur > a.min_replicas
    BY DEF high_lag, low_lag
  <2> HIDE DEF p, q, h, k
  <2>5. high_lag(cur, l, a) => high_lag(cur, m, a)
    BY <2>2, <2>3, <2>4
  <2>6. low_lag(cur, m, a) => low_lag(cur, l, a)
    BY <2>2, <2>3, <2>4
  <2> QED  BY <2>1, <2>5, <2>6
<1>6. ~panics(cur, l, a)
  <2>1. ~looks_at_lag(m, a) => ~(cur = 0 /\ m.total_partitions > 0)
    BY DEF panics
  <2>2. looks_at_lag(m, a) /\ high_lag(cur, m, a) => target_lag(m, a) # 0
    BY Criteria
  <2>3. looks_at_lag(m, a) => cur # 0
    BY <1>5
  <2> QED  BY <1>1, <1>2, <1>3, <1>5, <2>1, <2>2, <2>3 DEF panics
<1>7. x \in Nat /\ y \in Nat
  BY <1>6, Criteria
<1>8. x <= y
  <2>1. CASE ~looks_at_lag(m, a)
    <3>1. x = cur /\ y = cur
      BY <1>3, <1>6, <2>1, Criteria
    <3> HIDE DEF x, y
    <3> QED  BY <3>1
  <2>2. CASE looks_at_lag(m, a) /\ high_lag(cur, l, a)
    <3>1. /\ x = AtLeast(cur, NeededMore(l, a)) /\ y = AtLeast(cur, NeededMore(m, a))
          /\ target_lag(m, a) # 0
      BY <1>3, <1>5, <1>6, <2>2, Criteria
    <3> DEFINE g == target_lag(m, a)
               u == l.total_lag \div g
               v == m.total_lag \div g
    <3>2. g \in Nat \ {0}
      BY <3>1, TargetLag
    <3>3. u \in Nat /\ v \in Nat /\ u <= v
      <4> HIDE DEF g
      <4>1. u \in Int /\ v \in Int /\ u <= v
        BY <1>1, <3>2, DivMonotone
      <4>2. u \in Nat
        BY <1>1, <3>2
      <4> HIDE DEF u, v
      <4> QED  BY <4>1, <4>2
    <3>4. v < I32 /\ I32 \in Nat \ {0}
      <4>1. ~(g > 0 /\ v >= I32)
        BY DEF Overflows
      <4>2. I32 \in Nat \ {0}
        BY RecommendationAssumption
      <4> HIDE DEF g, v
      <4> QED  BY <3>2, <3>3, <4>1, <4>2
    <3>5. NeededMore(l, a) = narrowed(AtLeast(1, u)) /\ NeededMore(m, a) = narrowed(AtLeast(1, v))
      BY <1>2 DEF NeededMore
    <3> HIDE DEF g, u, v
    <3>6. CASE I32 = 1
      <4>1. u = v
        BY <3>3, <3>4, <3>6
      <4>2. x = y
        BY <3>1, <3>5, <4>1
      <4> QED  BY <1>7, <4>2
    <3>7. CASE I32 # 1
      <4>1. AtLeast(1, u) \in 0..(I32 - 1) /\ AtLeast(1, v) \in 0..(I32 - 1)
        BY <3>3, <3>4, <3>7 DEF AtLeast
      <4>2. narrowed(AtLeast(1, u)) = AtLeast(1, u) /\ narrowed(AtLeast(1, v)) = AtLeast(1, v)
        BY <4>1, Narrowing
      <4>3. NeededMore(l, a) = AtLeast(1, u) /\ NeededMore(m, a) = AtLeast(1, v)
        BY <3>5, <4>2
      <4> HIDE DEF x, y
      <4> QED  BY <3>1, <3>3, <4>3 DEF AtLeast
    <3> QED  BY <3>6, <3>7
  <2>3. CASE looks_at_lag(m, a) /\ ~high_lag(cur, l, a) /\ ~low_lag(cur, l, a)
    <3>1. x = cur /\ ~low_lag(cur, m, a)
      BY <1>3, <1>5, <1>6, <2>3, Criteria
    <3>2. CASE high_lag(cur, m, a)
      <4>1. y = AtLeast(cur, NeededMore(m, a)) /\ NeededMore(m, a) \in Int
        BY <2>3, <3>2, Criteria, Needed
      <4> HIDE DEF x, y
      <4> QED  BY <3>1, <4>1 DEF AtLeast
    <3>3. CASE ~high_lag(cur, m, a)
      <4>1. y = cur
        BY <2>3, <3>1, <3>3, Criteria
      <4> HIDE DEF x, y
      <4> QED  BY <3>1, <4>1
    <3> QED  BY <3>2, <3>3
  <2>4. CASE looks_at_lag(m, a) /\ ~high_lag(cur, l, a) /\ low_lag(cur, l, a)
    <3>1. x = AtMost(cur, NeededLess(l, a)) /\ NeededLess(l, a) \in Nat
      BY <1>3, <1>6, <2>4, Criteria, Needed
    <3>2. x <= cur
      <4> HIDE DEF x
      <4> QED  BY <3>1 DEF AtMost
    <3>3. CASE high_lag(cur, m, a)
      <4>1. y = AtLeast(cur, NeededMore(m, a)) /\ NeededMore(m, a) \in Int
        BY <2>4, <3>3, Criteria, Needed
      <4> HIDE DEF x, y
      <4> QED  BY <1>7, <3>2, <4>1 DEF AtLeast
    <3>4. CASE ~high_lag(cur, m, a) /\ ~low_lag(cur, m, a)
      <4>1. y = cur
        BY <2>4, <3>4, Criteria
      <4> HIDE DEF x, y
      <4> QED  BY <3>2, <4>1
    <3>5. CASE ~high_lag(cur, m, a) /\ low_lag(cur, m, a)
      <4>1. y = AtMost(cur, NeededLess(m, a)) /\ NeededLess(m, a) \in Nat
        BY <2>4, <3>5, Criteria, Needed
      <4> DEFINE g == target_lag(m, a)
                 u == ceil_div(l.total_lag, g)
                 v == ceil_div(m.total_lag, g)
      <4>2. u \in Int /\ v \in Int /\ u <= v
        BY <1>1, TargetLag, CeilDiv
      <4>3. NeededLess(l, a) = AtLeast(1, saturated(u))
            /\ NeededLess(m, a) = AtLeast(1, saturated(v))
        BY <1>2 DEF NeededLess
      <4>4. I32 \in Nat
        BY RecommendationAssumption
      <4>5. NeededLess(l, a) <= NeededLess(m, a)
        <5> HIDE DEF u, v
        <5> QED  BY <4>2, <4>3, <4>4 DEF AtLeast, saturated, AtMost
      <4> HIDE DEF x, y
      <4> QED  BY <3>1, <4>1, <4>5 DEF AtMost
    <3> QED  BY <3>3, <3>4, <3>5
  <2> QED  BY <2>1, <2>2, <2>3, <2>4
<1>9. by_throughput(x, cur, l, a) <= by_throughput(y, cur, m, a)
      /\ by_throughput(x, cur, l, a) \in Int /\ by_throughput(y, cur, m, a) \in Int
  <2> HIDE DEF x, y
  <2>1. by_throughput(x, cur, l, a) \in Int /\ by_throughput(y, cur, m, a) \in Int
    BY <1>7, Throughput
  <2>2. CASE Hot(cur, m, a)
    <3>1. /\ by_throughput(x, cur, l, a) = AtLeast(x, NeededRate(m, a))
          /\ by_throughput(y, cur, m, a) = AtLeast(y, NeededRate(m, a))
          /\ NeededRate(m, a) \in Int
      BY <1>4, <1>7, <2>2, Throughput, Needed
    <3> QED  BY <1>7, <1>8, <2>1, <3>1 DEF AtLeast
  <2>3. CASE ~Hot(cur, m, a)
    <3>1. by_throughput(x, cur, l, a) = x /\ by_throughput(y, cur, m, a) = y
      BY <1>4, <1>7, <2>3, Throughput
    <3> QED  BY <1>8, <2>1, <3>1
  <2> QED  BY <2>2, <2>3
<1> DEFINE r == by_throughput(x, cur, l, a)
           t == by_throughput(y, cur, m, a)
<1>10. Limited(r, l, a) = Limited(r, m, a)
  BY <1>4 DEF Limited
<1>11. Limited(r, m, a) <= Limited(t, m, a)
  <2> HIDE DEF r, t
  <2> QED  BY <1>9, Limits DEF r, t
<1> QED  BY <1>10, <1>11, RecommendedIs

\* Recommendations are steady in whatever configuration the caller passes:
\* following one again changes nothing, and a larger backlog never gets fewer
\* brokers, for all loads and numbers of brokers that are compared.
THEOREM SteadyRecommendations == Spec => []RecommendationIsSteady
<1>1. ASSUME NEW c \in Configs PROVE c.autoscaling \in SteadyConfigs
  <2> DEFINE a == c.autoscaling
  <2>1. Sensible(a) /\ Measured \subseteq PartitionMetrics
    BY RecommendationAssumption
  <2>2. ASSUME NEW cur \in 0..MaxReplicas, NEW m \in Measured, ~panics(cur, m, a)
        PROVE  Settles(cur, m, a) /\ \A l \in Measured : Monotone(cur, l, m, a)
    <3>1. cur \in Nat
      OBVIOUS
    <3> HIDE DEF a
    <3> QED  BY <2>1, <2>2, <3>1, AllSettle, AllMonotone
  <2>3. a \in {d.autoscaling : d \in Configs}
    OBVIOUS
  <2> HIDE DEF a
  <2>4. a \in SteadyConfigs
    BY <2>2, <2>3 DEF SteadyConfigs
  <2> QED  BY <2>4 DEF a
<1> DEFINE Passed == config \in Configs
<1>2. Init => Passed
  BY DEF Init
<1>3. Passed /\ [Next]_vars => Passed'
  BY DEF Next, GetObject, DeleteObject, SendApply, SendCreate, SendFails, Evaluate, Act, ActFails,
         FollowRecommendation, Others, EditTemplate, EditConfig, LoadChanges, TimePasses,
         OthersScale, OthersDelete, vars
<1>4. Passed => RecommendationIsSteady
  BY <1>1 DEF RecommendationIsSteady
<1> QED  BY <1>2, <1>3, <1>4, PTL DEF Spec

==============================================================================
