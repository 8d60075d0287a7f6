--------------------------- MODULE ClusterController ---------------------------
(***************************************************************************)
(* The StreamlineCluster controller (src/controllers/cluster.rs, with      *)
(* reconcile_hpa of src/controllers/autoscaling.rs) for one object.        *)
(*                                                                         *)
(* A worker is one operator process that runs the controller.  It reads    *)
(* the object from its watch cache, which may lag behind the API server,   *)
(* and then makes one API call after another; between two calls everybody  *)
(* else may act, and any call may fail.  Leader election bounds the number *)
(* of workers to one most of the time; LeaderElection shows when two       *)
(* overlap, hence the constant Workers.                                    *)
(*                                                                         *)
(* While a worker reconciles its cache is not updated here: a watch event  *)
(* that arrives meanwhile is delivered afterwards, and nothing reads the   *)
(* cache in between, so the copy it works from is cache itself.            *)
(*                                                                         *)
(* Of an owned object two generations of the spec are kept: the one it was *)
(* created from and the one it was last applied from.  Timestamps of the   *)
(* status are in ClusterStatusUpdates.                                     *)
(*                                                                         *)
(* The operator creates an owned object by POST and applies it afterwards, *)
(* server-side and without force.  The creating manager keeps owning the   *)
(* fields it set, so that an apply that would change one of them is        *)
(* answered 409, while a field that was not set may be added: module       *)
(* Scaling has the field managers and the theorem, Conflicts the result.   *)
(***************************************************************************)
EXTENDS Integers, FiniteSets

CONSTANTS
    Workers,        \* operator processes that run the controller
    Specs,          \* what a user may write, see SpecParts
    LegacySpec,     \* what an earlier version rendered its objects from
    MaxGeneration,  \* bound on the edits of the spec
    MaxReady,       \* bound on the ready pods that are counted
    MaxFaults       \* bound on failed calls, restarts and other disturbances

\* The parts of a spec that are told apart.  log stands for what only
\* render_config and the environment show (the log level, the HTTP port, TLS),
\* extra for what is rendered only when it is set (a node selector, a limit).
SpecParts == [replicas : Int, autoscaled : BOOLEAN, image : STRING,
              port : Int, log : STRING, extra : STRING]
Unset     == ""

ASSUME ClusterControllerAssumption ==
    /\ Specs \subseteq SpecParts
    /\ LegacySpec \in SpecParts
    /\ MaxGeneration \in Nat \ {0}
    /\ MaxReady \in Nat /\ MaxFaults \in Nat

VARIABLES
    specs,      \* specs[g]: the spec of generation g
    obj,        \* the object: exists, gen, deleting, finalizers, status
    hpa,        \* an HPA left by an earlier version of the operator is there
    made,       \* made[k]: the generation owned object k was created from
    child,      \* child[k]: the generation it was last applied from
    scale,      \* .spec.replicas of the StatefulSet
    pods,       \* its pods: [gen: rendered from, ready: how many are ready]
    pvc,        \* its volume claims are there
    cache,      \* cache[w]: obj as the watch last delivered it to w
    due,        \* due[w]: a reconciliation is requested or will be requeued
    pc,         \* pc[w]: the call w makes next
    count,      \* count[w]: the ready pods w counted
    faults      \* disturbances so far

envVars == <<hpa, made, child, scale, pods, pvc>>
vars == <<specs, obj, hpa, made, child, scale, pods, pvc, cache, due, pc, count, faults>>

-------------------------------------------------------------------------------
Own     == "streamline.io/cluster-cleanup"      \* CLUSTER_FINALIZER
Foreign == "example.com/backup"                 \* the finalizer of someone else
Kinds   == {"configmap", "headless", "client", "statefulset"}
Gens    == 1..MaxGeneration
Phases  == {"none", "Pending", "Running", "Scaling", "Failed"}
Status  == [phase : Phases, gen : 0..MaxGeneration, ready : 0..MaxReady]
Object  == [exists : BOOLEAN, gen : Gens, deleting : BOOLEAN,
            finalizers : SUBSET {Own, Foreign}, status : Status]
Pcs     == {"idle", "finalizer", "hpa", "invalid", "list", "status",
            "pvcs", "pvcdelete", "unfinalize"} \cup Kinds

\* An owned object that is not there has generation 0; one that an earlier
\* version of the operator rendered has generation Legacy.
Legacy   == -1
Rendered == Legacy..MaxGeneration
NoStatus == [phase |-> "none", gen |-> 0, ready |-> 0]
Absent   == [exists |-> FALSE, gen |-> 1, deleting |-> FALSE,
             finalizers |-> {}, status |-> NoStatus]

TypeOK ==
    /\ specs \in [Gens -> Specs]
    /\ obj \in Object
    /\ hpa \in BOOLEAN
    /\ made \in [Kinds -> Rendered]
    /\ child \in [Kinds -> Rendered]
    /\ scale \in Int
    /\ pods \in [gen : Rendered, ready : 0..MaxReady]
    /\ pvc \in BOOLEAN
    /\ cache \in [Workers -> Object]
    /\ due \in [Workers -> BOOLEAN]
    /\ pc \in [Workers -> Pcs]
    /\ count \in [Workers -> 0..MaxReady]
    /\ faults \in Nat

\* The user has created an object ...
InitCreated ==
    /\ obj = [Absent EXCEPT !.exists = TRUE]
    /\ hpa = FALSE
    /\ made = [k \in Kinds |-> 0]
    /\ child = made
    /\ scale = 0
    /\ pods = [gen |-> 0, ready |-> 0]
    /\ pvc = FALSE

\* ... or an earlier version of the operator left one that runs, with an HPA.
InitUpgraded ==
    /\ obj = [Absent EXCEPT !.exists = TRUE, !.finalizers = {Own}]
    /\ hpa = TRUE
    /\ made = [k \in Kinds |-> Legacy]
    /\ child = made
    /\ scale = LegacySpec.replicas
    /\ pods = [gen |-> Legacy, ready |-> 0]
    /\ pvc = TRUE

\* The specs that the user is going to write are chosen beforehand.
Init ==
    /\ specs \in [Gens -> Specs]
    /\ InitCreated \/ InitUpgraded
    /\ cache = [w \in Workers |-> Absent]
    /\ due = [w \in Workers |-> FALSE]
    /\ pc = [w \in Workers |-> "idle"]
    /\ count = [w \in Workers |-> 0]
    /\ faults = 0

Fault == faults < MaxFaults /\ faults' = faults + 1

-------------------------------------------------------------------------------
(***************************************************************************)
(* What is decided from the spec.                                          *)
(***************************************************************************)

\* ClusterSpec::validate.  The rules on ports, env, scheduling and TLS reject
\* a spec in the same way and are not told apart from it.
validate(s) == s.replicas = 1 /\ ~s.autoscaled

\* desired_hpa_config: a spec that asks for autoscaling never passes validate,
\* so the configuration is always disabled and reconcile_hpa always deletes.
hpa_enabled(s) == s.autoscaled /\ validate(s)

phase_of(ready, desired) ==
    IF ready = desired THEN "Running"
    ELSE IF ready > 0 THEN "Scaling" ELSE "Pending"

\* Mutant of invalid_status: observedGeneration is not set.
invalid_status_unobserved(g) == [phase |-> "Failed", gen |-> 0, ready |-> 0]
invalid_status(g) == [phase |-> "Failed", gen |-> g, ready |-> 0]

observed_status(g, ready) ==
    [phase |-> phase_of(ready, specs[g].replicas), gen |-> g, ready |-> ready]

-------------------------------------------------------------------------------
(***************************************************************************)
(* The API server: writes to the object.                                   *)
(***************************************************************************)

\* The object is removed with its last finalizer, once it is being deleted.
Settle(o) == IF o.deleting /\ o.finalizers = {} THEN Absent ELSE o

\* Adding a finalizer to an object that is being deleted is refused.
Permits(fs) == obj.exists /\ (obj.deleting => fs \subseteq obj.finalizers)

SetFinalizers(fs) == obj' = Settle([obj EXCEPT !.finalizers = fs])

-------------------------------------------------------------------------------
(***************************************************************************)
(* The worker.                                                             *)
(***************************************************************************)
At(w, p)    == pc[w] = p
Goto(w, p)  == pc' = [pc EXCEPT ![w] = p] /\ UNCHANGED <<due, count>>

\* The reconciliation ends and is, or is not, scheduled again.
End(w, again) ==
    /\ pc' = [pc EXCEPT ![w] = "idle"]
    /\ due' = [due EXCEPT ![w] = again]
    /\ count' = [count EXCEPT ![w] = 0]

Requeue     == TRUE
AwaitChange == FALSE

SpecRead(w) == specs[cache[w].gen]
Source(k)   == IF made[k] = Legacy THEN LegacySpec ELSE specs[made[k]]

\* The watch delivers the object, or that it is gone.
Observe(w) ==
    /\ At(w, "idle") /\ cache[w] # obj
    /\ cache' = [cache EXCEPT ![w] = obj]
    /\ due' = [due EXCEPT ![w] = obj.exists]
    /\ UNCHANGED <<specs, obj, envVars, pc, count, faults>>

\* Mutant of Reconcile: the finalizer is not checked first.
ReconcileWithoutFinalizer(w) ==
    /\ At(w, "idle") /\ due[w] /\ cache[w].exists /\ ~cache[w].deleting
    /\ Goto(w, "hpa")
    /\ UNCHANGED <<specs, obj, envVars, cache, faults>>

\* reconcile starts on the cached object.
Reconcile(w) ==
    /\ At(w, "idle") /\ due[w] /\ cache[w].exists /\ ~cache[w].deleting
    /\ Goto(w, IF Own \in cache[w].finalizers THEN "hpa" ELSE "finalizer")
    /\ UNCHANGED <<specs, obj, envVars, cache, faults>>

\* ensure_finalizer.  Its patch is a server-side apply that names neither
\* apiVersion nor kind, which the API server answers 400: the reconciliation
\* ends with that error, whatever the object looks like.
EnsureFinalizer(w) ==
    /\ At(w, "finalizer")
    /\ End(w, Requeue)
    /\ UNCHANGED <<specs, obj, envVars, cache, faults>>

\* A rejected spec ends the reconciliation after the HPA.
AfterHpa(w) == IF validate(SpecRead(w)) THEN "configmap" ELSE "invalid"

\* Mutant of DeleteHpa: an HPA is torn down only for a spec that mentions
\* autoscaling.
DeleteHpaIfMentioned(w) ==
    /\ At(w, "hpa")
    /\ hpa' = (hpa /\ ~SpecRead(w).autoscaled)
    /\ Goto(w, AfterHpa(w))
    /\ UNCHANGED <<specs, obj, made, child, scale, pods, pvc, cache, faults>>

\* reconcile_autoscaling: a missing HPA counts as deleted.
DeleteHpa(w) ==
    /\ At(w, "hpa") /\ ~hpa_enabled(SpecRead(w))
    /\ hpa' = FALSE
    /\ Goto(w, AfterHpa(w))
    /\ UNCHANGED <<specs, obj, made, child, scale, pods, pvc, cache, faults>>

After(k) == CASE k = "configmap" -> "headless"
              [] k = "headless" -> "client"
              [] k = "client" -> "statefulset"
              [] k = "statefulset" -> "list"

\* Applying object k, rendered from spec s, would change a field that was set
\* when it was created (or, for the replicas, by the HPA since): the text of the
\* ConfigMap, a port of a Service (the entry with the new number repeats the
\* name of the old one, 422), the replicas or the template of the StatefulSet.
Conflicts(k, s) ==
    LET old == Source(k) IN
    /\ made[k] # 0
    /\ \/ s.port # old.port
       \/ k \in {"configmap", "statefulset"} /\ s.log # old.log
       \/ /\ k = "statefulset"
          /\ \/ s.replicas # scale
             \/ s.image # old.image
             \/ Unset \notin {s.extra, old.extra} /\ s.extra # old.extra

\* get, then POST if it finds nothing, or else the apply.
PutChild(w, k) ==
    /\ made' = IF made[k] = 0 THEN [made EXCEPT ![k] = cache[w].gen] ELSE made
    /\ child' = [child EXCEPT ![k] = cache[w].gen]
    /\ scale' = IF k = "statefulset" THEN SpecRead(w).replicas ELSE scale

\* Mutant of ApplyChild: a failed call is logged and the next one is made.
ApplyChildUnchecked(w, k) ==
    /\ At(w, k) /\ ~Conflicts(k, SpecRead(w))
    /\ \/ PutChild(w, k) /\ UNCHANGED faults
       \/ Fault /\ UNCHANGED <<made, child, scale>>
    /\ Goto(w, After(k))
    /\ UNCHANGED <<specs, obj, hpa, pods, pvc, cache>>

\* reconcile_configmap, reconcile_headless_service, reconcile_client_service
\* and reconcile_statefulset.
ApplyChild(w, k) ==
    /\ At(w, k) /\ ~Conflicts(k, SpecRead(w))
    /\ PutChild(w, k)
    /\ Goto(w, After(k))
    /\ UNCHANGED <<specs, obj, hpa, pods, pvc, cache, faults>>

\* update_status counts the ready pods ...
CountPods(w) ==
    /\ At(w, "list")
    /\ count' = [count EXCEPT ![w] = pods.ready]
    /\ pc' = [pc EXCEPT ![w] = "status"]
    /\ UNCHANGED <<specs, obj, envVars, cache, due, faults>>

\* The status is patched unless it equals the one that was read.
patch_status_if_changed(w, st) ==
    /\ st = cache[w].status \/ obj.exists
    /\ obj' = IF st = cache[w].status THEN obj ELSE [obj EXCEPT !.status = st]

\* Mutant of UpdateStatus: no periodic requeue after a success.
UpdateStatusOnce(w) ==
    /\ At(w, "status")
    /\ patch_status_if_changed(w, observed_status(cache[w].gen, count[w]))
    /\ End(w, AwaitChange)
    /\ UNCHANGED <<specs, envVars, cache, faults>>

\* ... and publishes them.
UpdateStatus(w) ==
    /\ At(w, "status")
    /\ patch_status_if_changed(w, observed_status(cache[w].gen, count[w]))
    /\ End(w, Requeue)
    /\ UNCHANGED <<specs, envVars, cache, faults>>

\* Mutant of UpdateStatusInvalid: observedGeneration is read again.
UpdateStatusInvalidNow(w) ==
    /\ At(w, "invalid")
    /\ patch_status_if_changed(w, invalid_status(obj.gen))
    /\ End(w, Requeue)
    /\ UNCHANGED <<specs, envVars, cache, faults>>

UpdateStatusInvalid(w) ==
    /\ At(w, "invalid")
    /\ patch_status_if_changed(w, invalid_status(cache[w].gen))
    /\ End(w, Requeue)
    /\ UNCHANGED <<specs, envVars, cache, faults>>

\* Mutant of HandleDeletion: the deletion timestamp is not looked at.
HandleDeletionAnytime(w) ==
    /\ At(w, "idle") /\ due[w] /\ cache[w].exists
    /\ Goto(w, "pvcs")
    /\ UNCHANGED <<specs, obj, envVars, cache, faults>>

\* handle_deletion lists the volume claims ...
HandleDeletion(w) ==
    /\ At(w, "idle") /\ due[w] /\ cache[w].exists /\ cache[w].deleting
    /\ Goto(w, "pvcs")
    /\ UNCHANGED <<specs, obj, envVars, cache, faults>>

ListPvcs(w) ==
    /\ At(w, "pvcs")
    /\ Goto(w, IF pvc THEN "pvcdelete" ELSE "unfinalize")
    /\ UNCHANGED <<specs, obj, envVars, cache, faults>>

\* ... deletes those it found, whether or not that succeeds ...
DeletePvcs(w) ==
    /\ At(w, "pvcdelete")
    /\ \/ pvc' = FALSE /\ UNCHANGED faults
       \/ Fault /\ UNCHANGED pvc
    /\ Goto(w, "unfinalize")
    /\ UNCHANGED <<specs, obj, hpa, made, child, scale, pods, cache>>

\* Mutant of RemoveFinalizer: the whole list is cleared.
RemoveAllFinalizers(w) ==
    /\ At(w, "unfinalize") /\ Permits({})
    /\ SetFinalizers({})
    /\ End(w, AwaitChange)
    /\ UNCHANGED <<specs, envVars, cache, faults>>

\* ... and writes the finalizers it read, without its own.  If the answer is
\* lost the error policy has the deletion handled once more.
RemoveFinalizer(w) ==
    /\ At(w, "unfinalize") /\ Permits(cache[w].finalizers \ {Own})
    /\ SetFinalizers(cache[w].finalizers \ {Own})
    /\ \/ End(w, AwaitChange) /\ UNCHANGED faults
       \/ End(w, Requeue) /\ Fault
    /\ UNCHANGED <<specs, envVars, cache>>

\* The API server refuses a call: the object is gone (404), it is being
\* deleted and the call would add a finalizer (422), another worker created
\* the owned object between the get and the create of this one, or the apply
\* conflicts (409, 422).
Refused(w) ==
    /\ \/ \E k \in Kinds : /\ At(w, k) /\ made[k] # 0
                           /\ Workers # {w} \/ Conflicts(k, SpecRead(w))
       \/ At(w, "unfinalize") /\ ~Permits(cache[w].finalizers \ {Own})
       \/ /\ At(w, "status") /\ ~obj.exists
          /\ observed_status(cache[w].gen, count[w]) # cache[w].status
       \/ /\ At(w, "invalid") /\ ~obj.exists
          /\ invalid_status(cache[w].gen) # cache[w].status
    /\ End(w, Requeue)
    /\ UNCHANGED <<specs, obj, envVars, cache, faults>>

\* Mutant of Fail: the error policy does not requeue.
FailForgets(w) ==
    /\ ~At(w, "idle") /\ ~At(w, "pvcdelete")
    /\ Fault
    /\ End(w, AwaitChange)
    /\ UNCHANGED <<specs, obj, envVars, cache>>

\* Any other error: `?` ends the reconciliation and the error policy requeues.
\* The call may have taken effect: that is the failure of the next one, or the
\* lost answer of RemoveFinalizer.
Fail(w) ==
    /\ ~At(w, "idle") /\ ~At(w, "pvcdelete")
    /\ Fault
    /\ End(w, Requeue)
    /\ UNCHANGED <<specs, obj, envVars, cache>>

\* The process is replaced; the new one starts with an empty cache.
Restart(w) ==
    /\ Fault
    /\ cache' = [cache EXCEPT ![w] = Absent]
    /\ End(w, AwaitChange)
    /\ UNCHANGED <<specs, obj, envVars>>

-------------------------------------------------------------------------------
(***************************************************************************)
(* Users, other controllers and Kubernetes.                                *)
(***************************************************************************)
workerVars == <<cache, due, pc, count>>

EditSpec ==
    /\ obj.exists /\ obj.gen < MaxGeneration
    /\ obj' = [obj EXCEPT !.gen = @ + 1]
    /\ UNCHANGED <<specs, envVars, workerVars, faults>>

RequestDeletion ==
    /\ obj.exists /\ ~obj.deleting
    /\ obj' = Settle([obj EXCEPT !.deleting = TRUE])
    /\ UNCHANGED <<specs, envVars, workerVars, faults>>

\* A manifest, kubectl or an earlier version of the operator sets the own
\* finalizer, which the operator itself never manages to.
WriteFinalizer ==
    /\ obj.exists /\ ~obj.deleting /\ Own \notin obj.finalizers
    /\ SetFinalizers(obj.finalizers \cup {Own})
    /\ UNCHANGED <<specs, envVars, workerVars, faults>>

AddForeign ==
    /\ obj.exists /\ ~obj.deleting /\ Foreign \notin obj.finalizers
    /\ Fault
    /\ SetFinalizers(obj.finalizers \cup {Foreign})
    /\ UNCHANGED <<specs, envVars, workerVars>>

RemoveForeign ==
    /\ obj.exists /\ Foreign \in obj.finalizers
    /\ SetFinalizers(obj.finalizers \ {Foreign})
    /\ UNCHANGED <<specs, envVars, workerVars, faults>>

User == EditSpec \/ RequestDeletion \/ WriteFinalizer \/ AddForeign \/ RemoveForeign

\* The HPA raises the replicas of the StatefulSet.
HpaScales ==
    /\ hpa /\ child["statefulset"] # 0 /\ scale <= MaxReady
    /\ scale' = scale + 1
    /\ UNCHANGED <<specs, obj, hpa, made, child, pods, pvc, workerVars, faults>>

\* The StatefulSet controller makes volume claims and pods as long as the
\* StatefulSet is there, and replaces the pods when its template changed (or,
\* which makes no difference to the properties, was applied unchanged).
CreatePvcs ==
    /\ child["statefulset"] # 0 /\ ~pvc
    /\ pvc' = TRUE
    /\ UNCHANGED <<specs, obj, hpa, made, child, scale, pods, workerVars, faults>>

RollOut ==
    /\ pods.gen # child["statefulset"]
    /\ pods' = [gen |-> child["statefulset"], ready |-> 0]
    /\ UNCHANGED <<specs, obj, hpa, made, child, scale, pvc, workerVars, faults>>

PodReady ==
    /\ pods.gen # 0 /\ pods.ready < scale /\ pods.ready < MaxReady
    /\ pods' = [pods EXCEPT !.ready = @ + 1]
    /\ UNCHANGED <<specs, obj, hpa, made, child, scale, pvc, workerVars, faults>>

PodTerminates ==
    /\ pods.ready > 0 /\ pods.ready > scale
    /\ pods' = [pods EXCEPT !.ready = @ - 1]
    /\ UNCHANGED <<specs, obj, hpa, made, child, scale, pvc, workerVars, faults>>

PodFails ==
    /\ pods.ready > 0
    /\ Fault
    /\ pods' = [pods EXCEPT !.ready = @ - 1]
    /\ UNCHANGED <<specs, obj, hpa, made, child, scale, pvc, workerVars>>

\* The garbage collector removes what the object owned.
CollectGarbage ==
    /\ ~obj.exists
    /\ hpa \/ \E k \in Kinds : child[k] # 0
    /\ made' = [k \in Kinds |-> 0]
    /\ child' = made'
    /\ scale' = 0
    /\ hpa' = FALSE
    /\ UNCHANGED <<specs, obj, pods, pvc, workerVars, faults>>

-------------------------------------------------------------------------------
Reconciliation(w) ==
    \/ Observe(w) \/ Reconcile(w) \/ EnsureFinalizer(w) \/ DeleteHpa(w)
    \/ (\E k \in Kinds : ApplyChild(w, k)) \/ CountPods(w) \/ UpdateStatus(w)
    \/ UpdateStatusInvalid(w) \/ HandleDeletion(w) \/ ListPvcs(w) \/ DeletePvcs(w)
    \/ RemoveFinalizer(w) \/ Refused(w)

Workload == RollOut \/ PodReady \/ PodTerminates

Next ==
    \/ \E w \in Workers : Reconciliation(w) \/ Fail(w) \/ Restart(w)
    \/ User \/ Workload \/ PodFails \/ HpaScales \/ CreatePvcs \/ CollectGarbage

Spec == Init /\ [][Next]_vars

\* Reconciliations that are due run and the StatefulSet controller does its
\* work.  The watch delivers while a reconciliation is running, too; Observe,
\* which puts that off until the worker is idle, is therefore strongly fair.
\* Nothing is assumed of users, failures and an HPA.
Fairness ==
    /\ \A w \in Workers : WF_vars(Reconciliation(w)) /\ SF_vars(Observe(w))
    /\ WF_vars(Workload)

FairSpec == Spec /\ Fairness

-------------------------------------------------------------------------------
(***************************************************************************)
(* Properties.                                                             *)
(***************************************************************************)

\* A status is about one generation: it says Failed exactly when the spec of
\* the generation it names is rejected, although the spec may have been edited
\* twice and the worker replaced between reading and publishing.
StatusFitsItsGeneration ==
    obj.status.phase # "none" =>
        (obj.status.phase = "Failed" <=> ~validate(specs[obj.status.gen]))

\* No owned object is ever rendered from a rejected spec (the early return of
\* reconcile after validate).
RejectedSpecNeverRendered ==
    \A k \in Kinds : child[k] \in Gens => validate(specs[child[k]])

\* A cluster that is not being deleted and has data or owned objects carries
\* the finalizer, so that its deletion cannot bypass handle_deletion.
DataUnderFinalizer ==
    obj.exists /\ ~obj.deleting /\ (pvc \/ \E k \in Kinds : child[k] # 0)
        => Own \in obj.finalizers

\* Volume claims are deleted only after somebody asked for the deletion of the
\* cluster, whatever copy of it a worker acts on (handle_deletion).
DataDeletedOnRequestOnly ==
    [][pvc /\ ~pvc' => obj.deleting \/ ~obj.exists]_vars

\* Workers never take away the finalizer of someone else, although
\* handle_deletion overwrites the whole list from an older copy.
ForeignFinalizerKept ==
    [][(Foreign \in obj.finalizers /\ Foreign \notin obj'.finalizers)
          => pc' = pc]_vars

Publishes(phase) == obj'.status # obj.status /\ obj'.status.phase = phase

\* Running is published only for a cluster that no HPA scales and whose
\* StatefulSet asks for the one broker that validate accepts, even when two
\* workers overlap (delete_hpa propagates its errors).
RunningMeansOneBroker ==
    [][Publishes("Running") => ~hpa /\ scale = 1]_vars

\* With one worker, Running for a generation means that every owned object was
\* rendered from that generation: no failed call is skipped on the way.
RunningMeansApplied ==
    [][Publishes("Running") =>
          \A k \in Kinds : child[k] = obj'.status.gen]_vars

\* With one worker, an owned object or the status never goes back to an older
\* generation, restarts of the worker included.
NoRegression ==
    [][/\ \A k \in Kinds : child'[k] = 0 \/ child'[k] >= child[k]
       /\ obj'.exists => obj'.status.gen >= obj.status.gen]_vars

\* When the user stops editing, a cluster that was given the finalizer ends up
\* with everything applied from its last spec, or with a Failed status, and
\* without an HPA in both cases, whatever calls failed on the way.  There are
\* two exceptions, both for good: without the finalizer nothing is done at all
\* (EnsureFinalizer), and a cluster whose ConfigMap, Services or StatefulSet
\* would have to change is stuck (ClusterConflict).
Settled ==
    /\ ~hpa
    /\ IF validate(specs[obj.gen])
       THEN /\ \A k \in Kinds : child[k] = obj.gen
            /\ scale = 1
            /\ obj.status = [phase |-> "Running", gen |-> obj.gen, ready |-> 1]
       ELSE obj.status = [phase |-> "Failed", gen |-> obj.gen, ready |-> 0]
Stuck ==
    /\ ~hpa /\ validate(specs[obj.gen])
    /\ \E k \in Kinds : Conflicts(k, specs[obj.gen])
Managed   == obj.exists /\ ~obj.deleting /\ Own \in obj.finalizers
Converges == <>[](Managed => Settled \/ Stuck)

\* docs/UPGRADING.md:174: setting spec.replicas to 1 scales the StatefulSet
\* down.
PatchedClusterScalesDown ==
    <>[](Managed /\ validate(specs[obj.gen]) => scale = 1)

\* The finalizer never holds up a deletion for good.
DeletionCompletes == obj.deleting ~> Own \notin obj.finalizers

-------------------------------------------------------------------------------
(***************************************************************************)
(* Why it works: the parts of an inductive invariant, for any workers.     *)
(***************************************************************************)
Rendering == {"list", "status"} \cup Kinds
Working   == {"hpa", "invalid"} \cup Rendering
Deleting  == {"pvcs", "pvcdelete", "unfinalize"}
Live      == obj.exists /\ ~obj.deleting

\* The object does not come back, and its deletion is not taken back: a copy
\* that is being deleted is never ahead of the object, and while it is being
\* deleted the object only loses finalizers.
CopyInv ==
    /\ ~obj.exists => obj = Absent
    /\ \A w \in Workers :
          /\ pc[w] \in Deleting => cache[w].deleting
          /\ cache[w].deleting => ~Live
          /\ obj.exists /\ cache[w].deleting
                => obj.finalizers \subseteq cache[w].finalizers

\* A live object does not lose the own finalizer: who saw it can rely on it.
FinalizerInv ==
    \A w \in Workers :
        Live /\ (Own \in cache[w].finalizers \/ pc[w] \in Working)
            => Own \in obj.finalizers

\* The branch a worker is in fits the spec that it read.
BranchInv ==
    \A w \in Workers :
        /\ pc[w] \in Rendering => validate(SpecRead(w))
        /\ pc[w] = "invalid" => ~validate(SpecRead(w))

\* Past the teardown there is no HPA, and past the StatefulSet there is one
\* broker, as long as the object is there.
BrokerInv ==
    \A w \in Workers :
        /\ pc[w] \in Rendering \cup {"invalid"} => ~hpa
        /\ pc[w] \in {"list", "status"} /\ obj.exists => scale = 1

IInv ==
    /\ TypeOK /\ CopyInv /\ FinalizerInv /\ BranchInv /\ BrokerInv
    /\ StatusFitsItsGeneration /\ RejectedSpecNeverRendered /\ DataUnderFinalizer

\* With one worker, generations move in one direction only: from the object to
\* the worker's copy, and from there to the owned objects and to the status.
SingleWorker == \A v, w \in Workers : v = w

OrderInv ==
    /\ obj.exists => /\ obj.status.gen <= obj.gen
                     /\ \A k \in Kinds : child[k] <= obj.gen
    /\ \A w \in Workers :
          /\ pc[w] # "idle" => cache[w].exists
          /\ cache[w].exists => \A k \in Kinds : child[k] <= cache[w].gen
          /\ cache[w].exists /\ obj.exists
                => obj.status.gen <= cache[w].gen /\ cache[w].gen <= obj.gen

\* The calls that come after the one that applies object k.
Past(k) ==
    {"list", "status"} \cup CASE k = "configmap" -> {"headless", "client", "statefulset"}
                             [] k = "headless" -> {"client", "statefulset"}
                             [] k = "client" -> {"statefulset"}
                             [] k = "statefulset" -> {}

\* What the worker has applied stays applied until the object is gone.
AppliedInv ==
    \A w \in Workers, k \in Kinds :
        obj.exists /\ pc[w] \in Past(k) => child[k] = cache[w].gen

SingleInv == SingleWorker /\ IInv /\ OrderInv /\ AppliedInv
================================================================================
