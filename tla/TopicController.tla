---------------------------- MODULE TopicController ----------------------------
(***************************************************************************)
(* The StreamlineTopic controller (src/controllers/topic.rs) for one       *)
(* object, with the clusters it may refer to and the topic of that name on *)
(* their servers.                                                          *)
(*                                                                         *)
(* Workers, their caches and the API server are as in ClusterController.   *)
(* The HTTP API of the server creates a topic with the partitions that it  *)
(* is told and has no update.  A call that fails at the client may have    *)
(* been executed, or be executed later.                                    *)
(*                                                                         *)
(* On a server, a topic is the generation of the spec it was created from. *)
(* Timestamps and messages of the status are left out: they behave as in   *)
(* ClusterStatusUpdates.  So are the finalizers of others, which the code  *)
(* treats as ClusterController does.                                       *)
(***************************************************************************)
EXTENDS Integers, FiniteSets

CONSTANTS
    Workers,        \* operator processes that run the controller
    Clusters,       \* names of clusters
    Specs,          \* [ref, partitions, supported] of the specs users may write
    MaxGeneration,  \* bound on the edits of the spec
    MaxFaults       \* bound on failed calls, restarts and other disturbances

Gens == 1..MaxGeneration

ASSUME TopicControllerAssumption ==
    /\ Specs \subseteq [ref : Clusters, partitions : Nat \ {0}, supported : BOOLEAN]
    /\ MaxGeneration \in Nat \ {0} /\ MaxFaults \in Nat

VARIABLES
    specs,      \* specs[g]: the spec of generation g
    obj,        \* the object: exists, gen, deleting, finalizer, status
    cluster,    \* cluster[c]: [exists, ready: brokers are ready, it says]
    server,     \* server[c]: the generation of its topic, 0 when there is none
    late,       \* <<c, g>>: requests to create that the client has given up
    cache,      \* cache[w]: obj as the watch last delivered it to w
    due,        \* due[w]: a reconciliation is requested or will be requeued
    pc,         \* pc[w]: the call w makes next
    result,     \* result[w]: the status w is going to publish
    faults      \* disturbances so far

serverVars == <<cluster, server, late>>
workerVars == <<cache, due, pc, result>>
vars == <<specs, obj, serverVars, workerVars, faults>>

-------------------------------------------------------------------------------
Partitions == {s.partitions : s \in Specs}

Status == [reason : {"none", "Unsupported", "NotFound", "Waiting", "Error",
                     "Drift", "Ready"},
           synced : {"False", "Unknown", "True"},
           partitions : Partitions \cup {0},
           gen : 0..MaxGeneration]
NoStatus == [reason |-> "none", synced |-> "False", partitions |-> 0, gen |-> 0]

Object == [exists : BOOLEAN, gen : Gens, deleting : BOOLEAN,
           finalizer : BOOLEAN, status : Status]
Absent == [exists |-> FALSE, gen |-> 1, deleting |-> FALSE,
           finalizer |-> FALSE, status |-> NoStatus]

Pcs == {"idle", "finalizer", "cluster", "post", "read", "publish",
        "find", "delete", "unfinalize"}

TypeOK ==
    /\ specs \in [Gens -> Specs]
    /\ obj \in Object
    /\ cluster \in [Clusters -> [exists : BOOLEAN, ready : BOOLEAN]]
    /\ server \in [Clusters -> 0..MaxGeneration]
    /\ late \subseteq Clusters \X Gens
    /\ cache \in [Workers -> Object]
    /\ due \in [Workers -> BOOLEAN]
    /\ pc \in [Workers -> Pcs]
    /\ result \in [Workers -> Status]
    /\ faults \in Nat

Init ==
    /\ specs \in [Gens -> Specs]
    /\ obj = [Absent EXCEPT !.exists = TRUE]
    /\ cluster = [c \in Clusters |-> [exists |-> FALSE, ready |-> FALSE]]
    /\ server = [c \in Clusters |-> 0]
    /\ late = {}
    /\ cache = [w \in Workers |-> Absent]
    /\ due = [w \in Workers |-> FALSE]
    /\ pc = [w \in Workers |-> "idle"]
    /\ result = [w \in Workers |-> NoStatus]
    /\ faults = 0

Fault == faults < MaxFaults /\ faults' = faults + 1

-------------------------------------------------------------------------------
(***************************************************************************)
(* The status that follows from what the server said.                      *)
(***************************************************************************)

\* unsupported_fields: the settings other than partitions reject a spec in the
\* same way and are not told apart.
Supported(s) == s.supported

\* TopicServerState; 0 stands for a field that was not reported.
NoState      == [partitions |-> 0, replication_factor |-> 0]
is_empty(st) == st = NoState
is_fully_reported(st) == st.partitions # 0 /\ st.replication_factor # 0

\* What a server may report of a topic: it need not echo every field.
Reports(g) ==
    [partitions : {0, specs[g].partitions}, replication_factor : {0, 1}]

\* Mutant of failed_status: a failure is not related to a generation.
failed_status_unobserved(reason, g) ==
    [reason |-> reason, synced |-> "False", partitions |-> 0, gen |-> 0]
failed_status(reason, g) ==
    [reason |-> reason, synced |-> "False", partitions |-> 0, gen |-> g]

ready_status(st, verified, g) ==
    [reason |-> "Ready", synced |-> IF verified THEN "True" ELSE "Unknown",
     partitions |-> st.partitions, gen |-> g]

\* Mutant of evaluate_sync: a partial answer that shows no drift is in sync.
evaluate_sync_partial(g, st) ==
    IF st.partitions \notin {0, specs[g].partitions} THEN failed_status("Drift", g)
    ELSE ready_status(st, ~is_empty(st), g)

\* update_status_from_server with evaluate_sync.
evaluate_sync(g, st) ==
    IF st.partitions \notin {0, specs[g].partitions} THEN failed_status("Drift", g)
    ELSE ready_status(st, is_fully_reported(st), g)

-------------------------------------------------------------------------------
(***************************************************************************)
(* The worker.                                                             *)
(***************************************************************************)
At(w, p)   == pc[w] = p
Goto(w, p) == pc' = [pc EXCEPT ![w] = p] /\ UNCHANGED <<due, result>>

\* The reconciliation goes on to publish a status.
Publish(w, st) ==
    /\ pc' = [pc EXCEPT ![w] = "publish"]
    /\ result' = [result EXCEPT ![w] = st]
    /\ UNCHANGED due

\* The reconciliation ends and is, or is not, scheduled again.
End(w, again) ==
    /\ pc' = [pc EXCEPT ![w] = "idle"]
    /\ due' = [due EXCEPT ![w] = again]
    /\ result' = [result EXCEPT ![w] = NoStatus]

Requeue     == TRUE
AwaitChange == FALSE

Gen(w) == cache[w].gen
Ref(w) == specs[Gen(w)].ref

\* The watch delivers the object, or that it is gone.
Observe(w) ==
    /\ At(w, "idle") /\ cache[w] # obj
    /\ cache' = [cache EXCEPT ![w] = obj]
    /\ due' = [due EXCEPT ![w] = obj.exists]
    /\ UNCHANGED <<specs, obj, serverVars, pc, result, faults>>

\* Mutant of Validate: unsupported settings are dropped from the request.
ValidateNothing(w) == Goto(w, "cluster")

\* A spec the server cannot honour is rejected before it is touched.
Validate(w) ==
    IF Supported(specs[Gen(w)])
    THEN Goto(w, "cluster")
    ELSE Publish(w, failed_status("Unsupported", Gen(w)))

\* Mutant of Reconcile: the finalizer is not checked first.
ReconcileWithoutFinalizer(w) ==
    /\ At(w, "idle") /\ due[w] /\ cache[w].exists /\ ~cache[w].deleting
    /\ Validate(w)
    /\ UNCHANGED <<specs, obj, serverVars, cache, faults>>

\* reconcile starts on the cached object.
Reconcile(w) ==
    /\ At(w, "idle") /\ due[w] /\ cache[w].exists /\ ~cache[w].deleting
    /\ IF cache[w].finalizer THEN Validate(w) ELSE Goto(w, "finalizer")
    /\ UNCHANGED <<specs, obj, serverVars, cache, faults>>

\* ensure_finalizer: as in ClusterController, its server-side apply names
\* neither apiVersion nor kind and is answered 400.
EnsureFinalizer(w) ==
    /\ At(w, "finalizer")
    /\ End(w, Requeue)
    /\ UNCHANGED <<specs, obj, serverVars, cache, faults>>

\* The cluster is read afresh, its status may be old all the same.  Every
\* error of the read counts as a missing cluster.
GetCluster(w) ==
    /\ At(w, "cluster")
    /\ \/ /\ cluster[Ref(w)].exists /\ cluster[Ref(w)].ready
          /\ Goto(w, "post")
          /\ UNCHANGED faults
       \/ /\ cluster[Ref(w)].exists /\ ~cluster[Ref(w)].ready
          /\ Publish(w, failed_status("Waiting", Gen(w)))
          /\ UNCHANGED faults
       \/ /\ IF cluster[Ref(w)].exists THEN Fault ELSE UNCHANGED faults
          /\ Publish(w, failed_status("NotFound", Gen(w)))
    /\ UNCHANGED <<specs, obj, serverVars, cache>>

\* POST on the server: a topic that is there stays as it is.
Create(c, g) ==
    server' = [server EXCEPT ![c] = IF @ = 0 THEN g ELSE @]

\* create_or_update_topic, the server answers: it created the topic and says
\* what it created, or it says nothing of it, or it refuses with 409.
PostTopic(w) ==
    /\ At(w, "post") /\ cluster[Ref(w)].exists
    /\ Create(Ref(w), Gen(w))
    /\ \/ /\ server[Ref(w)] = 0
          /\ \E st \in Reports(Gen(w)) \ {NoState} :
                Publish(w, evaluate_sync(Gen(w), st))
       \/ Goto(w, "read")
    /\ UNCHANGED <<specs, obj, cluster, late, cache, faults>>

\* Any other answer, or none: the request was not, was or will be executed.
PostFails(w) ==
    /\ At(w, "post")
    /\ IF cluster[Ref(w)].exists THEN Fault ELSE UNCHANGED faults
    /\ \/ UNCHANGED <<server, late>>
       \/ cluster[Ref(w)].exists /\ Create(Ref(w), Gen(w)) /\ UNCHANGED late
       \/ /\ cluster[Ref(w)].exists
          /\ late' = late \cup {<<Ref(w), Gen(w)>>} /\ UNCHANGED server
    /\ Publish(w, failed_status("Error", Gen(w)))
    /\ UNCHANGED <<specs, obj, cluster, cache>>

\* fetch_topic_state reads the topic back.
ReadTopic(w) ==
    /\ At(w, "read") /\ server[Ref(w)] # 0
    /\ \E st \in Reports(server[Ref(w)]) : Publish(w, evaluate_sync(Gen(w), st))
    /\ UNCHANGED <<specs, obj, serverVars, cache, faults>>

\* There is no topic, or no answer: nothing is known, and that is no error.
ReadNothing(w) ==
    /\ At(w, "read")
    /\ IF server[Ref(w)] # 0 THEN Fault ELSE UNCHANGED faults
    /\ Publish(w, evaluate_sync(Gen(w), NoState))
    /\ UNCHANGED <<specs, obj, serverVars, cache>>

\* Mutant of UpdateStatus: a failed topic is not tried again.
UpdateStatusOnce(w) ==
    /\ At(w, "publish")
    /\ result[w] = cache[w].status \/ obj.exists
    /\ obj' = IF result[w] = cache[w].status THEN obj
              ELSE [obj EXCEPT !.status = result[w]]
    /\ End(w, result[w].reason \in {"Ready", "Waiting"})
    /\ UNCHANGED <<specs, serverVars, cache, faults>>

\* patch_status_if_changed; every outcome is requeued, after 10 to 300 seconds.
UpdateStatus(w) ==
    /\ At(w, "publish")
    /\ result[w] = cache[w].status \/ obj.exists
    /\ obj' = IF result[w] = cache[w].status THEN obj
              ELSE [obj EXCEPT !.status = result[w]]
    /\ End(w, Requeue)
    /\ UNCHANGED <<specs, serverVars, cache, faults>>

\* Mutant of HandleDeletion: the deletion timestamp is not looked at.
HandleDeletionAnytime(w) ==
    /\ At(w, "idle") /\ due[w] /\ cache[w].exists
    /\ Goto(w, "find")
    /\ UNCHANGED <<specs, obj, serverVars, cache, faults>>

\* handle_deletion looks for the cluster ...
HandleDeletion(w) ==
    /\ At(w, "idle") /\ due[w] /\ cache[w].exists /\ cache[w].deleting
    /\ Goto(w, "find")
    /\ UNCHANGED <<specs, obj, serverVars, cache, faults>>

\* ... and without it, or without an answer, leaves the server alone; ...
FindCluster(w) ==
    /\ At(w, "find")
    /\ \/ cluster[Ref(w)].exists /\ Goto(w, "delete") /\ UNCHANGED faults
       \/ /\ IF cluster[Ref(w)].exists THEN Fault ELSE UNCHANGED faults
          /\ Goto(w, "unfinalize")
    /\ UNCHANGED <<specs, obj, serverVars, cache>>

\* ... otherwise it deletes the topic, whether or not that succeeds ...
DeleteTopic(w) ==
    /\ At(w, "delete")
    /\ \/ server' = [server EXCEPT ![Ref(w)] = 0] /\ UNCHANGED faults
       \/ Fault /\ UNCHANGED server
    /\ Goto(w, "unfinalize")
    /\ UNCHANGED <<specs, obj, cluster, late, cache>>

\* ... and removes the finalizer, and with it the object.  If the answer is lost
\* the error policy has the deletion handled once more.
RemoveFinalizer(w) ==
    /\ At(w, "unfinalize") /\ obj.exists
    /\ obj' = IF obj.deleting THEN Absent ELSE [obj EXCEPT !.finalizer = FALSE]
    /\ \/ End(w, AwaitChange) /\ UNCHANGED faults
       \/ End(w, Requeue) /\ Fault
    /\ UNCHANGED <<specs, serverVars, cache>>

\* The API server refuses a call: the object is gone.
Refused(w) ==
    /\ \/ At(w, "publish") /\ ~obj.exists /\ result[w] # cache[w].status
       \/ At(w, "unfinalize") /\ ~obj.exists
    /\ End(w, Requeue)
    /\ UNCHANGED <<specs, obj, serverVars, cache, faults>>

\* Mutant of Fail: the error policy does not requeue.
FailForgets(w) ==
    /\ pc[w] \in {"finalizer", "publish", "unfinalize"}
    /\ Fault
    /\ End(w, AwaitChange)
    /\ UNCHANGED <<specs, obj, serverVars, cache>>

\* Any other error of the API server ends the reconciliation and the error
\* policy requeues.
Fail(w) ==
    /\ pc[w] \in {"finalizer", "publish", "unfinalize"}
    /\ Fault
    /\ End(w, Requeue)
    /\ UNCHANGED <<specs, obj, serverVars, cache>>

\* The process is replaced; the new one starts with an empty cache.
Restart(w) ==
    /\ Fault
    /\ cache' = [cache EXCEPT ![w] = Absent]
    /\ End(w, AwaitChange)
    /\ UNCHANGED <<specs, obj, serverVars>>

-------------------------------------------------------------------------------
(***************************************************************************)
(* Users, clusters and servers.                                            *)
(***************************************************************************)
EditSpec ==
    /\ obj.exists /\ obj.gen < MaxGeneration
    /\ obj' = [obj EXCEPT !.gen = @ + 1]
    /\ UNCHANGED <<specs, serverVars, workerVars, faults>>

RequestDeletion ==
    /\ obj.exists /\ ~obj.deleting
    /\ obj' = IF obj.finalizer THEN [obj EXCEPT !.deleting = TRUE] ELSE Absent
    /\ UNCHANGED <<specs, serverVars, workerVars, faults>>

\* A manifest, kubectl or an earlier version of the operator sets the finalizer,
\* which the operator itself never manages to.
WriteFinalizer ==
    /\ obj.exists /\ ~obj.deleting /\ ~obj.finalizer
    /\ obj' = [obj EXCEPT !.finalizer = TRUE]
    /\ UNCHANGED <<specs, serverVars, workerVars, faults>>

User == EditSpec \/ RequestDeletion \/ WriteFinalizer

\* A request that its client has given up is executed.
LatePost(c, g) ==
    /\ <<c, g>> \in late
    /\ late' = late \ {<<c, g>>}
    /\ IF cluster[c].exists THEN Create(c, g) ELSE UNCHANGED server
    /\ UNCHANGED <<specs, obj, cluster, workerVars, faults>>

ClusterComesUp(c) ==
    /\ ~cluster[c].ready
    /\ \/ ~cluster[c].exists
          /\ cluster' = [cluster EXCEPT ![c].exists = TRUE]
       \/ cluster[c].exists
          /\ cluster' = [cluster EXCEPT ![c].ready = TRUE]
    /\ UNCHANGED <<specs, obj, server, late, workerVars, faults>>

\* Brokers fail, or the cluster is deleted with its data.
ClusterGoesDown(c) ==
    /\ cluster[c].exists
    /\ Fault
    /\ \/ /\ cluster[c].ready
          /\ cluster' = [cluster EXCEPT ![c].ready = FALSE]
          /\ UNCHANGED server
       \/ /\ cluster' = [cluster EXCEPT ![c] = [exists |-> FALSE, ready |-> FALSE]]
          /\ server' = [server EXCEPT ![c] = 0]
    /\ UNCHANGED <<specs, obj, late, workerVars>>

-------------------------------------------------------------------------------
Reconciliation(w) ==
    \/ Observe(w) \/ Reconcile(w) \/ EnsureFinalizer(w) \/ GetCluster(w)
    \/ PostTopic(w) \/ PostFails(w) \/ ReadTopic(w) \/ ReadNothing(w)
    \/ UpdateStatus(w) \/ HandleDeletion(w) \/ FindCluster(w) \/ DeleteTopic(w)
    \/ RemoveFinalizer(w) \/ Refused(w)

Next ==
    \/ \E w \in Workers : Reconciliation(w) \/ Fail(w) \/ Restart(w)
    \/ User
    \/ \E c \in Clusters : ClusterComesUp(c) \/ ClusterGoesDown(c)
    \/ \E c \in Clusters, g \in Gens : LatePost(c, g)

Spec == Init /\ [][Next]_vars

\* Due reconciliations run and the watch delivers, also between two of them.
\* Nothing is assumed of users, clusters and requests that were given up.
FairSpec ==
    Spec /\ \A w \in Workers : WF_vars(Reconciliation(w)) /\ SF_vars(Observe(w))

-------------------------------------------------------------------------------
(***************************************************************************)
(* Properties.                                                             *)
(***************************************************************************)
Live == obj.exists /\ ~obj.deleting

\* Synced=True for a generation is only said with the partition count of that
\* generation's spec, and never for a spec the server cannot honour, however
\* the spec was edited while the server was asked (evaluate_sync).
SyncedMeansVerified ==
    obj.status.synced = "True" =>
        LET s == specs[obj.status.gen] IN
        Supported(s) /\ obj.status.partitions = s.partitions

\* Nothing is ever created on a server from a spec it cannot honour, late
\* requests included (the early return of reconcile).
UnsupportedNeverCreated ==
    \A c \in Clusters : server[c] # 0 => Supported(specs[server[c]])

\* A topic object that is not being deleted and has a topic on some server
\* carries the finalizer.
TopicUnderFinalizer ==
    Live /\ (late # {} \/ \E c \in Clusters : server[c] # 0) => obj.finalizer

\* A topic that exists on a server is never changed or dropped by the
\* controller before its deletion was asked for: a spec that does not match is
\* reported, not enforced.
TopicDroppedOnRequestOnly ==
    [][\A c \in Clusters :
          (server[c] # 0 /\ server'[c] # server[c] /\ cluster'[c].exists) => ~Live]_vars

\* With one worker, the status never goes back to an older generation.
NoRegression ==
    [][obj'.exists => obj'.status.gen >= obj.status.gen]_vars

\* When users and clusters leave a topic alone that was given the finalizer, it
\* has the status that its spec, its cluster and the topic on the server call
\* for.  Without the finalizer nothing is ever done (EnsureFinalizer).
Settled ==
    LET s == specs[obj.gen] IN
    /\ obj.status.gen = obj.gen
    /\ obj.status.reason \in
         IF ~Supported(s) THEN {"Unsupported"}
         ELSE IF ~cluster[s.ref].exists THEN {"NotFound"}
         ELSE IF ~cluster[s.ref].ready THEN {"Waiting"}
         ELSE {"Ready", "Drift"}
    /\ obj.status.reason \in {"Ready", "Drift"} => server[s.ref] # 0
    /\ obj.status.reason = "Drift" =>
         specs[server[s.ref]].partitions # s.partitions
    /\ obj.status.synced = "True" =>
         specs[server[s.ref]].partitions = s.partitions
Converges == <>[](Live /\ obj.finalizer => Settled)

\* The finalizer never holds up a deletion, with or without cluster.
DeletionCompletes == obj.deleting ~> ~obj.exists

\* src/controllers/topic.rs: "remove topic from Streamline server, then remove
\* finalizer".
TopicGoneBeforeFinalizer ==
    [][obj.finalizer /\ ~obj'.finalizer =>
          \A c \in Clusters : server[c] = 0]_vars

-------------------------------------------------------------------------------
(***************************************************************************)
(* Why it works: the parts of an inductive invariant, for any workers.     *)
(***************************************************************************)
Working  == {"cluster", "post", "read"}
Deleting == {"find", "delete", "unfinalize"}

\* The object does not come back, and its deletion is not taken back: a copy
\* that is being deleted is never ahead of the object.
CopyInv ==
    /\ ~obj.exists => obj = Absent
    /\ \A w \in Workers :
          /\ pc[w] \in Deleting => cache[w].deleting
          /\ cache[w].deleting => ~Live

\* A live object does not lose the finalizer: who saw it can rely on it.
FinalizerInv ==
    \A w \in Workers :
        Live /\ (cache[w].finalizer \/ pc[w] \in Working) => obj.finalizer

\* Only a spec that the server can honour gets as far as the server, and so do
\* the requests that were given up.
BranchInv ==
    /\ \A w \in Workers : pc[w] \in Working => Supported(specs[Gen(w)])
    /\ \A r \in late : Supported(specs[r[2]])

\* What a worker is going to publish is as honest as what is published.
Honest(st) ==
    st.synced = "True" =>
        Supported(specs[st.gen]) /\ st.partitions = specs[st.gen].partitions
ResultInv == \A w \in Workers : pc[w] = "publish" => Honest(result[w])

IInv ==
    /\ TypeOK /\ CopyInv /\ FinalizerInv /\ BranchInv /\ ResultInv
    /\ SyncedMeansVerified /\ UnsupportedNeverCreated /\ TopicUnderFinalizer

\* With one worker, generations move in one direction only: from the object to
\* the worker's copy, and from there to its result and to the status.
SingleWorker == \A v, w \in Workers : v = w

OrderInv ==
    /\ obj.exists => obj.status.gen <= obj.gen
    /\ \A w \in Workers :
          /\ pc[w] # "idle" => cache[w].exists
          /\ cache[w].exists /\ obj.exists
                => obj.status.gen <= cache[w].gen /\ cache[w].gen <= obj.gen
          /\ pc[w] = "publish" => result[w].gen = cache[w].gen

SingleInv == SingleWorker /\ IInv /\ OrderInv
================================================================================
