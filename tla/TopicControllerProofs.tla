------------------------- MODULE TopicControllerProofs -------------------------
(***************************************************************************)
(* Proofs about TopicController, for any workers, clusters, specs and      *)
(* bounds.  Every step is shown to be a move, a relation that says what a  *)
(* step may do to the object, to the servers and to a worker; the parts of *)
(* the invariant IInv then follow from that relation alone.  With one      *)
(* worker, SingleInv adds the order in which generations travel.           *)
(***************************************************************************)
EXTENDS TopicController, TLAPS

WorkerStep(w) == Reconciliation(w) \/ Fail(w) \/ Restart(w)

EnvStep ==
    \/ User
    \/ \E c \in Clusters : ClusterComesUp(c) \/ ClusterGoesDown(c)
    \/ \E c \in Clusters, g \in Gens : LatePost(c, g)

-------------------------------------------------------------------------------
(***************************************************************************)
(* Types.                                                                  *)
(***************************************************************************)
LEMMA AbsentType == NoStatus \in Status /\ Absent \in Object
  BY TopicControllerAssumption DEF Absent, Object, NoStatus, Status, Gens

\* What a worker reads of its spec.
LEMMA ReadType ==
    ASSUME TypeOK
    PROVE  /\ \A w \in Workers : Gen(w) \in Gens /\ Ref(w) \in Clusters
           /\ \A g \in Gens : specs[g].partitions \in Partitions
           /\ \A g \in Gens : g \in 0..MaxGeneration
  <1>1. \A w \in Workers : Gen(w) \in Gens
    BY DEF TypeOK, Object, Gen
  <1>2. \A g \in Gens : specs[g] \in Specs
    BY DEF TypeOK
  <1>3. \A w \in Workers : Ref(w) \in Clusters
    BY <1>1, <1>2, TopicControllerAssumption DEF Ref
  <1>4. \A g \in Gens : specs[g].partitions \in Partitions
    BY <1>2 DEF Partitions
  <1> QED  BY <1>1, <1>3, <1>4, TopicControllerAssumption DEF Gens

\* The statuses a worker computes are well typed, whatever the server says.
LEMMA StatusType ==
    ASSUME TypeOK, NEW g \in Gens
    PROVE  /\ \A r \in {"Unsupported", "NotFound", "Waiting", "Error", "Drift"} :
                 failed_status(r, g) \in Status
           /\ \A h \in Gens : \A st \in Reports(h) : evaluate_sync(g, st) \in Status
           /\ evaluate_sync(g, NoState) \in Status
  <1>0. g \in 0..MaxGeneration
    BY ReadType
  <1>1. \A r \in {"Unsupported", "NotFound", "Waiting", "Error", "Drift"} :
           failed_status(r, g) \in Status
    BY <1>0 DEF failed_status, Status
  <1>2. ASSUME NEW st, st.partitions \in Partitions \cup {0}
        PROVE  evaluate_sync(g, st) \in Status
    <2>1. \A b \in BOOLEAN : ready_status(st, b, g) \in Status
      BY <1>0, <1>2 DEF ready_status, Status
    <2>2. is_fully_reported(st) \in BOOLEAN
      BY DEF is_fully_reported
    <2> QED  BY <1>1, <2>1, <2>2 DEF evaluate_sync
  <1>3. \A h \in Gens : \A st \in Reports(h) : st.partitions \in Partitions \cup {0}
    BY ReadType DEF Reports
  <1>4. NoState.partitions \in Partitions \cup {0}
    BY DEF NoState
  <1> QED  BY <1>1, <1>2, <1>3, <1>4

\* The ways a worker goes on preserve the types of its variables.
LEMMA GoType ==
    ASSUME TypeOK, NEW w \in Workers
    PROVE  /\ \A p \in Pcs : Goto(w, p)
                 => pc' \in [Workers -> Pcs] /\ due' = due /\ result' = result
           /\ \A st \in Status : Publish(w, st)
                 => /\ pc' \in [Workers -> Pcs] /\ due' = due
                    /\ result' \in [Workers -> Status]
           /\ \A b \in BOOLEAN : End(w, b)
                 => /\ pc' \in [Workers -> Pcs] /\ due' \in [Workers -> BOOLEAN]
                    /\ result' \in [Workers -> Status]
  BY AbsentType DEF TypeOK, Goto, Publish, End, Pcs

WorkerTypes ==
    /\ due' \in [Workers -> BOOLEAN]
    /\ pc' \in [Workers -> Pcs]
    /\ result' \in [Workers -> Status]

LEMMA ValidateType ==
    ASSUME TypeOK, NEW w \in Workers, Validate(w)
    PROVE  WorkerTypes
  <1>1. failed_status("Unsupported", Gen(w)) \in Status
    BY ReadType, StatusType
  <1>2. "cluster" \in Pcs
    BY DEF Pcs
  <1>3. CASE Goto(w, "cluster")
    BY <1>2, <1>3, GoType DEF WorkerTypes, TypeOK
  <1>4. CASE Publish(w, failed_status("Unsupported", Gen(w)))
    BY <1>1, <1>4, GoType DEF WorkerTypes, TypeOK
  <1> QED  BY <1>3, <1>4 DEF Validate

\* A step of a worker keeps the worker's variables well typed.
LEMMA TypeWorker ==
    ASSUME TypeOK, NEW w \in Workers, WorkerStep(w)
    PROVE  WorkerTypes
  <1>0. /\ Gen(w) \in Gens
        /\ {"find", "finalizer", "cluster", "post", "read", "delete", "unfinalize"}
              \subseteq Pcs
        /\ Requeue \in BOOLEAN /\ AwaitChange \in BOOLEAN
    BY ReadType DEF Pcs, Requeue, AwaitChange
  <1> USE DEF WorkerTypes
  <1>1. CASE Observe(w)
    BY <1>1 DEF TypeOK, Observe, Object
  <1>2. CASE Reconcile(w)
    BY <1>0, <1>2, ValidateType, GoType DEF TypeOK, Reconcile
  <1>3. CASE EnsureFinalizer(w)
    BY <1>0, <1>3, GoType DEF TypeOK, EnsureFinalizer
  <1>4. CASE GetCluster(w)
    <2>1. \/ Goto(w, "post")
          \/ Publish(w, failed_status("Waiting", Gen(w)))
          \/ Publish(w, failed_status("NotFound", Gen(w)))
      BY <1>4 DEF GetCluster
    <2> QED  BY <1>0, <2>1, StatusType, GoType DEF TypeOK
  <1>5. CASE PostTopic(w)
    <2>1. CASE Goto(w, "read")
      BY <1>0, <2>1, GoType DEF TypeOK
    <2>2. ASSUME NEW st \in Reports(Gen(w)), Publish(w, evaluate_sync(Gen(w), st))
          PROVE  WorkerTypes
      <3>1. evaluate_sync(Gen(w), st) \in Status
        BY <1>0, StatusType
      <3> QED  BY <2>2, <3>1, GoType DEF TypeOK
    <2> QED  BY <1>5, <2>1, <2>2 DEF PostTopic
  <1>6. CASE PostFails(w)
    <2>1. failed_status("Error", Gen(w)) \in Status
      BY <1>0, StatusType
    <2> QED  BY <1>6, <2>1, GoType DEF TypeOK, PostFails
  <1>7. CASE ReadTopic(w)
    <2>1. server[Ref(w)] \in Gens
      <3>1. server[Ref(w)] \in 0..MaxGeneration
        BY ReadType DEF TypeOK
      <3> QED  BY <1>7, <3>1, TopicControllerAssumption DEF ReadTopic, Gens
    <2>2. PICK st \in Reports(server[Ref(w)]) : Publish(w, evaluate_sync(Gen(w), st))
      BY <1>7 DEF ReadTopic
    <2>3. evaluate_sync(Gen(w), st) \in Status
      BY <1>0, <2>1, StatusType
    <2> QED  BY <2>2, <2>3, GoType DEF TypeOK
  <1>8. CASE ReadNothing(w)
    <2>1. evaluate_sync(Gen(w), NoState) \in Status
      BY <1>0, StatusType
    <2> QED  BY <1>8, <2>1, GoType DEF TypeOK, ReadNothing
  <1>9. CASE UpdateStatus(w) \/ RemoveFinalizer(w) \/ Refused(w) \/ Fail(w) \/ Restart(w)
    <2>1. End(w, Requeue) \/ End(w, AwaitChange)
      BY <1>9 DEF UpdateStatus, RemoveFinalizer, Refused, Fail, Restart
    <2> QED  BY <1>0, <2>1, GoType
  <1>10. CASE HandleDeletion(w) \/ FindCluster(w) \/ DeleteTopic(w)
    <2>1. Goto(w, "find") \/ Goto(w, "delete") \/ Goto(w, "unfinalize")
      BY <1>10 DEF HandleDeletion, FindCluster, DeleteTopic
    <2> QED  BY <1>0, <2>1, GoType DEF TypeOK
  <1> QED
    BY <1>1, <1>2, <1>3, <1>4, <1>5, <1>6, <1>7, <1>8, <1>9, <1>10
       DEF WorkerStep, Reconciliation

SharedTypes ==
    /\ specs' \in [Gens -> Specs]
    /\ obj' \in Object
    /\ cluster' \in [Clusters -> [exists : BOOLEAN, ready : BOOLEAN]]
    /\ server' \in [Clusters -> 0..MaxGeneration]
    /\ late' \subseteq Clusters \X Gens
    /\ cache' \in [Workers -> Object]
    /\ faults' \in Nat

LEMMA CreateType ==
    ASSUME TypeOK, NEW c \in Clusters, NEW g \in Gens, Create(c, g)
    PROVE  server' \in [Clusters -> 0..MaxGeneration]
  <1>1. g \in 0..MaxGeneration
    BY ReadType
  <1> QED  BY <1>1 DEF TypeOK, Create

\* A step of a worker keeps the rest well typed.
LEMMA TypeShared ==
    ASSUME TypeOK, NEW w \in Workers, WorkerStep(w)
    PROVE  SharedTypes
  <1>0. /\ Gen(w) \in Gens /\ Ref(w) \in Clusters
        /\ 0 \in 0..MaxGeneration
        /\ Fault => faults' \in Nat
    BY ReadType, TopicControllerAssumption DEF TypeOK, Fault
  <1> USE DEF SharedTypes, serverVars
  <1>1. CASE Observe(w)
    BY <1>1 DEF TypeOK, Observe
  <1>2. CASE Reconcile(w) \/ HandleDeletion(w) \/ ReadTopic(w) \/ Refused(w)
    BY <1>2 DEF TypeOK, Reconcile, HandleDeletion, ReadTopic, Refused
  <1>3. CASE EnsureFinalizer(w)
    BY <1>3 DEF TypeOK, EnsureFinalizer
  <1>4. CASE GetCluster(w) \/ FindCluster(w) \/ ReadNothing(w) \/ Fail(w)
    <2>1. faults' \in Nat
      BY <1>0, <1>4 DEF TypeOK, GetCluster, FindCluster, ReadNothing, Fail
    <2> QED  BY <1>4, <2>1 DEF TypeOK, GetCluster, FindCluster, ReadNothing, Fail
  <1>5. CASE PostTopic(w)
    BY <1>0, <1>5, CreateType DEF TypeOK, PostTopic
  <1>6. CASE PostFails(w)
    <2>1. faults' \in Nat
      BY <1>0, <1>6 DEF TypeOK, PostFails
    <2>2. <<Ref(w), Gen(w)>> \in Clusters \X Gens
      BY <1>0
    <2>3. /\ server' \in [Clusters -> 0..MaxGeneration]
          /\ late' \subseteq Clusters \X Gens
      BY <1>0, <1>6, <2>2, CreateType DEF TypeOK, PostFails
    <2> QED  BY <1>6, <2>1, <2>3 DEF TypeOK, PostFails
  <1>7. CASE UpdateStatus(w)
    <2>1. result[w] \in Status
      BY DEF TypeOK
    <2>2. [obj EXCEPT !.status = result[w]] \in Object
      BY <2>1 DEF TypeOK, Object
    <2> QED  BY <1>7, <2>2 DEF TypeOK, UpdateStatus
  <1>8. CASE DeleteTopic(w)
    <2>1. faults' \in Nat
      BY <1>0, <1>8 DEF TypeOK, DeleteTopic
    <2>2. server' \in [Clusters -> 0..MaxGeneration]
      BY <1>0, <1>8 DEF TypeOK, DeleteTopic
    <2> QED  BY <1>8, <2>1, <2>2 DEF TypeOK, DeleteTopic
  <1>9. CASE RemoveFinalizer(w)
    <2>1. [obj EXCEPT !.finalizer = FALSE] \in Object
      BY DEF TypeOK, Object
    <2>2. faults' \in Nat
      BY <1>0, <1>9 DEF TypeOK, RemoveFinalizer
    <2> QED  BY <1>9, <2>1, <2>2, AbsentType DEF TypeOK, RemoveFinalizer
  <1>10. CASE Restart(w)
    BY <1>0, <1>10, AbsentType DEF TypeOK, Restart
  <1> QED
    BY <1>1, <1>2, <1>3, <1>4, <1>5, <1>6, <1>7, <1>8, <1>9, <1>10
       DEF WorkerStep, Reconciliation

\* A step of the environment preserves the type invariant.
LEMMA TypeEnv ==
    ASSUME TypeOK, EnvStep
    PROVE  TypeOK'
  <1>0. Fault => faults' \in Nat
    BY DEF TypeOK, Fault
  <1>1. CASE EditSpec
    <2>1. obj.gen + 1 \in Gens
      BY <1>1, TopicControllerAssumption DEF EditSpec, TypeOK, Object, Gens
    <2>2. obj' \in Object
      BY <1>1, <2>1 DEF EditSpec, TypeOK, Object
    <2> QED  BY <1>1, <2>2 DEF TypeOK, EditSpec, serverVars, workerVars
  <1>2. CASE RequestDeletion
    <2>1. [obj EXCEPT !.deleting = TRUE] \in Object
      BY DEF TypeOK, Object
    <2> QED
      BY <1>2, <2>1, AbsentType DEF TypeOK, RequestDeletion, serverVars, workerVars
  <1>6. CASE WriteFinalizer
    <2>1. [obj EXCEPT !.finalizer = TRUE] \in Object
      BY DEF TypeOK, Object
    <2> QED  BY <1>6, <2>1 DEF TypeOK, WriteFinalizer, serverVars, workerVars
  <1>3. ASSUME NEW c \in Clusters, ClusterComesUp(c)
        PROVE  TypeOK'
    BY <1>3 DEF TypeOK, ClusterComesUp, workerVars
  <1>4. ASSUME NEW c \in Clusters, ClusterGoesDown(c)
        PROVE  TypeOK'
    <2>1. cluster' \in [Clusters -> [exists : BOOLEAN, ready : BOOLEAN]]
      <3>1. CASE cluster' = [cluster EXCEPT ![c].ready = FALSE]
        BY <3>1 DEF TypeOK
      <3>2. CASE cluster' = [cluster EXCEPT ![c] = [exists |-> FALSE, ready |-> FALSE]]
        BY <3>2 DEF TypeOK
      <3> QED  BY <1>4, <3>1, <3>2 DEF ClusterGoesDown
    <2>2. server' \in [Clusters -> 0..MaxGeneration]
      BY <1>4, TopicControllerAssumption DEF TypeOK, ClusterGoesDown
    <2> QED  BY <1>0, <1>4, <2>1, <2>2 DEF TypeOK, ClusterGoesDown, workerVars
  <1>5. ASSUME NEW c \in Clusters, NEW g \in Gens, LatePost(c, g)
        PROVE  TypeOK'
    <2>1. server' \in [Clusters -> 0..MaxGeneration]
      BY <1>5, CreateType DEF TypeOK, LatePost
    <2> QED  BY <1>5, <2>1 DEF TypeOK, LatePost, workerVars
  <1> QED  BY <1>1, <1>2, <1>3, <1>4, <1>5, <1>6 DEF EnvStep, User

-------------------------------------------------------------------------------
(***************************************************************************)
(* What a step may do: the parts of the invariant follow from this alone.  *)
(***************************************************************************)

\* The object does not come back, its deletion is not taken back, and only
\* then it loses the finalizer.
ObjMove ==
    /\ obj'.exists => obj.exists
    /\ ~obj'.exists => obj' = Absent
    /\ obj'.exists /\ obj.deleting => obj'.deleting
    /\ Live' /\ obj.finalizer => obj'.finalizer

\* A new status is the one that a worker was going to publish.
StatusMove ==
    \/ obj'.status \in {obj.status, NoStatus}
    \/ \E w \in Workers : pc[w] = "publish" /\ obj'.status = result[w]

\* Only workers that call a server, and requests given up, create topics.
ServerMove ==
    /\ \A c \in Clusters :
          \/ server'[c] \in {server[c], 0}
          \/ <<c, server'[c]>> \in late
          \/ \E w \in Workers : pc[w] = "post" /\ server'[c] = Gen(w)
    /\ \A r \in late' :
          r \in late \/ \E w \in Workers : pc[w] = "post" /\ r[2] = Gen(w)

\* How worker v gets to a call.
WorkerMove(v) ==
    /\ \/ cache'[v] = cache[v]
       \/ pc'[v] = "idle" /\ obj' = obj /\ cache'[v] \in {obj, Absent}
    /\ pc'[v] \in Deleting => pc[v] \in Deleting \/ cache[v].deleting
    /\ pc'[v] \in Working
          => \/ pc[v] \in Working
             \/ cache[v].finalizer /\ Supported(specs[Gen(v)])
    /\ pc'[v] = "publish"
          => Honest(result'[v]) \/ (pc[v] = "publish" /\ result'[v] = result[v])

Move == ObjMove /\ StatusMove /\ ServerMove /\ specs' = specs

LEMMA ObjSame ==
    ASSUME CopyInv, obj' = obj
    PROVE  ObjMove /\ StatusMove
  BY DEF CopyInv, ObjMove, StatusMove, Live

LEMMA ServerSame ==
    ASSUME UNCHANGED <<server, late>>
    PROVE  ServerMove
  BY DEF ServerMove

\* Whatever a server reports, what a worker makes of it is honest.
LEMMA HonestStatus ==
    ASSUME NEW g
    PROVE  /\ \A r : Honest(failed_status(r, g))
           /\ \A st : Supported(specs[g]) => Honest(evaluate_sync(g, st))
  <1>1. \A r : Honest(failed_status(r, g))
    BY DEF Honest, failed_status
  <1>2. ASSUME NEW st, Supported(specs[g]), st.partitions \in {0, specs[g].partitions}
        PROVE  Honest(ready_status(st, is_fully_reported(st), g))
    BY <1>2 DEF Honest, ready_status, is_fully_reported
  <1> QED  BY <1>1, <1>2 DEF evaluate_sync

\* The writes to the object are moves.
LEMMA WriteMove ==
    ASSUME TypeOK, CopyInv, obj.exists
    PROVE  /\ \A st : obj' = [obj EXCEPT !.status = st] => ObjMove
           /\ obj' = [obj EXCEPT !.finalizer = TRUE] => ObjMove /\ StatusMove
           /\ obj' = Absent => ObjMove /\ StatusMove
  <1>1. ASSUME NEW st, obj' = [obj EXCEPT !.status = st]
        PROVE  ObjMove
    <2>1. /\ obj'.exists = obj.exists /\ obj'.deleting = obj.deleting
          /\ obj'.finalizer = obj.finalizer
      BY <1>1 DEF TypeOK, Object
    <2> QED  BY <2>1 DEF ObjMove, Live
  <1>2. CASE obj' = [obj EXCEPT !.finalizer = TRUE]
    <2>1. /\ obj'.exists = obj.exists /\ obj'.deleting = obj.deleting
          /\ obj'.finalizer /\ obj'.status = obj.status
      BY <1>2 DEF TypeOK, Object
    <2> QED  BY <2>1 DEF ObjMove, StatusMove, Live
  <1>3. CASE obj' = Absent
    BY <1>3 DEF ObjMove, StatusMove, Absent, Live
  <1> QED  BY <1>1, <1>2, <1>3

\* Ending a reconciliation is a move, and so is going on with it as long as
\* the worker does not start to work.
LEMMA PlainMove ==
    ASSUME TypeOK, NEW w \in Workers
    PROVE  /\ \A b : /\ End(w, b)
                     /\ \/ cache'[w] = cache[w]
                        \/ obj' = obj /\ cache'[w] \in {obj, Absent}
                     => WorkerMove(w)
           /\ \A p : /\ Goto(w, p) /\ cache'[w] = cache[w]
                     /\ p \in Deleting => pc[w] \in Deleting \/ cache[w].deleting
                     /\ p \in Working => pc[w] \in Working
                     /\ p # "publish"
                     => WorkerMove(w)
           /\ \A st : Publish(w, st) /\ cache'[w] = cache[w] /\ Honest(st)
                     => WorkerMove(w)
  BY DEF TypeOK, Goto, Publish, End, WorkerMove, Working, Deleting

LEMMA ValidateMove ==
    ASSUME TypeOK, NEW w \in Workers, Validate(w), cache' = cache,
           cache[w].finalizer
    PROVE  WorkerMove(w)
  <1>1. CASE Supported(specs[Gen(w)]) /\ Goto(w, "cluster")
    BY <1>1 DEF TypeOK, Goto, WorkerMove, Working, Deleting
  <1>2. CASE Publish(w, failed_status("Unsupported", Gen(w)))
    BY <1>2, HonestStatus, PlainMove
  <1> QED  BY <1>1, <1>2 DEF Validate

\* Every step of a worker is a move; the other workers stay where they are.
LEMMA WorkerMoves ==
    ASSUME TypeOK, CopyInv, BranchInv, NEW w \in Workers, WorkerStep(w)
    PROVE  Move /\ \A v \in Workers : WorkerMove(v)
  <1>0. /\ specs' = specs
        /\ \A v \in Workers \ {w} :
              pc'[v] = pc[v] /\ cache'[v] = cache[v] /\ result'[v] = result[v]
    BY DEF WorkerStep, Reconciliation, Observe, Reconcile, EnsureFinalizer, Validate,
       GetCluster, PostTopic, PostFails, ReadTopic, ReadNothing, UpdateStatus,
       HandleDeletion, FindCluster, DeleteTopic, RemoveFinalizer, Refused, Fail, Restart,
       Goto, Publish, End, TypeOK
  <1> SUFFICES ObjMove /\ StatusMove /\ ServerMove /\ WorkerMove(w)
    <2>1. ASSUME NEW v \in Workers \ {w}
          PROVE  WorkerMove(v)
      BY <1>0, <2>1 DEF WorkerMove
    <2> QED  BY <1>0, <2>1 DEF Move
  <1>a. Gen(w) \in Gens /\ Ref(w) \in Clusters
    BY ReadType
  <1>b. pc[w] \in Working => Supported(specs[Gen(w)])
    BY DEF BranchInv
  <1>1. CASE Observe(w)
    <2>1. WorkerMove(w)
      BY <1>1 DEF Observe, At, WorkerMove, TypeOK, Working, Deleting
    <2> QED  BY <1>1, <2>1, ObjSame, ServerSame DEF Observe, serverVars
  <1>2. CASE Reconcile(w)
    <2>1. /\ cache' = cache
          /\ (cache[w].finalizer /\ Validate(w)) \/ Goto(w, "finalizer")
      BY <1>2 DEF Reconcile
    <2>2. "finalizer" \notin Working \cup Deleting
      BY DEF Working, Deleting
    <2>3. WorkerMove(w)
      BY <2>1, <2>2, ValidateMove, PlainMove
    <2> QED  BY <1>2, <2>3, ObjSame, ServerSame DEF Reconcile, serverVars
  <1>3. CASE EnsureFinalizer(w)
    <2>1. WorkerMove(w)
      BY <1>3, PlainMove DEF EnsureFinalizer
    <2> QED  BY <1>3, <2>1, ObjSame, ServerSame DEF EnsureFinalizer, serverVars
  <1>4. CASE GetCluster(w)
    <2>1. /\ cache' = cache /\ pc[w] \in Working
          /\ \/ Goto(w, "post")
             \/ Publish(w, failed_status("Waiting", Gen(w)))
             \/ Publish(w, failed_status("NotFound", Gen(w)))
      BY <1>4 DEF GetCluster, At, Working
    <2>2. "post" \notin Deleting
      BY DEF Deleting
    <2>3. WorkerMove(w)
      BY <2>1, <2>2, HonestStatus, PlainMove
    <2> QED  BY <1>4, <2>3, ObjSame, ServerSame DEF GetCluster, serverVars
  <1>5. CASE PostTopic(w)
    <2>0. cache' = cache /\ pc[w] \in Working
      BY <1>5 DEF PostTopic, At, Working
    <2>1. ASSUME Goto(w, "read")
          PROVE  WorkerMove(w)
      <3>1. "read" \notin Deleting
        BY DEF Deleting
      <3> QED  BY <2>0, <2>1, <3>1, PlainMove
    <2>2. ASSUME NEW st, Publish(w, evaluate_sync(Gen(w), st))
          PROVE  WorkerMove(w)
      <3>1. Honest(evaluate_sync(Gen(w), st))
        BY <1>5, <1>b, HonestStatus DEF PostTopic, At, Working
      <3> QED  BY <1>5, <2>2, <3>1, PlainMove DEF PostTopic
    <2>3. WorkerMove(w)
      BY <1>5, <2>1, <2>2 DEF PostTopic
    <2>4. ServerMove
      BY <1>5, <1>a DEF PostTopic, At, Create, ServerMove, TypeOK
    <2> QED  BY <1>5, <2>3, <2>4, ObjSame DEF PostTopic
  <1>6. CASE PostFails(w)
    <2>1. WorkerMove(w)
      BY <1>6, HonestStatus, PlainMove DEF PostFails
    <2>2. \A c \in Clusters : server'[c] \in {server[c], Gen(w)}
      BY <1>6, <1>a DEF PostFails, Create, TypeOK
    <2>3. \A r \in late' : r \in late \/ r[2] = Gen(w)
      BY <1>6 DEF PostFails
    <2>4. ServerMove
      BY <1>6, <2>2, <2>3 DEF PostFails, At, ServerMove
    <2> QED  BY <1>6, <2>1, <2>4, ObjSame DEF PostFails
  <1>7. CASE ReadTopic(w)
    <2>1. PICK st : Publish(w, evaluate_sync(Gen(w), st))
      BY <1>7 DEF ReadTopic
    <2>2. Honest(evaluate_sync(Gen(w), st))
      BY <1>7, <1>b, HonestStatus DEF ReadTopic, At, Working
    <2>3. WorkerMove(w)
      BY <1>7, <2>1, <2>2, PlainMove DEF ReadTopic
    <2> QED  BY <1>7, <2>3, ObjSame, ServerSame DEF ReadTopic, serverVars
  <1>8. CASE ReadNothing(w)
    <2>1. Honest(evaluate_sync(Gen(w), NoState))
      BY <1>8, <1>b, HonestStatus DEF ReadNothing, At, Working
    <2>2. WorkerMove(w)
      BY <1>8, <2>1, PlainMove DEF ReadNothing
    <2> QED  BY <1>8, <2>2, ObjSame, ServerSame DEF ReadNothing, serverVars
  <1>9. CASE UpdateStatus(w)
    <2>1. WorkerMove(w)
      BY <1>9, PlainMove DEF UpdateStatus
    <2>2. ObjMove /\ StatusMove
      <3>1. CASE obj' = obj
        BY <3>1, ObjSame
      <3>2. CASE obj.exists /\ obj' = [obj EXCEPT !.status = result[w]]
        <4>1. pc[w] = "publish" /\ obj'.status = result[w]
          BY <1>9, <3>2 DEF UpdateStatus, At, TypeOK, Object
        <4> QED  BY <3>2, <4>1, WriteMove DEF StatusMove
      <3> QED  BY <1>9, <3>1, <3>2 DEF UpdateStatus
    <2> QED  BY <1>9, <2>1, <2>2, ServerSame DEF UpdateStatus, serverVars
  <1>10. CASE HandleDeletion(w) \/ FindCluster(w)
    <2>1. WorkerMove(w)
      BY <1>10, PlainMove DEF HandleDeletion, FindCluster, At, Working, Deleting
    <2> QED
      BY <1>10, <2>1, ObjSame, ServerSame DEF HandleDeletion, FindCluster, serverVars
  <1>11. CASE DeleteTopic(w)
    <2>1. WorkerMove(w)
      BY <1>11, PlainMove DEF DeleteTopic, At, Working, Deleting
    <2>2. ServerMove
      BY <1>11, <1>a DEF DeleteTopic, ServerMove, TypeOK
    <2> QED  BY <1>11, <2>1, <2>2, ObjSame DEF DeleteTopic
  <1>12. CASE RemoveFinalizer(w)
    <2>1. WorkerMove(w)
      BY <1>12, PlainMove DEF RemoveFinalizer
    <2>2. obj.exists /\ obj.deleting
      BY <1>12 DEF RemoveFinalizer, At, CopyInv, Deleting, Live
    <2>3. ObjMove /\ StatusMove
      BY <1>12, <2>2, WriteMove DEF RemoveFinalizer
    <2> QED  BY <1>12, <2>1, <2>3, ServerSame DEF RemoveFinalizer, serverVars
  <1>13. CASE Refused(w) \/ Fail(w) \/ Restart(w)
    <2>1. WorkerMove(w)
      BY <1>13, PlainMove DEF Refused, Fail, Restart, TypeOK
    <2> QED
      BY <1>13, <2>1, ObjSame, ServerSame DEF Refused, Fail, Restart, serverVars
  <1> QED
    BY <1>1, <1>2, <1>3, <1>4, <1>5, <1>6, <1>7, <1>8, <1>9, <1>10, <1>11, <1>12, <1>13
       DEF WorkerStep, Reconciliation

\* So is every step of the environment; the workers stay where they are.
LEMMA EnvMoves ==
    ASSUME TypeOK, CopyInv, EnvStep
    PROVE  Move /\ \A v \in Workers : WorkerMove(v)
  <1>1. workerVars' = workerVars /\ specs' = specs
    BY DEF EnvStep, User, EditSpec, RequestDeletion, WriteFinalizer, LatePost, ClusterComesUp,
       ClusterGoesDown
  <1>2. \A v \in Workers : WorkerMove(v)
    BY <1>1 DEF workerVars, WorkerMove
  <1>3. CASE EditSpec
    <2>1. /\ obj'.exists = obj.exists /\ obj'.deleting = obj.deleting
          /\ obj'.finalizer = obj.finalizer /\ obj'.status = obj.status
      BY <1>3 DEF EditSpec, TypeOK, Object
    <2>2. ObjMove /\ StatusMove
      BY <1>3, <2>1 DEF EditSpec, ObjMove, StatusMove, Live
    <2> QED  BY <1>1, <1>2, <1>3, <2>2, ServerSame DEF EditSpec, serverVars, Move
  <1>4. CASE RequestDeletion
    <2>0. /\ obj.exists /\ ~obj.deleting
          /\ obj' = Absent \/ obj' = [obj EXCEPT !.deleting = TRUE]
      BY <1>4, Zenon DEF RequestDeletion
    <2>1. ASSUME obj' = Absent
          PROVE  ObjMove /\ StatusMove
      BY <2>0, <2>1, WriteMove
    <2>2. ASSUME obj' = [obj EXCEPT !.deleting = TRUE]
          PROVE  ObjMove /\ StatusMove
      <3>1. /\ obj'.exists = obj.exists /\ obj'.deleting
            /\ obj'.finalizer = obj.finalizer /\ obj'.status = obj.status
        BY <2>2 DEF TypeOK, Object
      <3> QED  BY <2>0, <3>1 DEF ObjMove, StatusMove, Live
    <2>3. ObjMove /\ StatusMove
      BY <2>0, <2>1, <2>2
    <2> QED  BY <1>1, <1>2, <1>4, <2>3, ServerSame DEF RequestDeletion, serverVars, Move
  <1>8. CASE WriteFinalizer
    <2>1. ObjMove /\ StatusMove
      BY <1>8, WriteMove DEF WriteFinalizer
    <2> QED  BY <1>1, <1>2, <1>8, <2>1, ServerSame DEF WriteFinalizer, serverVars, Move
  <1>5. ASSUME NEW c \in Clusters, ClusterComesUp(c)
        PROVE  Move /\ \A v \in Workers : WorkerMove(v)
    BY <1>1, <1>2, <1>5, ObjSame, ServerSame DEF ClusterComesUp, Move
  <1>6. ASSUME NEW c \in Clusters, ClusterGoesDown(c)
        PROVE  Move /\ \A v \in Workers : WorkerMove(v)
    <2>1. ServerMove
      BY <1>6 DEF ClusterGoesDown, ServerMove, TypeOK
    <2> QED  BY <1>1, <1>2, <1>6, <2>1, ObjSame DEF ClusterGoesDown, Move
  <1>7. ASSUME NEW c \in Clusters, NEW g \in Gens, LatePost(c, g)
        PROVE  Move /\ \A v \in Workers : WorkerMove(v)
    <2>1. \A d \in Clusters : server'[d] = server[d] \/ <<d, server'[d]>> \in late
      BY <1>7 DEF LatePost, Create, TypeOK
    <2>2. ServerMove
      BY <1>7, <2>1 DEF LatePost, ServerMove
    <2> QED  BY <1>1, <1>2, <1>7, <2>2, ObjSame DEF LatePost, Move
  <1> QED  BY <1>3, <1>4, <1>5, <1>6, <1>7, <1>8 DEF EnvStep, User

-------------------------------------------------------------------------------
(***************************************************************************)
(* Each part of the invariant survives a move.                             *)
(***************************************************************************)
LEMMA StepCopy ==
    ASSUME CopyInv, Move, \A v \in Workers : WorkerMove(v)
    PROVE  CopyInv'
  <1>1. ~obj'.exists => obj' = Absent
    BY DEF Move, ObjMove
  <1>2. ASSUME NEW v \in Workers
        PROVE  (/\ pc[v] \in Deleting => cache[v].deleting
                /\ cache[v].deleting => ~Live)'
    <2>1. CASE cache'[v] = cache[v]
      BY <2>1 DEF CopyInv, WorkerMove, Move, ObjMove, Live
    <2>2. CASE pc'[v] = "idle" /\ obj' = obj /\ cache'[v] \in {obj, Absent}
      BY <2>2 DEF Deleting, Live, Absent
    <2> QED  BY <2>1, <2>2 DEF WorkerMove
  <1> QED  BY <1>1, <1>2 DEF CopyInv

LEMMA StepFinalizer ==
    ASSUME FinalizerInv, Move, \A v \in Workers : WorkerMove(v)
    PROVE  FinalizerInv'
  <1> SUFFICES ASSUME NEW v \in Workers, Live',
                      cache'[v].finalizer \/ pc'[v] \in Working
               PROVE  obj'.finalizer
    BY DEF FinalizerInv
  <1>1. Live
    BY DEF Move, ObjMove, Live
  <1>2. CASE obj.finalizer
    BY <1>2 DEF Move, ObjMove
  <1>3. CASE cache'[v] = cache[v]
    BY <1>1, <1>2, <1>3 DEF FinalizerInv, WorkerMove
  <1>4. CASE pc'[v] = "idle" /\ obj' = obj /\ cache'[v] \in {obj, Absent}
    BY <1>4 DEF Working, Absent
  <1> QED  BY <1>3, <1>4 DEF WorkerMove

LEMMA StepBranch ==
    ASSUME BranchInv, Move, \A v \in Workers : WorkerMove(v)
    PROVE  BranchInv'
  <1>1. ASSUME NEW v \in Workers, pc'[v] \in Working
        PROVE  Supported(specs'[cache'[v].gen])
    <2>1. cache'[v] = cache[v]
      BY <1>1 DEF WorkerMove, Working
    <2> QED  BY <1>1, <2>1 DEF BranchInv, WorkerMove, Move, Gen, Supported
  <1>2. ASSUME NEW r \in late'
        PROVE  Supported(specs'[r[2]])
    BY <1>2 DEF BranchInv, Move, ServerMove, Working, Supported
  <1> QED  BY <1>1, <1>2 DEF BranchInv, Gen, Supported

LEMMA StepResult ==
    ASSUME ResultInv, Move, \A v \in Workers : WorkerMove(v)
    PROVE  ResultInv'
  <1> SUFFICES ASSUME NEW v \in Workers, pc'[v] = "publish"
               PROVE  Honest(result[v])'
    BY DEF ResultInv
  <1>1. Honest(result'[v])
    BY DEF ResultInv, WorkerMove
  <1> QED  BY <1>1 DEF Honest, Supported, Move

LEMMA StepSynced ==
    ASSUME SyncedMeansVerified, ResultInv, Move
    PROVE  SyncedMeansVerified'
  <1>1. Honest(obj'.status)
    BY DEF SyncedMeansVerified, ResultInv, Honest, Move, StatusMove, NoStatus
  <1> QED  BY <1>1 DEF Honest, SyncedMeansVerified, Supported, Move

LEMMA StepUnsupported ==
    ASSUME UnsupportedNeverCreated, BranchInv, Move
    PROVE  UnsupportedNeverCreated'
  <1> SUFFICES ASSUME NEW c \in Clusters, server'[c] # 0
               PROVE  Supported(specs[server'[c]])
    BY DEF UnsupportedNeverCreated, Supported, Move
  <1>1. CASE server'[c] = server[c]
    BY <1>1 DEF UnsupportedNeverCreated
  <1>2. CASE <<c, server'[c]>> \in late
    BY <1>2 DEF BranchInv
  <1>3. ASSUME NEW w \in Workers, pc[w] = "post", server'[c] = Gen(w)
        PROVE  Supported(specs[server'[c]])
    BY <1>3 DEF BranchInv, Working
  <1> QED  BY <1>1, <1>2, <1>3 DEF Move, ServerMove

LEMMA StepTopic ==
    ASSUME TopicUnderFinalizer, FinalizerInv, Move
    PROVE  TopicUnderFinalizer'
  <1> SUFFICES ASSUME Live', late' # {} \/ \E c \in Clusters : server'[c] # 0
               PROVE  obj'.finalizer
    BY DEF TopicUnderFinalizer, Live
  <1>1. Live
    BY DEF Move, ObjMove, Live
  <1>2. CASE late # {} \/ \E c \in Clusters : server[c] # 0
    BY <1>1, <1>2 DEF TopicUnderFinalizer, Live, Move, ObjMove
  <1>3. ASSUME NEW w \in Workers, pc[w] = "post"
        PROVE  obj'.finalizer
    BY <1>1, <1>3 DEF FinalizerInv, Working, Move, ObjMove
  <1>4. \/ late # {} \/ \E c \in Clusters : server[c] # 0
        \/ \E w \in Workers : pc[w] = "post"
    BY DEF Move, ServerMove
  <1> QED  BY <1>2, <1>3, <1>4

-------------------------------------------------------------------------------
LEMMA InitInv == Init => IInv
  <1> SUFFICES ASSUME Init PROVE IInv
    OBVIOUS
  <1>1. /\ obj \in Object /\ obj.exists /\ ~obj.deleting /\ obj.status = NoStatus
    BY AbsentType DEF Init, Absent, Object
  <1>2. TypeOK
    BY <1>1, AbsentType, TopicControllerAssumption DEF Init, TypeOK, Pcs
  <1>3. \A w \in Workers : cache[w] = Absent /\ pc[w] = "idle"
    BY DEF Init
  <1>4. CopyInv /\ FinalizerInv /\ BranchInv /\ ResultInv
    BY <1>1, <1>3 DEF Init, CopyInv, FinalizerInv, BranchInv, ResultInv, Absent,
       Deleting, Working
  <1>5. SyncedMeansVerified /\ UnsupportedNeverCreated /\ TopicUnderFinalizer
    BY <1>1 DEF Init, SyncedMeansVerified, UnsupportedNeverCreated,
       TopicUnderFinalizer, NoStatus
  <1> QED  BY <1>2, <1>4, <1>5 DEF IInv

\* A step is one of a worker or one of the environment; both are moves.
LEMMA NextMoves ==
    ASSUME IInv, Next
    PROVE  TypeOK' /\ Move /\ \A v \in Workers : WorkerMove(v)
  <1>1. ASSUME NEW w \in Workers, WorkerStep(w)
        PROVE  TypeOK' /\ Move /\ \A v \in Workers : WorkerMove(v)
    <2>1. WorkerTypes /\ SharedTypes
      BY <1>1, TypeWorker, TypeShared DEF IInv
    <2>2. TypeOK'
      BY <2>1 DEF WorkerTypes, SharedTypes, TypeOK
    <2> QED  BY <1>1, <2>2, WorkerMoves DEF IInv
  <1>2. CASE EnvStep
    BY <1>2, TypeEnv, EnvMoves DEF IInv
  <1> QED  BY <1>1, <1>2 DEF Next, WorkerStep, EnvStep

LEMMA StepInv == IInv /\ [Next]_vars => IInv'
  <1> SUFFICES ASSUME IInv, [Next]_vars PROVE IInv'
    OBVIOUS
  <1>1. CASE Next
    BY <1>1, NextMoves, StepCopy, StepFinalizer, StepBranch, StepResult, StepSynced,
       StepUnsupported, StepTopic DEF IInv
  <1>2. CASE UNCHANGED vars
    BY <1>2 DEF vars, serverVars, workerVars, IInv, TypeOK, CopyInv, FinalizerInv,
       BranchInv, ResultInv, Honest, SyncedMeansVerified, UnsupportedNeverCreated,
       TopicUnderFinalizer, Live, Gen, Supported
  <1> QED  BY <1>1, <1>2

\* The inductive invariant holds for any number of workers and any bounds.
THEOREM Invariance == Spec => []IInv
  BY InitInv, StepInv, PTL DEF Spec

\* The type invariant.
THEOREM TypeCorrect == Spec => []TypeOK
  <1>1. IInv => TypeOK
    BY DEF IInv
  <1> QED  BY <1>1, Invariance, PTL

\* Synced=True is only said of a spec that the server can honour, with its
\* number of partitions.
THEOREM SyncedVerified == Spec => []SyncedMeansVerified
  <1>1. IInv => SyncedMeansVerified
    BY DEF IInv
  <1> QED  BY <1>1, Invariance, PTL

\* No topic is created from a spec that the server cannot honour.
THEOREM UnsupportedNotCreated == Spec => []UnsupportedNeverCreated
  <1>1. IInv => UnsupportedNeverCreated
    BY DEF IInv
  <1> QED  BY <1>1, Invariance, PTL

\* Topics are under the finalizer until deletion is asked for.
THEOREM FinalizerGuardsTopic == Spec => []TopicUnderFinalizer
  <1>1. IInv => TopicUnderFinalizer
    BY DEF IInv
  <1> QED  BY <1>1, Invariance, PTL

\* A worker only deletes a topic for a copy of the object that is being
\* deleted, and such a copy is never ahead of the object; nothing else touches
\* a topic that is there, save the loss of its cluster.
THEOREM DroppedOnRequest == Spec => TopicDroppedOnRequestOnly
  <1>1. ASSUME IInv, [Next]_vars, NEW c \in Clusters,
               server[c] # 0, server'[c] # server[c], cluster'[c].exists
        PROVE  ~Live
    <2>0. Next
      BY <1>1 DEF vars, serverVars
    <2>1. ASSUME NEW d, NEW g, Create(d, g)
          PROVE  FALSE
      BY <1>1, <2>1 DEF Create, IInv, TypeOK
    <2>2. ASSUME NEW d \in Clusters, ClusterGoesDown(d)
          PROVE  FALSE
      BY <1>1, <2>2 DEF ClusterGoesDown, IInv, TypeOK
    <2>3. ~EnvStep
      BY <1>1, <2>1, <2>2 DEF EnvStep, User, EditSpec, RequestDeletion, WriteFinalizer, ClusterComesUp,
         LatePost, serverVars
    <2>4. PICK w \in Workers : DeleteTopic(w)
      BY <1>1, <2>0, <2>1, <2>3 DEF Next, EnvStep, Reconciliation, Observe, Reconcile,
         EnsureFinalizer, GetCluster, PostTopic, PostFails, ReadTopic, ReadNothing,
         UpdateStatus, HandleDeletion, FindCluster, RemoveFinalizer, Refused, Fail,
         Restart, serverVars
    <2> QED  BY <1>1, <2>4 DEF IInv, CopyInv, DeleteTopic, At, Deleting
  <1>2. ASSUME IInv, [Next]_vars
        PROVE  \A c \in Clusters :
                  (server[c] # 0 /\ server'[c] # server[c] /\ cluster'[c].exists) => ~Live
    BY <1>1, <1>2
  <1> QED  BY <1>2, Invariance, PTL DEF Spec, TopicDroppedOnRequestOnly

-------------------------------------------------------------------------------
(***************************************************************************)
(* With one worker: what it publishes is never older than what is there.   *)
(***************************************************************************)

\* What a step may do to the generations.
OrderMove ==
    /\ obj'.exists => obj'.gen >= obj.gen
    /\ obj'.exists
          => \/ obj'.status = obj.status
             \/ \E w \in Workers : pc[w] = "publish" /\ obj'.status = result[w]

\* How worker v gets past a call.
CallMove(v) ==
    /\ pc'[v] # "idle" => cache'[v] = cache[v] /\ (pc[v] # "idle" \/ cache[v].exists)
    /\ pc'[v] = "publish"
          => \/ result'[v].gen = cache[v].gen
             \/ pc[v] = "publish" /\ result'[v] = result[v]

\* Every status a worker computes has the generation that it read.
LEMMA StatusGen ==
    ASSUME NEW g
    PROVE  /\ \A r : failed_status(r, g).gen = g
           /\ \A st : evaluate_sync(g, st).gen = g
  <1>1. \A r : failed_status(r, g).gen = g
    BY DEF failed_status
  <1>2. \A st, b : ready_status(st, b, g).gen = g
    BY DEF ready_status
  <1> QED  BY <1>1, <1>2 DEF evaluate_sync

LEMMA ObjOrder ==
    ASSUME TypeOK
    PROVE  /\ obj' = obj => OrderMove
           /\ obj' = Absent => OrderMove
           /\ \A b : obj' = [obj EXCEPT !.finalizer = b] => OrderMove
           /\ obj' = [obj EXCEPT !.deleting = TRUE] => OrderMove
           /\ \A w \in Workers :
                 pc[w] = "publish" /\ obj' = [obj EXCEPT !.status = result[w]]
                    => OrderMove
  <1>1. obj.gen \in Int
    BY DEF TypeOK, Object, Gens
  <1>2. obj' = Absent => OrderMove
    BY DEF OrderMove, Absent
  <1>3. ASSUME NEW b, obj' = [obj EXCEPT !.finalizer = b]
        PROVE  OrderMove
    BY <1>1, <1>3 DEF OrderMove, TypeOK, Object
  <1>4. ASSUME obj' = [obj EXCEPT !.deleting = TRUE]
        PROVE  OrderMove
    BY <1>1, <1>4 DEF OrderMove, TypeOK, Object
  <1>5. ASSUME NEW w \in Workers, pc[w] = "publish",
               obj' = [obj EXCEPT !.status = result[w]]
        PROVE  OrderMove
    <2>1. obj'.gen = obj.gen /\ obj'.status = result[w]
      BY <1>5 DEF TypeOK, Object
    <2> QED  BY <1>1, <1>5, <2>1 DEF OrderMove
  <1>6. obj' = obj => OrderMove
    BY <1>1 DEF OrderMove
  <1> QED  BY <1>2, <1>3, <1>4, <1>5, <1>6

\* The ways a worker goes on respect the order.
LEMMA GoOrder ==
    ASSUME TypeOK, NEW w \in Workers
    PROVE  /\ \A p : Goto(w, p) /\ p # "publish" /\ cache' = cache
                      /\ (pc[w] # "idle" \/ cache[w].exists) => CallMove(w)
           /\ \A st : Publish(w, st) /\ st.gen = Gen(w) /\ cache' = cache
                       /\ (pc[w] # "idle" \/ cache[w].exists) => CallMove(w)
           /\ \A b : End(w, b) => CallMove(w)
           /\ Validate(w) /\ cache' = cache /\ (pc[w] # "idle" \/ cache[w].exists)
                 => CallMove(w)
  <1>1. \A p : Goto(w, p) /\ p # "publish" /\ cache' = cache
               /\ (pc[w] # "idle" \/ cache[w].exists) => CallMove(w)
    BY DEF Goto, CallMove, TypeOK
  <1>2. ASSUME NEW st, Publish(w, st), st.gen = Gen(w), cache' = cache,
               pc[w] # "idle" \/ cache[w].exists
        PROVE  CallMove(w)
    BY <1>2 DEF Publish, CallMove, TypeOK, Gen
  <1>3. \A b : End(w, b) => CallMove(w)
    BY DEF End, CallMove, TypeOK
  <1>4. ASSUME Validate(w), cache' = cache, pc[w] # "idle" \/ cache[w].exists
        PROVE  CallMove(w)
    BY <1>1, <1>2, <1>4, StatusGen DEF Validate
  <1> QED  BY <1>1, <1>2, <1>3, <1>4

\* A step of a worker respects the order of the generations.
LEMMA WorkerOrders ==
    ASSUME TypeOK, NEW w \in Workers, WorkerStep(w)
    PROVE  OrderMove /\ \A v \in Workers : CallMove(v)
  <1>0. \A v \in Workers \ {w} :
           pc'[v] = pc[v] /\ cache'[v] = cache[v] /\ result'[v] = result[v]
    BY DEF WorkerStep, Reconciliation, Observe, Reconcile, Validate, EnsureFinalizer,
       GetCluster, PostTopic, PostFails, ReadTopic, ReadNothing, UpdateStatus,
       HandleDeletion, FindCluster, DeleteTopic, RemoveFinalizer, Refused, Fail, Restart,
       Goto, Publish, End, TypeOK
  <1> SUFFICES OrderMove /\ CallMove(w)
    BY <1>0 DEF CallMove
  <1>1. CASE Observe(w)
    <2>1. CallMove(w)
      BY <1>1 DEF Observe, At, CallMove
    <2> QED  BY <1>1, <2>1, ObjOrder DEF Observe
  <1>2. CASE Reconcile(w)
    <2>1. CallMove(w)
      BY <1>2, GoOrder DEF Reconcile
    <2> QED  BY <1>2, <2>1, ObjOrder DEF Reconcile
  <1>3. CASE EnsureFinalizer(w)
    <2>1. CallMove(w)
      BY <1>3, GoOrder DEF EnsureFinalizer
    <2> QED  BY <1>3, <2>1, ObjOrder DEF EnsureFinalizer
  <1>4. CASE GetCluster(w)
    <2>1. CallMove(w)
      BY <1>4, GoOrder, StatusGen DEF GetCluster, At
    <2> QED  BY <1>4, <2>1, ObjOrder DEF GetCluster
  <1>5. CASE PostTopic(w)
    <2>1. CallMove(w)
      BY <1>5, GoOrder, StatusGen DEF PostTopic, At
    <2> QED  BY <1>5, <2>1, ObjOrder DEF PostTopic
  <1>6. CASE PostFails(w)
    <2>1. CallMove(w)
      BY <1>6, GoOrder, StatusGen DEF PostFails, At
    <2> QED  BY <1>6, <2>1, ObjOrder DEF PostFails
  <1>7. CASE ReadTopic(w) \/ ReadNothing(w)
    <2>1. CallMove(w)
      BY <1>7, GoOrder, StatusGen DEF ReadTopic, ReadNothing, At
    <2> QED  BY <1>7, <2>1, ObjOrder DEF ReadTopic, ReadNothing
  <1>8. CASE UpdateStatus(w)
    BY <1>8, GoOrder, ObjOrder DEF UpdateStatus, At
  <1>9. CASE HandleDeletion(w) \/ FindCluster(w) \/ DeleteTopic(w)
    <2>1. PICK p \in Deleting : Goto(w, p)
      BY <1>9 DEF HandleDeletion, FindCluster, DeleteTopic, Deleting
    <2>2. CallMove(w)
      BY <1>9, <2>1, GoOrder DEF HandleDeletion, FindCluster, DeleteTopic, At, Deleting
    <2> QED  BY <1>9, <2>2, ObjOrder DEF HandleDeletion, FindCluster, DeleteTopic
  <1>10. CASE RemoveFinalizer(w)
    BY <1>10, GoOrder, ObjOrder DEF RemoveFinalizer
  <1>11. CASE Refused(w) \/ Fail(w) \/ Restart(w)
    BY <1>11, GoOrder, ObjOrder DEF Refused, Fail, Restart
  <1> QED
    BY <1>1, <1>2, <1>3, <1>4, <1>5, <1>6, <1>7, <1>8, <1>9, <1>10, <1>11
       DEF WorkerStep, Reconciliation

\* So does a step of the environment.
LEMMA EnvOrders ==
    ASSUME TypeOK, EnvStep
    PROVE  OrderMove /\ \A v \in Workers : CallMove(v)
  <1>1. workerVars' = workerVars
    BY DEF EnvStep, User, EditSpec, RequestDeletion, WriteFinalizer, LatePost, ClusterComesUp,
       ClusterGoesDown
  <1>2. \A v \in Workers : CallMove(v)
    BY <1>1 DEF workerVars, CallMove
  <1>3. CASE EditSpec
    <2>1. obj'.gen >= obj.gen /\ obj'.status = obj.status
      BY <1>3 DEF EditSpec, TypeOK, Object, Gens
    <2> QED  BY <1>2, <2>1 DEF OrderMove
  <1>4. CASE RequestDeletion
    <2>1. obj' = Absent \/ obj' = [obj EXCEPT !.deleting = TRUE]
      BY <1>4, Zenon DEF RequestDeletion
    <2> QED  BY <1>2, <2>1, ObjOrder
  <1>6. CASE WriteFinalizer
    BY <1>2, <1>6, ObjOrder DEF WriteFinalizer
  <1>5. CASE obj' = obj
    BY <1>2, <1>5, ObjOrder
  <1> QED
    BY <1>3, <1>4, <1>5, <1>6 DEF EnvStep, User, LatePost, ClusterComesUp, ClusterGoesDown

\* Generations are integers.
GenTypes ==
    /\ obj.gen \in Nat /\ obj.status.gen \in Nat
    /\ \A w \in Workers : cache[w].gen \in Nat

LEMMA GenType == TypeOK => GenTypes
  BY TopicControllerAssumption DEF GenTypes, TypeOK, Object, Status, Gens

LEMMA GenTypeNext == TypeOK' => GenTypes'
  BY GenType, PTL

LEMMA SingleInit == SingleWorker /\ Init => SingleInv
  <1> SUFFICES ASSUME SingleWorker, Init PROVE SingleInv
    OBVIOUS
  <1>1. IInv
    BY InitInv
  <1>2. \A w \in Workers : pc[w] = "idle" /\ ~cache[w].exists
    BY DEF Init, Absent
  <1>3. obj.status.gen <= obj.gen
    <2>1. Absent.status.gen = 0 /\ Absent.gen = 1
      BY DEF Absent, NoStatus
    <2>2. obj.status = Absent.status /\ obj.gen = Absent.gen
      BY AbsentType DEF Init, Object
    <2> QED  BY <2>1, <2>2
  <1> QED  BY <1>1, <1>2, <1>3 DEF SingleInv, OrderInv

\* A move that respects the order preserves it.
LEMMA StepOrder ==
    ASSUME SingleInv, TypeOK', ObjMove, OrderMove,
           \A v \in Workers : WorkerMove(v) /\ CallMove(v)
    PROVE  OrderInv'
  <1>1. SingleWorker /\ OrderInv /\ GenTypes /\ GenTypes'
    BY GenType, GenTypeNext DEF SingleInv, IInv
  <1>2. ASSUME obj'.exists
        PROVE  obj.exists /\ obj'.gen >= obj.gen
    BY <1>2 DEF ObjMove, OrderMove
  \* What a worker publishes has the generation of its copy.
  <1>3. ASSUME obj'.exists, NEW w \in Workers, pc[w] = "publish"
        PROVE  result[w].gen = cache[w].gen /\ cache[w].gen <= obj.gen
    BY <1>1, <1>2, <1>3 DEF OrderInv
  <1>4. ASSUME obj'.exists
        PROVE  obj'.status.gen <= obj'.gen
    <2>1. CASE obj'.status = obj.status
      BY <1>1, <1>2, <1>4, <2>1 DEF OrderInv, GenTypes
    <2>2. ASSUME NEW w \in Workers, pc[w] = "publish", obj'.status = result[w]
          PROVE  obj'.status.gen <= obj'.gen
      BY <1>1, <1>2, <1>3, <1>4, <2>2 DEF GenTypes
    <2> QED  BY <1>4, <2>1, <2>2 DEF OrderMove
  <1>5. ASSUME NEW v \in Workers
        PROVE  /\ pc'[v] # "idle" => cache'[v].exists
               /\ cache'[v].exists /\ obj'.exists
                     => obj'.status.gen <= cache'[v].gen /\ cache'[v].gen <= obj'.gen
               /\ pc'[v] = "publish" => result'[v].gen = cache'[v].gen
    <2>1. CASE cache'[v] = cache[v]
      <3>1. /\ pc'[v] # "idle" => cache'[v].exists
            /\ pc'[v] = "publish" => result'[v].gen = cache'[v].gen
        BY <1>1, <2>1 DEF CallMove, OrderInv
      <3>2. ASSUME cache[v].exists, obj'.exists
            PROVE  obj'.status.gen <= cache[v].gen /\ cache[v].gen <= obj'.gen
        <4>1. cache[v].gen <= obj.gen /\ obj.status.gen <= cache[v].gen
          BY <1>1, <1>2, <3>2 DEF OrderInv
        <4>2. cache[v].gen <= obj'.gen
          BY <1>1, <1>2, <3>2, <4>1 DEF GenTypes
        <4>3. CASE obj'.status = obj.status
          BY <4>1, <4>2, <4>3
        <4>4. ASSUME NEW w \in Workers, pc[w] = "publish", obj'.status = result[w]
              PROVE  obj'.status.gen <= cache[v].gen
          BY <1>1, <1>3, <3>2, <4>4 DEF SingleWorker, GenTypes
        <4> QED  BY <3>2, <4>2, <4>3, <4>4 DEF OrderMove
      <3> QED  BY <2>1, <3>1, <3>2
    <2>2. CASE pc'[v] = "idle" /\ obj' = obj /\ cache'[v] = obj
      <3>1. cache'[v].gen <= obj'.gen
        BY <1>1, <2>2 DEF GenTypes
      <3> QED  BY <1>4, <2>2, <3>1
    <2>3. CASE pc'[v] = "idle" /\ cache'[v] = Absent
      BY <2>3 DEF Absent
    <2> QED  BY <2>1, <2>2, <2>3 DEF WorkerMove
  <1> QED  BY <1>4, <1>5 DEF OrderInv

LEMMA NextOrders ==
    ASSUME SingleInv, Next
    PROVE  /\ TypeOK' /\ ObjMove /\ OrderMove
           /\ \A v \in Workers : WorkerMove(v) /\ CallMove(v)
  <1>1. IInv /\ TypeOK
    BY DEF SingleInv, IInv
  <1>2. OrderMove /\ \A v \in Workers : CallMove(v)
    <2>1. ASSUME NEW w \in Workers, WorkerStep(w)
          PROVE  OrderMove /\ \A v \in Workers : CallMove(v)
      BY <1>1, <2>1, WorkerOrders
    <2>2. CASE EnvStep
      BY <1>1, <2>2, EnvOrders
    <2> QED  BY <2>1, <2>2 DEF Next, WorkerStep, EnvStep
  <1> QED  BY <1>1, <1>2, NextMoves DEF Move

LEMMA SingleStep == SingleInv /\ [Next]_vars => SingleInv'
  <1> SUFFICES ASSUME SingleInv, [Next]_vars PROVE SingleInv'
    OBVIOUS
  <1>1. IInv' /\ SingleWorker'
    BY StepInv DEF SingleInv, SingleWorker
  <1>2. CASE Next
    BY <1>1, <1>2, NextOrders, StepOrder DEF SingleInv
  <1>3. CASE UNCHANGED vars
    BY <1>1, <1>3 DEF vars, workerVars, SingleInv, OrderInv
  <1> QED  BY <1>2, <1>3

\* One worker keeps the generations in order.
THEOREM SingleInvariance == SingleWorker /\ Spec => []SingleInv
  BY SingleInit, SingleStep, PTL DEF Spec

\* With one worker, the status never goes back to an older generation.
THEOREM NeverBack == SingleWorker /\ Spec => NoRegression
  <1>1. ASSUME SingleInv, [Next]_vars, obj'.exists
        PROVE  obj'.status.gen >= obj.status.gen
    <2>1. OrderInv /\ GenTypes
      BY <1>1, GenType DEF SingleInv, IInv
    <2>2. CASE Next
      <3>1. ObjMove /\ OrderMove
        BY <1>1, <2>2, NextOrders
      <3>2. CASE obj'.status = obj.status
        BY <2>1, <3>2 DEF GenTypes
      <3>3. ASSUME NEW w \in Workers, pc[w] = "publish", obj'.status = result[w]
            PROVE  obj'.status.gen >= obj.status.gen
        BY <1>1, <2>1, <3>1, <3>3 DEF ObjMove, OrderInv, GenTypes
      <3> QED  BY <1>1, <3>1, <3>2, <3>3 DEF OrderMove
    <2>3. CASE UNCHANGED vars
      BY <2>1, <2>3 DEF vars, GenTypes
    <2> QED  BY <1>1, <2>2, <2>3
  <1> QED  BY <1>1, SingleInvariance, PTL DEF NoRegression, Spec
================================================================================
