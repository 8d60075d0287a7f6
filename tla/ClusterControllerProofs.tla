------------------------ MODULE ClusterControllerProofs ------------------------
(***************************************************************************)
(* Proofs about ClusterController, for any set of workers, any specs and   *)
(* any bounds.  The invariant IInv has eight parts; each has a lemma that  *)
(* says that a step preserves it, and the lemmas have one step per action  *)
(* that can disturb the part.  With one worker, SingleInv adds the order   *)
(* in which the generations of the spec travel.                            *)
(***************************************************************************)
EXTENDS ClusterController, TLAPS

EnvStep == User \/ Workload \/ PodFails \/ HpaScales \/ CreatePvcs \/ CollectGarbage

WorkerStep(w) == Reconciliation(w) \/ Fail(w) \/ Restart(w)

-------------------------------------------------------------------------------
(***************************************************************************)
(* Types.                                                                  *)
(***************************************************************************)
LEMMA AbsentType == Absent \in Object
  BY ClusterControllerAssumption DEF Absent, Object, NoStatus, Status, Phases, Gens

LEMMA SettleType ==
    ASSUME NEW o \in Object
    PROVE  Settle(o) \in Object
  BY AbsentType DEF Settle

LEMMA PhaseType ==
    ASSUME NEW n, NEW d
    PROVE  phase_of(n, d) \in {"Running", "Scaling", "Pending"}
  BY DEF phase_of

\* A worker writes well-typed objects.
LEMMA WriteType ==
    ASSUME TypeOK
    PROVE  /\ \A f \in SUBSET {Own, Foreign} : SetFinalizers(f) => obj' \in Object
           /\ \A w \in Workers, st \in Status :
                 patch_status_if_changed(w, st) => obj' \in Object
           /\ \A w \in Workers : /\ observed_status(cache[w].gen, count[w]) \in Status
                                 /\ invalid_status(cache[w].gen) \in Status
  <1>1. ASSUME NEW f \in SUBSET {Own, Foreign}, SetFinalizers(f)
        PROVE  obj' \in Object
    <2>1. [obj EXCEPT !.finalizers = f] \in Object
      BY DEF TypeOK, Object
    <2> QED  BY <1>1, <2>1, SettleType DEF SetFinalizers
  <1>2. ASSUME NEW w \in Workers, NEW st \in Status, patch_status_if_changed(w, st)
        PROVE  obj' \in Object
    BY <1>2 DEF TypeOK, Object, patch_status_if_changed
  <1>3. ASSUME NEW w \in Workers
        PROVE  /\ observed_status(cache[w].gen, count[w]) \in Status
               /\ invalid_status(cache[w].gen) \in Status
    <2>1. cache[w].gen \in Gens /\ count[w] \in 0..MaxReady
      BY DEF TypeOK, Object
    <2>2. Gens \subseteq 0..MaxGeneration /\ 0 \in 0..MaxReady
      BY ClusterControllerAssumption DEF Gens
    <2> QED
      BY <2>1, <2>2, PhaseType DEF observed_status, invalid_status, Status, Phases
  <1> QED  BY <1>1, <1>2, <1>3

\* A step of a worker preserves the type invariant.
LEMMA TypeWorker ==
    ASSUME TypeOK, NEW w \in Workers, WorkerStep(w)
    PROVE  TypeOK'
  <1> USE ClusterControllerAssumption
  <1>1. CASE Observe(w)
    BY <1>1 DEF TypeOK, Observe, Object, envVars
  <1>2. CASE Reconcile(w)
    BY <1>2 DEF TypeOK, Reconcile, Goto, Pcs, envVars
  <1>3. CASE EnsureFinalizer(w)
    BY <1>3 DEF TypeOK, EnsureFinalizer, End, Requeue, Pcs, envVars
  <1>4. CASE DeleteHpa(w)
    BY <1>4 DEF TypeOK, DeleteHpa, AfterHpa, Goto, Pcs, Kinds
  <1>5. ASSUME NEW k \in Kinds, ApplyChild(w, k)
        PROVE  TypeOK'
    <2>1. After(k) \in Pcs
      BY DEF After, Kinds, Pcs
    <2>2. cache[w].gen \in Gens /\ cache[w].gen \in Rendered
      BY DEF TypeOK, Object, Gens, Rendered, Legacy
    <2>3. SpecRead(w).replicas \in Int
      BY <2>2 DEF TypeOK, SpecRead, SpecParts
    <2>4. child' \in [Kinds -> Rendered] /\ scale' \in Int /\ pc' \in [Workers -> Pcs]
      BY <1>5, <2>1, <2>2, <2>3 DEF TypeOK, ApplyChild, PutChild, Goto
    <2>5. made' \in [Kinds -> Rendered]
      BY <1>5, <2>2 DEF TypeOK, ApplyChild, PutChild
    <2> QED  BY <1>5, <2>4, <2>5 DEF TypeOK, ApplyChild, Goto
  <1>6. CASE CountPods(w)
    BY <1>6 DEF TypeOK, CountPods, Pcs, envVars
  <1>7. CASE UpdateStatus(w)
    <2>1. obj' \in Object
      BY <1>7, WriteType DEF UpdateStatus
    <2> QED  BY <1>7, <2>1 DEF TypeOK, UpdateStatus, End, Requeue, Pcs, envVars
  <1>8. CASE UpdateStatusInvalid(w)
    <2>1. obj' \in Object
      BY <1>8, WriteType DEF UpdateStatusInvalid
    <2> QED  BY <1>8, <2>1 DEF TypeOK, UpdateStatusInvalid, End, Requeue, Pcs, envVars
  <1>9. CASE HandleDeletion(w)
    BY <1>9 DEF TypeOK, HandleDeletion, Goto, Pcs, envVars
  <1>10. CASE ListPvcs(w)
    BY <1>10 DEF TypeOK, ListPvcs, Goto, Pcs, envVars
  <1>11. CASE DeletePvcs(w)
    <2>1. pvc' \in BOOLEAN
      BY <1>11, Zenon DEF TypeOK, DeletePvcs
    <2>2. faults' \in Nat
      BY <1>11 DEF TypeOK, DeletePvcs, Fault
    <2>3. pc' \in [Workers -> Pcs]
      BY <1>11 DEF TypeOK, DeletePvcs, Goto, Pcs
    <2> QED  BY <1>11, <2>1, <2>2, <2>3 DEF TypeOK, DeletePvcs, Goto
  <1>12. CASE RemoveFinalizer(w)
    <2>1. cache[w].finalizers \ {Own} \in SUBSET {Own, Foreign}
      BY DEF TypeOK, Object
    <2>2. obj' \in Object
      BY <1>12, <2>1, WriteType DEF RemoveFinalizer
    <2>3. faults' \in Nat
      BY <1>12 DEF TypeOK, RemoveFinalizer, Fault
    <2>4. End(w, AwaitChange) \/ End(w, Requeue)
      BY <1>12 DEF RemoveFinalizer
    <2>5. pc' \in [Workers -> Pcs] /\ count' \in [Workers -> 0..MaxReady]
      BY <2>4 DEF TypeOK, End, Pcs
    <2>6. due' \in [Workers -> BOOLEAN]
      <3>1. CASE End(w, AwaitChange)
        BY <3>1 DEF TypeOK, End, AwaitChange
      <3>2. CASE End(w, Requeue)
        BY <3>2 DEF TypeOK, End, Requeue
      <3> QED  BY <2>4, <3>1, <3>2
    <2> QED  BY <1>12, <2>2, <2>3, <2>5, <2>6 DEF TypeOK, RemoveFinalizer, envVars
  <1>13. CASE Refused(w)
    BY <1>13 DEF TypeOK, Refused, End, Requeue, Pcs, envVars
  <1>14. CASE Fail(w)
    BY <1>14 DEF TypeOK, Fail, Fault, End, Requeue, Pcs, envVars
  <1>15. CASE Restart(w)
    BY <1>15, AbsentType DEF TypeOK, Restart, Fault, End, AwaitChange, Pcs, envVars
  <1> QED
    BY <1>1, <1>2, <1>3, <1>4, <1>5, <1>6, <1>7, <1>8, <1>9, <1>10, <1>11, <1>12,
       <1>13, <1>14, <1>15 DEF WorkerStep, Reconciliation

\* A step of the environment preserves the type invariant.
LEMMA TypeEnv ==
    ASSUME TypeOK, EnvStep
    PROVE  TypeOK'
  <1> USE ClusterControllerAssumption
  <1>1. CASE EditSpec
    <2>1. obj.gen + 1 \in Gens
      BY <1>1 DEF EditSpec, TypeOK, Object, Gens
    <2>2. obj' \in Object
      BY <1>1, <2>1 DEF EditSpec, TypeOK, Object
    <2> QED  BY <1>1, <2>2 DEF TypeOK, EditSpec, envVars, workerVars
  <1>2. CASE RequestDeletion
    <2>1. [obj EXCEPT !.deleting = TRUE] \in Object
      BY DEF TypeOK, Object
    <2>2. obj' \in Object
      BY <1>2, <2>1, SettleType DEF RequestDeletion
    <2> QED  BY <1>2, <2>2 DEF TypeOK, RequestDeletion, envVars, workerVars
  <1>3. CASE AddForeign
    <2>1. obj.finalizers \cup {Foreign} \in SUBSET {Own, Foreign}
      BY DEF TypeOK, Object
    <2>2. obj' \in Object
      BY <1>3, <2>1, WriteType DEF AddForeign
    <2> QED  BY <1>3, <2>2 DEF TypeOK, AddForeign, Fault, envVars, workerVars
  <1>11. CASE WriteFinalizer
    <2>1. obj.finalizers \cup {Own} \in SUBSET {Own, Foreign}
      BY DEF TypeOK, Object
    <2>2. obj' \in Object
      BY <1>11, <2>1, WriteType DEF WriteFinalizer
    <2> QED  BY <1>11, <2>2 DEF TypeOK, WriteFinalizer, envVars, workerVars
  <1>4. CASE RemoveForeign
    <2>1. obj.finalizers \ {Foreign} \in SUBSET {Own, Foreign}
      BY DEF TypeOK, Object
    <2>2. obj' \in Object
      BY <1>4, <2>1, WriteType DEF RemoveForeign
    <2> QED  BY <1>4, <2>2 DEF TypeOK, RemoveForeign, envVars, workerVars
  <1>5. CASE RollOut
    BY <1>5 DEF TypeOK, RollOut, workerVars, Kinds
  <1>6. CASE PodReady
    <2>1. pods.ready + 1 \in 0..MaxReady
      BY <1>6 DEF PodReady, TypeOK
    <2> QED  BY <1>6, <2>1 DEF TypeOK, PodReady, workerVars
  <1>7. CASE PodTerminates \/ PodFails
    <2>1. pods.ready - 1 \in 0..MaxReady
      BY <1>7 DEF PodTerminates, PodFails, TypeOK
    <2> QED  BY <1>7, <2>1 DEF TypeOK, PodTerminates, PodFails, Fault, workerVars
  <1>8. CASE HpaScales
    BY <1>8 DEF TypeOK, HpaScales, workerVars
  <1>9. CASE CreatePvcs
    BY <1>9 DEF TypeOK, CreatePvcs, workerVars
  <1>10. CASE CollectGarbage
    <2>1. 0 \in Rendered
      BY DEF Rendered, Legacy
    <2>2. made' \in [Kinds -> Rendered] /\ child' = made'
      BY <1>10, <2>1, Zenon DEF CollectGarbage
    <2>3. scale' \in Int
      BY <1>10 DEF CollectGarbage
    <2>4. hpa' \in BOOLEAN
      BY <1>10, Zenon DEF CollectGarbage
    <2> QED  BY <1>10, <2>2, <2>3, <2>4 DEF TypeOK, CollectGarbage, workerVars
  <1> QED
    BY <1>1, <1>2, <1>3, <1>4, <1>5, <1>6, <1>7, <1>8, <1>9, <1>10, <1>11
       DEF EnvStep, User, Workload

-------------------------------------------------------------------------------
(***************************************************************************)
(* What a step may do: the parts of the invariant follow from this alone.  *)
(***************************************************************************)

\* The object does not come back, its deletion is not taken back, and only
\* then it loses the own finalizer or any other without regaining it.
ObjMove ==
    /\ obj'.exists => obj.exists
    /\ ~obj'.exists => obj' = Absent
    /\ obj'.exists /\ obj.deleting
          => obj'.deleting /\ obj'.finalizers \subseteq obj.finalizers
    /\ Live' /\ Own \in obj.finalizers => Own \in obj'.finalizers

\* A new status is one of the two that a worker may publish.
StatusMove ==
    \/ obj'.status \in {obj.status, NoStatus}
    \/ \E w \in Workers :
          \/ pc[w] = "status" /\ obj'.status = observed_status(cache[w].gen, count[w])
          \/ pc[w] = "invalid" /\ obj'.status = invalid_status(cache[w].gen)

\* Owned objects are rendered by workers only.
DataMove ==
    /\ hpa' => hpa
    /\ \/ scale' = scale \/ hpa \/ ~obj'.exists
       \/ \E w \in Workers : pc[w] \in Rendering /\ scale' = SpecRead(w).replicas
    /\ \A k \in Kinds :
          \/ child'[k] \in {child[k], 0}
          \/ \E w \in Workers : pc[w] \in Rendering /\ child'[k] = cache[w].gen
    /\ pvc' => pvc \/ child["statefulset"] # 0

\* How worker v gets to a call.
WorkerMove(v) ==
    /\ \/ cache'[v] = cache[v]
       \/ pc'[v] = "idle" /\ obj' = obj /\ cache'[v] \in {obj, Absent}
    /\ pc'[v] \in Deleting => pc[v] \in Deleting \/ cache[v].deleting
    /\ pc'[v] \in Working
          => pc[v] \in Working \/ Own \in cache[v].finalizers
    /\ pc'[v] \in Rendering
          => pc[v] \in Rendering \/ (~hpa' /\ validate(SpecRead(v)))
    /\ pc'[v] = "invalid"
          => pc[v] = "invalid" \/ (~hpa' /\ ~validate(SpecRead(v)))
    /\ pc'[v] \in {"list", "status"}
          => \/ pc[v] \in {"list", "status"}
             \/ pc[v] \in Rendering /\ scale' = SpecRead(v).replicas

Move == ObjMove /\ StatusMove /\ DataMove /\ specs' = specs

LEMMA ObjSame ==
    ASSUME CopyInv, obj' = obj
    PROVE  ObjMove /\ StatusMove
  BY DEF CopyInv, ObjMove, StatusMove, Live

LEMMA DataSame ==
    ASSUME UNCHANGED <<hpa, child, scale>>, pvc' => pvc
    PROVE  DataMove
  BY DEF DataMove

\* Ending a reconciliation is a move.
LEMMA EndMove ==
    ASSUME TypeOK, NEW w \in Workers, NEW b, End(w, b),
           cache'[w] = cache[w] \/ (obj' = obj /\ cache'[w] \in {obj, Absent})
    PROVE  WorkerMove(w)
  BY DEF TypeOK, End, WorkerMove, Working, Rendering, Deleting, Kinds

\* The writes to the object are moves.
LEMMA WriteMove ==
    ASSUME TypeOK, CopyInv, obj.exists
    PROVE  /\ \A f \in SUBSET {Own, Foreign} :
                 /\ SetFinalizers(f)
                 /\ obj.deleting => f \subseteq obj.finalizers
                 /\ ~obj.deleting /\ Own \in obj.finalizers => Own \in f
                 => ObjMove /\ StatusMove
           /\ \A st : obj' = [obj EXCEPT !.status = st] => ObjMove
  <1>1. ASSUME NEW f \in SUBSET {Own, Foreign}, SetFinalizers(f),
               obj.deleting => f \subseteq obj.finalizers,
               ~obj.deleting /\ Own \in obj.finalizers => Own \in f
        PROVE  ObjMove /\ StatusMove
    <2>1. CASE obj' = Absent
      BY <2>1 DEF ObjMove, StatusMove, Absent, Live
    <2>2. CASE obj' = [obj EXCEPT !.finalizers = f]
      <3>1. /\ obj'.exists = obj.exists /\ obj'.deleting = obj.deleting
            /\ obj'.finalizers = f /\ obj'.status = obj.status
        BY <2>2 DEF TypeOK, Object
      <3> QED  BY <1>1, <3>1 DEF ObjMove, StatusMove, Live
    <2> QED  BY <1>1, <2>1, <2>2 DEF SetFinalizers, Settle
  <1>2. ASSUME NEW st, obj' = [obj EXCEPT !.status = st]
        PROVE  ObjMove
    <2>1. /\ obj'.exists = obj.exists /\ obj'.deleting = obj.deleting
          /\ obj'.finalizers = obj.finalizers
      BY <1>2 DEF TypeOK, Object
    <2> QED  BY <2>1 DEF ObjMove, Live
  <1> QED  BY <1>1, <1>2

\* Every step of a worker is a move; the other workers stay where they are.
LEMMA WorkerMoves ==
    ASSUME TypeOK, CopyInv, NEW w \in Workers, WorkerStep(w)
    PROVE  Move /\ \A v \in Workers : WorkerMove(v)
  <1>0. /\ specs' = specs
        /\ \A v \in Workers \ {w} : pc'[v] = pc[v] /\ cache'[v] = cache[v]
    BY DEF WorkerStep, Reconciliation, Observe, Reconcile, EnsureFinalizer, DeleteHpa,
       ApplyChild, CountPods, UpdateStatus, UpdateStatusInvalid, HandleDeletion,
       ListPvcs, DeletePvcs, RemoveFinalizer, Refused, Fail, Restart, Goto, End, TypeOK
  <1> SUFFICES ObjMove /\ StatusMove /\ DataMove /\ WorkerMove(w)
    <2>1. ASSUME NEW v \in Workers \ {w}
          PROVE  WorkerMove(v)
      BY <1>0, <2>1 DEF WorkerMove
    <2> QED  BY <1>0, <2>1 DEF Move
  <1> USE DEF Working, Rendering, Deleting, Kinds
  <1>1. CASE Observe(w)
    <2>1. WorkerMove(w)
      BY <1>1 DEF Observe, At, WorkerMove, TypeOK
    <2> QED  BY <1>1, <2>1, ObjSame, DataSame DEF Observe, envVars
  <1>2. CASE Reconcile(w)
    <2>1. WorkerMove(w)
      BY <1>2 DEF Reconcile, Goto, WorkerMove, TypeOK
    <2> QED  BY <1>2, <2>1, ObjSame, DataSame DEF Reconcile, envVars
  <1>3. CASE EnsureFinalizer(w)
    <2>1. WorkerMove(w)
      BY <1>3, EndMove DEF EnsureFinalizer
    <2> QED  BY <1>3, <2>1, ObjSame, DataSame DEF EnsureFinalizer, envVars
  <1>4. CASE DeleteHpa(w)
    <2>1. WorkerMove(w)
      BY <1>4 DEF DeleteHpa, At, AfterHpa, Goto, WorkerMove, TypeOK
    <2>2. DataMove
      BY <1>4 DEF DeleteHpa, DataMove
    <2> QED  BY <1>4, <2>1, <2>2, ObjSame DEF DeleteHpa
  <1>5. ASSUME NEW k \in Kinds, ApplyChild(w, k)
        PROVE  ObjMove /\ StatusMove /\ DataMove /\ WorkerMove(w)
    <2>1. pc[w] = k /\ pc'[w] = After(k) /\ cache' = cache
      BY <1>5 DEF ApplyChild, At, Goto, TypeOK
    <2>2. WorkerMove(w)
      BY <1>5, <2>1 DEF ApplyChild, PutChild, After, WorkerMove
    <2>3. \A j \in Kinds : child'[j] = child[j] \/ child'[j] = cache[w].gen
      BY <1>5 DEF ApplyChild, PutChild, TypeOK
    <2>4. scale' = scale \/ scale' = SpecRead(w).replicas
      BY <1>5 DEF ApplyChild, PutChild
    <2>5. DataMove
      BY <1>5, <2>1, <2>3, <2>4 DEF ApplyChild, DataMove
    <2> QED  BY <1>5, <2>2, <2>5, ObjSame DEF ApplyChild
  <1>6. CASE CountPods(w)
    <2>1. WorkerMove(w)
      BY <1>6 DEF CountPods, At, WorkerMove, TypeOK
    <2> QED  BY <1>6, <2>1, ObjSame, DataSame DEF CountPods, envVars
  <1>7. CASE UpdateStatus(w) \/ UpdateStatusInvalid(w)
    <2>1. WorkerMove(w)
      BY <1>7, EndMove DEF UpdateStatus, UpdateStatusInvalid
    <2>2. PICK st : /\ patch_status_if_changed(w, st)
                    /\ \/ pc[w] = "status" /\ st = observed_status(cache[w].gen, count[w])
                       \/ pc[w] = "invalid" /\ st = invalid_status(cache[w].gen)
      BY <1>7 DEF UpdateStatus, UpdateStatusInvalid, At
    <2>3. CASE obj' = obj
      BY <1>7, <2>1, <2>3, ObjSame, DataSame
         DEF UpdateStatus, UpdateStatusInvalid, envVars
    <2>4. CASE obj.exists /\ obj' = [obj EXCEPT !.status = st]
      <3>1. obj'.status = st
        BY <2>4 DEF TypeOK, Object
      <3>2. ObjMove /\ StatusMove
        BY <2>2, <2>4, <3>1, WriteMove DEF StatusMove
      <3> QED  BY <1>7, <2>1, <3>2, DataSame DEF UpdateStatus, UpdateStatusInvalid, envVars
    <2> QED  BY <2>2, <2>3, <2>4 DEF patch_status_if_changed
  <1>8. CASE HandleDeletion(w)
    <2>1. WorkerMove(w)
      BY <1>8 DEF HandleDeletion, Goto, WorkerMove, TypeOK
    <2> QED  BY <1>8, <2>1, ObjSame, DataSame DEF HandleDeletion, envVars
  <1>9. CASE ListPvcs(w)
    <2>1. WorkerMove(w)
      BY <1>9 DEF ListPvcs, At, Goto, WorkerMove, TypeOK
    <2> QED  BY <1>9, <2>1, ObjSame, DataSame DEF ListPvcs, envVars
  <1>10. CASE DeletePvcs(w)
    <2>1. WorkerMove(w)
      BY <1>10 DEF DeletePvcs, At, Goto, WorkerMove, TypeOK
    <2>2. UNCHANGED <<obj, hpa, child, scale>> /\ (pvc' => pvc)
      BY <1>10 DEF DeletePvcs
    <2> QED  BY <2>1, <2>2, ObjSame, DataSame
  <1>11. CASE RemoveFinalizer(w)
    <2>1. cache[w].finalizers \ {Own} \in SUBSET {Own, Foreign}
      BY DEF TypeOK, Object
    <2>2. obj.exists /\ obj.deleting
      BY <1>11 DEF RemoveFinalizer, Permits, At, CopyInv, Live
    <2>3. ObjMove /\ StatusMove
      BY <1>11, <2>1, <2>2, WriteMove DEF RemoveFinalizer, Permits
    <2>4. WorkerMove(w)
      BY <1>11, EndMove DEF RemoveFinalizer
    <2> QED  BY <1>11, <2>3, <2>4, DataSame DEF RemoveFinalizer, envVars
  <1>12. CASE Refused(w) \/ Fail(w) \/ Restart(w)
    <2>1. obj' = obj /\ UNCHANGED envVars
      BY <1>12 DEF Refused, Fail, Restart
    <2>2. WorkerMove(w)
      BY <1>12, <2>1, EndMove DEF Refused, Fail, Restart, TypeOK
    <2> QED  BY <2>1, <2>2, ObjSame, DataSame DEF envVars
  <1> QED
    BY <1>1, <1>2, <1>3, <1>4, <1>5, <1>6, <1>7, <1>8, <1>9, <1>10, <1>11, <1>12
       DEF WorkerStep, Reconciliation

\* Every step of the environment is a move, too.
LEMMA EnvMoves ==
    ASSUME TypeOK, CopyInv, EnvStep
    PROVE  Move /\ \A v \in Workers : WorkerMove(v)
  <1>0. specs' = specs /\ UNCHANGED workerVars
    BY DEF EnvStep, User, Workload, EditSpec, RequestDeletion, WriteFinalizer, AddForeign,
       RemoveForeign, RollOut, PodReady, PodTerminates, PodFails, HpaScales,
       CreatePvcs, CollectGarbage
  <1> SUFFICES ObjMove /\ StatusMove /\ DataMove
    <2>1. ASSUME NEW v \in Workers
          PROVE  WorkerMove(v)
      BY <1>0 DEF workerVars, WorkerMove
    <2> QED  BY <1>0, <2>1 DEF Move
  <1>1. CASE EditSpec
    <2>1. /\ obj.exists /\ obj'.exists /\ obj'.deleting = obj.deleting
          /\ obj'.finalizers = obj.finalizers /\ obj'.status = obj.status
      BY <1>1 DEF EditSpec, TypeOK, Object
    <2>2. ObjMove /\ StatusMove
      BY <2>1 DEF ObjMove, StatusMove, Live
    <2> QED  BY <1>1, <2>2, DataSame DEF EditSpec, envVars
  <1>2. CASE RequestDeletion
    <2>1. obj.exists /\ ~obj.deleting
      BY <1>2 DEF RequestDeletion
    <2>2. ASSUME obj' = Absent
          PROVE  ObjMove /\ StatusMove
      BY <2>1, <2>2 DEF ObjMove, StatusMove, Absent, Live
    <2>3. ASSUME obj' = [obj EXCEPT !.deleting = TRUE]
          PROVE  ObjMove /\ StatusMove
      <3>1. /\ obj'.exists /\ obj'.deleting /\ obj'.status = obj.status
        BY <2>1, <2>3 DEF TypeOK, Object
      <3> QED  BY <2>1, <3>1 DEF ObjMove, StatusMove, Live
    <2> QED  BY <1>2, <2>2, <2>3, DataSame DEF RequestDeletion, Settle, envVars
  <1>3. CASE AddForeign
    <2>1. obj.finalizers \cup {Foreign} \in SUBSET {Own, Foreign}
      BY DEF TypeOK, Object
    <2>2. ObjMove /\ StatusMove
      BY <1>3, <2>1, WriteMove DEF AddForeign
    <2> QED  BY <1>3, <2>2, DataSame DEF AddForeign, envVars
  <1>7. CASE WriteFinalizer
    <2>1. obj.finalizers \cup {Own} \in SUBSET {Own, Foreign}
      BY DEF TypeOK, Object
    <2>2. ObjMove /\ StatusMove
      BY <1>7, <2>1, WriteMove DEF WriteFinalizer
    <2> QED  BY <1>7, <2>2, DataSame DEF WriteFinalizer, envVars
  <1>4. CASE RemoveForeign
    <2>1. obj.finalizers \ {Foreign} \in SUBSET {Own, Foreign}
      BY DEF TypeOK, Object
    <2>2. ObjMove /\ StatusMove
      BY <1>4, <2>1, WriteMove DEF RemoveForeign, Own, Foreign
    <2> QED  BY <1>4, <2>2, DataSame DEF RemoveForeign, envVars
  <1>5. CASE RollOut \/ PodReady \/ PodTerminates \/ PodFails
    <2>1. UNCHANGED <<obj, hpa, child, scale, pvc>>
      BY <1>5 DEF RollOut, PodReady, PodTerminates, PodFails
    <2> QED  BY <2>1, ObjSame, DataSame
  <1>6. CASE HpaScales \/ CreatePvcs \/ CollectGarbage
    <2>1. obj' = obj
      BY <1>6 DEF HpaScales, CreatePvcs, CollectGarbage
    <2>2. DataMove
      BY <1>6 DEF HpaScales, CreatePvcs, CollectGarbage, DataMove
    <2> QED  BY <2>1, <2>2, ObjSame
  <1> QED
    BY <1>1, <1>2, <1>3, <1>4, <1>5, <1>6, <1>7 DEF EnvStep, User, Workload

-------------------------------------------------------------------------------
(***************************************************************************)
(* A move preserves each part of the invariant.                            *)
(***************************************************************************)
LEMMA StepCopy ==
    ASSUME CopyInv, Move, \A v \in Workers : WorkerMove(v)
    PROVE  CopyInv'
  <1>1. (~obj.exists => obj = Absent)'
    BY DEF Move, ObjMove
  <1>2. ASSUME NEW v \in Workers
        PROVE  (/\ pc[v] \in Deleting => cache[v].deleting
                /\ cache[v].deleting => ~Live
                /\ obj.exists /\ cache[v].deleting
                      => obj.finalizers \subseteq cache[v].finalizers)'
    <2>1. CASE cache'[v] = cache[v]
      <3>1. pc'[v] \in Deleting => cache'[v].deleting
        BY <2>1 DEF CopyInv, WorkerMove
      <3>2. cache'[v].deleting /\ obj'.exists
              => obj.exists /\ obj.deleting /\ obj.finalizers \subseteq cache[v].finalizers
        BY <2>1 DEF CopyInv, Live, Move, ObjMove
      <3> QED  BY <2>1, <3>1, <3>2 DEF Move, ObjMove, Live
    <2>2. CASE pc'[v] = "idle" /\ obj' = obj /\ cache'[v] \in {obj, Absent}
      BY <2>2 DEF Deleting, Live, Absent
    <2> QED  BY <2>1, <2>2 DEF WorkerMove
  <1> QED  BY <1>1, <1>2 DEF CopyInv

LEMMA StepFinalizer ==
    ASSUME FinalizerInv, Move, \A v \in Workers : WorkerMove(v)
    PROVE  FinalizerInv'
  <1> SUFFICES ASSUME NEW v \in Workers, Live',
                      Own \in cache'[v].finalizers \/ pc'[v] \in Working
               PROVE  Own \in obj'.finalizers
    BY DEF FinalizerInv
  <1>1. Live
    BY DEF Move, ObjMove, Live
  <1>2. CASE Own \in obj.finalizers
    BY <1>2 DEF Move, ObjMove
  <1>3. CASE cache'[v] = cache[v]
    BY <1>1, <1>2, <1>3 DEF FinalizerInv, WorkerMove
  <1>4. CASE pc'[v] = "idle" /\ obj' = obj /\ cache'[v] \in {obj, Absent}
    BY <1>4 DEF Working, Rendering, Kinds, Absent
  <1> QED  BY <1>3, <1>4 DEF WorkerMove

LEMMA StepBranch ==
    ASSUME BranchInv, Move, \A v \in Workers : WorkerMove(v)
    PROVE  BranchInv'
  <1> SUFFICES ASSUME NEW v \in Workers
               PROVE  (/\ pc[v] \in Rendering => validate(SpecRead(v))
                       /\ pc[v] = "invalid" => ~validate(SpecRead(v)))'
    BY DEF BranchInv
  <1>1. CASE cache'[v] = cache[v]
    BY <1>1 DEF BranchInv, WorkerMove, Move, SpecRead, validate
  <1>2. CASE pc'[v] = "idle"
    BY <1>2 DEF Rendering, Kinds
  <1> QED  BY <1>1, <1>2 DEF WorkerMove

LEMMA StepBroker ==
    ASSUME BrokerInv, BranchInv, Move, \A v \in Workers : WorkerMove(v)
    PROVE  BrokerInv'
  <1> SUFFICES ASSUME NEW v \in Workers
               PROVE  (/\ pc[v] \in Rendering \cup {"invalid"} => ~hpa
                       /\ pc[v] \in {"list", "status"} /\ obj.exists => scale = 1)'
    BY DEF BrokerInv
  <1>1. \A u \in Workers : pc[u] \in Rendering => SpecRead(u).replicas = 1
    BY DEF BranchInv, validate
  <1>2. pc'[v] \in Rendering \cup {"invalid"} => ~hpa'
    BY DEF BrokerInv, WorkerMove, Move, DataMove
  <1>3. ASSUME pc'[v] \in {"list", "status"}, obj'.exists
        PROVE  scale' = 1
    <2>1. CASE pc[v] \in Rendering /\ scale' = SpecRead(v).replicas
      BY <1>1, <2>1
    <2>2. CASE pc[v] \in {"list", "status"}
      BY <1>1, <1>3, <2>2 DEF BrokerInv, Move, ObjMove, DataMove, Rendering
    <2> QED  BY <1>3, <2>1, <2>2 DEF WorkerMove
  <1> QED  BY <1>2, <1>3

LEMMA StepStatus ==
    ASSUME StatusFitsItsGeneration, BranchInv, Move
    PROVE  StatusFitsItsGeneration'
  <1>1. CASE obj'.status \in {obj.status, NoStatus}
    BY <1>1 DEF StatusFitsItsGeneration, NoStatus, Move, validate
  <1>2. ASSUME NEW w \in Workers, pc[w] = "status",
               obj'.status = observed_status(cache[w].gen, count[w])
        PROVE  StatusFitsItsGeneration'
    <2>1. validate(specs[cache[w].gen])
      BY <1>2 DEF BranchInv, Rendering, SpecRead
    <2>2. obj'.status.phase # "Failed" /\ obj'.status.gen = cache[w].gen
      BY <1>2, PhaseType DEF observed_status
    <2> QED  BY <2>1, <2>2 DEF StatusFitsItsGeneration, Move, validate
  <1>3. ASSUME NEW w \in Workers, pc[w] = "invalid",
               obj'.status = invalid_status(cache[w].gen)
        PROVE  StatusFitsItsGeneration'
    BY <1>3 DEF StatusFitsItsGeneration, BranchInv, SpecRead, Move, validate, invalid_status
  <1> QED  BY <1>1, <1>2, <1>3 DEF Move, StatusMove

LEMMA StepRendered ==
    ASSUME TypeOK, RejectedSpecNeverRendered, BranchInv, Move
    PROVE  RejectedSpecNeverRendered'
  <1> SUFFICES ASSUME NEW k \in Kinds, child'[k] \in Gens
               PROVE  validate(specs'[child'[k]])
    BY DEF RejectedSpecNeverRendered, validate
  <1>1. CASE child'[k] = child[k]
    BY <1>1 DEF RejectedSpecNeverRendered, Move, validate
  <1>2. CASE child'[k] = 0
    BY <1>2 DEF Gens
  <1>3. ASSUME NEW w \in Workers, pc[w] \in Rendering, child'[k] = cache[w].gen
        PROVE  validate(specs'[child'[k]])
    BY <1>3 DEF BranchInv, SpecRead, Move, validate
  <1> QED  BY <1>1, <1>2, <1>3 DEF Move, DataMove

LEMMA StepData ==
    ASSUME DataUnderFinalizer, FinalizerInv, Move
    PROVE  DataUnderFinalizer'
  <1> SUFFICES ASSUME Live', pvc' \/ \E k \in Kinds : child'[k] # 0
               PROVE  Own \in obj'.finalizers
    BY DEF DataUnderFinalizer, Live
  <1>1. Live
    BY DEF Move, ObjMove, Live
  <1>2. CASE pvc \/ \E k \in Kinds : child[k] # 0
    BY <1>1, <1>2 DEF DataUnderFinalizer, Live, Move, ObjMove
  <1>3. ASSUME NEW w \in Workers, pc[w] \in Rendering
        PROVE  Own \in obj'.finalizers
    BY <1>1, <1>3 DEF FinalizerInv, Working, Move, ObjMove
  <1> QED  BY <1>2, <1>3 DEF Move, DataMove, Kinds

-------------------------------------------------------------------------------
LEMMA InitInv == Init => IInv
  <1> SUFFICES ASSUME Init PROVE IInv
    OBVIOUS
  <1> USE ClusterControllerAssumption
  <1>0. 0 \in Rendered /\ Legacy \in Rendered /\ 0 \in 0..MaxReady
    BY DEF Rendered, Legacy
  <1>1. /\ obj \in Object /\ obj.exists /\ ~obj.deleting /\ obj.status = NoStatus
        /\ \/ Own \in obj.finalizers
           \/ ~pvc /\ \A k \in Kinds : child[k] = 0
    <2>1. CASE InitCreated
      BY <2>1, AbsentType DEF InitCreated, Absent, Object
    <2>2. CASE InitUpgraded
      <3>1. {Own} \in SUBSET {Own, Foreign}
        OBVIOUS
      <3> QED  BY <2>2, <3>1, AbsentType DEF InitUpgraded, Absent, Object
    <2> QED  BY <2>1, <2>2 DEF Init
  <1>2. /\ hpa \in BOOLEAN /\ child \in [Kinds -> Rendered] /\ scale \in Int
        /\ made \in [Kinds -> Rendered]
        /\ pods \in [gen : Rendered, ready : 0..MaxReady] /\ pvc \in BOOLEAN
        /\ \A k \in Kinds : child[k] \in {0, Legacy}
    <2>1. /\ made \in [Kinds -> Rendered] /\ child \in [Kinds -> Rendered]
          /\ \A k \in Kinds : child[k] \in {0, Legacy}
      <3>0. child = made
        BY DEF Init, InitCreated, InitUpgraded
      <3>1. child = [k \in Kinds |-> 0] \/ child = [k \in Kinds |-> Legacy]
        BY DEF Init, InitCreated, InitUpgraded
      <3> QED  BY <1>0, <3>0, <3>1
    <2>2. scale \in Int /\ pods \in [gen : Rendered, ready : 0..MaxReady]
      BY <1>0 DEF Init, InitCreated, InitUpgraded, SpecParts
    <2>3. hpa \in BOOLEAN /\ pvc \in BOOLEAN
      BY Zenon DEF Init, InitCreated, InitUpgraded
    <2> QED  BY <2>1, <2>2, <2>3
  <1>3. TypeOK
    BY <1>0, <1>1, <1>2, AbsentType DEF Init, TypeOK, Pcs
  <1>4. \A w \in Workers : cache[w] = Absent /\ pc[w] = "idle"
    BY DEF Init
  <1>5. CopyInv /\ FinalizerInv /\ BranchInv /\ BrokerInv
    BY <1>1, <1>4 DEF CopyInv, FinalizerInv, BranchInv, BrokerInv, Absent, Deleting,
       Working, Rendering, Kinds
  <1>6. StatusFitsItsGeneration /\ DataUnderFinalizer
    BY <1>1 DEF StatusFitsItsGeneration, DataUnderFinalizer, NoStatus
  <1>7. RejectedSpecNeverRendered
    BY <1>2 DEF RejectedSpecNeverRendered, Gens, Legacy
  <1> QED  BY <1>3, <1>5, <1>6, <1>7 DEF IInv

\* A step is one of a worker or one of the environment; both are moves.
LEMMA NextMoves ==
    ASSUME IInv, Next
    PROVE  TypeOK' /\ Move /\ \A v \in Workers : WorkerMove(v)
  <1>1. ASSUME NEW w \in Workers, WorkerStep(w)
        PROVE  TypeOK' /\ Move /\ \A v \in Workers : WorkerMove(v)
    BY <1>1, TypeWorker, WorkerMoves DEF IInv
  <1>2. CASE EnvStep
    BY <1>2, TypeEnv, EnvMoves DEF IInv
  <1> QED  BY <1>1, <1>2 DEF Next, WorkerStep, EnvStep

LEMMA StepInv == IInv /\ [Next]_vars => IInv'
  <1> SUFFICES ASSUME IInv, [Next]_vars PROVE IInv'
    OBVIOUS
  <1>1. CASE Next
    BY <1>1, NextMoves, StepCopy, StepFinalizer, StepBranch, StepBroker, StepStatus,
       StepRendered, StepData DEF IInv
  <1>2. CASE UNCHANGED vars
    BY <1>2 DEF vars, envVars, IInv, TypeOK, CopyInv, FinalizerInv, BranchInv, BrokerInv,
       StatusFitsItsGeneration, RejectedSpecNeverRendered, DataUnderFinalizer, Live,
       SpecRead, validate
  <1> QED  BY <1>1, <1>2

\* The inductive invariant holds for any number of workers and any bounds.
THEOREM Invariance == Spec => []IInv
  BY InitInv, StepInv, PTL DEF Spec

\* The type invariant.
THEOREM TypeCorrect == Spec => []TypeOK
  <1>1. IInv => TypeOK
    BY DEF IInv
  <1> QED  BY <1>1, Invariance, PTL

\* A status is Failed exactly when the spec of its generation is rejected.
THEOREM StatusFits == Spec => []StatusFitsItsGeneration
  <1>1. IInv => StatusFitsItsGeneration
    BY DEF IInv
  <1> QED  BY <1>1, Invariance, PTL

\* Nothing is rendered from a rejected spec.
THEOREM RejectedNotRendered == Spec => []RejectedSpecNeverRendered
  <1>1. IInv => RejectedSpecNeverRendered
    BY DEF IInv
  <1> QED  BY <1>1, Invariance, PTL

\* Data and owned objects are under the finalizer until deletion is asked for.
THEOREM FinalizerGuardsData == Spec => []DataUnderFinalizer
  <1>1. IInv => DataUnderFinalizer
    BY DEF IInv
  <1> QED  BY <1>1, Invariance, PTL

-------------------------------------------------------------------------------
(***************************************************************************)
(* Action properties.                                                      *)
(***************************************************************************)

\* A worker only deletes claims for a copy that is being deleted, and such a
\* copy is never ahead of the object.
THEOREM DeletedOnRequest == Spec => DataDeletedOnRequestOnly
  <1>1. ASSUME IInv, [Next]_vars, pvc, ~pvc'
        PROVE  obj.deleting \/ ~obj.exists
    <2>1. PICK w \in Workers : DeletePvcs(w)
      BY <1>1 DEF Next, Reconciliation, Observe, Reconcile, EnsureFinalizer, DeleteHpa,
         ApplyChild, CountPods, UpdateStatus, UpdateStatusInvalid, HandleDeletion,
         ListPvcs, RemoveFinalizer, Refused, Fail, Restart, User, Workload, EditSpec,
         RequestDeletion, WriteFinalizer, AddForeign, RemoveForeign, RollOut, PodReady, PodTerminates,
         PodFails, HpaScales, CreatePvcs, CollectGarbage, envVars, vars
    <2> QED  BY <1>1, <2>1 DEF IInv, CopyInv, DeletePvcs, At, Deleting, Live
  <1> QED  BY <1>1, Invariance, PTL DEF Spec, DataDeletedOnRequestOnly

\* Running is published past the teardown of the HPA and past the StatefulSet.
THEOREM RunningOneBroker == Spec => RunningMeansOneBroker
  <1>1. ASSUME IInv, [Next]_vars, Publishes("Running")
        PROVE  ~hpa /\ scale = 1
    <2>1. obj'.status # obj.status /\ obj'.status.phase = "Running"
      BY <1>1 DEF Publishes
    <2>2. CASE Next
      <3>0. ObjMove /\ StatusMove
        BY <1>1, <2>2, NextMoves DEF Move
      <3>1. PICK w \in Workers : pc[w] = "status"
        <4>1. obj'.status \notin {obj.status, NoStatus}
          BY <2>1 DEF NoStatus
        <4>2. \A w \in Workers : obj'.status # invalid_status(cache[w].gen)
          BY <2>1 DEF invalid_status
        <4> QED  BY <3>0, <4>1, <4>2, Zenon DEF StatusMove
      <3>2. obj.exists
        BY <2>1, <3>0 DEF ObjMove, Absent, NoStatus
      <3> QED  BY <1>1, <3>1, <3>2 DEF IInv, BrokerInv, Rendering
    <2>3. CASE UNCHANGED vars
      BY <2>1, <2>3 DEF vars
    <2> QED  BY <1>1, <2>2, <2>3
  <1> QED  BY <1>1, Invariance, PTL DEF Spec, RunningMeansOneBroker

\* A worker that overwrites the finalizers read them after the deletion was
\* asked for, when none can be added any more.
THEOREM ForeignKept == Spec => ForeignFinalizerKept
  <1>1. ASSUME IInv, Next, Foreign \in obj.finalizers, Foreign \notin obj'.finalizers
        PROVE  pc' = pc
    <2>1. ASSUME NEW w \in Workers, WorkerStep(w)
          PROVE  FALSE
      <3>1. obj' # obj
        BY <1>1
      <3>2. CASE UpdateStatus(w) \/ UpdateStatusInvalid(w)
        BY <1>1, <3>2 DEF UpdateStatus, UpdateStatusInvalid, patch_status_if_changed,
           IInv, TypeOK, Object
      <3>3. CASE RemoveFinalizer(w)
        <4>1. /\ cache[w].deleting /\ obj.exists
              /\ obj.finalizers \subseteq cache[w].finalizers
          <5>1. pc[w] \in Deleting /\ obj.exists
            BY <3>3 DEF RemoveFinalizer, At, Permits, Deleting
          <5> QED  BY <1>1, <5>1 DEF IInv, CopyInv
        <4>2. Foreign \in cache[w].finalizers \ {Own}
          BY <1>1, <4>1 DEF Own, Foreign
        <4> QED
          BY <1>1, <3>3, <4>2 DEF RemoveFinalizer, SetFinalizers, Settle, IInv, TypeOK, Object
      <3> QED
        BY <2>1, <3>1, <3>2, <3>3 DEF WorkerStep, Reconciliation, Observe, Reconcile,
           EnsureFinalizer, DeleteHpa, ApplyChild, CountPods, HandleDeletion, ListPvcs, DeletePvcs, Refused,
           Fail, Restart
    <2>2. EnvStep
      BY <1>1, <2>1 DEF Next, WorkerStep, EnvStep
    <2> QED
      BY <2>2 DEF EnvStep, User, Workload, EditSpec, RequestDeletion, WriteFinalizer, AddForeign,
         RemoveForeign, RollOut, PodReady, PodTerminates, PodFails, HpaScales, CreatePvcs,
         CollectGarbage, workerVars
  <1>2. ASSUME IInv, [Next]_vars
        PROVE  (Foreign \in obj.finalizers /\ Foreign \notin obj'.finalizers) => pc' = pc
    BY <1>1, <1>2 DEF vars
  <1> QED  BY <1>2, Invariance, PTL DEF Spec, ForeignFinalizerKept
-------------------------------------------------------------------------------
(***************************************************************************)
(* With one worker: what it writes is never older than what is there.      *)
(***************************************************************************)

\* What a step may do to the generations.
OrderMove ==
    /\ obj'.exists => obj'.gen >= obj.gen
    /\ obj'.exists
          => \/ obj'.status = obj.status
             \/ \E w \in Workers : pc[w] # "idle" /\ obj'.status.gen = cache[w].gen
    /\ \A k \in Kinds :
          \/ child'[k] = child[k]
          \/ child'[k] = 0 /\ ~obj.exists
          \/ \E w \in Workers : pc[w] # "idle" /\ child'[k] = cache[w].gen

\* How worker v gets past a call.
CallMove(v) ==
    /\ pc'[v] # "idle" => cache'[v] = cache[v] /\ (pc[v] # "idle" \/ cache[v].exists)
    /\ \A k \in Kinds :
          pc'[v] \in Past(k) => pc[v] \in Past(k) \/ child'[k] = cache[v].gen

LEMMA ObjOrder ==
    ASSUME TypeOK
    PROVE  /\ obj' = obj => obj'.gen >= obj.gen
           /\ \A f : SetFinalizers(f) /\ obj'.exists
                 => obj'.gen = obj.gen /\ obj'.status = obj.status
           /\ \A st : obj' = [obj EXCEPT !.status = st]
                 => obj'.gen = obj.gen /\ obj'.status = st
  <1>1. obj.gen \in Int
    BY DEF TypeOK, Object, Gens
  <1>2. ASSUME NEW f, SetFinalizers(f), obj'.exists
        PROVE  obj'.gen = obj.gen /\ obj'.status = obj.status
    BY <1>2 DEF SetFinalizers, Settle, Absent, TypeOK, Object
  <1>3. ASSUME NEW st, obj' = [obj EXCEPT !.status = st]
        PROVE  obj'.gen = obj.gen /\ obj'.status = st
    BY <1>3 DEF TypeOK, Object
  <1> QED  BY <1>1, <1>2, <1>3

\* The generation that a status says.
LEMMA StatusGen ==
    ASSUME NEW w \in Workers
    PROVE  /\ observed_status(cache[w].gen, count[w]).gen = cache[w].gen
           /\ invalid_status(cache[w].gen).gen = cache[w].gen
  BY DEF observed_status, invalid_status

\* Which calls come after which.
LEMMA CallOrder ==
    ASSUME NEW k \in Kinds
    PROVE  /\ Past(k) \subseteq Rendering
           /\ \A j \in Kinds : After(j) \in Past(k) => j = k \/ j \in Past(k)
           /\ "configmap" \notin Past(k)
           /\ "list" \in Past(k) /\ "status" \in Past(k)
  <1>1. CASE k = "configmap"
    BY <1>1 DEF Past, After, Kinds, Rendering
  <1>2. CASE k = "headless"
    BY <1>2 DEF Past, After, Kinds, Rendering
  <1>3. CASE k = "client"
    BY <1>3 DEF Past, After, Kinds, Rendering
  <1>4. CASE k = "statefulset"
    BY <1>4 DEF Past, After, Kinds, Rendering
  <1> QED  BY <1>1, <1>2, <1>3, <1>4 DEF Kinds

\* A step of a worker respects the order of the generations.
LEMMA WorkerOrders ==
    ASSUME TypeOK, NEW w \in Workers, WorkerStep(w)
    PROVE  OrderMove /\ \A v \in Workers : CallMove(v)
  <1>0. \A v \in Workers \ {w} : pc'[v] = pc[v] /\ cache'[v] = cache[v]
    BY DEF WorkerStep, Reconciliation, Observe, Reconcile, EnsureFinalizer, DeleteHpa,
       ApplyChild, CountPods, UpdateStatus, UpdateStatusInvalid, HandleDeletion,
       ListPvcs, DeletePvcs, RemoveFinalizer, Refused, Fail, Restart, Goto, End, TypeOK
  <1> SUFFICES OrderMove /\ CallMove(w)
    <2>1. ASSUME NEW v \in Workers \ {w}, pc[v] # "idle" \/ pc[v] = "idle"
          PROVE  /\ \A k \in Kinds : "idle" \notin Past(k)
                 /\ pc'[v] = pc[v] /\ cache'[v] = cache[v]
      BY <1>0, CallOrder DEF Rendering, Kinds
    <2> QED  BY <2>1 DEF CallMove
  <1>a. ASSUME obj' = obj, child' = child
        PROVE  OrderMove
    BY <1>a, ObjOrder DEF OrderMove
  <1>b. ASSUME pc'[w] = "idle"
        PROVE  CallMove(w)
    BY <1>b, CallOrder DEF CallMove, Rendering, Kinds
  <1>c. ASSUME NEW p, Goto(w, p), cache' = cache, pc[w] # "idle" \/ cache[w].exists,
               \A k \in Kinds : p \in Past(k)
                  => pc[w] \in Past(k) \/ child'[k] = cache[w].gen
        PROVE  CallMove(w)
    BY <1>c DEF CallMove, Goto, TypeOK
  <1>1. CASE Observe(w)
    BY <1>1, <1>a, <1>b DEF Observe, At, envVars
  <1>2. CASE Reconcile(w) \/ HandleDeletion(w)
    <2>1. PICK p \in {"hpa", "finalizer", "pvcs"} : Goto(w, p)
      BY <1>2 DEF Reconcile, HandleDeletion
    <2>2. CallMove(w)
      BY <1>2, <2>1, <1>c, CallOrder DEF Reconcile, HandleDeletion, Rendering, Kinds
    <2> QED  BY <1>2, <1>a, <2>2 DEF Reconcile, HandleDeletion, envVars
  <1>3. CASE EnsureFinalizer(w)
    <2>1. pc'[w] = "idle"
      BY <1>3 DEF EnsureFinalizer, End, TypeOK
    <2> QED  BY <1>3, <2>1, <1>a, <1>b DEF EnsureFinalizer, envVars
  <1>4. CASE DeleteHpa(w)
    <2>1. \A k \in Kinds : AfterHpa(w) \notin Past(k)
      BY CallOrder DEF AfterHpa, Rendering, Kinds
    <2>2. CallMove(w)
      BY <1>4, <2>1, <1>c DEF DeleteHpa, At
    <2> QED  BY <1>4, <1>a, <2>2 DEF DeleteHpa
  <1>5. ASSUME NEW j \in Kinds, ApplyChild(w, j)
        PROVE  OrderMove /\ CallMove(w)
    <2>1. /\ pc[w] = j /\ pc[w] # "idle" /\ cache' = cache /\ obj' = obj
          /\ Goto(w, After(j))
      BY <1>5 DEF ApplyChild, At, Kinds
    <2>2. /\ child'[j] = cache[w].gen
          /\ \A k \in Kinds : k # j => child'[k] = child[k]
      BY <1>5 DEF ApplyChild, PutChild, TypeOK
    <2>3. CallMove(w)
      BY <2>1, <2>2, <1>c, CallOrder
    <2> QED  BY <2>1, <2>2, <2>3, ObjOrder DEF OrderMove
  <1>6. CASE CountPods(w)
    <2>1. pc[w] = "list" /\ pc'[w] = "status" /\ cache' = cache
      BY <1>6 DEF CountPods, At, TypeOK
    <2>2. CallMove(w)
      BY <2>1, CallOrder DEF CallMove
    <2> QED  BY <1>6, <1>a, <2>2 DEF CountPods, envVars
  <1>7. CASE UpdateStatus(w) \/ UpdateStatusInvalid(w)
    <2>1. PICK st : patch_status_if_changed(w, st) /\ st.gen = cache[w].gen
      BY <1>7, StatusGen DEF UpdateStatus, UpdateStatusInvalid
    <2>2. /\ pc[w] # "idle" /\ pc'[w] = "idle" /\ child' = child
      BY <1>7 DEF UpdateStatus, UpdateStatusInvalid, At, End, envVars, TypeOK
    <2>3. CASE obj' = obj
      BY <2>2, <2>3, <1>a, <1>b
    <2>4. CASE obj' = [obj EXCEPT !.status = st]
      BY <2>1, <2>2, <2>4, <1>b, ObjOrder DEF OrderMove, TypeOK, Object, Gens
    <2> QED  BY <2>1, <2>3, <2>4 DEF patch_status_if_changed
  <1>8. CASE ListPvcs(w) \/ DeletePvcs(w)
    <2>1. PICK p \in Deleting : Goto(w, p)
      BY <1>8 DEF ListPvcs, DeletePvcs, Deleting
    <2>2. CallMove(w)
      BY <1>8, <2>1, <1>c, CallOrder DEF ListPvcs, DeletePvcs, At, Deleting, Rendering, Kinds
    <2> QED  BY <1>8, <1>a, <2>2 DEF ListPvcs, DeletePvcs, envVars
  <1>9. CASE RemoveFinalizer(w)
    <2>1. obj'.exists => obj'.gen >= obj.gen /\ obj'.status = obj.status
      BY <1>9, ObjOrder DEF RemoveFinalizer, TypeOK, Object, Gens
    <2>2. pc'[w] = "idle" /\ child' = child
      BY <1>9 DEF RemoveFinalizer, End, envVars, TypeOK
    <2> QED  BY <2>1, <2>2, <1>b DEF OrderMove
  <1>10. CASE Refused(w) \/ Fail(w) \/ Restart(w)
    <2>1. pc'[w] = "idle" /\ child' = child /\ obj' = obj
      BY <1>10 DEF Refused, Fail, Restart, End, envVars, TypeOK
    <2> QED  BY <2>1, <1>a, <1>b
  <1> QED
    BY <1>1, <1>2, <1>3, <1>4, <1>5, <1>6, <1>7, <1>8, <1>9, <1>10
       DEF WorkerStep, Reconciliation

\* So does a step of the environment.
LEMMA EnvOrders ==
    ASSUME TypeOK, EnvStep
    PROVE  OrderMove /\ \A v \in Workers : CallMove(v)
  <1>1. UNCHANGED workerVars
    BY DEF EnvStep, User, Workload, EditSpec, RequestDeletion, WriteFinalizer, AddForeign,
       RemoveForeign, RollOut, PodReady, PodTerminates, PodFails, HpaScales,
       CreatePvcs, CollectGarbage
  <1>2. ASSUME NEW v \in Workers
        PROVE  CallMove(v)
    <2>1. \A k \in Kinds : "idle" \notin Past(k)
      BY CallOrder DEF Rendering, Kinds
    <2> QED  BY <1>1, <2>1 DEF workerVars, CallMove
  <1>3. CASE User
    <2>1. child' = child
      BY <1>3 DEF User, EditSpec, RequestDeletion, WriteFinalizer, AddForeign, RemoveForeign, envVars
    <2>2. obj'.exists => obj'.gen >= obj.gen /\ obj'.status = obj.status
      <3>1. obj.gen \in Int
        BY DEF TypeOK, Object, Gens
      <3>2. CASE EditSpec
        BY <3>1, <3>2 DEF EditSpec, TypeOK, Object
      <3>3. CASE RequestDeletion
        BY <3>1, <3>3 DEF RequestDeletion, Settle, Absent, TypeOK, Object
      <3>4. CASE WriteFinalizer \/ AddForeign \/ RemoveForeign
        BY <3>1, <3>4, ObjOrder DEF WriteFinalizer, AddForeign, RemoveForeign
      <3> QED  BY <1>3, <3>2, <3>3, <3>4 DEF User
    <2> QED  BY <1>2, <2>1, <2>2 DEF OrderMove
  <1>4. CASE CollectGarbage
    BY <1>2, <1>4, ObjOrder DEF CollectGarbage, OrderMove
  <1>5. CASE Workload \/ PodFails \/ HpaScales \/ CreatePvcs
    <2>1. obj' = obj /\ child' = child
      BY <1>5 DEF Workload, RollOut, PodReady, PodTerminates, PodFails, HpaScales, CreatePvcs
    <2> QED  BY <1>2, <2>1, ObjOrder DEF OrderMove
  <1> QED  BY <1>3, <1>4, <1>5 DEF EnvStep

\* Generations are integers.
GenTypes ==
    /\ obj.gen \in Nat /\ obj.status.gen \in Nat
    /\ \A w \in Workers : cache[w].gen \in Nat
    /\ \A k \in Kinds : child[k] \in Int

LEMMA GenType == TypeOK => GenTypes
  BY ClusterControllerAssumption
     DEF GenTypes, TypeOK, Object, Status, Gens, Rendered, Legacy

LEMMA GenTypeNext == TypeOK' => GenTypes'
  BY GenType, PTL

LEMMA SingleInit == SingleWorker /\ Init => SingleInv
  <1> SUFFICES ASSUME SingleWorker, Init PROVE SingleInv
    OBVIOUS
  <1>1. IInv
    BY InitInv
  <1>2. \A w \in Workers : cache[w] = Absent /\ pc[w] = "idle" /\ ~cache[w].exists
    BY DEF Init, Absent
  <1>3. /\ obj.status.gen = 0 /\ obj.gen = 1
        /\ \A k \in Kinds : child[k] \in {0, Legacy}
    <2>1. obj.status.gen = 0 /\ obj.gen = 1
      <3>1. Absent.status.gen = 0 /\ Absent.gen = 1
        BY DEF Absent, NoStatus
      <3>2. obj.status = Absent.status /\ obj.gen = Absent.gen
        BY AbsentType DEF Init, InitCreated, InitUpgraded, Object
      <3> QED  BY <3>1, <3>2
    <2>2. \/ child = [k \in Kinds |-> 0]
          \/ child = [k \in Kinds |-> Legacy]
      BY DEF Init, InitCreated, InitUpgraded
    <2> QED  BY <2>1, <2>2
  <1>4. OrderInv
    BY <1>2, <1>3 DEF OrderInv, Legacy
  <1>5. AppliedInv
    BY <1>2, CallOrder DEF AppliedInv, Rendering, Kinds
  <1> QED  BY <1>1, <1>4, <1>5 DEF SingleInv

\* A move that respects the order preserves it.
LEMMA StepOrder ==
    ASSUME SingleInv, TypeOK', ObjMove, OrderMove,
           \A v \in Workers : WorkerMove(v) /\ CallMove(v)
    PROVE  OrderInv'
  <1>1. SingleWorker /\ OrderInv /\ GenTypes /\ GenTypes'
    BY GenType, GenTypeNext DEF SingleInv, IInv
  <1>2. ASSUME obj'.exists
        PROVE  obj.exists /\ obj'.gen >= obj.gen
    BY <1>2 DEF ObjMove, OrderMove
  \* What a worker publishes or renders has the generation of its copy.
  <1>3. ASSUME obj'.exists, NEW w \in Workers
        PROVE  pc[w] # "idle"
                 => cache[w].gen <= obj.gen /\ obj.status.gen <= cache[w].gen
    BY <1>1, <1>2, <1>3 DEF OrderInv
  <1>4. ASSUME obj'.exists
        PROVE  obj'.status.gen <= obj'.gen
    <2>1. CASE obj'.status = obj.status
      BY <1>1, <1>2, <1>4, <2>1 DEF OrderInv, GenTypes
    <2>2. ASSUME NEW w \in Workers, pc[w] # "idle", obj'.status.gen = cache[w].gen
          PROVE  obj'.status.gen <= obj'.gen
      BY <1>1, <1>2, <1>3, <1>4, <2>2 DEF GenTypes
    <2> QED  BY <1>4, <2>1, <2>2 DEF OrderMove
  <1>5. ASSUME obj'.exists, NEW k \in Kinds
        PROVE  child'[k] <= obj'.gen
    <2>1. CASE child'[k] = child[k]
      BY <1>1, <1>2, <1>5, <2>1 DEF OrderInv, GenTypes
    <2>2. ASSUME NEW w \in Workers, pc[w] # "idle", child'[k] = cache[w].gen
          PROVE  child'[k] <= obj'.gen
      BY <1>1, <1>2, <1>3, <1>5, <2>2 DEF GenTypes
    <2> QED  BY <1>2, <1>5, <2>1, <2>2 DEF OrderMove
  <1>6. ASSUME NEW v \in Workers
        PROVE  /\ pc'[v] # "idle" => cache'[v].exists
               /\ cache'[v].exists => \A k \in Kinds : child'[k] <= cache'[v].gen
               /\ cache'[v].exists /\ obj'.exists
                     => obj'.status.gen <= cache'[v].gen /\ cache'[v].gen <= obj'.gen
    <2>1. CASE cache'[v] = cache[v]
      <3>1. pc'[v] # "idle" => cache'[v].exists
        BY <1>1, <2>1 DEF CallMove, OrderInv
      <3>2. ASSUME cache[v].exists, NEW k \in Kinds
            PROVE  child'[k] <= cache[v].gen
        <4>1. CASE child'[k] = child[k]
          BY <1>1, <3>2, <4>1 DEF OrderInv
        <4>2. CASE child'[k] = 0
          BY <1>1, <4>2 DEF GenTypes
        <4>3. ASSUME NEW w \in Workers, child'[k] = cache[w].gen
              PROVE  child'[k] <= cache[v].gen
          BY <1>1, <4>3 DEF SingleWorker, GenTypes
        <4> QED  BY <4>1, <4>2, <4>3 DEF OrderMove
      <3>3. ASSUME cache[v].exists, obj'.exists
            PROVE  obj'.status.gen <= cache[v].gen /\ cache[v].gen <= obj'.gen
        <4>1. cache[v].gen <= obj.gen /\ obj.status.gen <= cache[v].gen
          BY <1>1, <1>2, <3>3 DEF OrderInv
        <4>2. cache[v].gen <= obj'.gen
          BY <1>1, <1>2, <3>3, <4>1 DEF GenTypes
        <4>3. CASE obj'.status = obj.status
          BY <4>1, <4>2, <4>3
        <4>4. ASSUME NEW w \in Workers, obj'.status.gen = cache[w].gen
              PROVE  obj'.status.gen <= cache[v].gen
          BY <1>1, <4>4 DEF SingleWorker, GenTypes
        <4> QED  BY <3>3, <4>2, <4>3, <4>4 DEF OrderMove
      <3> QED  BY <2>1, <3>1, <3>2, <3>3
    <2>2. CASE pc'[v] = "idle" /\ obj' = obj /\ cache'[v] = obj
      <3>1. cache'[v].gen <= obj'.gen
        BY <1>1, <2>2 DEF GenTypes
      <3> QED  BY <1>4, <1>5, <2>2, <3>1
    <2>3. CASE pc'[v] = "idle" /\ cache'[v] = Absent
      BY <2>3 DEF Absent
    <2> QED  BY <2>1, <2>2, <2>3 DEF WorkerMove
  <1> QED  BY <1>4, <1>5, <1>6 DEF OrderInv

LEMMA StepApplied ==
    ASSUME SingleInv, ObjMove, OrderMove,
           \A v \in Workers : WorkerMove(v) /\ CallMove(v)
    PROVE  AppliedInv'
  <1> SUFFICES ASSUME NEW v \in Workers, NEW k \in Kinds, obj'.exists, pc'[v] \in Past(k)
               PROVE  child'[k] = cache'[v].gen
    BY DEF AppliedInv, Past
  <1>1. SingleWorker /\ AppliedInv /\ obj.exists
    BY DEF SingleInv, ObjMove
  <1>2. cache'[v] = cache[v]
    BY CallOrder DEF CallMove, Rendering, Kinds
  <1>3. CASE child'[k] = cache[v].gen
    BY <1>2, <1>3
  <1>4. CASE pc[v] \in Past(k)
    <2>1. child[k] = cache[v].gen
      BY <1>1, <1>4 DEF AppliedInv
    <2>2. child'[k] = child[k] \/ \E w \in Workers : child'[k] = cache[w].gen
      BY <1>1 DEF OrderMove
    <2> QED  BY <1>1, <1>2, <2>1, <2>2 DEF SingleWorker
  <1> QED  BY <1>3, <1>4 DEF CallMove

LEMMA NextOrders ==
    ASSUME SingleInv, Next
    PROVE  /\ TypeOK' /\ ObjMove /\ StatusMove /\ OrderMove
           /\ \A v \in Workers : WorkerMove(v) /\ CallMove(v)
  <1>1. IInv /\ TypeOK
    BY DEF SingleInv, IInv
  <1>2. OrderMove /\ \A v \in Workers : CallMove(v)
    <2>1. ASSUME NEW w \in Workers, WorkerStep(w)
          PROVE  OrderMove /\ \A v \in Workers : CallMove(v)
      BY <1>1, <2>1, WorkerOrders
    <2>2. CASE EnvStep
      BY <1>1, <2>2, EnvOrders
    <2> QED  BY <2>1, <2>2 DEF Next, WorkerStep, EnvStep
  <1> QED  BY <1>1, <1>2, NextMoves DEF Move

LEMMA SingleStep == SingleInv /\ [Next]_vars => SingleInv'
  <1> SUFFICES ASSUME SingleInv, [Next]_vars PROVE SingleInv'
    OBVIOUS
  <1>1. IInv' /\ SingleWorker'
    BY StepInv DEF SingleInv, SingleWorker
  <1>2. CASE Next
    BY <1>1, <1>2, NextOrders, StepOrder, StepApplied DEF SingleInv
  <1>3. CASE UNCHANGED vars
    BY <1>1, <1>3 DEF vars, envVars, SingleInv, OrderInv, AppliedInv, Past
  <1> QED  BY <1>2, <1>3

\* One worker keeps the generations in order, and what it applied applied.
THEOREM SingleInvariance == SingleWorker /\ Spec => []SingleInv
  BY SingleInit, SingleStep, PTL DEF Spec

\* With one worker, nothing goes back to an older generation.
THEOREM NeverBack == SingleWorker /\ Spec => NoRegression
  <1>1. ASSUME SingleInv, [Next]_vars
        PROVE  /\ \A k \in Kinds : child'[k] = 0 \/ child'[k] >= child[k]
               /\ obj'.exists => obj'.status.gen >= obj.status.gen
    <2>1. SingleWorker /\ OrderInv /\ GenTypes
      BY <1>1, GenType DEF SingleInv, IInv
    <2>2. CASE Next
      <3>1. ObjMove /\ OrderMove
        BY <1>1, <2>2, NextOrders
      <3>2. ASSUME NEW k \in Kinds, child'[k] # 0
            PROVE  child'[k] >= child[k]
        <4>1. CASE child'[k] = child[k]
          BY <2>1, <4>1 DEF GenTypes
        <4>2. ASSUME NEW w \in Workers, pc[w] # "idle", child'[k] = cache[w].gen
              PROVE  child'[k] >= child[k]
          BY <2>1, <4>2 DEF OrderInv, GenTypes
        <4> QED  BY <3>1, <3>2, <4>1, <4>2 DEF OrderMove
      <3>3. ASSUME obj'.exists
            PROVE  obj'.status.gen >= obj.status.gen
        <4>1. CASE obj'.status = obj.status
          BY <2>1, <4>1 DEF GenTypes
        <4>2. ASSUME NEW w \in Workers, pc[w] # "idle", obj'.status.gen = cache[w].gen
              PROVE  obj'.status.gen >= obj.status.gen
          BY <2>1, <3>1, <3>3, <4>2 DEF ObjMove, OrderInv, GenTypes
        <4> QED  BY <3>1, <3>3, <4>1, <4>2 DEF OrderMove
      <3> QED  BY <3>2, <3>3
    <2>3. CASE UNCHANGED vars
      BY <2>1, <2>3 DEF vars, envVars, GenTypes
    <2> QED  BY <1>1, <2>2, <2>3
  <1> QED  BY <1>1, SingleInvariance, PTL DEF NoRegression, Spec

\* With one worker, Running is only said once everything was applied.
THEOREM RunningApplied == SingleWorker /\ Spec => RunningMeansApplied
  <1>1. ASSUME SingleInv, [Next]_vars, Publishes("Running")
        PROVE  \A k \in Kinds : child[k] = obj'.status.gen
    <2>1. obj'.status # obj.status /\ obj'.status.phase = "Running"
      BY <1>1 DEF Publishes
    <2>2. CASE Next
      <3>0. ObjMove /\ StatusMove
        BY <1>1, <2>2, NextOrders
      <3>1. PICK w \in Workers :
               pc[w] = "status" /\ obj'.status = observed_status(cache[w].gen, count[w])
        <4>1. obj'.status \notin {obj.status, NoStatus}
          BY <2>1 DEF NoStatus
        <4>2. \A w \in Workers : obj'.status # invalid_status(cache[w].gen)
          BY <2>1 DEF invalid_status
        <4> QED  BY <3>0, <4>1, <4>2, Zenon DEF StatusMove
      <3>2. obj.exists
        BY <2>1, <3>0 DEF ObjMove, Absent, NoStatus
      <3>3. obj'.status.gen = cache[w].gen
        BY <3>1, StatusGen
      <3> QED  BY <1>1, <3>1, <3>2, <3>3, CallOrder DEF SingleInv, AppliedInv
    <2>3. CASE UNCHANGED vars
      BY <2>1, <2>3 DEF vars
    <2> QED  BY <1>1, <2>2, <2>3
  <1> QED  BY <1>1, SingleInvariance, PTL DEF RunningMeansApplied, Spec
================================================================================
