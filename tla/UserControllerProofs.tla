------------------------- MODULE UserControllerProofs -------------------------
(***************************************************************************)
(* Proofs about UserController, for any workers and any bounds: type       *)
(* correctness, that a status never names a generation that is still to    *)
(* come, and what may happen to the finalizers of others.                  *)
(***************************************************************************)
EXTENDS UserController, TLAPS

\* Neither a status nor a copy is ahead of the object: a copy was the object
\* once, and the generation of an object only grows while it is there.
NotAhead ==
    obj.exists => /\ obj.status <= obj.gen
                  /\ \A w \in Workers : cache[w].gen <= obj.gen

IInv == TypeOK /\ NotAhead

USE DEF Own, Foreign

LEMMA AbsentIsObject == Absent \in Object
BY UserControllerAssumption DEF Absent, Object, Earlier

\* What happens to a worker that goes on or ends.
LEMMA WorkerMoves ==
    ASSUME TypeOK, NEW w \in Workers,
           \/ \E p \in {"unfinalize", "status"} : Goto(w, p)
           \/ \E again \in BOOLEAN : End(w, again)
    PROVE  /\ due' \in [Workers -> BOOLEAN]
           /\ pc' \in [Workers -> {"idle", "unfinalize", "status"}]
           /\ \A v \in Workers \ {w} : pc'[v] = pc[v]
<1>1. CASE \E p \in {"unfinalize", "status"} : Goto(w, p)
  BY <1>1 DEF TypeOK, Goto
<1>2. CASE \E again \in BOOLEAN : End(w, again)
  BY <1>2 DEF TypeOK, End
<1> QED  BY <1>1, <1>2

LEMMA AfterFinalizerMoves ==
    ASSUME NEW w, AfterFinalizer(w)
    PROVE  \/ \E p \in {"unfinalize", "status"} : Goto(w, p)
           \/ \E again \in BOOLEAN : End(w, again)
BY DEF AfterFinalizer, AwaitChange

\* A lost answer ends the reconciliation, which is one more fault.
LEMMA AnswerLostMoves ==
    ASSUME TypeOK, NEW w \in Workers, AnswerLost(w)
    PROVE  End(w, TRUE) /\ faults' \in Nat
<1>1. End(w, TRUE)
  BY DEF AnswerLost, Requeue
<1>2. faults' \in Nat
  BY DEF AnswerLost, Fault, TypeOK
<1> QED  BY <1>1, <1>2

\* The object with other finalizers is still an object of its generation, or
\* it is gone.
LEMMA FinalizersWritten ==
    ASSUME IInv, NEW fs \in SUBSET {Own, Foreign}, obj.exists, SetFinalizers(fs)
    PROVE  /\ obj' \in Object
           /\ obj'.exists => obj'.gen = obj.gen /\ obj'.status = obj.status
           /\ Foreign \in fs => Foreign \in obj'.finalizers
<1> DEFINE o == [obj EXCEPT !.finalizers = fs]
<1>1. o \in Object /\ o.gen = obj.gen /\ o.status = obj.status /\ o.finalizers = fs
  BY DEF IInv, TypeOK, Object
<1>2. CASE obj' = Absent /\ fs = {}
  BY <1>2, AbsentIsObject DEF Absent
<1>3. CASE obj' = o
  BY <1>1, <1>3
<1> QED  BY <1>1, <1>2, <1>3 DEF SetFinalizers, Settle

LEMMA EditKeeps ==
    ASSUME IInv, obj.exists, NEW g \in 1..MaxGeneration, obj.gen <= g,
           obj' = [obj EXCEPT !.gen = g], UNCHANGED cache
    PROVE  obj' \in Object /\ NotAhead'
<1>1. obj' \in Object /\ obj'.status = obj.status /\ obj'.gen = g
  BY DEF IInv, TypeOK, Object
<1>2. \A w \in Workers : cache[w] \in Object
  BY DEF IInv, TypeOK
<1>3. ASSUME NEW w \in Workers PROVE cache'[w].gen <= g
  BY <1>2 DEF IInv, NotAhead, TypeOK, Object
<1>4. obj.status <= g
  BY DEF IInv, NotAhead, TypeOK, Object
<1> QED  BY <1>1, <1>3, <1>4 DEF NotAhead

\* An object that keeps generation and status, or goes, beside the same copies.
LEMMA NotAheadKept ==
    ASSUME IInv, UNCHANGED cache,
           obj'.exists => obj.exists /\ obj'.gen = obj.gen /\ obj'.status = obj.status
    PROVE  NotAhead'
BY DEF IInv, NotAhead

-------------------------------------------------------------------------------
\* Each step of a worker preserves the invariant ...
LEMMA WorkerInvariant ==
    ASSUME IInv, NEW w \in Workers, Reconciliation(w) \/ Fail(w) \/ Restart(w)
    PROVE  IInv'
<1> USE DEF IInv
<1>1. CASE Observe(w)
  <2>1. TypeOK'
    BY <1>1 DEF Observe, TypeOK, Object
  <2>2. NotAhead'
    <3> SUFFICES ASSUME obj'.exists, NEW v \in Workers PROVE cache'[v].gen <= obj.gen
      BY <1>1 DEF Observe, NotAhead
    <3>1. cache'[v] = obj \/ cache'[v] = cache[v]
      BY <1>1 DEF Observe, TypeOK
    <3> QED  BY <1>1, <3>1 DEF Observe, NotAhead, TypeOK, Object
  <2> QED  BY <2>1, <2>2
<1>2. CASE Reconcile(w)
  <2>1. \/ \E p \in {"unfinalize", "status"} : Goto(w, p)
        \/ \E again \in BOOLEAN : End(w, again)
    BY <1>2, AfterFinalizerMoves DEF Reconcile
  <2>2. TypeOK'
    BY <1>2, <2>1, WorkerMoves DEF Reconcile, TypeOK
  <2> QED  BY <1>2, <2>2, NotAheadKept DEF Reconcile
<1>3. CASE RemoveFinalizer(w)
  <2>1. obj.exists /\ SetFinalizers(cache[w].finalizers \ {Own})
    BY <1>3 DEF RemoveFinalizer, Permits
  <2>2. cache[w].finalizers \ {Own} \in SUBSET {Own, Foreign}
    BY DEF TypeOK, Object
  <2>3. /\ obj' \in Object
        /\ obj'.exists => obj'.gen = obj.gen /\ obj'.status = obj.status
    BY <2>1, <2>2, FinalizersWritten
  <2>4. TypeOK'
    <3>1. CASE AfterFinalizer(w) /\ UNCHANGED faults
      BY <1>3, <2>3, <3>1, AfterFinalizerMoves, WorkerMoves DEF RemoveFinalizer, TypeOK
    <3>2. CASE AnswerLost(w)
      BY <1>3, <2>3, <3>2, AnswerLostMoves, WorkerMoves DEF RemoveFinalizer, TypeOK
    <3> QED  BY <1>3, <3>1, <3>2 DEF RemoveFinalizer
  <2> QED  BY <1>3, <2>1, <2>3, <2>4, NotAheadKept DEF RemoveFinalizer
<1>4. CASE UpdateStatus(w)
  <2>1. (\E again \in BOOLEAN : End(w, again)) /\ faults' \in Nat /\ UNCHANGED cache
    BY <1>4, AnswerLostMoves DEF UpdateStatus, AwaitChange, TypeOK
  <2>2. cache[w] \in Object
    BY DEF TypeOK
  <2>3. CASE obj' = obj
    BY <2>1, <2>3, WorkerMoves, NotAheadKept DEF TypeOK
  <2>4. CASE obj.exists /\ obj' = [obj EXCEPT !.status = cache[w].gen]
    <3>1. obj' \in Object /\ obj'.gen = obj.gen /\ obj'.status = cache[w].gen
      BY <2>2, <2>4, UserControllerAssumption DEF TypeOK, Object, Earlier
    <3>2. TypeOK'
      BY <2>1, <3>1, WorkerMoves DEF TypeOK
    <3> QED  BY <2>1, <2>4, <3>1, <3>2 DEF NotAhead
  <2> QED  BY <1>4, <2>3, <2>4 DEF UpdateStatus
<1>5. CASE Refused(w)
  <2>1. TypeOK'
    BY <1>5, WorkerMoves DEF Refused, Requeue, TypeOK
  <2> QED  BY <1>5, <2>1, NotAheadKept DEF Refused
<1>6. CASE Fail(w)
  <2>1. End(w, TRUE) /\ UNCHANGED <<obj, cache>>
    BY <1>6 DEF Fail, Requeue
  <2>2. faults' \in Nat
    BY <1>6 DEF Fail, Fault, TypeOK
  <2>3. TypeOK'
    BY <2>1, <2>2, WorkerMoves DEF TypeOK
  <2> QED  BY <2>1, <2>3, NotAheadKept
<1>7. CASE Restart(w)
  <2>1. TypeOK'
    <3>1. End(w, FALSE) /\ UNCHANGED obj
      BY <1>7 DEF Restart, AwaitChange
    <3>2. faults' \in Nat
      BY <1>7 DEF Restart, Fault, TypeOK
    <3>3. cache' \in [Workers -> Object]
      BY <1>7, AbsentIsObject DEF Restart, TypeOK
    <3> QED  BY <3>1, <3>2, <3>3, WorkerMoves DEF TypeOK
  <2>2. ASSUME obj.exists, NEW v \in Workers PROVE cache'[v].gen <= obj.gen
    <3>1. cache'[v] = Absent \/ cache'[v] = cache[v]
      BY <1>7 DEF Restart, TypeOK
    <3> QED  BY <2>2, <3>1 DEF Absent, NotAhead, TypeOK, Object
  <2> QED  BY <1>7, <2>1, <2>2 DEF Restart, NotAhead
<1> QED  BY <1>1, <1>2, <1>3, <1>4, <1>5, <1>6, <1>7 DEF Reconciliation

\* ... and so does everything else.
LEMMA UserInvariant ==
    ASSUME IInv, User
    PROVE  IInv'
<1> USE DEF IInv
<1>1. CASE EditSpec
  <2>1. obj.gen + 1 \in 1..MaxGeneration /\ obj.gen <= obj.gen + 1
    BY <1>1, UserControllerAssumption DEF EditSpec, TypeOK, Object
  <2>2. obj' \in Object /\ NotAhead'
    BY <1>1, <2>1, EditKeeps DEF EditSpec, workerVars
  <2> QED  BY <1>1, <2>2 DEF EditSpec, TypeOK, workerVars
<1>2. CASE RequestDeletion
  <2> DEFINE o == [obj EXCEPT !.deleting = TRUE]
  <2>1. o \in Object /\ o.gen = obj.gen /\ o.status = obj.status
    BY DEF TypeOK, Object
  <2>2. obj' = o \/ obj' = Absent
    BY <1>2 DEF RequestDeletion, Settle
  <2>3. /\ obj' \in Object
        /\ obj'.exists => obj'.gen = obj.gen /\ obj'.status = obj.status
    <3>1. CASE obj' = o
      BY <2>1, <3>1
    <3>2. CASE obj' = Absent
      BY <3>2, AbsentIsObject DEF Absent
    <3> QED  BY <2>2, <3>1, <3>2
  <2>4. TypeOK'
    BY <1>2, <2>3 DEF RequestDeletion, TypeOK, workerVars
  <2> QED  BY <1>2, <2>3, <2>4, NotAheadKept DEF RequestDeletion, workerVars
<1>3. ASSUME NEW fs \in SUBSET {Own, Foreign}, obj.exists, SetFinalizers(fs),
             UNCHANGED workerVars, faults' \in Nat
      PROVE  IInv'
  <2>1. /\ obj' \in Object
        /\ obj'.exists => obj'.gen = obj.gen /\ obj'.status = obj.status
    BY <1>3, FinalizersWritten
  <2>2. TypeOK'
    BY <1>3, <2>1 DEF TypeOK, workerVars
  <2> QED  BY <1>3, <2>1, <2>2, NotAheadKept DEF workerVars
<1>4. obj.finalizers \in SUBSET {Own, Foreign} /\ faults \in Nat
  BY DEF TypeOK, Object
<1>5. CASE AddForeign
  BY <1>3, <1>4, <1>5 DEF AddForeign, Fault
<1>6. CASE RemoveForeign
  BY <1>3, <1>4, <1>6 DEF RemoveForeign
<1> QED  BY <1>1, <1>2, <1>5, <1>6 DEF User

\* Every reachable state is well typed, and no copy and no status is ahead of
\* the object.
THEOREM Invariance == Spec => []IInv
<1>1. Init => IInv
  <2> SUFFICES ASSUME Init PROVE IInv
    OBVIOUS
  <2>1. PICK fs \in SUBSET {Own, Foreign}, st \in {0, Earlier} :
           obj = [Absent EXCEPT !.exists = TRUE, !.finalizers = fs, !.status = st]
    BY DEF Init
  <2>2. obj \in Object /\ obj.status <= obj.gen /\ obj.gen = 1
    <3>1. obj = [exists |-> TRUE, gen |-> 1, deleting |-> FALSE,
                 finalizers |-> fs, status |-> st]
      BY <2>1 DEF Absent
    <3> QED  BY <3>1, UserControllerAssumption DEF Object, Earlier
  <2>3. \A w \in Workers : cache[w] = Absent
    BY DEF Init
  <2>4. TypeOK
    BY <2>2, AbsentIsObject DEF Init, TypeOK
  <2> QED  BY <2>2, <2>3, <2>4 DEF IInv, NotAhead, Absent
<1>2. IInv /\ [Next]_vars => IInv'
  <2> SUFFICES ASSUME IInv, [Next]_vars PROVE IInv'
    OBVIOUS
  <2>1. CASE UNCHANGED vars
    BY <2>1 DEF vars, IInv, TypeOK, NotAhead
  <2> QED  BY <2>1, WorkerInvariant, UserInvariant DEF Next
<1> QED  BY <1>1, <1>2, PTL DEF Spec

\* The operator's write of the finalizers loses no finalizer of somebody else
\* that its copy shows, and no other step of it loses one at all.
THEOREM ForeignLost == Spec => ForeignLostUnseenOnly
<1>1. IInv /\ [Next]_vars
         => [\A w \in Workers : Foreign \in obj.finalizers /\ pc'[w] # pc[w] =>
               \/ Foreign \in obj'.finalizers
               \/ At(w, "unfinalize") /\ Foreign \notin cache[w].finalizers]_vars
  <2> SUFFICES ASSUME IInv, Next, NEW w \in Workers,
                      Foreign \in obj.finalizers, pc'[w] # pc[w]
               PROVE  \/ Foreign \in obj'.finalizers
                      \/ At(w, "unfinalize") /\ Foreign \notin cache[w].finalizers
    OBVIOUS
  <2> USE DEF IInv
  <2>1. ~User
    BY DEF User, EditSpec, RequestDeletion, AddForeign, RemoveForeign, workerVars
  <2>2. PICK v \in Workers : Reconciliation(v) \/ Fail(v) \/ Restart(v)
    BY <2>1 DEF Next
  <2>3. CASE RemoveFinalizer(v)
    <3>1. obj.exists /\ SetFinalizers(cache[v].finalizers \ {Own})
      BY <2>3 DEF RemoveFinalizer, Permits
    <3>2. v = w
      <4>1. CASE AfterFinalizer(v)
        BY <4>1, AfterFinalizerMoves, WorkerMoves
      <4>2. CASE AnswerLost(v)
        BY <4>2, AnswerLostMoves, WorkerMoves
      <4> QED  BY <2>3, <4>1, <4>2 DEF RemoveFinalizer
    <3>3. cache[v].finalizers \ {Own} \in SUBSET {Own, Foreign}
      BY DEF TypeOK, Object
    <3>4. CASE Foreign \in cache[v].finalizers
      <4>1. Foreign \in cache[v].finalizers \ {Own}
        BY <3>4
      <4> QED  BY <3>1, <3>3, <4>1, FinalizersWritten
    <3>5. CASE Foreign \notin cache[v].finalizers
      BY <2>3, <3>2, <3>5 DEF RemoveFinalizer
    <3> QED  BY <3>4, <3>5
  <2>4. CASE ~RemoveFinalizer(v)
    <3>1. CASE UpdateStatus(v)
      BY <3>1 DEF UpdateStatus, TypeOK, Object
    <3>2. CASE ~UpdateStatus(v)
      BY <2>2, <2>4, <3>2
         DEF Reconciliation, Observe, Reconcile, Refused, Fail, Restart
    <3> QED  BY <3>1, <3>2
  <2> QED  BY <2>3, <2>4
<1> QED  BY <1>1, Invariance, PTL DEF Spec, ForeignLostUnseenOnly
================================================================================
