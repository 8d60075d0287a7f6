---------------------------- MODULE UserController ----------------------------
(***************************************************************************)
(* The StreamlineUser controller (src/controllers/user.rs) for one object. *)
(*                                                                         *)
(* Users are not implemented by the server: the controller publishes one   *)
(* and the same Unsupported status for every generation of the spec, and   *)
(* drops the finalizer that earlier versions of the operator added, also   *)
(* from objects that are not being deleted.  It never requeues after a     *)
(* success, so that only the watch and errors bring it back.               *)
(*                                                                         *)
(* Workers, their caches and the API server are as in ClusterController.   *)
(* The status is its observedGeneration, the rest of it is constant, and   *)
(* its timestamps behave as in ClusterStatusUpdates.  0 is none, and       *)
(* Earlier whatever an earlier version published.                          *)
(***************************************************************************)
EXTENDS Integers

CONSTANTS
    Workers,        \* operator processes that run the controller
    MaxGeneration,  \* bound on the edits of the spec
    MaxFaults       \* bound on failed calls, restarts and other disturbances

ASSUME UserControllerAssumption ==
    MaxGeneration \in Nat \ {0} /\ MaxFaults \in Nat

VARIABLES
    obj,        \* the object: exists, gen, deleting, finalizers, status
    cache,      \* cache[w]: obj as the watch last delivered it to w
    due,        \* due[w]: a reconciliation is requested or will be requeued
    pc,         \* pc[w]: the call w makes next
    faults      \* disturbances so far

vars == <<obj, cache, due, pc, faults>>
workerVars == <<cache, due, pc>>

-------------------------------------------------------------------------------
Own     == "streamline.io/user-cleanup"     \* USER_FINALIZER
Foreign == "example.com/backup"             \* the finalizer of someone else
Earlier == -1
Object  == [exists : BOOLEAN, gen : 1..MaxGeneration, deleting : BOOLEAN,
            finalizers : SUBSET {Own, Foreign}, status : Earlier..MaxGeneration]
Absent  == [exists |-> FALSE, gen |-> 1, deleting |-> FALSE,
            finalizers |-> {}, status |-> 0]

TypeOK ==
    /\ obj \in Object
    /\ cache \in [Workers -> Object]
    /\ due \in [Workers -> BOOLEAN]
    /\ pc \in [Workers -> {"idle", "unfinalize", "status"}]
    /\ faults \in Nat

\* A new object, or one that carries the finalizer or the status of an earlier
\* version.
Init ==
    /\ \E fs \in SUBSET {Own, Foreign}, st \in {0, Earlier} :
          obj = [Absent EXCEPT !.exists = TRUE, !.finalizers = fs, !.status = st]
    /\ cache = [w \in Workers |-> Absent]
    /\ due = [w \in Workers |-> FALSE]
    /\ pc = [w \in Workers |-> "idle"]
    /\ faults = 0

Fault == faults < MaxFaults /\ faults' = faults + 1

\* The API server removes the object with its last finalizer, once it is being
\* deleted, and refuses to add a finalizer then.
Settle(o) == IF o.deleting /\ o.finalizers = {} THEN Absent ELSE o
Permits(fs) == obj.exists /\ (obj.deleting => fs \subseteq obj.finalizers)
SetFinalizers(fs) == obj' = Settle([obj EXCEPT !.finalizers = fs])

-------------------------------------------------------------------------------
At(w, p)   == pc[w] = p
Goto(w, p) == pc' = [pc EXCEPT ![w] = p] /\ UNCHANGED due
End(w, again) ==
    /\ pc' = [pc EXCEPT ![w] = "idle"]
    /\ due' = [due EXCEPT ![w] = again]

Requeue     == TRUE
AwaitChange == FALSE

Observe(w) ==
    /\ At(w, "idle") /\ cache[w] # obj
    /\ cache' = [cache EXCEPT ![w] = obj]
    /\ due' = [due EXCEPT ![w] = obj.exists]
    /\ UNCHANGED <<obj, pc, faults>>

\* Past the finalizer: nothing is left to do for a user that is being deleted.
AfterFinalizer(w) ==
    IF cache[w].deleting THEN End(w, AwaitChange) ELSE Goto(w, "status")

\* reconcile starts on the cached object.
Reconcile(w) ==
    /\ At(w, "idle") /\ due[w] /\ cache[w].exists
    /\ IF Own \in cache[w].finalizers
       THEN Goto(w, "unfinalize") ELSE AfterFinalizer(w)
    /\ UNCHANGED <<obj, cache, faults>>

\* The call took effect and yet ends with an error: the error policy requeues.
AnswerLost(w) == Fault /\ End(w, Requeue)

\* Mutant of RemoveFinalizer: the list is cleared.
RemoveFinalizerAll(w) ==
    /\ At(w, "unfinalize") /\ Permits({})
    /\ SetFinalizers({})
    /\ AfterFinalizer(w)
    /\ UNCHANGED <<cache, faults>>

\* remove_finalizer_if_present writes the finalizers it read, without its own,
\* whether the object is being deleted or not.
RemoveFinalizer(w) ==
    LET remaining == cache[w].finalizers \ {Own} IN
    /\ At(w, "unfinalize") /\ Permits(remaining)
    /\ SetFinalizers(remaining)
    /\ \/ AfterFinalizer(w) /\ UNCHANGED faults
       \/ AnswerLost(w)
    /\ UNCHANGED cache

\* Mutant of UpdateStatus: a status that says Unsupported is left as it is.
UpdateStatusOnce(w) ==
    /\ At(w, "status") /\ obj.exists
    /\ obj' = IF obj.status # 0 THEN obj ELSE [obj EXCEPT !.status = cache[w].gen]
    /\ End(w, AwaitChange)
    /\ UNCHANGED <<cache, faults>>

\* update_status_unsupported patches the status unless it read the same one.
UpdateStatus(w) ==
    /\ At(w, "status")
    /\ \/ cache[w].status = cache[w].gen /\ obj' = obj
       \/ /\ cache[w].status # cache[w].gen /\ obj.exists
          /\ obj' = [obj EXCEPT !.status = cache[w].gen]
    /\ \/ End(w, AwaitChange) /\ UNCHANGED faults
       \/ AnswerLost(w)
    /\ UNCHANGED cache

\* The API server refuses the call: the object is gone, or it is being deleted
\* and the list that was read would add a finalizer.
Refused(w) ==
    /\ \/ At(w, "unfinalize") /\ ~Permits(cache[w].finalizers \ {Own})
       \/ At(w, "status") /\ ~obj.exists /\ cache[w].status # cache[w].gen
    /\ End(w, Requeue)
    /\ UNCHANGED <<obj, cache, faults>>

\* Any other error ends the reconciliation; the error policy requeues.
Fail(w) ==
    /\ ~At(w, "idle")
    /\ Fault
    /\ End(w, Requeue)
    /\ UNCHANGED <<obj, cache>>

\* The process is replaced; the new one starts with an empty cache.
Restart(w) ==
    /\ Fault
    /\ cache' = [cache EXCEPT ![w] = Absent]
    /\ End(w, AwaitChange)
    /\ UNCHANGED obj

-------------------------------------------------------------------------------
EditSpec ==
    /\ obj.exists /\ obj.gen < MaxGeneration
    /\ obj' = [obj EXCEPT !.gen = @ + 1]
    /\ UNCHANGED <<workerVars, faults>>

RequestDeletion ==
    /\ obj.exists /\ ~obj.deleting
    /\ obj' = Settle([obj EXCEPT !.deleting = TRUE])
    /\ UNCHANGED <<workerVars, faults>>

\* Another controller puts its finalizer on the object, and takes it off.
AddForeign ==
    /\ obj.exists /\ ~obj.deleting /\ Foreign \notin obj.finalizers
    /\ Fault
    /\ SetFinalizers(obj.finalizers \cup {Foreign})
    /\ UNCHANGED workerVars

RemoveForeign ==
    /\ obj.exists /\ Foreign \in obj.finalizers
    /\ SetFinalizers(obj.finalizers \ {Foreign})
    /\ UNCHANGED <<workerVars, faults>>

User == EditSpec \/ RequestDeletion \/ AddForeign \/ RemoveForeign

Reconciliation(w) ==
    Observe(w) \/ Reconcile(w) \/ RemoveFinalizer(w) \/ UpdateStatus(w) \/ Refused(w)

Next ==
    \/ \E w \in Workers : Reconciliation(w) \/ Fail(w) \/ Restart(w)
    \/ User

Spec == Init /\ [][Next]_vars

\* Due reconciliations run and the watch delivers, also between two of them.
FairSpec ==
    Spec /\ \A w \in Workers : WF_vars(Reconciliation(w)) /\ SF_vars(Observe(w))

-------------------------------------------------------------------------------
(***************************************************************************)
(* Properties.                                                             *)
(***************************************************************************)

\* A user that is left alone ends up with the status of its last generation
\* and without the operator's finalizer, although no success is requeued and
\* a second worker may publish what it computed from an older copy.  So the
\* finalizer of an earlier version never blocks a deletion, either ("clears any
\* finalizer left by earlier versions so deletion is never blocked").
Converges ==
    <>[](obj.exists => /\ Own \notin obj.finalizers
                       /\ ~obj.deleting => obj.status = obj.gen)

\* The finalizers are written as they were read, so that one which somebody
\* else added since is lost (remove_finalizer_if_present).  Nothing else of
\* theirs is: no one that the worker has seen, and none by another step.
ForeignLostUnseenOnly ==
    [][\A w \in Workers : Foreign \in obj.finalizers /\ pc'[w] # pc[w] =>
          \/ Foreign \in obj'.finalizers
          \/ At(w, "unfinalize") /\ Foreign \notin cache[w].finalizers]_vars
================================================================================
