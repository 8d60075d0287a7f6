-------------------------- MODULE ClusterStatusUpdates --------------------------
(***************************************************************************)
(* How the status of one StreamlineCluster evolves while the controller    *)
(* publishes it (patch_status_if_changed of src/controllers/cluster.rs).   *)
(*                                                                         *)
(* The controller reads the object from its watch cache, which may lag     *)
(* behind the object, its own last status patch included; it counts the    *)
(* ready pods afresh, and it patches the status only when the new one      *)
(* differs from the one it read.  One reconciliation is one step here:     *)
(* ClusterController takes its calls apart.                                *)
(***************************************************************************)
EXTENDS ClusterStatus, FiniteSets

CONSTANTS
    Specs,          \* <<replicas, errors>> of the specs a user may write
    MaxGeneration,  \* bound on the edits of the spec
    MaxReady,       \* bound on the ready pods
    MaxTime         \* bound on the clock

\* The replicas of a spec are any i32 (a rejected spec may hold a negative one).
ASSUME ClusterStatusAssumption ==
    /\ Specs \subseteq Int \X Nat
    /\ MaxGeneration \in Nat /\ MaxReady \in Nat /\ MaxTime \in Nat

VARIABLES
    object,     \* the object in the API server, without its status
    status,     \* its status
    cache,      \* the copy in the watch cache: [object, status]
    ready,      \* the pods that are ready
    now         \* the clock, in seconds

vars == <<object, status, cache, ready, now>>

Init ==
    /\ \E s \in Specs : object = Object(1, s[1], s[2])
    /\ status = NoStatus
    /\ cache = [object |-> object, status |-> status]
    /\ ready = 0
    /\ now = 1

\* The user edits the spec.
Edit ==
    /\ object.generation < MaxGeneration
    /\ \E s \in Specs :
          /\ s # <<object.replicas, object.errors>>
          /\ object' = Object(object.generation + 1, s[1], s[2])
    /\ UNCHANGED <<status, cache, ready, now>>

PodsChange ==
    /\ ready' \in 0..MaxReady \ {ready}
    /\ UNCHANGED <<object, status, cache, now>>

Tick == now < MaxTime /\ now' = now + 1 /\ UNCHANGED <<object, status, cache, ready>>

\* The watch delivers the object.
Observe ==
    /\ cache' = [object |-> object, status |-> status]
    /\ cache' # cache
    /\ UNCHANGED <<object, status, ready, now>>

\* A merge patch replaces every field: none of them is skipped when empty.
patch_status_if_changed(new) ==
    status' = IF new = cache.status THEN status ELSE new

Reconcile ==
    /\ patch_status_if_changed(desired_status(cache.object, cache.status, ready, now))
    /\ UNCHANGED <<object, cache, ready, now>>

Next == Edit \/ PodsChange \/ Tick \/ Observe \/ Reconcile

Spec == Init /\ [][Next]_vars

-------------------------------------------------------------------------------
(***************************************************************************)
(* Properties.                                                             *)
(***************************************************************************)
Types == {"Ready", "Available", "Progressing", "Degraded"}

\* The condition of a type in a status, as a function of the status.
Of(st, type) ==
    LET i == CHOOSE i \in DOMAIN st.conditions : st.conditions[i].type = type
    IN  st.conditions[i]

\* Whatever sequence of statuses was published before, a status has exactly
\* one condition of every type (set_condition on the seeded list), and phase
\* and conditions tell one story, also right after the spec turned from rejected
\* to accepted or back.
ConditionsAgree ==
    status # NoStatus =>
        LET is(t, v) == Of(status, t).status = v IN
        /\ Len(status.conditions) = Cardinality(Types)
        /\ {status.conditions[i].type : i \in DOMAIN status.conditions} = Types
        /\ status.phase = "Running" <=> is("Ready", "True")
        /\ is("Ready", "True") <=> is("Degraded", "False")
        /\ is("Available", "True") <=> status.readyReplicas > 0
        /\ is("Progressing", "False") <=> status.phase \in {"Running", "Failed"}
        /\ status.phase = "Failed" <=>
              \A t \in Types : Of(status, t).reason = "InvalidSpec"

\* A reconciliation that sees the published status and finds nothing new
\* writes nothing, so a status patch does not trigger the next one: no write
\* differs from what it replaces in timestamps only.
Semantic(st) ==
    [st EXCEPT !.lastUpdated = 0,
               !.conditions = [i \in DOMAIN st.conditions |->
                                 [st.conditions[i] EXCEPT !.lastTransitionTime = 0]]]
NoTimestampOnlyWrite ==
    [][cache.status = status /\ status' # status
          => Semantic(status') # Semantic(status)]_vars

\* However old the copy is: the transition time of a condition moves exactly
\* when the condition's status differs from the one in the copy, is otherwise
\* the copy's, and lastUpdated moves with every write.  With an up-to-date copy
\* these are the transitions that were published; of one that the copy does not
\* show, an older time is written again.
TransitionTimesTellTheTruth ==
    [][cache.status # NoStatus /\ status' # status =>
          /\ status'.lastUpdated = now
          /\ \A t \in Types :
                Of(status', t).lastTransitionTime =
                   IF Of(status', t).status # Of(cache.status, t).status
                   THEN now ELSE Of(cache.status, t).lastTransitionTime]_vars
================================================================================
