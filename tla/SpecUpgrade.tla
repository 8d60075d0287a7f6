----------------------------- MODULE SpecUpgrade -----------------------------
(***************************************************************************)
(* A StreamlineCluster or StreamlineTopic that was created against the     *)
(* CRDs of v0.3.0, on its way to a spec that this operator accepts.        *)
(*                                                                         *)
(* The API server fills in schema defaults on every write, after a patch   *)
(* has been merged, and on every read; it uses the CRD that is installed   *)
(* at that time.  The operator reads the spec, rejects or accepts it, and  *)
(* publishes with a rejection what to do.  It never writes the spec.       *)
(* Users edit specs, follow the advice, install the corrected CRDs and     *)
(* roll them back, in any order.                                           *)
(***************************************************************************)
EXTENDS TopicSpec, BrokerRendering

CONSTANTS
    ClusterEdits,   \* ClusterEdits[f]: the values users write into leaf f
    TopicEdits,     \* TopicEdits[f]: the same for topics
    MaxEdits,       \* MaxEdits[k]: bound on the edits of a resource of kind k
    MaxRollbacks    \* bound on the times the old CRDs are installed again

\* Users write values of the right type, or take the leaf away.
ASSUME SpecUpgradeAssumption ==
    /\ DOMAIN ClusterEdits \subseteq ClusterLeaves
    /\ \A f \in DOMAIN ClusterEdits : ClusterEdits[f] \subseteq ClusterTypes[f] \cup {Absent}
    /\ DOMAIN TopicEdits \subseteq TopicLeaves
    /\ \A f \in DOMAIN TopicEdits : TopicEdits[f] \subseteq TopicTypes[f] \cup {Absent}
    /\ MaxEdits \in [{"cluster", "topic"} -> Nat] /\ MaxRollbacks \in Nat

VARIABLES
    kind,       \* "cluster" or "topic"
    crd,        \* the CRDs installed: "v0.3.0" or "corrected"
    stored,     \* stored[f]: the value of leaf f in etcd
    blocks,     \* the nested objects that are present in etcd
    injected,   \* the leaves that v0.3.0's CRD filled in, and nobody wrote since
    advice,     \* the rejections published in the status
    accepted,   \* the spec last handed on to rendering
    edits, rollbacks

vars == <<kind, crd, stored, blocks, injected, advice, accepted, edits, rollbacks>>

-------------------------------------------------------------------------------
(***************************************************************************)
(* The API server.                                                         *)
(***************************************************************************)
Defaults  == IF kind = "cluster" THEN ClusterDefaults ELSE TopicDefaults
Leaves    == DOMAIN Defaults
Parent(f) == IF kind = "cluster" THEN TopLevel ELSE TopicParent[f]

\* Where the CRDs of v0.3.0 differ from the defaults of this operator.
OldDefaults ==
    [replicas |-> 3, podAntiAffinity |-> TRUE, replicationFactor |-> 2,
     retentionMs |-> 604800000, minInsyncReplicas |-> 1, maxMessageBytes |-> 1048576]

Default(c, f) ==
    IF c = "v0.3.0" /\ f \in DOMAIN OldDefaults THEN OldDefaults[f] ELSE Defaults[f]

\* The corrected CRD of topics has defaults for the blocks, too.
SchemaBlocks(c) ==
    IF kind = "topic" /\ c = "corrected" THEN {"retention", "config"} ELSE {}

\* Defaults are only filled in where the surrounding object is present.
Fills(f, s, b)     == s[f] = Absent /\ Parent(f) \in b \cup {TopLevel}
Defaulted(c, s, b) == [f \in Leaves |-> IF Fills(f, s, b) THEN Default(c, f) ELSE s[f]]

\* A merged document s with blocks b is stored.
Write(s, b, written) ==
    LET bs     == b \cup SchemaBlocks(crd)
        filled == {f \in Leaves \cap DOMAIN OldDefaults : Fills(f, s, bs)}
    IN  /\ stored' = Defaulted(crd, s, bs)
        /\ blocks' = bs
        /\ injected' = IF crd = "v0.3.0" THEN (injected \ written) \cup filled
                       ELSE injected \ (written \cup filled)

\* What the operator reads: a leaf that is still missing has its serde default.
ViewOf(f) == LET read == IF Fills(f, stored, blocks) THEN Default(crd, f) ELSE stored[f]
             IN  IF read = Absent THEN Defaults[f] ELSE read
View == [f \in Leaves |-> ViewOf(f)]

-------------------------------------------------------------------------------
Init ==
    /\ kind \in {"cluster", "topic"}
    /\ crd = "v0.3.0"
    \* The manifest opened some of the blocks.
    /\ blocks \in SUBSET (IF kind = "topic" THEN {"retention", "config"} ELSE {})
    /\ stored = Defaulted(crd, [f \in Leaves |-> Absent], blocks)
    /\ injected = {f \in DOMAIN OldDefaults \cap Leaves : stored[f] # Absent}
    /\ advice = {}
    /\ accepted = Absent
    /\ edits = 0 /\ rollbacks = 0

Opened(f) == IF Parent(f) = TopLevel THEN {} ELSE {Parent(f)}

\* A user writes a value into a leaf, or takes the leaf away.
EditField(f, v) ==
    /\ edits < MaxEdits[kind] /\ stored[f] # v
    /\ edits' = edits + 1
    /\ Write([stored EXCEPT ![f] = v], blocks \cup Opened(f), {f})
    /\ UNCHANGED <<kind, crd, advice, accepted, rollbacks>>

InstallCrds ==
    /\ crd = "v0.3.0"
    /\ crd' = "corrected"
    /\ UNCHANGED <<kind, stored, blocks, injected, advice, accepted, edits, rollbacks>>

RollBackCrds ==
    /\ crd = "corrected" /\ rollbacks < MaxRollbacks
    /\ crd' = "v0.3.0"
    /\ rollbacks' = rollbacks + 1
    /\ UNCHANGED <<kind, stored, blocks, injected, advice, accepted, edits>>

\* JSON merge patch: the leaf, or the whole block, is set or deleted.
Merged(p) ==
    IF p.whole_block
    THEN [f \in Leaves |-> IF Parent(f) = p.parent THEN Absent ELSE stored[f]]
    ELSE [stored EXCEPT ![p.leaf] = p.value]

\* A user runs the command of a rejection, however old that is.
FollowAdvice(r) ==
    /\ r \in advice /\ r.advice # Absent
    /\ Write(Merged(r.advice.patch), blocks \cup Opened(r.field), {r.field})
    /\ UNCHANGED <<kind, crd, advice, accepted, edits, rollbacks>>

Rejections(s) == IF kind = "cluster" THEN validate(s) ELSE unsupported_fields(s)

\* The controllers of clusters and topics: a rejected spec is reported with
\* all its rejections and not rendered, an accepted one is rendered.
Reconcile ==
    /\ advice' = Rejections(View)
    /\ accepted' = IF Rejections(View) = {} THEN View ELSE accepted
    /\ UNCHANGED <<kind, crd, stored, blocks, injected, edits, rollbacks>>

Edits == IF kind = "cluster" THEN ClusterEdits ELSE TopicEdits

Next ==
    \/ \E f \in DOMAIN Edits : \E v \in Edits[f] : EditField(f, v)
    \/ InstallCrds \/ RollBackCrds \/ Reconcile
    \/ \E r \in advice : FollowAdvice(r)

\* The operator reconciles, and the user ends up installing the corrected CRDs
\* and following each advice that keeps being given.
FollowsField(f) == \E r \in advice : r.field = f /\ FollowAdvice(r)
Fairness ==
    /\ WF_vars(Reconcile) /\ WF_vars(InstallCrds)
    /\ \A f \in DOMAIN LEGACY_DEFAULTS : SF_vars(FollowsField(f))

Spec     == Init /\ [][Next]_vars
FairSpec == Spec /\ Fairness

-------------------------------------------------------------------------------
(***************************************************************************)
(* Properties.                                                             *)
(***************************************************************************)
Advised == {r.field : r \in {q \in Rejections(View) : q.advice # Absent}}

\* Whoever follows the published advice, field by field and in whatever order
\* with the installation of the CRDs, gets rid of every rejection that comes
\* with advice (the upgrade path of src/upgrade.rs).
AdviceConverges == <>[](Advised = {})

\* A patch that is applied as its text says, after the corrected CRDs where it
\* asks for them, sticks: its field is not rejected in what was just written
\* (needs_corrected_crds_first).
PatchSticks ==
    [][\A r \in advice :
          FollowAdvice(r) /\ (r.advice.crds_first => crd = "corrected")
              => r.field \notin Advised']_vars

\* A patch leaves every other setting in place (merge_patch is nested to the
\* leaf).
AdviceKeepsSiblings ==
    [][\A r \in advice : FollowAdvice(r) =>
          \A f \in Leaves \ {r.field} : stored[f] # Absent => stored'[f] = stored[f]]_vars

\* A value that v0.3.0 filled in and nobody wrote since is never rejected
\* without saying where it comes from, whatever was edited, installed and
\* rolled back.  And where a rejection says so, it is what v0.3.0 filled in, and
\* there: in every resource, or in the block, which this resource has opened.
\* (Not promised is that a user did not write the same value:
\* observed_is_legacy compares values, not who wrote them.)
InjectedIsExplained ==
    \A r \in Rejections(View) :
        /\ r.field \in injected => r.advice # Absent /\ r.advice.provenance # "none"
        /\ r.advice # Absent /\ r.advice.provenance # "none" =>
              /\ View[r.field] = OldDefaults[r.field]
              /\ r.advice.provenance = "every resource" <=> Parent(r.field) = TopLevel
              /\ Parent(r.field) \in blocks \cup {TopLevel}

Renders == kind = "cluster" /\ accepted # Absent

\* The brokers of an accepted cluster can be reached, unless the user's own
\* variables move them (Reachable), and get all of their environment
\* (EnvironmentKept).
BrokersAreWired == Renders => Reachable(accepted) /\ EnvironmentKept(accepted)

\* They find the files that their configuration names.
FilesAreMounted == Renders => FilesMounted(accepted)

\* What the operator makes of an accepted spec: the four objects, or the
\* request that creates a topic.
Effect(s) == IF kind = "cluster" THEN [objects |-> render(s)] ELSE [partitions |-> s.partitions]

\* The settings that are accepted and have no effect, with the value they are
\* as good as: metricsEnabled, switched off blocks, a CA Secret without mTLS
\* and an unknown update strategy.
Effective(s) ==
    IF kind = "topic" THEN s ELSE
    [s EXCEPT
        !.metricsEnabled = TRUE, !.autoscaling = Absent,
        !.updateStrategy = build_update_strategy(@),
        !.tls = IF ~Tls(s) THEN Absent
                ELSE IF Mtls(s) THEN @ ELSE [@ EXCEPT !.caSecretName = Absent]]

\* No other setting is silently dropped: between two accepted specs, an edit
\* has an effect (the promise of validate and unsupported_fields to reject
\* what is not rendered).
EditsTakeEffect ==
    [][accepted # Absent /\ Effective(accepted') # Effective(accepted)
          => Effect(accepted') # Effect(accepted)]_vars
==============================================================================
