# Verification of the Streamline Kubernetes operator

TLA+ specifications of the operator, the TLC runs that check them and the TLAPS
proofs about them. Paths below are relative to the repository (`src/main.rs`,
`src/controllers/cluster.rs`, ...). `PROJECT.json` maps every definition to the
lines it models and lists runs, mutants, hazards, findings and theorems.

- [The system](#the-system)
- [The modules and how they correspond to the code](#the-modules-and-how-they-correspond-to-the-code)
- [What the runs check](#what-the-runs-check)
- [Fairness](#fairness)
- [What is proved](#what-is-proved)
- [What the code does that its text does not say](#what-the-code-does-that-its-text-does-not-say)
- [Assumptions about the API server](#assumptions-about-the-api-server)
- [What is not modelled](#what-is-not-modelled)
- [Plan](#plan)

## The system

One process, usually in several replicas, of which one leads and runs three
controllers. Everything it shares with the world is in the Kubernetes API server
(the Lease, the custom resources, the objects it owns) and in the Streamline
servers (topics). Nothing is persisted by the process.

| component | state | operations | hard part | correct when |
|---|---|---|---|---|
| leader election (`leader_election.rs`) | the Lease: holder, renewTime, resourceVersion; nothing in the process | `acquire` / `try_acquire` / `is_expired` / `create_lease` / `update_lease`, `renew`, `release` | two tasks per replica, several replicas, clocks that differ, calls that time out and are applied later, crashes | it is a lock: those who may believe they hold the Lease never overlap; only the holder clears it; somebody leads again after every failure |
| operator process (`main.rs`) | renewal task, controller tasks, what `select!` waits for | start, lead, lose the lease, a controller ends, ctrl-c, shut down, release | the renewal task outlives the `select!`; nothing bounds a call to `renew` | a replica that lost the Lease stops its controllers |
| probe flags (`health.rs`) | `ready`, `leader` | `mark_ready`, `mark_unready`, `mark_leader`, `mark_standby` | written by several tasks in any order | `/leaderz` says leader only from the moment the Lease is acquired to the shutdown; when a task ends the flag goes, at the latest when `main` notices |
| cluster controller (`controllers/cluster.rs`, `mod.rs`) | a watch cache; the work queue; owned ConfigMap, Services, StatefulSet, a left-over HPA, volume claims, the status | `reconcile` (about ten API calls in a row), `handle_deletion`, the error policy | the copy it works from is old; every call may fail; another worker may overlap; the StatefulSet controller acts in between; applies may be refused for the owner of a field | data is deleted on request only; the finalizer is there before anything it guards; Running is said only of what was applied; it converges; deletions complete |
| cluster status (`conditions.rs`, status builders of `cluster.rs`) | condition list, `lastUpdated`, `observedGeneration` | `set_condition`, `with_stable_timestamp`, `patch_status_if_changed` | edited in place over long sequences, seeded from an old copy | conditions consistent with the phase; no write without news, so no loop of writes and events |
| cluster spec validation (`crd/cluster.rs`) | - | `ClusterSpec::validate`, `EnvVar::resolve_source` | far apart from the rendering that relies on it | what it accepted can be rendered, and what is not rendered is rejected |
| rendering (`controllers/cluster.rs`) | - | `render_config`, `build_statefulset`, services, volumes, mounts, environment | paths, ports and names that are written in five places | brokers find their files, are reached on the ports they listen on, and get their environment |
| upgrade advice (`upgrade.rs`) | a table; the values that the CRDs of v0.3.0 left in resources | `remediation_for`, `remediation_for_value`, patches | the API server fills defaults in again on every write | following the advice ends, sticks, and spares the settings around it |
| topic spec (`crd/topic.rs`, `unsupported_fields`) | - | defaults, what the server cannot apply | - | as for the cluster spec |
| topic controller (`controllers/topic.rs`) | as the cluster controller, and the topic on a server that has create and delete but no update | `reconcile`, `create_or_update_topic`, `fetch_topic_state`, `evaluate_sync`, `handle_deletion` | HTTP calls that fail before, after or long after they are executed; answers that leave fields out; clusters that come and go | Synced=True is said only of what was verified; unsupported specs create nothing; what is on a server is under the finalizer |
| user controller (`controllers/user.rs`) | as above | `reconcile`, `remove_finalizer_if_present`, `update_status_unsupported` | nothing is requeued after a success | the old finalizer goes and the status follows the spec all the same |
| HPA and recommendation (`controllers/autoscaling.rs`) | the HPA | `reconcile_hpa`, `delete_hpa`, `build_hpa`, `generate_recommendation` | other writers of the same field; integer divisions, narrowing, clamps | no HPA scales a cluster that supports one broker; recommendations settle |
| scale to zero, KEDA (`controllers/scale_to_zero.rs`) | the time of the last scale-up, the ScaledObject | `build_activity_snapshot`, `evaluate`, `apply_scale_action`, `reconcile_keda_scaled_object`, `delete_keda_scaled_object` | a second writer of `.spec.replicas`; a decision that is applied later than it was taken | a cluster sleeps only when it is quiet, wakes for its clients, and is not woken by a reconciliation |
| operator hub (`controllers/operator_hub.rs`) | the map of installed companion operators, behind a RwLock | `install`, `uninstall`, `upgrade`, `check_updates`, `stats` | `install` checks under the read lock and inserts under a later write lock | the capacity is exceeded by overlapping installs only, and by how much |
| metrics, other CRDs, HTTP servers, command line tools | counters, schemas | - | - | no behaviour that others depend on |

Interactions: `main` starts the renewal task and the three controllers once
`acquire` returned, and ends them when any of them ends. The cluster controller
publishes `readyReplicas` and `brokerEndpoints`, which the topic controller reads
before it calls the server. All controllers work from watch caches and write
with merge patches (status, finalizer removal) or server-side apply (finalizer,
owned objects), neither of which carries a resourceVersion: only the Lease is
written with optimistic concurrency. Validation stands between every read of a
cluster spec and its rendering, and publishes advice with what it rejects. The
replicas of the StatefulSet are written by the cluster controller, by an HPA or
KEDA and by the scale-to-zero loop.

## The modules and how they correspond to the code

`LeaderElection.tla` models election, process and flags for a set `Replicas`.
Every replica has a main task (`main[r]`) and a renewal task (`renewer[r]`), with
one action per call: `AcquireGet`, `AcquireCreate`, `AcquireTake`, `AcquireWait`,
`AcquireRefused` are the ways through `try_acquire`; `RenewGet`, `RenewPut`,
`RenewKept`, `RenewLost` the renewal; `ReleaseGet`, `ReleaseSkip`, `ReleaseError`
the release; `Start`, `MarkLeader`, `Spawn`, `CtrlC`, `TaskEnded`, `Exit` the
process. The flag is set (`MarkLeader`) before the HTTP client is built and the tasks are
spawned (`Spawn`, or `SetupFails`, which ends the process with the Lease kept).
`running[r]` are the controllers whose task has not ended: one that returns clears the
flags on its way (`ControllerEnds`), one that panics does not, nor does a renewal task that
panics (`ControllerPanics`, `RenewPanics`); then the flag stays until `select!` is told
(`TaskEnded`). `panicked` is a history variable. A write to the Lease is a message on `wire` that `Apply` or `Reject`
serves some time later, even after its sender gave it up (`awaited` is FALSE),
exited or crashed. Timestamps are kept as ages which `Tick` advances, so that the
state space is finite; the clock of `r` is `Offset[r]` ticks ahead. `ack[r]` is a
history variable: the age of the last stamp `r` knows to be in the Lease. What
election promises is `LeaseLock.tla`, an abstract lock with `Grant` and `Lapse`;
the refinement maps its `granted` to the replicas whose acknowledged stamp no
clock sees expired (`Fresh`).

`ClusterController.tla` models one StreamlineCluster and the workers that
reconcile it. `cache[w]` is the copy a worker reads; it is refreshed only between
two reconciliations, which is sound because nothing reads it in between. `pc[w]`
is the call that comes next, one action per call, in the order of `reconcile`:
`Reconcile`, `EnsureFinalizer`, `DeleteHpa` (with the branch on `validate`),
`ApplyChild` for the four owned objects, `CountPods`, `UpdateStatus`, or
`UpdateStatusInvalid`; and of `handle_deletion`: `ListPvcs`, `DeletePvcs`,
`RemoveFinalizer`. `EnsureFinalizer` is always refused (see the assumptions about the API
server below), so that the finalizer comes from elsewhere: from a manifest, from kubectl or
from an earlier version (`WriteFinalizer`, `InitUpgraded`). `Refused` is a 404, 409 or 422 that follows from the state,
`Fail` any other error (`?` and the error policy; that the call took effect all the same is
the second way through `RemoveFinalizer`, after which the deletion is handled once more), `Restart`
a new process. The
rest are the environment: users, another controller with a finalizer, an HPA, the
StatefulSet controller, pods, the garbage collector. An owned object is kept as the
generation it was created from (`made`) and the one it was last applied from (`child`), or
as `Legacy` if an earlier version of the operator rendered it from `LegacySpec`. A spec is
its parts that decide about an apply (`SpecParts`): `Conflicts(k, s)` says whether applying
object `k` from `s` would change a field that was set when it was created, in which case the
API server refuses it, as it does for the ConfigMap (log level, ports, TLS), the Services (ports)
and the StatefulSet (replicas, image, environment). A field that was not set may be added
(`extra`). The reason is in `Scaling`, below.

`ClusterStatus.tla` holds the status builders as pure operators, with every field
that a merge patch writes; `ClusterStatusUpdates.tla` lets an object, its cache,
its pods and a clock change in any order around them, one reconciliation per step
(`ClusterController` takes the calls apart and leaves the timestamps out; between
them the two modules cover the status).

`UpgradeAdvice.tla`, `ClusterSpec.tla`, `TopicSpec.tla` and `BrokerRendering.tla` are
the pure functions of the spec: the table of the defaults of v0.3.0 with the patches and
the provenance that a rejection states; the specs with their serde defaults;
`validate` and `unsupported_fields` rule by rule; and the four rendered objects with
their ports, paths, mounts, environment and claims. A rendered path is a sequence of
its components, so that "is mounted" is a prefix test. `SpecUpgrade.tla` puts them
into the world they have to work in: an API server that stores a document leaf by leaf
(`stored`, `blocks`) and fills in schema defaults after every merge and on every read
(`Write`, `ViewOf`), users who edit, install the corrected CRDs, roll them back
and run the commands that a rejection published, however old (`FollowAdvice`), and the
controllers' `Reconcile`, which validates and hands on. `injected` is a history
variable: the leaves whose value v0.3.0's CRD filled in. `Effect(s)` is all that the
operator makes of a spec.

`Autoscaling.tla` and `ScaleToZero.tla` are the pure parts of the two files: `build_hpa`
with metrics and behavior, `generate_recommendation` with its truncating divisions,
its narrowing casts (`I32` may be set small to let them bite) and the order of its
clamps; the activity snapshot, `evaluate` and the ScaledObject. `Scaling.tla` composes
them with `reconcile_statefulset` and everybody else who writes `.spec.replicas`. Its
API server keeps for every field the managers that own it, which is the point:
POST makes its manager the owner of the fields it sets, an update takes over the fields it
changes, and an apply without `force` is refused if it would change a field that somebody
else owns, and else adds what nobody has set and drops what it alone had set. `FieldsOf` goes
down to the leaves that can differ (replicas, image and node selector of a StatefulSet; bounds,
metrics and the six leaves of the behavior of an HPA; ...). `posted` is a history variable: the fields
that a POST has set. `GetObject` and the second call (`SendApply`, `SendCreate`) are separate steps, and
any error of the get counts as "not there", as in the code. `Evaluate` and `Act` are a
decision of the scale-to-zero loop and its application.
The crate offers scale-to-zero, KEDA, HPAs that are enabled and recommendations,
but nothing in `src/` calls them (an accepted spec disables autoscaling): their
caller is modelled after their documentation, one cycle after the other.

`TopicController.tla` and `UserController.tla` follow the scheme of `ClusterController`. In the
first the finalizer comes from elsewhere, too (`EnsureFinalizer`, `WriteFinalizer`);
a topic on a server is the generation it was created from (a server that
says 409 keeps what it has), `late` holds POST requests the client gave up and
which may still be executed (`LatePost`), and `Reports(g)` are the answers a
server may give: it need not echo every field, which is why `evaluate_sync` has
three outcomes. A user starts with any finalizers and with or without the status that an
earlier version of the operator published (`Earlier`).

`OperatorHub.tla` models the hub, an in-memory registry that callers share: each
action is one critical section, and `install` has two, `CheckInstalled` and `Insert`.
`overtaken` is a history variable. No method writes the operators on offer, which
are a constant here; their versions are numbers, as the code only compares them.

The `MC*.tla` modules give the constants their values. Definitions called
"Mutant of X" are not part of any specification: each is X as a plausible bug
would have it, and the project checks that the property it is meant for fails
with it in place of X.

## What the runs check

| run | instance | shows |
|---|---|---|
| LeaderSafety | 2 replicas, clocks 1 tick apart, 1 fault, 1 late write | `ImplementsLock`, `NoEarlyTakeover`, `ClearsOwnHolderOnly`, `LeaderFlagHonest` |
| LeaderLiveness | 2 replicas, 1 fault, fairness | `LeadershipRecovers`, `ImpairedLeaderStops` |
| LeaderOneInstance | real proportions 3 : 2 : 1 | violation: two replicas run controllers |
| ClusterLifecycle | 1 worker, 2 generations of 4 kinds of specs, 2 disturbances, fairness | status, rendering and finalizer properties, `NoRegression`, `RunningMeansApplied`, `Converges`, `DeletionCompletes` |
| ClusterConflict | objects of an earlier version with 3 brokers, a spec with 1, no failures | violation: the StatefulSet is never scaled down |
| ClusterStatusUpdates | 3 generations, 0 to 2 ready pods, 4 seconds | `ConditionsAgree`, `TransitionTimesTellTheTruth`, `NoTimestampOnlyWrite` |
| SpecUpgrade | a cluster or a topic of v0.3.0, 1 or 2 edits out of some fifty values, 1 roll-back of the CRDs, fairness | `AdviceConverges`, `PatchSticks`, `AdviceKeepsSiblings`, `InjectedIsExplained`, `BrokersAreWired`, `FilesAreMounted`, `EditsTakeEffect` |
| Scaling | an HPA with or without behavior, or KEDA, 2 templates, 1 edit, 1 disturbance, fairness | `AppliesKeepPostedFields`, `SleepsOnlyWhenQuiet`, `FollowsActivity`, `RecommendationIsSteady` |
| TopicLifecycle | 1 worker, 2 generations of 3 kinds of specs, 2 disturbances, fairness | `SyncedMeansVerified`, `UnsupportedNeverCreated`, `TopicUnderFinalizer`, `TopicDroppedOnRequestOnly`, `NoRegression`, `Converges`, `DeletionCompletes` |
| TopicLeak | 2 clusters | violation: the finalizer goes, the topic stays |
| UserLifecycle | 2 workers, 2 generations, 1 disturbance, fairness | `Converges`, `ForeignLostUnseenOnly` |
| HubInstalls | 3 callers, 5 operators, room for 2 | `CapacityExceededByOthersOnly`, `SecondInstallOverlaps` |

Bounds, and why they are enough to make the interesting cases happen:

- **Replicas = 2.** Every hazard of election is between two parties. Three are covered
  by the proofs, which hold for any set.
- **Workers = 1** for clusters and topics, 2 for users. With one worker everything that
  needs an old copy, a restart or a failure happens; two overlapping workers are what
  the proofs cover, for any number and with every safety property that holds for them. So
  the runs are spent on liveness, edits and on the two properties that one worker is
  needed for (which are proved for one worker).
- **LeaseDuration, RenewInterval, RetryInterval.** A tick is 5 seconds, the real
  proportions are 3, 2, 1. The passing runs use 1, 1, 1, so that a Lease is at the
  boundary all the time: a tick old it is trusted, two ticks old it is expired, and
  with one tick of skew it expires for one of the two clocks first. The proofs hold
  for every choice, and LeaderOneInstance uses the real one.
- **MaxFaults.** Failed calls, crashes, restarts, failing pods and finalizers of
  others share one budget: 1 for election, users and scaling, 2 for a cluster and a topic. One
  lets any single step fail; two let its repair fail as well.
- **MaxLate, Skew.** 1 and 1 in LeaderSafety: one write is in flight that nobody waits for,
  next to those that are awaited, and the clocks are a tick apart. 0 and 0 in LeaderLiveness: a
  late write takes effect once, and a skew delays a takeover by at most itself, so neither keeps
  anything from happening for ever; the state space under fairness is what pays for them.
- **MaxGeneration = 2 (3 for the status).** An edit between read and write needs
  two generations; a status needs three to go from accepted to rejected and back.
- **MaxReady.** Counted pods; 2 allows more pods than `validate` permits, which an
  HPA can cause.
- **Specs.** The specs of all generations are chosen in the initial state: a cluster
  spec is accepted with a node selector, with another image or with another log level, or asks for
  autoscaling and is rejected, so that among the edits are one that is refused at the
  ConfigMap, one that is refused at the StatefulSet, one that becomes invalid or valid, and none
  at all; with the objects of an earlier version (`Base`) there is one that only adds. A
  topic spec has three or six partitions or is not supported. The rules one by one are the
  subject of SpecUpgrade.
- **SpecUpgrade's edits.** A cluster starts with two values that are rejected and one
  edit, out of every leaf and of values that are accepted, rejected or v0.3.0's own; it
  may fall before, between or after the pieces of advice, so that every setting
  is rendered, and every rejection occurs beside the inherited ones. Topics have fewer
  leaves and two edits, which lets a removed key come back and be removed again.
  Settings are independent of each other but for TLS, whose combinations are values of one leaf.
  One roll-back brings back the defaults that were got rid of.
- **Scaling.** Ages saturate at 1, which is the idle timeout and the cooldown: an age is below
  the threshold or at it. `I32` is 8 instead of 2^31, so that quotients wrap within the bounds.
  Recommendations are compared for all numbers of brokers up to `MaxReplicas` and 63
  loads around each threshold. An edit changes the behavior of the HPA alone, which an apply may
  add, or exchanges HPA and KEDA, or image and node selector together. The start of an object's life, its loss and its re-creation by
  either call happen with one disturbance.
- **Callers = 3, room for 2.** The bound on the hub is 4 operators then, and there are
  5, so that a run could exceed it.
- **Symmetry** of callers is used in HubInstalls, which has no liveness.

Deadlock is checked for election, the status, the hub, SpecUpgrade and Scaling. The other
runs say `CHECK_DEADLOCK FALSE`: once the object is gone, everything it owned is
collected and every cache has noticed, the system has stopped.

Election's runs have one controller in `Controllers`: the three tasks are the same
to `select!`, and one suffices for "a controller ended".

## Fairness

- Election: weak fairness of each task's steps (Tokio runs what can run, and the
  timers of a task fire), of serving each kind of request (a client call ends, by
  an answer or by a timeout) and of `Tick`. `Start` is part of a replica's steps:
  the kubelet restarts a process that is gone. Nothing is assumed of faults,
  signals or controllers that end.
- Controllers: weak fairness of the worker's steps, as the `kube` runtime polls a
  reconciliation that is due, and of the pods. `Observe` is strongly fair: the
  watch stream delivers also while a reconciliation runs, and the model defers that
  to the moments when the worker is idle, which come and go.
- SpecUpgrade: the operator reconciles (weak), and a user ends up installing the
  corrected CRDs (weak) and running, for each field, the command that keeps being
  published (strong: the command is there with every rejection and gone in
  between). That is what the upgrade guide asks of users, and `AdviceConverges` says what
  they get for it.
- Scaling: weak fairness of the loop's evaluation and of its patch, and time passes.
  Nothing is assumed of the reconciler, which the properties want to be harmless.
- Requeue intervals (10 to 300 seconds) are not timed; a worker that is due
  runs eventually. No fairness is assumed of users' edits, of clusters that come up, of an
  HPA, of the creation of claims, or of requests that were given up.
- The number of faults is bounded, so liveness says "once the failures end", which
  is all the code can promise.

## What is proved

By TLAPS, for every value of the constants that satisfies the ASSUME of the module:
any number of replicas or workers, any durations, skew, specs and bounds.

`LeaderElectionProofs.tla`

- `TypeCorrect`, `Invariance`: `IInv` is inductive. `NoEarlyTakeover` and the lock
  are not inductive by themselves (and a Lease that nobody holds may be taken by anybody whose
  clock sees it expired, so `NoEarlyTakeover` is about held ones); `IInv` adds what makes them so: a copy that is
  still *current* is the Lease (`ViewInv`), a write that would be accepted was
  decided on what the Lease still says (`WireInv`), what a replica was told about
  the Lease stands as long as it can be trusted (`AckInv`, `GrantInv`), and its
  later writes only make the Lease younger (`OrderInv`). The heart is `Covers(r, a)`:
  while a stamp of age `a` can be trusted, the Lease names `r` or nobody and is at
  least as young. Two replicas that are covered cannot both be named
  (`ExclusiveInv`); a released Lease needs the extra case.
- `LeaseNotStolenEarly`, `ReleaseIsByHolder`: the two action properties.
- `LeaderFlag`: the flag is set only between the return of `acquire` and the shutdown. Once the
  tasks are spawned, no controller and no renewal task has ended while it is set, unless by a
  panic that `main` has not been told of.
- `Refinement`: every step of the election is a `Grant`, a `Lapse` or a stutter of
  `LeaseLock`.

`ClusterControllerProofs.tla`

- `TypeCorrect`, `Invariance`: `IInv` is inductive for any number of overlapping
  workers. `DataUnderFinalizer` needs `FinalizerInv` (a worker that saw or set the
  finalizer may rely on it while the object lives), which needs `CopyInv` (a copy
  that shows a deletion is never ahead of the object; the object does not come
  back). `RejectedSpecNeverRendered` and `StatusFitsItsGeneration` need `BranchInv`
  (the branch a worker is in fits the spec it read), and `RunningMeansOneBroker`
  needs `BrokerInv` (past the teardown there is no HPA, past the StatefulSet there is
  one broker). The proof is organised by what a step does to the shared state: most
  actions move one worker only, and are covered by one lemma per conjunct about such moves.
- `StatusFits`, `RejectedNotRendered`, `FinalizerGuardsData`, `DeletedOnRequest`,
  `RunningOneBroker`, `ForeignKept`: the safety properties, from `IInv`.
- `SingleInvariance`, `NeverBack`, `RunningApplied`: what only one worker guarantees. The
  hypothesis is `SingleWorker` (any two workers are the same), which the operator's
  `Controller` sees to for one object while one replica leads. `OrderInv` says that generations travel one way, from the
  object to the worker's copy, and from there to the owned objects and the status;
  `AppliedInv` says that what a reconciliation has applied on its way (`Past`) is still there.
  With two workers both are false: the older copy is applied last.

`ClusterStatusProofs.tla`

- `Invariance`: what is published or cached is well formed, and what is published tells one
  story (`Story`). The four conditions are in their places in every list there ever is
  (`FourConditions`), which is what `set_condition` needs to replace instead of append; the
  lemmas `SetInPlace`, `SeededEmpty`, `SeededFull` say so call by call.
- `Agreement`, `Timestamps`, `NoIdleWrites`: the three properties of
  ClusterStatusUpdates, for any specs, counts of pods, clocks and staleness of the copy.

`TopicControllerProofs.tla`

- `TypeCorrect`, `Invariance`: as for the cluster controller, with `CopyInv`,
  `FinalizerInv` and `BranchInv`, the last extended to the requests that were given up
  (`late`): they carry supported specs only, as the worker that sent them had passed
  `Validate`. `SyncedMeansVerified` needs `ResultInv`: a status is honest from the moment
  a worker computes it, because what it is judged by is the spec of the generation it
  is labelled with. Every step is shown to be a `Move`, which says what a step may do
  to the object, the servers and a worker; each conjunct follows from that alone.
- `SyncedVerified`, `UnsupportedNotCreated`, `FinalizerGuardsTopic`,
  `DroppedOnRequest`: the safety properties of TopicLifecycle, for any workers.
- `SingleInvariance`, `NeverBack`: with one worker, the status never goes back, as for clusters;
  `OrderInv` has the worker's result between the copy and the status.

`OperatorHubProofs.tla`

- `TypeCorrect`, `CapacityBound`, `OverlapOnly`. The capacity is not inductive for what
  is installed alone; what is installed *and* about to be inserted is (`IInv`): a check
  sees room for one more, and every other caller has at most one operator to insert.

`ScalingProofs.tla`

- `FieldsStayOwned`, `AppliesKeep`. That applies leave alone what a POST has set is not
  inductive as a statement about values; that every such field has an owner other than
  the manager of the applies is (`OwnedByOthers`): an update hands a field to another
  manager, an apply shares it, and only a deletion of the object ends it. From that any apply
  that would change such a field conflicts, and then changes nothing else either. Nothing is
  claimed of fields that no POST has set: an apply may add them, change them and drop them again.
  No argument uses what is rendered, so it holds for
  every template, configuration, load and writer, and it is what `Conflicts` of
  `ClusterController` rests on.
- `DecisionsHold`, `SleepsRightly`: what `evaluate` decided still has its reason when it
  is applied, or activity has arrived in between (`DecisionHolds`). The reason
  outlasts the passing of time because ages only grow until activity resets them.
- `SteadyRecommendations`: for *all* natural loads and numbers of brokers and every
  configuration that `RecommendationAssumption` admits (targets and the upper limit are not
  negative, as they would mean nothing; the lower limit may be anything), a
  recommendation that was followed stays, while there is one kind of load
  (`AllSettle`), and a larger backlog never gets fewer brokers unless its quotient wraps
  (`AllMonotone`). Division is first reduced to what monotonicity needs (`DivMonotone`, `CeilDiv`,
  `Narrowing`), then each criterion is reasoned about alone (`RateSettles`, `LagSettles`).

`UserControllerProofs.tla`

- `Invariance`: type correctness, and that neither a status nor a worker's copy is ahead of
  the object (`NotAhead`: the status needs the copy it is computed from).
- `ForeignLost`: the property of UserLifecycle, for any workers.

`SpecUpgradeProofs.tla`

- `AcceptedValid`: only `Reconcile` hands a spec on, and only one without rejections.
- `FilesFound`: for *every* spec without errors the mounts of the container are known
  (`MountsOfAccepted`: validation has made sure that no Secret is missing), each file's
  directory is one of them (`FrontOfAppend`), and no two mounts share a name or contain each
  other (`NoPrefix`).
- `SpecInvariance`: `SpecInv` types what is stored and read, leaf by leaf, says that published
  advice is a patch of the one leaf that was rejected, and that a value v0.3.0 filled in is
  still that value (`Injected`). `SpecUpgradeAssumption` lets users write any value of the
  type of the leaf, or remove it: the CRD's schema makes the API server refuse anything else. Text leaves
  (`TextLeaves`) are left untyped: no argument needs them to be strings.
- `Provenance`, `AdviceSticks`, `SiblingsKept`: the three promises of advice. What v0.3.0 filled in is
  said to be its own where it is rejected, and what is said to be its own has its value, in a place
  where it fills it in (`InBlocks`, `DefaultsChanged`); who wrote that value is not promised; a patch that is followed after the CRDs it asks for is not
  rejected again, since it writes the default of its leaf, which every rule accepts
  (`SupportedIsDefault`, `RejectionCases`); it changes no setting that is there beside its own.
- `Wired`: the Services select the pods and lead to the ports the brokers are told to listen
  on, unless a variable of the user names another listen address, which is accepted and comes last
  (`InForce`); and no variable of the environment is lost. `user_env` drops unresolvable variables
  with a recursive selection; that it drops none of an accepted list is shown by the least
  prefix for which it would (`UserEnvKept`).
- `EditsShow`: two accepted specs with the same objects differ in the
  settings that `Effective` names only, so no setting is silently dropped. The objects are
  read back leaf by leaf (`ClusterShown`, `TopicShown`); a storage block needs `ShapeInv`, which
  says that it is absent or whole.

So every invariant and every action property of the passing runs is also a theorem,
and so is the refinement.

Only model-checked: the liveness properties (`LeadershipRecovers`, `ImpairedLeaderStops`, the
three `Converges`, the two `DeletionCompletes`, `AdviceConverges`, `FollowsActivity`).
They rest on fairness and ENABLED, which are out of the prover's reach. The three violations are
counterexamples of TLC.

## What the code does that its text does not say

Findings with a run:

- **Two instances can run controllers** (LeaderOneInstance). `LeaderElector` is to
  "ensure only one operator instance runs the controllers at a time"; a renewal
  that hangs has no deadline, so the old leader's controllers go on while a standby takes
  the expired Lease. That is why the controllers are proved for any number of workers.
- **A patched cluster is not scaled down** (ClusterConflict). The upgrade guide says that
  setting `spec.replicas: 1` scales the StatefulSet down. It was created by POST, so that its
  manager owns the field, and the apply that follows has another manager and no
  `force`: the API server answers 409, for ever. The same goes for a new image, for limits that
  are changed, and, since ConfigMap and Services are created in the same way, for a new log level,
  new ports or TLS; and no status says so: the one that is published stays as it was. What was
  not set before (a node selector, a limit) does arrive. `Converges` has this as its
  exception `Stuck`.
- **A topic can outlive its object** (TopicLeak). After an edit of `clusterRef` only
  the new cluster is asked to delete the topic; a failing DELETE has the same effect.

More of the same kind are in the models and have no run of their own:

- The finalizer is never added. `ensure_finalizer` (`cluster.rs:260`, `topic.rs:416`) sends an
  apply patch without `apiVersion` and `kind`, which the API server answers 400. The reconciliation
  ends with that error every time: a new cluster gets no objects and no status, a new topic is
  not created, although the README says that the controllers use finalizer-based cleanup and
  `scripts/helm-integration-test.sh:132` looks for the finalizer (and takes its absence for an
  operator that does not run). Both `Converges` speak of objects that were given the
  finalizer by somebody else, which is how objects of an earlier version come.
- `/leaderz` is 200 "only on the replica currently holding the leader Lease" according to the README;
  it stays 200 when the Lease has expired and the renewal has not noticed, between `mark_leader` and
  the start of the controllers, and after a task panicked until `select!` is told.
- A user's `STREAMLINE_LISTEN_ADDR` or `STREAMLINE_HTTP_ADDR` is accepted, is appended after the
  operator's own and wins, while file, ports, probes and Services keep the old number
  (`cluster.rs:602-629`, where line 95 says that file and environment yield the same values).
- A user who writes `replicas: 3` or `retentionMs: 604800000` is told that v0.3.0 persisted it:
  `observed_is_legacy` compares values (`upgrade.rs:211-212`), although a rejection is never to
  claim a provenance it cannot support (`upgrade.rs:29-30`) and telling so "would be false" (220-223).
- A released Lease is not available at once: `release` clears the holder, `try_acquire` looks at
  `renewTime` only, so a standby waits for up to 15 seconds, while `main.rs:311` has it that it "can take over
  immediately". `LeadershipRecovers` says that it does take over; `NoEarlyTakeover` leaves a Lease
  without holder out, as waiting there is nothing that the code promises.
- A finalizer of another controller can be dropped, and one that was just taken off can be put
  back: those of a live user are overwritten from the cached copy. `ForeignLostUnseenOnly` says
  that none is lost which that copy shows.
- Volume claims can outlive a cluster: `DeletePvcs` may fail unnoticed, and `CreatePvcs` may run
  after `ListPvcs`, as the StatefulSet is left to the garbage collector.
- "All replicas are up to date" is published with pods of the previous generation (`CountPods`
  before `RollOut`).
- A reconciliation that starts before the watch delivered the last status patch mints a new
  `lastTransitionTime` for a condition whose published status is the same (`Reconcile` before
  `Observe` in `ClusterStatusUpdates`). `TransitionTimesTellTheTruth` therefore compares with the
  copy that the status is computed from.
- A topic that the server answers 409 for and does not describe is published as Ready, with
  Synced=Unknown.
- Settings that are accepted and have no effect (`Effective` in `SpecUpgrade` lists them, and
  `EditsTakeEffect` says that there are no others): `metricsEnabled: false`, a `tls` or
  `autoscaling` block that is switched off, a CA Secret without mTLS. An unknown
  `updateStrategy.type` is taken for RollingUpdate. A blank `caSecretName` with mTLS and two
  environment variables of one name pass `validate`.
- The ScaledObject's default trigger asks port 9094, whatever `httpPort` is, and
  `delete_keda_scaled_object` reports a failed deletion as done.
- With `min_active_replicas: 0` an activation keeps a cluster asleep; recommendations
  panic for zero brokers, and for a target lag of zero per partition.

## Assumptions about the API server

- Writes to one object are atomic and ordered; a create of what exists and a replace
  of an old resourceVersion are refused; an object that is being deleted takes no new
  finalizer and goes with its last one.
- An apply patch without `apiVersion` and `kind` is answered 400, whatever it says: this is the one
  of `ensure_finalizer` (`cluster.rs`, `topic.rs`). Users may write an operator's finalizer
  into an object that is not being deleted; everything behind it is checked with that.
- Field managers: an apply and an update are different managers even with one
  name, and a field that somebody else owns and an apply would change is a conflict. A value that is
  equal is shared, a field that nobody owns is added, and one that only the apply's own manager owns
  is dropped when it is no longer wanted. A Service's port whose number changes is a new entry with
  the name of the old one, which is refused as a duplicate (422). Merge patches and updates are never refused.
- Schema defaults are filled in after a merge on a write and on every read, only where the
  surrounding object is there, and are never taken back.
- In `ClusterController` the get and the write that follows it in `reconcile_configmap` and its
  siblings are one step; what can come between them there is the create of another worker,
  which `Refused` covers (409). `Scaling` has the two calls apart, and with them an object that
  is deleted in between and created by the apply.
- A cluster, topic or user is not created again under the same name, and nobody deletes the
  Lease by hand. A claim that is deleted goes at once; pods that use it do not protect it.
- Finalizers of others are modelled for clusters and users. The topic controller
  treats them as the cluster controller does and its model leaves them out.

## What is not modelled

`--leader-election=false` and argument parsing; the two HTTP servers, metrics and the
leader gauge (not read by the program); the CRDs without a controller (branches, contracts,
memories, edges, backups: schemas without behaviour), code generators and the fixture
validator (one-shot tools). Of what is modelled: messages and
names are abstracted to what decides between them; probes' thresholds, file modes and labels that
depend on nothing are left out; the floating-point numbers of `generate_recommendation` are exact
integers, and its 64-bit products do not overflow; reason, confidence and time of a
recommendation are left out; a second incarnation of an object under the same
name is not modelled.

## Plan

In this order; the first sixteen are done.

1. Leader election with its lock, runs and proofs.
2. Cluster controller with runs and proofs.
3. Cluster status: pure builders, then their evolution.
4. Topic controller. 5. User controller.
6. Type correctness and the safety invariants of the first two, proved.
7. Proofs for the topic controller, for any workers and clusters.
8. `OperatorHub`: concurrent installs, with the bound on the capacity proved.
9. `ClusterSpec`, `BrokerRendering`: the rules of `validate` against what rendering relies on.
10. `UpgradeAdvice`, `TopicSpec`, `SpecUpgrade`: the way from v0.3.0 to a spec that is accepted.
11. `Autoscaling`, `ScaleToZero`: recommendation, HPA, decisions to sleep and to wake.
12. `Scaling`: field managers and the writers of the replicas; its consequence for the
    cluster controller (`Conflicts`, ClusterConflict).
13. Proofs for `Scaling`: ownership of fields, and decisions that are applied late.
14. `UserController`: type correctness and `ForeignLostUnseenOnly`, proved.
15. `SpecUpgrade`: that every accepted spec finds its files and that advice spares the
    settings around it, proved.
16. The other invariants and action properties, proved: the status, the leader flag, one
    worker, advice, wiring, edits that take effect, recommendations.
17. Re-creation of an object under the same name (uid), in `ClusterController`.
18. The leader gauge and `--leader-election=false` in `LeaderElection`.
