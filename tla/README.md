# addon-contrib: specifications, model checking and proofs

The repository collects add-ons for Open Cluster Management (OCM). An add-on
has controllers on the *hub* and agents on the *managed clusters*; they never
call each other, but read and write Kubernetes objects, and OCM copies
`ManifestWork`s from the hub to the clusters. This directory holds TLA+ modules
of the add-ons with logic of their own, the TLC configurations that check them,
and TLAPS proofs.

Paths below are relative to the repository. `PROJECT.json` maps every definition
of a module to the lines of code it stands for.

1. [The system](#1-the-system)
2. [Modules](#2-modules)
3. [Runs](#3-runs)
4. [Fairness](#4-fairness)
5. [Proofs](#5-proofs)
6. [What is not modelled](#6-what-is-not-modelled)
7. [Deviations seen while modelling](#7-deviations-seen-while-modelling)
8. [Plan](#8-plan)

## 1. The system

| Part | State | Operations | What is hard |
|---|---|---|---|
| **Dynamic scoring agent** `dynamic-scoring-framework/pkg/dynamic_scoring_agent` (managed cluster) | `scoringWorkers` (goroutine per score name), `previousLabelSets`, the Prometheus gauge; `AddOnPlacementScore`s on the hub | sync of the ConfigMap of summaries: start, update, stop goroutines; a scoring round: ask the API, export, clean up, send to the hub | goroutines of one name overlap, since a cancelled one only notices at its next request; token secrets that become unreadable; restarts |
| **Dynamic scoring controller** `dynamic-scoring-framework/internal/controller` (hub) | `DynamicScorer` status, `DynamicScoringConfig` and its finalizer, one `ManifestWork` per cluster | timer that checks all scoring APIs; reconciler that turns scorers and masks into the clusters' summaries | the two goroutines interleave with each other and with users; the reconciler's own writes are read back late, through a cache; clusters are not watched; errors are logged and dropped |
| **Kueue admission check controller** `kueue-addon/pkg/hub/controllers/admissioncheck` | `AdmissionCheck` status and finalizer, `MultiKueueConfig` named after the placement | sync of a check from its `Placement`'s decisions | informer caches lag and an index is looked up in them; conflicts; partial failure |
| **Kueue credential controllers** `kueuesecretgen`, `kueuesecretcopy` | `ClusterPermission`, `ManagedServiceAccount`, token `Secret`, kubeconfig `Secret`, `MultiKueueCluster` | generator: permission and account per cluster; copier: token and URL to a kubeconfig | two controllers coupled only by events; some inputs are read live, some from caches, some not watched at all |
| **Kueue MultiKueueCluster controller** `multikueuecluster` | `MultiKueueCluster`s that refer to `ClusterProfile`s | takes the copier's place when the hub runs with ClusterProfiles | a profile, a permission and a Secret of other controllers have to meet |
| **Federated learning controller** `federated-learning-controller/internal/controller` | `FederatedLearning` phase, `Placement`, server `Job` and `Service`, client `ManifestWork`s, Flower `Deployment` and `ManifestWorkReplicaSet` | one `Reconcile` for OpenFL and Flower: selection, server, address, clients, clean-up | the status is written from an old copy at the end of every Reconcile; nothing it creates is watched; one object is read both live and from a cache |
| **Its storage, addresses and deployer** (same directory) | `PersistentVolume` and `PersistentVolumeClaim`, what a manifest creates | called by `Reconcile`; idempotent | partial failure; immutable fields; comparison with what the API server has filled in |
| **Federated learning sidecar** `federated-learning-controller/internal/sidecar` (managed cluster) | the reporter's metrics and gauges, the callback registered with OpenTelemetry | file watcher, one goroutine per content, periodic export, end with the training | two locks taken in both orders; contents overtake each other |
| **Device addon agent** `device-addon/pkg/spoke`, `device-addon/pkg/device` (managed cluster) | equipment: the installed driver, its devices and their goroutines; finalizers and status of `Driver`s and `Device`s | driver and device controllers, MQTT and OPC-UA drivers | two controllers and the goroutines share maps, not all behind the lock, keyed by a name that users may edit; all of it is lost by a restart |
| **Device addon hub manager** `device-addon/pkg/addon/hub` | roles and bindings of the registered clusters | registration of a cluster | two of the four objects are shared by all clusters |
| **Resource usage agent** `resource-usage-collect-addon` | one `AddOnPlacementScore` | computes scores from nodes and pods and publishes them every minute | arithmetic; the object is created without its status |
| Managers, renderers, API types, generated clients, charts, other add-ons | none of their own | wiring and rendering | |

How the parts interact:

* The scoring controller's `ManifestWork` carries a ConfigMap to each cluster;
  the agent there syncs it. The agent's answers go to `AddOnPlacementScore`s on
  the hub, which OCM's placement controller reads.
* An `AdmissionCheck` names a `Placement`; the controller writes the clusters of
  its decisions into a `MultiKueueConfig`, and the clusters' credentials come
  from the secret generator and the copier: generator → `ClusterPermission`,
  `ManagedServiceAccount` → (account controller) token → copier → kubeconfig and
  `MultiKueueCluster`.
  With ClusterProfiles the last step is the MultiKueueCluster controller's, and
  the Secret comes from a syncer outside the repository.
* The federated learning controller makes a `Placement`, and sends a client to
  every cluster of its decisions once the server has an address. Beside a
  client or server runs a sidecar, coupled to it by a file and by looking at its
  process.
* The device controllers meet in the equipment only: a device waits until its
  driver is installed. A driver's goroutines take a device's readings to the
  message buses.

What makes each of them correct:

* agent: a name has exactly the goroutine that is registered for it, scoring
  stops only when it is withdrawn, exported label sets are those of the last
  answer, scores arrive;
* scoring controller: results of a check belong to the spec they are written
  to, the works converge to the scorers and masks, a deleted config leaves none;
* admission checks and credentials: no event is lost, i.e. an object for which
  nothing is pending matches its inputs, and it gets there in the end;
* federated learning: phases only advance, clients never precede the address,
  the clean-up misses nothing that it can see, and every training is deployed
  as asked or ends; a second Reconcile finds nothing to write; storage is as
  asked or reported as not ready; server and clients use one address;
* sidecar: the reporter and the callback follow the file, the collector gets what
  the reporter holds, and the sidecar ends with the training;
* device agent: a name has one live goroutine, which its entry can stop, and
  the equipment converges to the objects, also after a restart;
* resource usage: a score counts what the pods need, whatever their order.

The hazards of the code, each at its line with the properties that watch it, are
listed in `PROJECT.json` under `hazards`.

## 2. Modules

| Module | Models | Instance for TLC | Proofs |
|---|---|---|---|
| `DynamicScoringAgent` | the agent on one cluster | `MCDynamicScoringAgent` | `DynamicScoringAgentProofs` |
| `ScoreOwners` | abstract: who owns a score name; implemented by `DynamicScoringAgent` | (as a property) | `DynamicScoringAgentProofs` |
| `ScorerSummary` | pure: a scorer to its summary (`buildClusterToSummaries`, `getValid*`) | through `Computations` | `ComputationsProofs` |
| `DynamicScoringHub` (extends `ScorerSummary`) | health checks, reconciler, users, APIs | `MCDynamicScoringHub` | `DynamicScoringHubProofs` |
| `AdmissionCheck` | the controller, its caches, users, the placement controller | `MCAdmissionCheck` | `AdmissionCheckProofs` |
| `PublishedDecisions` | abstract: which decisions are published, and when a check turns Active; implemented by `AdmissionCheck` | (as a property) | `AdmissionCheckProofs` |
| `KueueCredentials` | generator, copier, MultiKueueCluster controller, account controller, in all modes | `MCKueueCredentials` | `KueueCredentialsProofs` |
| `FederatedLearning` | `Reconcile` for OpenFL and Flower | `MCFederatedLearning` | `FederatedLearningProofs` |
| `FLServer` | pure: storage, addresses, deployer | through `Computations` | `ComputationsProofs` |
| `FLSidecar` | watcher, main loop, goroutines, reporter, the library's reader | `MCFLSidecar` | `FLSidecarProofs` |
| `DeviceAgent` | equipment, driver and device controller, goroutines of OPC-UA, devices of MQTT | `MCDeviceAgent` | `DeviceAgentProofs` |
| `DeviceReading` | pure: range check and conversion of a reading | through `Computations` | `ComputationsProofs` |
| `DeviceRegistration` | pure: the roles and bindings of registering clusters | through `Computations` | `ComputationsProofs` |
| `ResourceUsage` | pure: scores of nodes and cluster; publishing them | through `Computations` | `ComputationsProofs` |
| `Computations` (extends the five pure modules) | one behaviour per input of a pure module; a history of calls where the program stores something | `MCComputations` | `ComputationsProofs` |

Conventions. One action is one call that other actors can interleave with: a
call to the API server, an HTTP request, a step of a goroutine between two
points where it can be overtaken. A `pc` variable says where a handler is, and
what it has read and still uses is kept in variables of its own (`snap`,
`snapshot`, `mem`, ...), so that it can be stale. A call that may fail has a
`Failure` branch; failing calls are bounded by `MaxFailures`, edits by
`MaxEdits`, restarts by `MaxRestarts` or `MaxCrashes`, and where these cost too
many states together: in the credential controllers by `MaxFailures`, in the device
agent, with interruptions of `toRequest`, by `MaxFaults`. Definitions introduced by
"Mutant of X" are plausible bugs that show that the properties are able to fail;
nothing else uses them.

**DynamicScoringAgent.** `SyncStart`, `FetchAuth`, `StartWorker`, `StopWorkers`
and `DeleteMetrics` are the parts of `sync` and `handleConfigMapUpdate`; the
goroutine's actions `Tick`, `Exit`, `Answered`, `CallFails`, `Publish`,
`CleanOldMetrics`, `RecordLabelSets`, `GetScore` and `PutScore` are those of
`startScoringLoop` and `performScoring`. A goroutine slot in `Workers` is reused
after the goroutine's exit: the slots bound how many are alive at a time, not how
many are ever started. The gauge is the set of label
sets exported under a name; score values are left out. What the agent remembers
of them are keys: `LabelKey` joins the values of a label set with "||" and
`SplitKey` splits a key again, which need not give the label set back (a value
with "||" in it, or with "|" at its end). `Crash` restarts the
process at any point (also where the Go runtime would stop it for the unlocked
maps). `ScoreOwners` says what all this is for: names have owners, only an owner
takes answers, and a name gets an owner only when it has none. The refinement
mapping makes the owners of a name its goroutines that live and are not
cancelled (`Publishing`), and busy the goroutines that have an answer at hand
(`Answering`); the registrations, labels and objects of the agent do not show.

**ScorerSummary / DynamicScoringHub.** A scorer is its spec, the config its API
served last, and its health. `HealthTick`, `AskApi`, `WriteStatus` are the
health check; `outdated` is the resource version that makes a late status
update fail. The reconciler goes through the clusters one by one from a
snapshot. It reads `ManifestWork`s through the manager's cached client:
`worksSeen` is the cache's copy and `behind` the clusters whose copy is old. An
update with an old copy is refused, but an old copy that equals the new summaries
skips the write, and a work that the cache does not hold yet is nothing to delete;
the history variable `overlooked` marks the clusters that the last reconcile left
alone for that, or for a failed call that was only logged. The cache goes from an
old copy straight to the current one; for the configs, scorers and clusters in it
a late copy is the same as a later edit, since the reconciler does not write
them and an event follows. The reconciler of the `DynamicScorer` writes back the
status it has read and is not an action.

**AdmissionCheck.** `cache`/`behind` and `seen` are the informers' copies;
delivering an update queues the keys that the indexes give *for the cached
checks*. `outdated` is the resource version of the sync's copy. A sync is
`Begin`, then `AddFinalizer`, or `WriteConfig`/`DeleteConfig` and `PatchStatus`,
or `Cleanup` and `RemoveFinalizer`. A `Placement` and its decisions are one
object. `PublishedDecisions` says what readers of the configs and checks can rely
on: decisions are published one at a time, each as it was learned, so that an
older one never follows a newer one, and a check turns Active only in the turn
that has published some clusters for the placement that it names. The refinement
mapping shows the placement that each check names (`Named`), the Active ones
(`ActiveChecks`) and, as `Hand`, the decision that a sync has read and not
reported yet: taken at its `Begin`, published by its write, and dropped with its
`PatchStatus` or a failing write. Queue, caches of checks, finalizers and
conflicts do not show.

**KueueCredentials.** Both controllers have a queue, one worker and a `pc`.
`clusterSeen` and `permissionSeen` are the caches; `notices` are undelivered
events of the objects that the controllers read live. `IssueToken` and
`RotateToken` are the account's controller. Tokens are numbers, so that an old one
can be told from the current one. The variable `profiles` selects the third mode:
no copier runs then, and `ProfileBegin` and its writes are the MultiKueueCluster
controller's, on the copier's queue and `pc`. A `ClusterProfile` is absent,
incomplete (it fails one of the checks of `getClusterProfile`) or complete. With
`proxy` the copier makes the URL from `CLUSTER_PROXY_URL` and the cluster's name
(`ProxyUrl`) and reads none of the `ManagedCluster`, as
`kueue-addon/README.md:155` recommends. `Restart` restarts the one process of both
controllers: caches are current and every object that is watched and exists is
queued, but nothing that is gone; `orphaned` are the clusters whose kubeconfig no
watched object led to at a restart.

**FederatedLearning.** The steps of `Reconcile` are values of `pc`, each a call.
`mem` is the copy in memory that all steps edit and that the deferred update of
the status writes; `fresh` is its resource version. `cache`, `jobSeen`, `unseen`
and the value "new" are what informer caches do not hold yet. `CallFails` is any
call failing and `Restart` a restart of the controller. `lost` is a history
variable: clusters that left the decisions, or whose work the clean-up could not
see. The status message, cluster set bindings and the unused Route path are left
out.

**FLServer.** `Ensure` is `ensurePVC` for both types of storage, as a function of
the volume and claim that are stored and of the call that fails; the API server
refuses to change immutable fields. `ListenerIP` is what the server is given
(`determineEndpointInfo` and its helpers), `Published` what the status tells the
clients (`updateLB`, `updateNP`). `Deploy` is the deployer for one manifest:
`Derivative` is the comparison of `DeepDerivative`, in which what the manifest
does not set, and what a list has beyond it, does not count. `FederatedLearning`
has the order of these calls, with their outcomes left open.

**FLSidecar.** One action per step at which a goroutine can be overtaken or has to
wait: the watcher reads the file and offers its content, the main loop receives
it and starts a goroutine, which updates the reporter under its lock `mu` and
asks the library to export. `Collecting` is the library's lock. The content of
the file is one of `Contents`, or `Partial` while it is written: metrics and
labels, of which the reporter overwrites a metric named `Stamp` ("timestamp"). Its
comparison (`Unchanged`) skips that name but counts it in the new content only
(`exporter.go:117-135`). The training may be there when the sidecar starts or
come up later: the first look is at once, and one that finds no training ends the
sidecar.

**DeviceAgent.** `drvPc` and `devPc` are the workers of the two controllers, a call
to the API server or to the equipment each. `instances` are the driver objects
ever made, `installed` the one in the equipment: one that was replaced may have
goroutines that go on. A Device's spec has the name that is the key of its
`Entry`, and tells whether its driver is of the modelled type (`ours`); users may
edit both. The driver of another type is there too and keeps nothing that is
modelled. `left` is history: names that an edit took from a Device of this type.
A goroutine in `subs` connects, subscribes, reads (`SubRead`) and writes
(`SubWrite`) its entry in two steps, since `toRequest` does so without the lock,
listens, and stops when it is cancelled. Of the requests of an entry only the
first of a handle counts (`first`), because `findRequest` looks no further:
`toRequest` adds one at the end and `AddDevice` carries them over to the entry of
a changed config (`Carried`); `over` is history, that another config's request came
or was to come before the own one. A config that cannot be parsed makes a driver
whose methods panic: the process restarts. Devices that were deleted are not
edited any more, and a Driver's type, which can be edited too, stays.

**ResourceUsage, DeviceReading, DeviceRegistration.** Operators on small records.
Pods are taken in the order of the lister, because the code's sum depends on it,
and a loop of the code (`Sums`, `Peaks`, `Usages`, `BestNodes`, `Available`) is the
recursive function of what it has computed after each of its steps.
A type of integers has a `limit`, half the number of its values: `Wide` stands
for 2^63 and the others for 2^7, 2^15 and 2^31; conversions of integers wrap around
at the limit of the target. What becomes of a float that the integer type cannot
hold, Go leaves to the implementation, so a conversion (`Converted`) is the set of
what may come out: for types narrower than a processor's registers that is more
than any build gives. A registration changes the objects at the hub call by call
up to the one that fails, two of them shared by all clusters.

**Computations** has a task for each of these modules and for `FLServer` and
`ScorerSummary`. A behaviour of a pure task takes one input and computes one
output. The tasks `publish` (rounds of the resource usage agent over one stored
object) and `register` (registrations and detachments over the objects at the
hub) go on from what they have stored, and `input` is the history. The inputs
are constants: `MCComputations` gives them a small shape for TLC, and the proofs
are about any.

**Assumptions on code outside the repository**, modelled from its use here:
creating an `AddOnPlacementScore` does not store the status (status
subresource); the patcher of sdk-go sends the resource version of the copy it is
given; controller-runtime and the sdk-go factory never run one key twice at a
time and requeue on errors; informers of the hub's kueue addon resync every
10 or 30 minutes and controller-runtime's cache every 10 hours; the
OpenTelemetry library holds one lock while it runs callbacks and to register or
unregister one; the API server keeps a volume's source and a claim's fields, but
for a growing size and an empty volume name; the `cast` library wraps integers
around as Go's conversions do.

## 3. Runs

| Run | Instance | Checks | Shows |
|---|---|---|---|
| `agent_workers` | 2 names, 3 slots, 2 label sets of one key, 2 edits, 1 restart; one of two ConfigMaps gives a name twice, once with a token | `TypeOK`, `LiveWorkersAreRegistered`, `RegisteredWorkersRun`, `ExportsLastRound`, `StopsOnlyWithdrawn`, `NamesHaveOneOwner` | which goroutine works on which name, whatever overlaps; that the agent implements `ScoreOwners`; no label set of an older answer stays exported that its key gives back |
| `agent_live` | 1 name with a token, 2 edits | `WorkersConverge`, `ScoresReachTheHub` | swallowed errors are made up for by the resync; a new score object gets its scores |
| `agent_stale` (violation) | 1 name, 1 edit | `UpdatesReachWorkers` | a changed summary never reaches the running goroutine |
| `hub` | 1 scorer, 1 cluster, masks, 3 edits, 1 failing call | `TypeOK`, `SyncedFromOwnApi`, `DeletedConfigLeavesNoWorks`, `WorksConverge` | edits during a health check and during a reconcile; missed clusters, failed writes and a late cache are made up for |
| `check` | 2 checks, 3 placements, 4 edits, 1 failing call | `TypeOK`, `NoLostWork`, `PublishesDecisions`, `ChecksConverge` | no event is lost with lagging caches, conflicts and failures; that the controller implements `PublishedDecisions` |
| `credentials` | 1 cluster, 2 URLs, 2 edits, 1 failing call or restart, every mode | `TypeOK`, `GeneratedFollow`, `CopiesFollow`, `CredentialsConverge` | generator, copier and MultiKueueCluster controller miss nothing; a new URL arrives by the resync |
| `training` | all kinds, 2 clusters (one without the claim), 2 edits, 1 failing call, 1 restart | `TypeOK`, `ClientsFollowAddress`, `LeavesOnlyLostWorks`, `PhaseOrder` | order of address and clients, the clean-up, the phases |
| `training_live` | LoadBalancer and Flower, 1 cluster, 2 edits, 1 failing call | `Settles` | every training is deployed as asked or ends; deletions end |
| `training_flower` (violation) | Flower, 1 failing call | `FlowerStaysRunning` | one failing call ends a running Flower training |
| `sidecar` | 3 contents, 2 goroutines, 2 writes, 1 failing export | `TypeOK`, `ReporterFollowsFile`, `MetricsAreSent`, `EndsWithTraining` | what the training writes reaches the collector; the Job can complete |
| `device` | 1 driver of either kind, 3 configs (one cannot be parsed), 1 device with 4 specs (another config, another name, another type), 3 edits, 1 failing call, restart or interrupted `toRequest` | `TypeOK`, `OneSubscription`, `EquipmentConverges`, `DevicesAreHeard` | no subscription escapes its entry, and no entry its Device without an edit of the name; both controllers make up for each other and for restarts; deletions end |
| `computations` | every input of a small shape | `SummariesAreValid`, `ScoresFollowPods`, `ReadingsAreKept`, `StorageAsAsked`, `EndpointsAgree`, `DeployConverges`, `RegisteredAreGranted` | the pure parts, each against what it is for |

Why these bounds. In the agent a name's state only meets its own goroutines, and
three slots let a live goroutine overlap two cancelled ones; the second name is
there for the loop over the summaries and the stop of one name while another runs;
two edits give withdraw-and-return. In the hub one scorer meets edits, answers and
failures in every order; clusters are handled one by one and share nothing but the
snapshot, so one shows a loop that is overtaken at every call. Checks interact
through the one worker and the queue only (when placements are not shared), so two
are enough, and a third placement is where the first check is pointed to; four
edits are enough for create, placement, re-point, delete. Clusters of the
credential controllers do not affect each other at all except by waiting for the
worker. In a training two clusters are the smallest number at which a selection
can be swapped; with one failing call and one restart every single point of
`Reconcile` is interrupted once. In the sidecar two goroutines can overtake each
other, three contents have changed values, changed names, a refused name and a
time of their own between them, and `MaxEvents = 1` loses nothing: a pending event
stands for all writes since, as the watcher reads the file when it takes one. In
the device agent one device meets its own goroutines and entries only; three edits
are enough to create and rename a device under a driver, to change a driver twice
under a device or to remove and re-create a device under a driver, and three slots
keep a free one for the next goroutine (`DevAdd` waits for one, so that the slots
bound how many run at a time, not how many are started). The shapes of
`computations` have, for every comparison of the code, values on both sides and on
it: two nodes and two pods with up to two init containers, integers of 3 and 5
bits with their extremes, every volume and claim that agrees or not with the
wanted one in each field, lists of up to two parts, four rounds or registrations.
Failure bounds are also what liveness needs: a call that fails for ever excludes
progress.

No run sets a symmetry except `agent_workers`, over the goroutine slots, which is
a run without liveness. Deadlock checking is off where the system really may
stop: all edits are used up and nothing is to do.

Properties with conditions worth knowing:

* `WorkersConverge` leaves out a name that one ConfigMap gives twice, once with
  a readable and once with an unreadable token: it is started and stopped at every
  resync. Two scorers may have one score name, so such a ConfigMap can happen.
* `ExportsLastRound` is about names that stay, that is, names that every ConfigMap
  has and for which no summary of it needs a token: if one of two summaries of a
  name does, and the token is gone, the name is stopped. See section 7 for names
  that are withdrawn.
* `SummariesAreValid` leaves out the scoring host, see section 7.
* `ExportsLastRound` leaves open a label set that its key does not give back, and
  `DeletedConfigLeavesNoWorks` a work in `overlooked`, which the cache did not hold
  yet or whose deletion failed: both stay in the code, see section 7, and both
  occur in the runs.
* `CopiesFollow` and `CredentialsConverge` leave open the kubeconfig of an
  `orphaned` cluster, see section 7, but not its `MultiKueueCluster`.
* `ReporterFollowsFile` leaves open a last content that was received while another
  was on its way, and lets the reporter keep one metric that a content with a time
  of its own has no more (`Reported`); `MetricsAreSent` and `EndsWithTraining` a
  sidecar that is `Stuck`: all three cases are deviations of section 7, and all
  are reached.
* `OneSubscription` holds until an interrupted `toRequest` has undone a change,
  and lets names in `left` keep an entry; `EquipmentConverges` and
  `DevicesAreHeard` are about Devices that share their name with no other, and the
  latter lets a device with `over` have its readings taken by an older config's
  request. These are deviations of section 7, and all but the shared names are
  reached. `EquipmentConverges` holds after such a write all the same, but the
  deletion of a Device needs a Driver; `DevicesAreHeard` is about OPC-UA without
  failing calls.
* `ScoresFollowPods` asks for equality when no init container needs more than the
  containers of its pod, and else for no more than needed; it compares node and
  cluster unless a node is overcommitted.
* `ReadingsAreKept`, `StorageAsAsked`, `EndpointsAgree`, `RegisteredAreGranted`
  and `DeployConverges` except the cases that section 7 lists; `DeployConverges`
  also an object with the annotation to skip it, and a role that the API server
  refuses to change.
* The run `check` gives every placement to one check (`NamesApart`), and so does
  the theorem about `NoLostWork`; with a shared placement it is false.
* `Settles` accepts `Failed` and `Completed` as ends, and selections with a
  cluster without the claim, which `Reconcile` waits for.

## 4. Fairness

Fairness is given to what the code or its runtime keeps scheduling, and to
nothing that users do.

* Workers and goroutines (`SyncNext`, `WorkerNext`, `ReconcileNext`, `HealthNext`,
  `Step`, `GenNext`, `CopyNext`, `ReconcileStep`, `DrvNext`, `DevNext`, `SubNext`,
  `WatcherNext`, `MainNext`, `ReaderNext`): weak. A goroutine with a next
  instruction runs, and an HTTP request returns (`http.Get` has no timeout
  in the hub: a request that hangs for ever is excluded).
* Taking a key (`Begin`, `GenBegin`, `CopyBegin`, `ProfileBegin`, `DevBegin`):
  strong. While the worker is busy with another key the action is disabled, and
  the workqueue is first-in first-out, so that a key that comes back again and
  again starves no other. A device controller may take an object at any time,
  which stands for its events, requeues and resyncs.
* Informers: weak on delivering an update, and on the resync where a property
  rests on it (agent, hub, credentials). The admission checks need no resync and
  have none.
* The agent's `Exit`, `Answered`, `GetScore`, `PutScore`: strong. They compete
  with the failing branch of the same call: an API or an API server that is
  asked again and again answers in the end, but the code's only retry is the
  next round.
* The sidecar's goroutines (`WorkerNext`): strong, because they wait for locks
  that others take again and again; Go's mutex hands a lock to whoever has waited
  for more than a millisecond. The training writes and ends when it wants.
* Device agent: no fairness for the broker, the OPC-UA servers or a retry of
  theirs, which the code does not have.
* Federated learning: the load balancer assigns an address and deleted Jobs
  go (weak). No fairness for a Job finishing.

## 5. Proofs

Every invariant and every safety property of an action that a passing run checks
is proved for every value of the constants (any number of names, goroutines,
clusters, edits, failures, restarts; any contents and inputs). Each theorem of a
property has its name and the ending `Always`; the type invariant's is
`TypeCorrect`. TLC was run on the inductive invariants before they were proved.

`DynamicScoringAgentProofs`

* `TypeCorrect`, `LiveWorkersAreRegisteredAlways`, `RegisteredWorkersRunAlways`:
  `IInv == TypeOK /\ IndexInv /\ WorkerInv /\ ActiveInv` is inductive.
  Neither of the two worker invariants is inductive alone: that a registered
  worker runs is needed to see that a start does not take over a live one, and
  that a live worker is registered is needed to see that a stop reaches it.
  `IndexInv` bounds the index into the summaries.
* `StopsOnlyWithdrawnAlways`, an action property, needs `ActiveInv`: a name all
  of whose handled summaries need no token is in `active` once the loop is past
  its first one, so the stop at the end does not select it.
* `SyncDeliversAlways`, the part of `WorkersConverge` that is a safety property,
  without a run: when a sync has stopped what it stops, exactly the names that it
  found active have a goroutine, each of them is given by its ConfigMap, and every
  name given without a token is among them. It needs `Begun`, that an active name
  has its goroutine unless starting it is the next step, besides `ActiveInv`.
* `NamesHaveOneOwnerAlways`: the agent implements `ScoreOwners`. Every step is
  mapped to one of its steps or to a stutter, given `IInv`: a start to `Acquire`
  (`StartAcquires` needs that a live goroutine of the name would be registered,
  so that the name has no owner), a stop to `Release` of the names that one sync
  withdraws (`StopReleases` needs that every live goroutine of such a name is
  the registered one), an answer to `TakeAnswer` (`WorkerStepOwners`), a crash to
  `Restart`, all else to a stutter (`OwnersUnchanged`).
* `ExportsLastRoundAlways`, by `StayInv` and `ExportInv` on top of `IInv`.
  `StayInv`: no stop selects a staying name, so no goroutine of it is ever
  cancelled, and by the worker invariants it has at most one. `ExportInv`: the
  gauge exports (`Exports`) the keys that are due: the recorded ones, and while
  the goroutine cleans up or records, these and the new ones, or the new ones
  only. Every key is one of an exported label set, and a label set that its key
  gives back is exported only if its key is due; of the others nothing is claimed.
  An earlier form of the property left out only names *all* of whose summaries
  need a token; its step for the stop at the end of a sync could not be proved,
  for the reason given in section 3.

Assumptions: `ConfigMapsAssumption`, `SentinelAssumption` (the values for "none"
are no goroutine and no summary), `SanitizedNameAssumption`, `KeysAssumption` (what
a key is split into has that key if it is a label set at all), `BoundsAssumption`.

`AdmissionCheckProofs`

* `TypeCorrect`: `IInv == TypeOK /\ CacheInv /\ CopyInv /\
  ActiveInv`. The type alone is not inductive, because a patch that was not
  refused applies to the *current* object: `CopyInv` says that it is then the
  copy that sync has, and `CacheInv` that a copy which is not behind is current.
* `PublishesDecisionsAlways`: the controller implements `PublishedDecisions`,
  whoever shares a placement. A `Begin` is mapped to `Take` or a stutter
  (`BeginPublished`), the write of a config to `Publish`, a failing one to `Drop`,
  the clean-up's deletion to `Withdraw` (`ConfigPublished`), the end of a sync to
  `Activate`, `Drop`, `Remove` or a stutter (`EndPublished`), the rest to what
  users and informers do (`EnvPublished`). It needs `HandInv`, that a verdict
  exists only where it is reported and that what was to be written is kept until
  then, and, for `Activate`, `CopyInv`: the check may have been pointed elsewhere
  since sync read it, and a patch that was not refused means that it was not.
* `ActiveOnlyWithConfigAlways`, from the same invariant and without a run: a
  check turns Active only while the placement that it names has its
  `MultiKueueConfig`, here as a statement about the objects themselves.
* `NoLostWorkAlways`, if every placement belongs to one check (`NamesApart`):
  `WorkInv` adds what the worker is about to do (`SyncInv`: either its key comes
  back, or its answer is the one for the decisions seen) and what holds for all
  other checks (`SettledInv`). The step that matters is
  `ObservePlacementWorkInv`: the index is looked up in the cache, and a check
  that it misses is behind, so its own event is still to come. `NamesApart` is
  used only in `ConfigWorkInv`: a config that sync writes is no other check's.

Assumptions: `SentinelAssumption`, `BoundsAssumption`.

`DynamicScoringHubProofs`

* All rest on `IInv == TypeOK /\ CheckInv /\ FinalizerInv /\ CacheInv /\
  LeftoverInv`.
* `TypeCorrect`: a status update is applied to the *current* object, so its type
  needs `CheckInv`: a listed scorer that nobody wrote since the list is the
  current one. What the API answered has the type of an answer because the spec
  that was listed names one of the hosts.
* `SyncedFromOwnApiAlways`, an action property, from the same fact
  (`WriteIsCurrent`): the update is refused unless the listed spec, whose API was
  asked, is still the scorer's (`CheckedScorer`: only mode Full changes the
  synced config).
* `DeletedConfigLeavesNoWorksAlways`: `FinalizerInv` says that works are written
  only while the finalizer keeps the config, `CacheInv` that a cached work which is
  not behind is the current one, and `LeftoverInv` that a work without the
  finalizer is `overlooked`, and that during a deletion a work that is not is still
  to do. A cluster that joins during the deletion is not in the list, and by the
  first part of `LeftoverInv` has no work.
* `NoStaleWorksAlways`, the part of `WorksConverge` that is a safety property,
  without a run: whenever the reconciler is idle and the config is not queued,
  every work that is not `overlooked` is what the scorers and masks ask for.
  `SnapshotInv` says why: while the config is not queued again, what a reconcile
  has read is current, since every edit of a scorer or of the masks queues it, and
  so does a health check that changes a status. A cluster that joined after the
  list has no work until the resync.

Assumptions: `BoundsAssumption`, `AnswersAssumption`, `ScorersAssumption`.

`KueueCredentialsProofs`

* `TypeCorrect`, `GeneratedFollowAlways`, `CopiesFollowAlways`: `IInv == TypeOK /\
  ModeInv /\ SeenInv /\ GenInv /\ CopyInv`. `SeenInv` says that a cache differs
  from the objects only while an event is on its way, and an event always queues
  the cluster. `GenInv` and `CopyInv` have two cases for a cluster to which
  nothing is on its way: if a controller works on it, what it has found out at its
  step still holds (`GenStep`, `CopyStep`); if not, all is as its inputs ask
  (`GenDone`, `CopyDone`). The first is what makes the second inductive: whatever
  changes an input between two steps of a worker puts the cluster back on its
  queue. `ModeInv` says which steps each mode has.
* `CopyDone` keeps the exceptions of section 3: of a cluster that is not needed
  the kubeconfig is gone unless a restart orphaned it.

Assumptions: `SentinelAssumption`, `BoundsAssumption`.

`FederatedLearningProofs`

* `TypeCorrect`, `ClientsFollowAddressAlways`, `LeavesOnlyLostWorksAlways` and the
  action property `PhaseOrderAlways`: `IInv == TypeOK /\ CopyInv /\ StepInv /\
  AddressInv /\ WorksInv /\ SpecInv`.
* `CopyInv` is the key to the deferred update: as long as the copy's resource
  version is current, the copy is the stored object, up to what a failed step has
  left in it (`MayWrite`), and a copy that is not current is refused. Deletion and
  finalizer never go back, so an old copy that shows them is right about them
  (`Older`).
* `AddressInv`: a work exists, and the steps that make one are reached, only with
  an address in the *stored* status: `UpdateAddress` saves the status before it
  goes on to the clients, and a save that is refused ends the `Reconcile`.
* `WorksInv`: a work that is not `lost` is in the decisions of a placement that
  the cache has, so that the clean-up takes it up. `removeFinalizer` is reached
  with nothing but lost works.
* `PhaseOrder` follows from `CopyInv` and `StepInv`: every write of the status is
  the deferred update (`WritePhaseStep`), and what it writes is one step from
  the stored phase.

Assumptions: `KindsAssumption`, `SentinelAssumption`, `BoundsAssumption`.

`FLSidecarProofs`

* `TypeCorrect`, `ReporterFollowsFileAlways`: `IInv == TypeOK /\ FlowInv /\
  LockInv /\ GaugeInv /\ NewestInv`. `NewestInv` follows the last content from
  the file to the watcher, to the goroutine and to the reporter, which then has it
  up to what its comparison takes for no change (`Reported`); `LockInv` and
  `GaugeInv` say that the gauges and the callback are those of the stored metrics
  when nobody holds the reporter's lock, and what they are while somebody does.

Assumptions: `ContentsAssumption`, `SentinelAssumption`, `BoundsAssumption`.

`DeviceAgentProofs`

* `TypeCorrect`, `OneSubscriptionAlways`: `IInv` has `TypeOK`, `WorkInv`, `UsedInv`,
  `RefInv`, `LifeInv`, and, until a `toRequest` was interrupted (`raced`), `SubInv`
  and `EntryInv`. `SubInv` (a live goroutine is the one that the entry of its name
  can cancel) is nearly the first part of the property, and `EntryInv` the second:
  a name with an entry is `Owned`, by a Device with its finalizer or by an edit that
  left it. That needs `LifeInv`: whatever old copies the lister and the worker
  have, a finalizer that they show is there, or nobody needs it any more, and the
  name that they show is the Device's or was left (`Fits`, `Claims`). A Device that
  is being deleted is not edited, so the worker removes the entry of the name that
  it has (`Same`).
* The type is not free: `Instances` is finite, and a new instance must find a
  place. `UsedInv` counts: every instance between two restarts takes an edit of
  its own, and `Lag` counts the edits that have not reached the equipment yet.

Assumptions: `SentinelAssumption`, `SpecsAssumption`, `BoundsAssumption`.

`ComputationsProofs`

* By `ComputedInv` an output is what the program makes of the input; the theorems
  are then about the operators.
* `SummariesAreValidAlways`, `ReadingsAreKeptAlways` (from `FittingStays`:
  wrapping around leaves a number within the limit alone; readings of any size),
  `EndpointsAgreeAlways` (by the least and the greatest index in
  `WithInternalIP`).
* `StorageAsAskedAlways`: `EnsureAgain` says that a second `ensurePVC` ends where
  the first did or would have, whatever call failed in it; it rests on
  `PatchTwice` and on what comes of each type of storage (`StandardOutcome`,
  `BucketOutcome`).
* `DeployConvergesAlways`, from `StoredDoesNotDiffer`: what the deployer stores does
  not differ from the manifest by `DeepDerivative`, though a list may keep more.
* `RegisteredAreGrantedAlways`, by `RegisterInv` over histories of any length, which
  also says that the cluster binding is that of the first cluster that got so far:
  `OneMoreRegistration` takes away only what the same cluster has (`DetachKeeps`,
  `RegistrationKeeps`).
* `ScoresFollowPodsAlways`, for nodes and pods in any number and order. The loops
  are recursive functions, and what they compute is shown by induction over
  their steps. The library's induction theorems take an operator as a parameter
  and are of no use to the provers; `LoopInduction` is stated with a set instead
  and follows from `Least`, the least element of a set of natural numbers
  (`WFMin` of the library). `LoopExists` and `LoopStays` then give that a loop
  satisfies its equation and stays within its type (`SumsFacts`, `PeaksFacts`,
  `UsagesFacts`, `BestFacts`, `AvailableFacts`). On these rest: what one pod adds to
  a usage (`AddPodFacts`), usage against what the pods need (`UsageNeeded`), usage
  without one of the pods (`LessUsage`, by an induction that follows both
  sequences), the nodes when each of them uses less (`LessTaken`), the best node
  against the cluster (`BestWithinCluster`), and that the normalizer keeps the
  order, also where it cuts off a fraction of a negative number
  (`NormalizeMonotone`).

Assumptions: on the shape of the inputs, one per task (`ScorersAssumption`,
`PodsAssumption`, `ReadingsAssumption`, `StorageAssumption`, `EndpointsAssumption`,
`ManifestsAssumption`, `RoundsAssumption`, `RegistrationsAssumption`) and
`WideAssumption`. They give types and keep the values for "none" apart from
others.

TLC evaluates all of these assumptions in the runs of the modules.

Only model-checked is every liveness property (`WorkersConverge`,
`ScoresReachTheHub`, `WorksConverge`, `ChecksConverge`, `CredentialsConverge`,
`Settles`, `MetricsAreSent`, `EndsWithTraining`, `EquipmentConverges`,
`DevicesAreHeard`): the prover has no support for fairness and `ENABLED`.

## 6. What is not modelled

* Contents: score values, label names, HTTP payloads, conditions' messages, the
  fields of manifests. The rendering of templates.
* The Prometheus server, OCM's work, placement and account controllers, kueue,
  the OpenTelemetry library, the syncer of ClusterProfile Secrets: only what the
  code sees of them, as actions of the environment.
* In the hub model, endpoint paths and requests that never return; in federated
  learning, cluster set bindings, messages and the Route path, which nothing calls.
* In the device agent, what a goroutine forwards and the message buses it forwards
  to: publishing keeps no state. Several Driver objects and edits of a Driver's
  own type: the drivers of other types are taken to be there and share only the
  workers. TLC has one Device; several, also with one name, are in the theorem.
  Readings of resources that are texts, booleans, floats or objects are published as
  the library converts them.
* In the sidecar, contents without any metrics, and what the training writes once
  the sidecar was told to end.
* In the resource usage agent, the unit of an amount, which is one number here: no
  property sees that memory stays in bytes (section 7).
* In the device hub manager, the health prober and the values of manifests; in
  the kueue hub manager, the command line and the construction of clients.
* Not modelled at all: the dynamic scoring addon manager and the federated
  learning renderer (they render, and keep no state), generated code
  (deep copies, swagger documentation, clients), clusternet (renders manifests
  and starts a third-party agent), hellospoke (an example that copies a status),
  and the add-ons that consist of charts.

## 7. Deviations seen while modelling

With a run:

* `agent_stale`: `agent.go:349` replaces the summary of a running name only in
  the map; the goroutine was started with the old one and keeps it, although
  `docs/quickstart.md:330` says that the agent follows the update.
* `training_flower`: the error of `reconcileFlower` is kept in the variable that
  the deferred function reads, so one failing call makes a running Flower
  training `Failed` for good; `README.md:254` of the controller says that it
  stays `Running` until deleted.

Seen without a run, because the repository promises nothing to check against or
the model leaves the case out; hazards in `PROJECT.json` point to most of them:

* agent: the values of a label set are joined with "||" and split again to delete
  its series (`agent.go:548`, `672-674`): a value with "||" in it, or with "|" at
  its end, is split elsewhere, and the series stays exported. A goroutine that has
  its answer when it is cancelled exports it after the series of the name were
  deleted (`agent.go:368-372`, `537`); score names that fold to one resource name
  share an `AddOnPlacementScore` (`agent.go:676`); a removed ConfigMap ends the
  sync without stopping anything (`agent.go:298`).
* hub: the scoring host of the API is replaced by its source host
  (`dynamicscoringconfig_controller.go:476`); mode None still uses what an
  earlier mode Full has synced (`pkg/common/types.go:9`); works whose deletion
  fails stay for ever (`:93-98`), and so does a work just created that the manager's
  cache does not hold when the config is deleted, as it is "nothing to delete" and
  the finalizer goes (`:409-416`); an error answer with a JSON body makes a scorer
  Active.
* admission checks: two checks of one placement share the config, and the
  deletion of one takes it from the other (`controller.go:236`); a check that is
  pointed elsewhere leaves its old config; the error of the clean-up is only
  logged before the finalizer goes "after successful cleanup"
  (`controller.go:238-244`).
* credentials: what was made for a cluster whose deletion completes before the
  generator's clean-up stays. If the hub restarts between the kubeconfig and
  its `MultiKueueCluster` and the cluster loses its permission meanwhile, nothing
  names the cluster any more and the kubeconfig stays
  (`kueuesecretcopy/controller.go:185`).
* federated learning: a Job that the cache does not hold yet, or not any more,
  makes the training `Failed` (`federatedlearning_controller.go:151` against
  `deployer.go:108-111`); changed decisions delete the Job of a completed
  training. One selected cluster without the claim stops the round for all
  (`federatedlearning_client.go:205`).
* federated learning storage and addresses (`federatedlearning_server.go`): of
  several nodes with an internal address the clients are told the last and the
  server is given the first (`:587-599`, while the log says that it "will use
  the first node's internal IP"); of an ingress with both an IP and a host name
  each takes the other; an S3 volume is cluster-scoped and named after the claim,
  so that two namespaces with one storage name take it from each other (`:811`);
  a changed bucket is refused for ever, since a volume's source cannot change. The
  deployer never takes away a part that a manifest no longer has, such as the
  sidecar of a Job (`deployer.go:132`).
* sidecar: the reporter takes its lock and then the library's, to unregister the
  callback (`exporter.go:190`), while the library calls the callback, which takes
  the reporter's (`:217`): each waits for the other, although "The Reporter is
  safe for concurrent use." (`:23`). One goroutine runs per content, so an older
  content can be stored after a newer one and stay (`sidecar.go:93`). A
  content with a "timestamp" of its own in the place of one metric, with the others
  as they were, counts as no change, and the metric stays (`exporter.go:117-135`);
  `docs/configure-environment-observability.md:210` says only that the reporter
  overwrites the file's timestamp. The training is looked for at once
  (`sidecar.go:65-70`), and a training that is not up yet ends the sidecar for good.
  The last export runs with a cancelled context.
* device agent: `toRequest` writes the devices' map without the lock and can undo
  an `AddDevice` or `RemoveDevice` (`opcua/driver.go:262`), and the subscription
  that is left can be cancelled by nobody; a new driver configuration leaves the
  subscriptions of the old instance running and, with MQTT, panics on a channel
  that was not made (`equipment.go:92`); a failed subscription is not retried
  until its device changes; a config that cannot be parsed gives a typed nil
  driver, whose methods panic; the entries of a driver are keyed by `spec.name`
  and the driver is found by `spec.driverType`, and an edit of either leaves the
  old entry and its subscription, which nobody removes, also once the Device is
  gone (`devices_controller.go:79`, `:87`); two Devices of one name take the entry
  from each other at every resync; `AddDevice` carries the requests of an old
  config over and `findRequest` returns the oldest of a handle, so that readings
  of a changed device are taken for a resource of its old config
  (`opcua/driver.go:85`, `:272`); MQTT's `RemoveDevice` is a TODO
  (`mqtt/driver.go:122`); a deleted device whose driver is gone keeps its
  finalizer and is looked at every 5 s (`devices_controller.go:79`).
* device readings: a reading is converted before its range is checked
  (`validator.go:18`, `:75`): an unsigned 64-bit one wraps around and is published
  as a negative number; a float beyond the widest integer, such as 1e19, or one
  that is no number becomes what the processor makes of it, and may be published;
  the null of JSON is published as 0.
* device hub: the shared cluster role binding names the group of the first
  cluster only (`manager.go:224-246`), and is never changed, also when that cluster
  is gone. The agents list the objects of all namespaces (`spoke.go:69`): those of
  the other clusters may not, and get nothing.
* resource usage: an init container is compared with the sum over all earlier
  pods, so that usage depends on the order of pods (`calculate.go:239`);
  `memAvailable / 1024 * 1024 // MB` (`:150`) leaves the memory in bytes, of which
  1024 * 1024 already give the best score; the error of `calculateNodeScore` is
  overwritten (`agent.go:161-162`); a new object has no scores for its first round
  (`agent.go:213`).

## 8. Plan

Done: the modules of section 2; the refinements of `ScoreOwners` and of
`PublishedDecisions`; the proofs of section 5, which leave no safety property of a
run without a theorem.

What is left would extend the model:

1. a composition of hub and agent of dynamic scoring through the `ManifestWork`,
   and the theorem that what the agent runs was asked for by the hub;
2. two drivers that share the workers of the device controllers, and the message
   buses.
