# TLA+ models of the Concourse operator

The operator (`src/`) is a Kubernetes controller manager that mirrors custom
resources (Instance, Team, Pipeline, Job, Build, Resource, Worker) to a
Concourse server.  This directory holds TLA+ modules for its seven controllers
and the client cache they share, the TLC configurations that check them on small
instances, and TLAPS proofs of every safety property for all instances.

## Inventory

| Component | State it keeps | Operations | Interacts with |
|---|---|---|---|
| Build controller (`build_controller.go`) | `watchers` (sentinels), goroutines, `eventCh`, the status of Builds | `Reconcile`: trigger, abort, refresh, write status, start a watcher; `watchBuildEvents` | Job and its chain (read), client cache, Concourse, itself through `eventCh` |
| Instance controller (`instance_controller.go`) | finalizer and status of Instances | `Reconcile`: finalize, get a client, `GetInfo`, `ListWorkers`, write status | client cache (evicts), Secret (read), Concourse |
| Client cache (`client_cache.go`) | map `namespace/name@resourceVersion` to client | `Get`, `Set`, `Evict`, `GetOrBuild` | every reconciler; `auth.go` builds the clients |
| Pipeline controller (`pipeline_controller.go`) | finalizer, hash, ID and flags in the status | `Reconcile`: apply, pause, expose, fetch, write status; `deletePipeline`, `loadPipelineConfig` | Team chain, ConfigMap (read), Concourse |
| Job controller (`job_controller.go`) | observed generation, pause, last build | `Reconcile`: pause, create a Build, fetch, write status | Pipeline chain, creates Builds and watches them |
| Resolver and conditions (`resolver.go`, `conditions.go`) | none | walks Build → Job → Pipeline → Team → Instance | every child controller |
| Team controller (`team_controller.go`) | finalizer, ID and time of the last apply in the status | `Reconcile`: create or update the team and its roles on every reconcile; `deleteTeam`, `buildTeamAuth` | Instance (read), client cache, Concourse, itself through its status writes |
| Resource controller (`resource_controller.go`) | time of the last check, latest version in the status | `Reconcile`: check when `shouldCheck` says so, fetch the latest version | Pipeline chain (read), Concourse, the clock |
| Worker controller (`worker_controller.go`) | actual state and conditions in the status | `Reconcile`: land or prune on every reconcile, list workers | Instance (read), client cache, Concourse |
| Controller manager (`cmd/main.go`) | none of its own | builds the cache and starts the controllers | all |

Every controller has one worker (`MaxConcurrentReconciles` is not set) but all
controllers, all watcher goroutines and the informers run concurrently.  What is
hard here: a reconcile is a sequence of remote calls on a copy of the resource
that may be outdated when it starts and is certainly outdated after the first
edit; a call may fail, or fail after having been carried out; the process may
stop between two calls; a reconcile that returns without a requeue relies on an
event; and a shared cache is used without a lock across check and act.

What makes each part correct:

* Build: the status names one run of this very incarnation, never goes back, and
  a terminal phase is the run's; one watcher per Build; nothing is forgotten;
  runs are started, recorded and aborted in the end.
* Instance and cache: a client fits the version of the Instance its caller read;
  one client per Instance; deletions complete; a renewed credential heals.
* Pipeline: Ready means the configuration is in Concourse; convergence after
  faults; no pipeline is left behind by a deletion, but for what the code gives up.
* Job: an observed change has had its Build, and a second one only for a cause;
  pause and last build are followed.
* Team: Ready means the roles are in Concourse; drift is repaired; deletions
  complete and leave nothing behind, but for what the code gives up.
* Resource: checks are neither late nor too frequent; the status is current one
  period after the last change and never goes back.
* Worker: a worker ends up landed or pruned as desired and is shown as it is.

`PROJECT.json` lists every hazard with its line, under `hazards`.

## Modules

| Module | Models | Role |
|---|---|---|
| `KubeAPI` | API server, informer stream and work queue as the code uses them (external) | operators shared by the controllers |
| `BuildRecord` | what the status of a Build promises | abstract specification |
| `BuildController` | `BuildReconciler` | detailed specification, implements `BuildRecord` |
| `ClientCache` | `Cache.Get`, `Set`, `Evict` | operators on the map |
| `InstanceController` | `InstanceReconciler`, `GetOrBuild`, the resolvers of other controllers | composes cache, Instance worker and resolvers |
| `Reconciler` | what a controller with one resource and one worker has in common with the others: resource, informer, queue, how a reconcile begins, writes and ends | taken in by the five modules below with `INSTANCE Reconciler WITH NoObject <- ...` |
| `PipelineController` | `PipelineReconciler` | |
| `JobController` | `JobReconciler` | |
| `TeamController` | `TeamReconciler` | |
| `ResourceController` | `ResourceReconciler`, with a clock | |
| `WorkerController` | `WorkerReconciler` | |
| `MCBuild`, `MCInstance`, `MCPipeline`, `MCJob`, `MCTeam`, `MCResource`, `MCWorker` | | values of constants for TLC |
| `KubeAPI_proofs` | | what the proofs need of API server and informer |
| `BuildController_proofs`, `InstanceController_proofs`, `PipelineController_proofs`, `JobController_proofs`, `TeamController_proofs`, `ResourceController_proofs`, `WorkerController_proofs` | | theorems about each controller |

### State and steps

Each controller module has the same frame.  `api` is the resource as the API
server has it, `stream` the versions on their way to the informer, `store` the
informer's copy, `wq` the state of a key in the work queue (`none`, `ready`,
`waiting` for its delay).  `pc` is the call the worker makes next and `rc` its
request with its private copy of the resource.  A version carries its
`resourceVersion` (`rv`), its generation, and the status reduced to what the
properties tell apart; conditions are reduced to their reasons.

One call of `Reconcile` is one action: reads that open the reconcile are `Begin`
(all of them come from informer stores), and each call to Concourse or to the API
server is an action of its own, because everybody else moves between two calls.
Local computation belongs to the call before it.  Each remote call has an outcome
in which it fails without effect and one in which it fails after it took effect,
where the two differ.  A write with an outdated `resourceVersion` is refused
(`Accepts`); a write that changes nothing makes no new version and no event
(`Written`, `Published`).  A returned error and `RequeueAfter` both put the key
back after a delay (`AddAfter`); delays are timed in `ResourceController` only.
A key is in the queue once: an event makes a waiting key ready at once.
`CrashRestart` loses all memory of the process; the new process lists and
enqueues what exists.  Besides edits of the spec users write labels and
annotations (`Annotate` and the actions named `Annotate...`): a new
`resourceVersion` of the same generation, with which the write of a reconcile in
progress conflicts.

* `BuildController`: `FirstCall` holds the early returns of `Reconcile`; then
  `Report`, `Trigger`, `AbortBuild`, `Refresh`, `UpdateStatus`, `StartWatcher`.
  A watcher goroutine goes through `OpenStream`, `StreamEnds`, `Enqueue` (the
  deferred send on `eventCh`, which blocks when the channel is full) and
  `WatcherExits` (the deferred `watchers.Delete`, after the send).  The chain is
  one value (`noJob`, `notReady`, `ready`) that the environment changes.
  `dropped` are the Builds whose last reconcile found no Job (`JobMissing`).  The
  periodic resync of the informer is an action without fairness.
* `InstanceController`: `GetOrBuild` is three steps (`GetFromCache`,
  `BuildClient`, `SetInCache`) of whoever calls it, the Instance worker or a
  resolver; the mutex covers each of them and not their sequence.  A client is
  as good as the URL and the credential it was built from.  `GetInfo` with a
  credential that Concourse does not accept succeeds only as a fault: a token
  that has not expired yet.
* `PipelineController`: `Destroy` and `RemoveFinalizer` on the way out,
  `AddFinalizer`, `Resolve` (chain and `loadPipelineConfig`), `Apply` (when hash
  or ID say so), `SyncFlag` twice, `Fetch`, `UpdateStatus` on the way in.
  `CreateOrUpdatePipelineConfig` is called with an empty config version, hence
  overwrites.  Pausing a pipeline that does not exist is no error.
* `JobController`: `Pause`, `Trigger` (creates a Build resource), `Fetch`,
  `UpdateStatus`; `OwnedBuildChanges` is the event of an owned Build, which may
  come before the informer has the Job's own new version.  `known` says whether
  the pipeline in Concourse has the job, which a new configuration changes
  (`PipelineReset`): of an unknown job `PauseJob` and `UnpauseJob` answer
  found=false without an error, which the code takes for a success.  `touches`
  counts the writes of labels during a reconcile.
* `TeamController`: `DeleteTeam` and `RemoveFinalizer` on the way out,
  `AddFinalizer`, `Resolve`, `Apply` (on every reconcile, whatever the status
  says), `UpdateStatus` on the way in.  What a team grants is a set of pairs of
  role and member; users and groups are treated alike.  `now` is the time that
  `lastApplied` records, so that the status write of a later tick is a new
  version with an event of its own.  The clock moves at any time, `MaxTime` ticks.
* `ResourceController`: `Begin` (reads and `shouldCheck`), `Check`, `Fetch`,
  `UpdateStatus` or `Report`.  `checkInterval` is a set of at most one number, 0
  standing for every interval that is not positive.  A waiting key carries the
  time it is due.  The clock is prompt: it does not tick while the informer or the
  worker has something to do, so that a bound on the clock is a bound on the
  operator's own delays; a tick is longer than a reconcile and than the first
  delays of the rate limiter.  `since` is the time of the last change or fault,
  `dropped` says that the last reconcile ended for want of the Pipeline.  `Sec` is
  a second in ticks; the status has times in whole seconds (`Truncated`).  As for
  Jobs, `known` says whether Concourse has the resource: `CheckResource` of an
  unknown one answers found=false, and the code records a check.  So `asked`, the
  last call that arrived, and `started`, the last check, are two things.
* `WorkerController`: `Transition` (`LandWorker` or `PruneWorker`, unless the
  desired state is active), `List`, `UpdateStatus` or `Report`.  The worker moves
  by itself (`WorkerMoves`): it registers, stalls, recovers, ends its landing and
  comes back.  Concourse refuses to prune a running worker and to land an unknown
  one, which the code logs.

The five controllers on `Reconciler` are modelled with one resource, since
resources of one kind share only the worker.  They and the Instance leave the
resync out: a reconcile of a live resource requeues in any case, or is dropped as
described below.

## Runs

Passing:

| Run | Checks | Instance |
|---|---|---|
| `build_record` | `TypeOK`, `OneWatcherPerBuild`, `TruthfulRecord` (refinement) | one Build, three user steps (create, delete, create again), one reconcile from an outdated copy, channel of capacity 1 |
| `build_live` | `NeverForgotten`, `EventuallyServed`, `EventuallyAborted` | two user steps, one fault or crash, every state of the chain, the missing Job among them |
| `instance_cache` | `TypeOK`, `ClientOfTheSpecRead`, `OneClientPerInstance` | worker and one resolver, two URLs, four user steps, one fault or crash |
| `instance_live` | `DeletionCompletes`, `StallIsReported`, `RenewalHeals` | two credentials, four user steps, one fault or crash |
| `pipeline_sync` | `TypeOK`, `NothingElseLeftBehind`, `InSyncWhenReady`, `EventuallyInSync`, `DeletionCompletes` | three user steps, one fault, one crash, a rename together with a change, a ConfigMap, chain coming and going, others destroying pipelines |
| `job_follow` | `TypeOK`, `ObservedMeansAttempted`, `RepeatsHaveACause`, `EventuallyTracked` | three steps of users or Concourse, one fault, one crash, one reconcile from an outdated copy, a job that Concourse has or not |
| `team_apply` | `TypeOK`, `GrantedWhenReady`, `NothingElseLeftBehind`, `EventuallyGranted`, `DeletionCompletes` | two team names, two members, a role bound twice, three steps of users and others, one fault, one crash, two ticks |
| `resource_timely` | `TypeOK`, `CheckedInTime`, `NotTooOften`, `CurrentInTime`, `StatusNeverGoesBack` | intervals none, 0 and 3, poll 4, retry 1, a second of two ticks, six ticks, three steps of users or Concourse, one fault, one crash, every state of the Pipeline |
| `worker_follow` | `TypeOK`, `EventuallyLanded`, `EventuallyPruned`, `EventuallyShown`, `PollingEnds` | all desired states, all states of Instance and worker, three steps of users, Instance or worker, one fault, one crash |

Violated, each a disagreement between code and text (`findings` quotes the text):

| Run | Property | What TLC shows |
|---|---|---|
| `build_trigger` | `AtMostOneTrigger` | the status write after `CreateJobBuild` is refused because the Build was edited; the next reconcile triggers again |
| `instance_leak` | `NoClientAfterDeletion` | a client built across the eviction is stored after it |
| `pipeline_revert` | `InSyncWhenReady` | applied, not recorded, reverted: the recorded hash matches the reverted spec and nothing is applied |

The bounds (`MaxEdits`, `MaxFaults`, `MaxStale`, `MaxCrashes`) count what the
environment does; the operator's own steps are unbounded.  Three user steps are
what re-creation takes, which is where incarnations are confused; one outdated
read, one fault and one crash each meet every call of the reconcile in turn.
Capacity 1 makes the channel full as soon as one event waits.  Deadlock is not
checked: a system whose resources are gone and whose users are at their bound
stops legitimately.  The theorems remove these bounds for everything but liveness.

Six ticks let an interval of 3 and a retry pass after a change, and the delays
differ: interval 3, poll 4, retry 1.  The interval is longer than a second, which
is two ticks, so that a check may come early by a tick and no more.  The bound of `CheckedInTime`, one interval and
one retry after the last change or fault, is tight: without the retry TLC finds a
chain that becomes ready just after a reconcile found it was not.

Some promises hold with a proviso, which the property states.  `InSyncWhenReady`
passes where users do not go back to an earlier configuration (`Reverts = FALSE`),
where a rename comes with another configuration, and except for a pipeline that others have destroyed since it was set
(`tampered`); the Team controller, which applies every time, needs no such limit.
`NothingElseLeftBehind` excepts pipelines and teams the code gives up
(`abandoned`): `Reconcile` only logs that the destruction failed or that the chain
was not ready, and removes the finalizer; and a rename leaves the old name
alone.  `ObservedMeansAttempted` excepts changes whose Build could not be created.
`RepeatsHaveACause` counts, besides faults, crashes and outdated reads, the writes
of labels during a reconcile.  The properties of Builds, `CheckedInTime`,
`CurrentInTime` and the properties of Workers except resources whose last reconcile
found the parent missing.  `EventuallyTracked`, `CheckedInTime` and `CurrentInTime`
promise what concerns Concourse for a job or resource that Concourse has, and
`CheckedInTime` nothing for an interval that is not positive.  `NotTooOften` allows
the part of a second that the record does not show.  These are limits of the code,
not of the model.

### Where the code and the text disagree

Besides the three violated runs, six disagreements come with a passing run: the
property says what the code does, and its proviso, where it has one, is where the
text goes further (`findings` quotes the lines).

* A Build without its Job and a Resource without its Pipeline end their reconcile
  without a requeue (`build_controller.go:85`, `resource_controller.go:63`), and no
  event of the parent brings them back before the next resync of the informer.
  `docs/architecture/dependency-chain.md:38` says that a child of a missing
  ancestor "requeues with an exponential backoff".  `build_live` explores the
  missing Job, and `NeverForgotten` names this return as the only one that forgets
  a Build; in `resource_timely`, `Followed` excepts it.
* Deleting a Pipeline or a Team destroys what it stands for in Concourse
  (`pipeline_controller.go:210`, `team_controller.go:137`), which
  `NothingElseLeftBehind` shows in both runs.  `docs/getting-started/installation.md:105`
  says that deleting any resource but an Instance "does not delete the corresponding
  resource from Concourse".
* A Job reports the pause of its spec as the actual one, and Ready, when Concourse
  has no such job (`job_controller.go:79` and `:85` ignore found=false);
  `job_types.go:50` says "Paused reflects the actual pause state in Concourse".
  `EventuallyTracked` relates status and Concourse if the job is there.
* A Resource records `lastChecked` and `CheckSucceeded` when Concourse has no such
  resource and starts no check (`resource_controller.go:95`); `resource_types.go:52`
  says "LastChecked is the timestamp of the last resource check".  `CheckedInTime`
  is about checks that Concourse started, of a resource that it has.

### Behaviour that no run judges

The models contain it unless said otherwise, and a reader of the code should know
it:

* A Worker without its Instance ends its reconcile without a requeue
  (`worker_controller.go:60`), as the Build and the Resource above.
* `spec.vars` of a Pipeline is read nowhere in the operator, and no model has it,
  whereas `pipeline_types.go:69` says "Vars are pipeline variables passed at
  set-pipeline time": a change of the variables alone changes nothing in Concourse.
* When the creation of a Build fails, the Job's change is recorded as observed
  (`job_controller.go:105-112`) and its build is lost, whereas `job_types.go:37`
  says that a Build is created "on each spec change".  An outdated read, or a write
  of labels between the read and the status write, can make a Job create two Builds
  for one change.
* `spec.pinnedVersion` of a Resource is passed to the check and never pinned or
  unpinned, whereas `resource_types.go:33-35` says so.  A `checkInterval` of zero
  or less ends the polling of the Resource.
* Retiring a worker is landing it (`worker_controller.go:79`).  A worker that has
  left the list keeps the state it had in the status.  `StateTransitioning` is
  always true for a listed worker: the states of workers (`running`, `landed`) are
  compared with the words of `spec.desiredState` (`active`, `land`).
* `lastApplied` makes a successful reconcile of a Team in a new second (the
  resolution of the time) a new version, whose event causes another reconcile: the
  Team is applied again and again until a reconcile falls into the second of the
  one before.
* When `spec.pipelineName` changes and the configuration does not, hash and ID of
  the old pipeline are taken for the new one (`pipeline_controller.go:108`):
  nothing is set under the new name, and Ready is reported, whereas
  `pipeline_types.go:61` says "PipelineName is the name in Concourse".  TLC finds
  `InSyncWhenReady` violated in `MCPipeline` with the specs `Of(n1, c1, {})` and
  `Of(n2, c1, {})`.  The pipeline of the old name stays in any case.
* A pipeline destroyed by others is not set again before the next change.
* A status write of an Instance changes its `resourceVersion` and so misses the
  cache; a credential changed in Concourse first and in the Secret later can leave
  the old client in the cache for good; a failing `ListWorkers` sets
  `WorkersHealthy` to True for one round.

### Fairness

Weak fairness of the informers, of the delays, of the channel source and of the
worker's calls: the process runs and client calls return, or they would be
faults.  Strong fairness of `Begin` per key: the work queue is first in, first
out.  Strong fairness of a goroutine's send: Go serves blocked senders in order.
An event stream ends once its build has ended.  Nothing is assumed of users, of
faults, of the resync, of Concourse's progress, of the clock, or of a resolver
starting.  The timed properties of the Resource controller are invariants and need
no fairness; what they assume instead is the prompt clock described above.
`RenewalHeals` requires that the changed Secret had reached the informer when the
Instance was touched: with a lagging Secret informer the renewed client is built
from the old credential, and cached under the new key.

Each property has a mutant (`PROJECT.json`): a plausible slip in the code, next to
the definition it replaces, under which TLC finds the property violated.

## Proofs

TLAPS proves every invariant and every action property that a passing run checks,
and the refinement of `BuildRecord`, for all values of the constants that the
modules' assumptions admit: any sets of names, specs, members, URLs and
resolvers, any delays and intervals, any budget of edits, faults, crashes and
time.  `PROJECT.json` lists them under `theorems`.

| Module | Theorems (property) |
|---|---|
| `BuildController_proofs` | `TypeCorrect`, `RecordsInvariant` (the inductive invariant), `RecordRefinement` (`TruthfulRecord`), `OneWatcher` (`OneWatcherPerBuild`), `NothingForgotten` (`NeverForgotten`) |
| `InstanceController_proofs` | `TypeCorrect`, `ClientCorrect` (`ClientOfTheSpecRead`), `OneClientCorrect` (`OneClientPerInstance`) |
| `PipelineController_proofs` | `TypeCorrect`, `NothingLeftCorrect` (`NothingElseLeftBehind`), `InSyncCorrect` (`InSyncWhenReady`) |
| `JobController_proofs` | `TypeCorrect`, `AttemptedCorrect` (`ObservedMeansAttempted`), `RepeatsCorrect` (`RepeatsHaveACause`) |
| `TeamController_proofs` | `TypeCorrect`, `GrantedCorrect` (`GrantedWhenReady`), `NothingLeftCorrect` (`NothingElseLeftBehind`) |
| `ResourceController_proofs` | `TypeCorrect`, `StatusCorrect` (`StatusNeverGoesBack`), `NotTooOftenCorrect` (`NotTooOften`), `CheckedCorrect` (`CheckedInTime`), `CurrentCorrect` (`CurrentInTime`) |
| `WorkerController_proofs` | `TypeCorrect` |

One theorem has a hypothesis on the constants and cannot do without:
`InSyncCorrect` requires `ForwardOnly`, that users do not go back to an earlier
configuration and that specs with one inline configuration have one name.  The run
`pipeline_revert` drops the first half; what happens without the second is
described above.  `pipeline_sync` satisfies both.  `NothingForgotten` holds for
every state of the chain, the missing Job included: what the code drops is in the
property.

### The argument

Hardly any property above is inductive by itself, for one reason: a reconcile holds a
private copy that it will write later, and older versions are still on the stream
and in the informer's store, from where later reconciles start.

`KubeAPI_proofs` says this once for all controllers, for a resource `a`, its
stream `s` and its store `t`: `Seen(a, s, t)` are the versions that can still be
read, `KubeStep` is what a write, an event or a restart does to the three, and
`Ordered` says that versions come in the order of their `resourceVersion`, the
last one on the stream being the current one.  A step keeps the order
(`OrderedStep`), what can be read after it could be read before or is the current
version (`SeenStep`), and a version with the current `resourceVersion` is the
current version (`OrderedSeen`).  Each controller's module shows that its actions
are such steps (`ApiStep`), what each action does (the lemmas named `...Fields`),
and then that its own invariant survives one action after the other.  The
invariants were checked by TLC first, on the instances of the runs.

* Pipeline, Job, Team and Resource have `OrderInv` (the order above) and
  `CopyInv`: the copy is not newer than the resource and, with its
  `resourceVersion`, differs from it by what the reconcile found out.  An accepted
  write therefore replaces a version by one that says more.
* Build: `VersionInv` says that every version that can be read tells the truth
  about a run of its own incarnation, `RequestInv` that the worker's copy does.  An
  accepted write then says more about the same run (`StatusWrites`), which is a
  step of `BuildRecord`; a refused one is a stutter.  Even `TypeOK` needs
  `RequestInv`: `Refresh` looks up the run of the recorded ID, which exists only
  because recorded IDs are truthful.  `NothingForgotten` adds `OutdatedIsPending`:
  while a reconcile works on an outdated copy, an event or a queue entry is on its
  way.
* Instance: `KnownInv` collects what versions, callers and cache entries know of
  an Instance, and says that a name and a `resourceVersion` belong to one URL for
  good, even across deletion and creation.  A hit is thus as good as a new client,
  and `Set` of a late caller does no harm but to replace a newer entry (`CacheInv`:
  one entry for a name).
* Pipeline and Team: `KeptInv` says that whatever a version that can be read, or a
  reconcile in progress, may still create is answered for by the current
  finalizer or given up; so once the removal of the finalizer is accepted nothing
  is left that creates anything.  For the Team, `ReadInv` and `GrantInv` say that
  while a reconcile holds the current version every version that can be read would
  apply the same roles, so that what it applied stays.  For the Pipeline,
  `UsedInv`, `ReadInv` and `SyncInv` say that a hash is recorded with the
  configuration it belongs to only once that is in Concourse, and that then nothing
  that can be read sets another; here `ForwardOnly` is used.
* Job: `HonestInv` says that every version that can be read, and what a reconcile
  is about to write, claims only changes for which a Build was attempted.
  `CountInv` counts the Builds of a change against faults, crashes, outdated reads
  and writes of labels during a reconcile, with one in reserve while a trigger may
  still follow.
* Resource: `PastInv` says that what is recorded has happened, with which `CopyInv`
  gives `StatusNeverGoesBack`.  `CalmInv` says that in a tick in which nothing
  happened a reconcile holds the current Resource and only its own event may be on
  its way, `QueueInv` that the key of a live Resource is never lost and never
  overdue, `RecordInv` that a check that was asked for is on record, in whole
  seconds, or about to be, `StartedInv` that a check asked for since the last change
  was started if Concourse has the resource.
  `WakeInv` gives the reasons for which the controller looks at the Resource, and
  `DueInv` says when a delayed key is due; a tick then cannot pass the deadline of
  `CheckedInTime`.  `CopyCurrent` and `LookInv` do the same for `CurrentInTime`.

What the proofs found: the second half of `ForwardOnly`, a rename that is never applied;
that the Team's clock needs a first tick (`MaxTime \in Nat \ {0}`), and that there
must be an Instance for a resolver to ask for (`InstancesAssumption`).

### Only model-checked

Everything under fairness, which is out of the prover's reach: `EventuallyServed`,
`EventuallyAborted`, the three properties of `instance_live`, `EventuallyInSync`,
`EventuallyTracked`, `EventuallyGranted`, both `DeletionCompletes` of Pipeline and
Team, and the four properties of `worker_follow`.  Violated properties have a run
and no theorem.

## Not modelled

TLS and OAuth details, token life times; URLs, times (but for `lastApplied` and
`lastChecked`), group counts, platform, tags and other descriptive fields,
`ConfigWarning`; a Team without any role; flags, metrics and probes of `main`; generated code and manifests.
Finalizers of others are modelled for Builds, Jobs, Resources and Workers, whose
deletion may linger.  Owner references are not: deleting a Job does not delete its
Builds here.  Chains are not composed: the readiness of a parent is a value that
changes at any time, which allows everything that the parent's controller may do
and more.

## Plan

1. Safety of the Worker controller, of which only types are proved: what its
   status shows is a state the worker had, and the record does not go back.
2. The safety halves of the liveness properties as invariants, e.g. that a
   deletion in progress always has a key in the queue, an event on its way or a
   reconcile at work (as `NeverForgotten` says for Builds and `QueueInv` for
   Resources), for Pipelines, Teams, Jobs and Instances.
3. A composition in which the parents of a chain are controllers whose Ready
   condition the children read through lagging informers, to state that a chain
   applied in any order becomes ready, and what a parent's deletion does to its
   children's finalizers.
