# Formal models of yurt-app-manager

TLA+ models of the controllers in `src/pkg/yurtappmanager`, the TLC instances
that check them, and TLAPS proofs of what matters most about them. Source
paths below are relative to `src/pkg/yurtappmanager/`.

## 1. The system

yurt-app-manager is a Kubernetes controller manager. It has no database: its
state is the API server's objects, and each controller is a work queue of keys
and a `Reconcile` function that reads informer caches and sends API calls.
Everything hard about it comes from that: the reads are old, a call may fail,
time out or succeed without its answer arriving, the process may be replaced
between two calls (leader election, `cmd/yurt-app-manager/app/core.go`), and
users and other controllers write the same objects meanwhile. One key does not
run twice at the same time, but keys and controllers run next to each other.

### Inventory

| component | state it keeps | operations | what makes it correct |
|---|---|---|---|
| **YurtAppSet controller** `controller/yurtappset/` | YurtAppSet (spec, generation, status with conditions and replicas per pool); one Deployment or StatefulSet per pool, with pool label, revision label, replicas, patch annotation | `Reconcile`: name a revision, list pools, delete duplicates, create missing pools, delete unexpected ones, clean the other template type, update outdated ones, write the status | converges to one up-to-date workload per pool; no duplicates from synced caches; status and conditions tell the truth; deletion leaves nothing |
| **UnitedDeployment controller** `controller/uniteddeployment/` | as above, other type names | as above, same code | as above |
| **Revision history** `revision.go` in three controllers | ControllerRevisions (data, number), collision count, current revision | list, sort, clean, find equal, roll back, create under a hashed name | the pools get the current template's revision; cleaning spares what is in use; the history is bounded; rollback moves a revision to the end |
| **SlowStartBatch** `util/tools.go` | counters, a wait group, an error channel | call `fn` for each index, in batches of growing size | every index once at most; truthful answer; nothing after a failed batch |
| **YurtAppDaemon controller** `controller/yurtappdaemon/` | YurtAppDaemon, one Deployment per matching NodePool | reconcile Deployments with the NodePools; NodePool events enqueue | one Deployment per matching pool; it follows the pool's taints; the status names the pools |
| **NodePool controller** `controller/nodepool/` | NodePool (spec, status), labels, annotations and taints of Nodes | add and remove nodes, conciliate their attributes, count ready nodes, create the default pools | a node carries the attributes of one pool; leaving a pool takes them away; other labels survive |
| **YurtIngress controller** `controller/yurtingress/` | YurtIngress (finalizer, status), ingress controllers per pool, a shared namespace and roles | create, update and remove what each pool has; make and delete what they share; clean up on deletion | every pool asked for is served; the status tells which are ready; what is shared stays while it is needed |
| **Ingress addon helpers** `util/kubernetes/` | none | render templates, create and delete their objects | idempotent |
| **RefManager** `util/refmanager/` | owner references | adopt, release | no object taken from its controller; no orphan that somebody wants |
| **Webhooks** `webhook/` | none | validate and default | a pool with nodes is not deleted; no pool in two YurtIngresses; immutable fields |
| **API types, conversion** `apis/` | field definitions | defaults, v1alpha1/v1beta1 conversion | round trips |
| **Utilities** `util/` | none | small pure helpers | - |
| **Manager process** `cmd/` | leases | start, elect, restart | one active manager |
| **Generated clients** `client/` | - | - | - |

Interactions: the controllers share the API server's objects and nothing else.
YurtAppSet and YurtAppDaemon place pods on the NodePools that the NodePool
controller labels; events of NodePools enqueue YurtAppDaemons; Deployments and
StatefulSets enqueue their YurtAppSet, UnitedDeployment or YurtIngress (`add`
in each controller), but not their YurtAppDaemon; every bulk create or delete
goes through `SlowStartBatch`; every list of workloads and revisions goes
through `RefManager`; webhooks read the same caches at admission.

`PROJECT.json` lists, under `hazards`, the lines where this goes wrong most
easily, and under `map` the lines each definition stands for.

### Modules

| module | models | composed with |
|---|---|---|
| `SlowStartBatch`, `BulkCall` | `util/tools.go`, and what its callers may rely on | `SlowStartBatch` implements `BulkCall` |
| `YurtAppSet` | a YurtAppSet, its workloads, the webhook's guarantees | - |
| `UnitedDeployment` | the same loop over UnitedDeployments | `INSTANCE YurtAppSet WITH yas <- ud, ...` |
| `RevisionHistory` | `revision.go` | - |
| `NodePool` | NodePool controller, its webhook, the conversion of NodePools | several pools and nodes in one model |
| `YurtAppDaemon` | YurtAppDaemon controller, its Deployments, NodePools that come and go | - |
| `YurtIngress` | YurtIngress controller, webhook, addon helpers | several YurtIngresses in one model |
| `RefManager` | claims of several owners, as all controllers make them | - |
| `MC...` | small instances of each for TLC | |
| `...Proofs` | theorems about each | |

The controllers are models of their own, since what one leaves for another is
a handful of objects: those objects are variables of each model, and what the
other controllers and users do to them are its `User`, `Cluster` and
`Collector` actions, which are more than what the other controllers do.

### Conventions of all models

- An API call is a step, and so is a reconcile's first read of the caches. What
  runs between two calls is part of the step before.
- For every object there is the server's version and the one the informer saw
  last; `stale`, `lagging`, `pending` or a `Synced` flag say what it has not seen.
  `Sync` actions deliver, and enqueue what the event handlers enqueue.
- The server refuses a write made from an old version; where the version used
  by a retry loop is that of the cache, all its attempts are one step, and
  where it is that of the first read (YurtIngress, NodePool), `fresh` says that
  nobody wrote since.
- Faults of a call: `error` (refused, nothing done), `lost` (done, answered
  with an error), `timeout` (an error for which `IsTimeout` holds, done or
  not), `list` (a list that fails), `crash` (the process dies, its successor
  lists everything). Each is allowed at every call, up to a bound.
- `Return` drops what a reconcile holds; history is kept only where a property
  needs to know how the last reconcile ended (`outcome`) or that an error was
  swallowed (`misled`, `dropped`, `relisted`).
- Names of workloads that the server generates are never used again; which
  free name is picked does not matter (`NewId`).
- Definitions whose comment says `mutant` are the plausible bugs that
  `PROJECT.json` lists under `mutants`; no specification uses them.

## 2. What is modelled

### SlowStartBatch, BulkCall

`SlowStartBatch` follows the loop of `util/tools.go` goroutine by goroutine:
`Launch` is one `go func`, `Succeed(n)` and `Fail(n)` are the ways `fn(n)`
returns, `ReturnError` and `NextBatch` what follows `wg.Wait()`. `BulkCall` is
what a caller may rely on, with no batches in it; the loop implements it
(`ImplementsBulkCall`, refinement mapping in `SlowStartBatch.tla`).

### YurtAppSet, UnitedDeployment

One object, its workloads, and one reconcile at a time.

| code | model |
|---|---|
| API objects | `yas`, `workloads[id]` (kind, pool, revision, replicas, recorded patch) |
| informer caches | `yasCache`, `cache`; `yasSynced` and `stale` say what they have not seen |
| work queue | `queued`; `SkipDeleted` takes keys of deleted objects; `Resync`, and every event of `Sync`, put them in |
| `Reconcile` up to `getNameToPool` | `SkipDeleted`, `RevisionsFail`, `ListFails`, `ListPools`, `DeleteDup` |
| `managePoolProvision` | `StartCreates`, `NextBatch`, `BatchCall`, `StartDeletes`, `StartClean`, `DeleteCall` |
| `managePools` | `ProvisionFailed`, `StartUpdates`, `NextBatch`, `BatchCall`, `FinishUpdates` |
| `calculateStatus`, `updateStatus` | `CalculatedStatus`, `UpdateStatus`, `UpdateStatusFails` |
| process death, lost lease | `Crash` |
| users, autoscalers, garbage collector | `EditSpec`, `ScaleWorkload`, `RemoveWorkload`, `DeleteYurtAppSet`, `CollectGarbage`, `FinishDeletion` |

- A revision is named by its template; how it is found is `RevisionHistory`.
- A cache jumps to the server's latest version, one kind at a time; the ones in
  between differ only in what was never read.
- `UpdatePool` and `updateStatus` re-read the *cache* before each retry, so they
  succeed exactly when the cache is current when they are decided.
- The order of a cached list is arbitrary, so which duplicate is kept, and
  which pools go first in a batch, is a choice.
- A patch is a value that can be merged or not (`BadPatches`). Patches that
  change the replicas or the labels themselves are left out.

The files of UnitedDeployment differ from those of YurtAppSet in type names
only, where these models look: `UnitedDeployment` instantiates the operations
with its own variables and its own source lines. (`revision.go` differs in one
more place: without a `RevisionHistoryLimit` it takes 0, the other 10.)

### RevisionHistory

`constructYurtAppSetRevisions`, one API call a step: `ListRevisions` (list, sort
and choose what has expired), `SkipLive` and `DeleteExpired`, then
`KeepRevision`, `RollBack` or `StartCreate`/`CreateRevision`/`FindExisting`, and
the status. Names are hashes, which may collide (`Hash`, a constant; the last
collision count is free of collisions) or be taken by another owner. The order
of revisions with equal numbers is open, since creation times have a resolution
of a second. The controller does not watch revisions, so their events enqueue
nothing. Users change the template and the history limit. Two revisions are
equal when their data are. Adoption is `RefManager`.

### NodePool

Every pool's reconcile runs next to the others', and they share the nodes.

| code | model |
|---|---|
| `Reconcile`: the two lists | `ListDesired` (nodes whose label asks for the pool; ready ones are counted), then `ListCurrent` (nodes that are members) |
| `removePoolRelatedAttrs`, `concilateNode` | `RemoveNode(p, n)`, `AddOrUpdateNode(p, n)`, a write each; `Conciliate` computes labels, annotations and taints from the recorded and the new attributes |
| `conciliateNodePoolStatus` | `StatusUnchanged`, `UpdateStatus`; `ReconcileFails` is a failed list |
| `nodepool_enqueue_handlers.go` | `Enqueued(old, new)`; the informer shows every version of a node in order (`SyncNode`) or skips some after a relist (`RelistNode`) |
| `createDefaultNodePool` | `CreateDefaultPool`, its attempts bounded by `CreateTries` |
| webhook: deletion, update | `AdmitDeletion` (decided on the cache), `FinishDeletion` later |
| `v1beta1` conversion | `EditConvertedPool`: an edit through it loses the labels |
| kubelets, users | `RegisterNode`, `DeleteNode`, `AssignNode`, `SetAttribute`, `SetTaint`, `FlipReady`, `CreatePool`, `EditPool` |

Labels and annotations are one map, `attrs`; the conversion drops the labels.
Values that pools give differ from those users give, so that a value tells
where it came from. A node with two taints of one key and effect is refused by
the server (`DuplicatesTaint`).

### YurtAppDaemon

| code | model |
|---|---|
| `getNameToNodePools`, `getNodePoolToWorkLoad` | `ListWorkloads`, `ListPools`; a list of NodePools that fails returns no pools and no error |
| `manageWorkloadsProvision` | `BulkCall(p)` with `CreateWorkload`, `StartDeletes`, `DeleteCall` |
| `manageWorkloads` | `StartUpdates`, `BulkCall(p)` with `UpdateWorkload`; an error returns before the status is written (`ReturnError`) |
| `updateStatus` | `NewStatus`, `UpdateStatus` |
| `ApplyTemplate` with taints and node selector | `ApplyTemplate`, `NeedsUpdate`; a template with an affinity but no node affinity makes the manager panic (`Panic`) |
| `nodepool_enqueue_handlers.go` | `SyncPool`; an event is dropped when the list in the handler fails |
| StatefulSet templates | `NoControl`: no control is registered for them, so nothing is ever done |

### YurtIngress

Several YurtIngresses, one reconcile each, which share the namespace and the
cluster's roles. Up to three reconciles run at a time, objects are created unless
they exist and deleted by name, whoever made them, so every call of a helper is a
step of its own that the calls of another YurtIngress fall between.

| code | model |
|---|---|
| `Reconcile`, `getPools` | `Get` (adds the finalizer, reads, plans), `GetDeleted` |
| `CreateNginxIngressCommonResource` | `CreateNamespace`, then `CreateCommon` for one of `Shared` after the other |
| `CreateNginxIngressSpecificResource` | `CreateSpecific(y, p)`, a step for the Deployment and one for each of `Parts`; `todo[y].pool` is the pool in hand and `todo[y].n` counts the calls that returned |
| `DeleteNginxIngressSpecificResource`, removal | `DeleteSpecific(y, p)`, call by call as well; `ListOthers` |
| `DeleteNginxIngressCommonResource` | `DeleteCommon` in the order of `Unshared`, then `DeleteNamespace` |
| updates of replicas, image, jobs, addresses | `UpdateDeployment`, `RecreateJob`, `UpdateService` |
| `updateStatus` | `ChangedStatus` (guessed from what was changed) or `ObservedStatus` (from the cached Deployments); all its attempts send one version, and errors are dropped |
| nil dereference of `updateStatus` | `Panics`, `Panic` |
| `cleanupIngressResources` | `RemoveFinalizer` first, then the cleanup; `EndCleanup` |
| webhook | `Admitted`: no pool of another YurtIngress; `Overlap`: two admissions at a time, of which neither is in the other's list |
| namespace, Deployment controller, garbage collector | `FinishNamespace`, `Progress`, `CollectGarbage`, `CollectConfiguration` |

- `dep`, `rest` and `hook` are what a pool has: the Deployment, the objects of the
  namespace, and the ValidatingWebhookConfiguration, which lies outside the namespace
  and has an owner as the Deployment has.
- `Parts`, the calls after the first one, is a constant: a sequence over the six
  names of `PartNames`. The code's is all six; TLC runs three and two, the theorems
  are about every sequence.
- `lost[p]` is history: what calls of another YurtIngress, or the collection of
  its configuration, took from the pool since the Deployment was made.
  `cut` says that a reconcile was stopped amid what is shared, `dropped` that the
  error of a status write was dropped.

### RefManager

`ListObjects` decides, from the cached copies, what to adopt and what to
release; `CheckOwner` is `canAdoptOnce`; `AdoptObject` and `ReleaseObject` are
the patches; errors are collected. Owners have uids and names, and a name can be
given to a new owner while the claim of the old one is still running. The
controllers of this repository list what their selector matches, so they never
release; to exercise that half of the code one of the owners of the instance is
a caller that lists everything (`ListsAll`).

## 3. What is checked

Twelve runs: nine pass and three end in the violation of a sentence of the
code's own documentation (section 4).

| run | instance | shows |
|---|---|---|
| `slow_start` | 8 calls from batch size 1 (batches 1, 2, 4 and one cut to 1) | truthful answer, slow start, no call after a failed batch, each index once, termination, `BulkCall` |
| `yas_reads` | 2 pools, 5 specifications (grow, move, other kind, a patch that cannot be merged), 1 failed call, lost answer or crash, 1 user action, 2 stale reads | at rest the pools and the status are right (`RestMeansConverged`, `StatusAtRest`, `ConditionsAtRest`), a bad patch still provisions, `NoDuplicates`, `ObservedGenerationMonotonic` |
| `ud_settles` | 2 pools, 4 specifications, 2 faults with timeouts among them, 1 edit, removal or deletion, 1 stale read, fairness | `Settles`, after a switch of the template type or a deletion too |
| `rev_history` | 3 templates, two with one name, the third's name taken; limits 1 and 2, 3 edits, 1 fault, 1 stale read, fairness | `ExpectedIsTemplate`, `HistoryBounded`, `RollbackMovesToEnd`, `InUseRevisionKept`, `CurrentRevisionKept`, `Settles` |
| `nodepool` | 1 node, 2 pools of which one is a default pool, 2 specifications, 1 fault, 2 user actions, fairness | `PoolValuesAreRecorded`, `MembersAreRecorded`, `RestMeansJoined`, `StatusAtRest`, `Settles` |
| `daemon` | 2 NodePools, 4 specifications (a template that panics and a StatefulSet among them), 2 faults or user actions, 1 stale read, fairness | `RestMeansServed`, `NoDuplicates`, `Settles` |
| `ingress` | 2 YurtIngresses, 2 pools, 5 specifications, the Deployment and 3 parts per pool, 2 faults or user actions (deleting the first YurtIngress and creating one with its pool among them) | `Served`, `StatusAtRest`, `SharedAtRest` |
| `ingress_handover` | 2 YurtIngresses, 1 pool, the Deployment and 2 parts, 2 faults or user actions, overlapping admissions among them, fairness | `SettlesUnlessStuck` |
| `refmanager` | 3 owners, two of one name, with overlapping selectors; 1 object; 3 faults or user actions, fairness | `NeverStolen`, `ClaimsSettle` |
| `yas_provisioned_truthful` | timeouts only | violates `ProvisionedIsTruthful` |
| `nodepool_taint` | 2 nodes, a user's taint, no fault | violates `Settles` |
| `ingress_settles` | 1 YurtIngress, 1 pool, 1 edit, no fault | violates `Settles` |

Each module has one type invariant, `TypeOK`.

**Bounds.** `MaxFaults`, `MaxEdits`, `MaxEvents` and `MaxStaleReads` bound what
the environment does, never what the controller does; `CreateTries` stands for
the five attempts to create a default pool.

- Two pools are enough for one pool's call to fail while the other's succeeds,
  and for batches of 1 and then more; two templates, two replica counts and two
  template types give every kind of difference the code looks for.
- One fault at any step, combined with a change by a user and reads that missed
  earlier writes, reaches every error path; `ud_settles` has two, and the shared
  bound of `daemon` and `ingress` allows two of either.
- A stale read is counted when a reconcile *starts* with caches that lag. Writes
  lag without bound.
- Three edits let a template go, expire and come back under limits of one and
  two, and three templates with two shared names give a collision with another
  revision, one with somebody else's, and one after a rollback.
- One node in `nodepool` can be wanted by one pool and be a member of another,
  which is what its reconciles race for; two nodes matter only for one that
  keeps the loop from the other, which `nodepool_taint` has.
- Two YurtIngresses are the fewest that share and compete, and the creation of one
  after or with the deletion of the other is a handover of a pool, at any call of
  either. Two parts are an object that goes with the namespace and the one that goes
  with its owner; three have two of the first kind, so that one can be taken after
  the other was found. Two pools overlap in nothing but what is shared, so the
  liveness run has one. Images, jobs and addresses have two values each.
- Three owners give a rival and a successor under the same name.

The passing runs together take every action of the modules, and the mutants
show for each property of each run a plausible bug that it catches.

**Fairness.** Weak fairness only, and in every model of the same parts.

- The workers (`Reconcile`, `Work`, `Claim`): a worker takes queued keys, and
  the client's calls end. Where several keys are worked on at once
  (`NodePool`, `RefManager`) each key is fair by itself, as it has a goroutine
  or its turn in the queue.
- `Sync`: a watch delivers.
- `Resync`: the informers' resync period enqueues every object again (10 hours
  by default), which is what rescues the reconciles that end without requeue.
- The garbage collector, the Deployment controller, the namespace controller and
  a deletion that was admitted go on.
- In `SlowStartBatch` each goroutine is scheduled and each call ends.

Users, faults and crashes owe nothing, and each is bounded, so they stop.

**Conditions in properties.** Some properties are about the time before the
first stale read (`staleReads = 0`): names are generated by the server, so
nothing but the read prevents a duplicate; a revision that a stale list holds
may be gone. `yas_reads` covers what is true in spite of stale reads. Properties
of a controller at rest leave out what no event tells of: an error that was
swallowed (`dropped`, `misled`) or versions an informer skipped (`relisted`);
the `Settles` properties then show that the resync repairs it, but for the
templates that make the manager panic, about which `Settles` of `YurtAppDaemon`
says nothing.

In `YurtIngress` some ends are the code's, and no event or resync repairs them; the
properties name them and say that there are no others. `Served` leaves out the
objects in `lost`, `SharedAtRest` the runs in which a reconcile was stopped amid
what is shared (`cut`), and `SettlesUnlessStuck` has five ends beside the good one:

| end | how the code gets there |
|---|---|
| `Stranded` | a pool is dropped while the reconcile that adds it runs (run `ingress_settles`) |
| `Locked` | the namespace went while a YurtIngress lists pools and has jobs to make anew |
| `Torn` | a pool is taken over while the calls that delete its objects still run, or its configuration is collected with the former owner |
| `Contended` | two admissions at a time gave one pool to two YurtIngresses |
| `Clinging` | a YurtIngress that asks for no pool any more still lists them, and each reconcile of it deletes them again |

## 4. Where the code differs from its documentation

| run | documentation | code |
|---|---|---|
| `yas_provisioned_truthful` | "PoolProvisioned means all the expected pools are provisioned" (`yurtappset_types.go:42`) | a create that timed out without having been done counts as done |
| `nodepool_taint` | "the Taints will be added to all nodes" (`nodepool_types.go:53`) | a node with a taint of that key and effect refuses the write for ever, and the nodes after it in the loop are never reached |
| `ingress_settles` | "aims to move the current state of the cluster closer to the desired state" (`yurtingress_controller.go:118`) | a pool dropped while the reconcile that adds it runs leaves its Deployment owned but unlisted: `updateStatus` dereferences nil, at every start of the manager |

The models show more, which no run states:

- `PoolUpdated` stays True for a generation whose provision failed
  (`yurtappset_update.go:46`, against `yurtappset_types.go:44`), and
  `PoolProvisioned` stays False after an error whose work was done, until
  something is created or deleted again.
- A claim that failed is not retried by `yurtappset_controller.go:187`, against
  the comment at `ref_manager.go:237`; the next event or the resync brings it.
- A rollback to a live revision that was cut off the list makes a new revision
  and does not move the old one (`revision.go:177`, against its comment at
  `revision.go:122`).
- `CurrentRevision` names the first revision for ever
  (`yurtappset_types.go:158` says it is the current one).
- `cleanupIngressResources` removes the finalizer before the cleanup it stands
  for: a crash or a failed call in between leaves the pools' objects and the
  shared ones for good. A namespace that exists keeps the shared objects from
  being completed after a failure half way, or after a panic or crash amid their
  creation (`cut`).
- `CreateNginxIngressSpecificResource` takes an object that exists for its own,
  and `DeleteNginxIngressSpecificResource` deletes by name (`apply_addons.go:197`,
  `266`). Without any fault: one YurtIngress drops a pool and deletes its Deployment,
  another asks for the pool, makes the Deployment and finds the rest, and the
  first goes on to delete that. The second rests with its Deployment, the pool
  listed, and neither webhook nor Services; nothing that it watches tells it.
- The ValidatingWebhookConfiguration that a new holder of a pool finds belongs to the
  former one, and is collected with it.
- `Reconcile` drops the pools from the status one by one only while some are asked
  for, and all of them only for the only YurtIngress
  (`yurtingress_controller.go:184`, `188`): one that
  asks for none any more beside another lists its old pools for good, and each of its
  reconciles deletes them again, though another may have them by now.
- Two YurtIngresses that are admitted with one pool at the same time never come to
  rest: the one without the Deployment lists the pool and drops it in turns.
- `GetAllWorkloads` lists with the selector (`deployment_controller.go:163`, against
  its comment), so a Deployment that was relabelled is not released and not deleted.
- The condition `False` of a YurtAppDaemon is never stored, since the error
  returns first; two Deployments of one pool stay two; templates of
  StatefulSets are never served (`docs/YurtAppDaemon.md:10` names both types).
- With `revisionHistoryLimit: 0`, which the webhook lets pass, every revision but
  the live one expires at once: numbers repeat, one revision more than the limit
  allows may be left, and a cleaning may take the revision of the template that
  was observed (`HistoryBounded`, `RollbackMovesToEnd` and `InUseRevisionKept` are
  false then; the runs and the theorems are about limits of one and more).
- Without a history limit UnitedDeployment's copy of `revision.go` keeps 0
  revisions, and the other two dereference nil; `defaults.go` sets 10 for all
  three when the webhook is on.

## 5. What is proved

For every value of the constants, under the modules' `ConstantAssumption` (sets
are well-formed, `Absent` is no object, bounds are natural numbers, and the sets
that are counted are finite) and the other named assumptions, which TLC evaluates
in the runs. Of the properties of the passing runs every one but those of liveness
is the statement of a theorem.

### The argument about rest

Four controllers have theorems about what holds at rest, when nothing is queued,
running or on its way to a cache (that of the revisions is below). Their
invariants (`IRest`) have one shape. An
event of whatever a reconcile reads enqueues its key. So while a key is *calm* (not
queued, no event for it on its way, its object still wanted) nothing of what the
reconcile read has changed since it took the key, not by its own writes either:
a write that changes something makes an event. For a calm key the invariant can
therefore say, phase by phase, what the reconcile has done and has still to do, in
terms of what there is now and not of what was read; where the reconcile ends,
nothing is left to do. A step that could disturb this makes the key not calm, and
then nothing is claimed. Each `IRest` was checked by TLC on the instance of its
run before it was proved. Exceptions are where the code is interesting:

- a reconcile may end with an error that does not come back (`misled`, `dropped`),
- an event may be missing for what is read (Deployments of a YurtAppDaemon), or
  be computed from two versions of which the informer skipped one (`relisted`),
- a call may answer that it is done when it is not (`timeout`).

The properties are stated without these, and each exception is necessary: TLC
finds a counterexample when it is dropped (for `relisted`, with one edit more than
the run has).

### By module

`SlowStartBatchProofs`. The inductive invariant relates the counters to the calls
(`Bookkeeping`: which indices belong to completed batches, the current batch and
the rest; `CallsSoFar`: `errCh` counts the failed calls, all in the current
batch; `Answer`: what is known once the function returned). From it follow
`TypeOK`, `ReturnIsTruthful`, `SlowStart`, `EachIndexOnce`,
`NoCallAfterFailedBatch` and that the loop implements `BulkCall`.

`YurtAppSetProofs`.

- `TypeCorrect`: `TypeOK`. It needs `Work`, that a batch holds pools of the
  specification, found ones in an update; otherwise a call might name a pool
  the specification lacks.
- `ObservedOnlyGrows`: `ObservedGenerationMonotonic`, from `Generations`: the
  observed generation, that of the running reconcile, that in the cache and that
  on the server are in this order.
- `NeverTwice`: `NoDuplicates`. `Identities` says that what is known under a
  name keeps its kind and pool, and that names that are not stale are cached as
  they are; `Fresh` says that a pool that was missing when the pools were
  listed, and whose create has not been sent, still has no workload. `ListPools`
  establishes it from synced caches, and no other step can add a workload to
  such a pool but its own create, after which it is no longer waiting.

`Effects` sums up what a step may do to the workloads (nothing added, one pool's
create, or a read), so that `Identities` and `Fresh` are proved by three cases
and not by one for each action.

`YurtAppSetRestProofs`. A calm reconcile has found the pools there are (`Snapshot`),
has deleted nothing, created nothing and updated nothing (`NoneDeleted`,
`NoneCreated`, `NoneUpdated`): the duplicates, the missing and the unexpected pools,
the workloads of the other kind and the outdated ones are, in their phases, exactly
those that are still to be handled, and none once the phase is over.

- `RestConverged`: `RestMeansConverged`, if no create times out. A create that timed
  out counts as done (`NoneCreated` has this as its condition); with timeouts the
  property is false, as the run `yas_provisioned_truthful` shows.
- `StatusTrue`: `StatusAtRest`; `ConditionsTrue`: `ConditionsAtRest`; and
  `BadPatchProvisions`: `BadPatchStillProvisions`, for which a phase of the provision
  fails only because a call does (`FaultsFail`).

`RevisionHistoryProofs`.

- `TypeCorrect`. That the collision count stays within `MaxCount` needs more than
  types: every revision, on the server, in the cache and in the list, has a name
  hashed from its data or in use by others (`NamedAfter`), and the name of the
  last count is neither.
- `NamesTheTemplate`: `ExpectedIsTemplate`, and `CurrentKept`:
  `CurrentRevisionKept`. Both follow from `Known`: unless a stale list was read,
  during a reconcile the status is still the one it read; what the server holds
  under a name is what the cache holds, or nothing where the reconcile deleted
  it; and the revisions within the limit, of which one may be handed out, are
  neither deleted nor still to be deleted.

- `HistoryWithinLimit`: `HistoryBounded`, `RollbackAtEnd`: `RollbackMovesToEnd`, and
  `InUseKept`: `InUseRevisionKept`, if no limit is zero (`KeepsSome`; see section 4).
  `IHistory` adds to `Known` what runs of reconciles leave behind: numbers differ and
  of the revisions of one template only the last is not the live one (`Ordered`);
  the list is all there is, and of those over the limit only the live one stays
  (`Listed`); the observed generation has its revision at the end of the history, or
  as the live one, where no cleaning takes it (`InUse`). `InUse` is what ties the
  status, written last, to the revisions, of which some are deleted first.

`NodePoolProofs`.

- `NothingUnrecorded`: `PoolValuesAreRecorded`, and `RecordsOfMembers`:
  `MembersAreRecorded`. `Conciliate` takes from a node what its record says and
  gives it what the new record says (`ConciliateSound`), so a write keeps `Sound`
  if what it started from was the node as it is. That is `Seen` (the last version
  the informer knows, or is still to see, is the server's) with `Fresh` (a node
  of the list that nobody wrote is there).
- `TypeCorrect` needs these two as well: a write is computed from the cached
  node, which may be none.
- `RestJoins`: `RestMeansJoined`, and `StatusTrue`: `StatusAtRest`. An event of a node
  tells the pool it is assigned to, and the pool it was a member of (`Tells`). A pool
  is calm if none of the versions still to come tells it (`Told`). A calm pool at
  rest is served (`Done`); one at work has written nothing (`Going`): the nodes of its
  list are members, or are to be written, and a node that left the pool meanwhile
  is among the latter, so that its write is refused and the key comes back. That
  is why the status, computed from the list before the writes, is true when they
  all succeed. `Steps` (no version skips one that made the node a member) holds
  of the pending versions while none was skipped (`~relisted`).

`YurtAppDaemonProofs`.

- `NeverTwice`: `NoDuplicates`. Unless a stale list was read, `Single`: a pool in
  the list has no other workload than the listed one, and a pool that is not has
  none until its create is sent; `Planned` says which pools a phase calls for,
  and `Seen` is what makes the list true.
- `RestServed`: `RestMeansServed`. `FarWith(p)` says how far a calm reconcile has come
  with pool p: its workload is as it was found, or gone, or up to date. Events of
  Deployments enqueue nothing here, so the calm reconcile is one that no stale list
  and no tampering misled, and NodePools stay as they were matched because their
  events do enqueue it.
- `TypeCorrect`.

`YurtIngressProofs`.

- `TypeCorrect`: `TypeOK`. The counters of a status, guessed from what was changed
  or counted from a cache, never run below zero: the number of pools not ready is
  a difference, and no pool is counted ready that is not asked for, because the
  manager panics first. Besides types the invariant says that a YurtIngress nobody
  wrote since it was read is there, that a Deployment not written since is cached
  as it is, and that a reconcile under way has read its YurtIngress; without
  these a write could be of an object that is gone.
- `RestServes`: `Served`, for every sequence `Parts`, so for the seven calls of the
  code as well as for those of the runs. `Kept(p)` is what goes with a Deployment and is there, or was lost
  to another YurtIngress. It is all of it (`Full`) for a pool that the Deployment's
  owner lists or is done with in its reconcile, and for the pool in hand what the calls that
  returned were to make (`Complete`); a helper that fails half way leaves the pool
  unlisted. Every call of another YurtIngress moves an object from what there is
  to what is lost, and a new Deployment starts with nothing lost, which is why
  `Kept` survives any interleaving. `Owes`: a calm YurtIngress at rest is
  `Settled`, its status is what its Deployments in the cache give. The status
  written after a change is a guess, but it differs from the old one
  (`WrittenSettles`), so that its event brings the YurtIngress back; only a status
  copied from the cache can be written without an event.
- `StatusTrue`: `StatusAtRest`, from the same.
- `SharedStands`: `SharedAtRest`. No Deployment outlives the namespace. While none was
  stopped amid what is shared (`cut`), an active namespace has all of it, or a
  reconcile is amid making or deleting it and the rest is its to do (`Amid`,
  `ToMake`, `Standing`); at rest there is no such reconcile. So a
  YurtIngress that has a Deployment at rest has an active namespace. These use that
  the name of a deleted YurtIngress does not come back, the assumption under which
  it is modelled (`AbsentIsNoObject`).

`RefManagerProofs`.

- `NothingStolen`: `NeverStolen`. An object that nobody wrote since it was listed
  is still the orphan to adopt, or the owner's to release, that the claim took it
  for (`Fresh`), whatever was recreated under the owner's name meanwhile.
- `TypeCorrect`.

**Only model-checked.** `Settles` (in four runs), `SettlesUnlessStuck`,
`ClaimsSettle` and `Termination`, since the proof system has no rules for liveness
under fairness and for `ENABLED`. The violations of the three runs that expect one
are TLC's counterexamples. `UnitedDeployment` has no proofs of its own: it is
`YurtAppSet` with other names for the variables, and its run asks for liveness.

## 6. Not modelled

`components` in `PROJECT.json` has the whole list.

- Generated code (clients, deep copies), start-up, flags, and the rendering of
  templates: no state of theirs takes part in the protocols above.
- Validation of fields, and the conversions that are pure functions of one
  object, but for the conversion of NodePools, whose loss of data a reconcile
  then acts on.
- StatefulSet partitions and stuck pods (`statefulset_adapter.go`), pod counts of
  statuses, node selectors of YurtAppSet's workloads (immutable by the webhook).
- YurtAppSet: requests of a dead process that reach the server after its
  successor has listed; patches that change the labels the controller lists by;
  a workload whose pool label a user removed, which makes every list fail.
- RevisionHistory: the copies of UnitedDeployment and YurtAppDaemon as models of
  their own; in `UnitedDeployment` and `YurtAppDaemon` their errors are
  `RevisionsFail` and `ReadFails`.
- NodePool: the order in which informers of nodes and of pools see writes is
  free; the events of one node keep their order.
- YurtIngress: versions of templates, the effect of addresses on Services, the
  webhook's Deployment as an object with replicas of its own (an update that
  conflicts with it ends like one that fails), and the roles, bindings and accounts
  of one kind each for itself (one object stands for them).
- An abstract specification of the controllers beside `BulkCall`: what
  YurtAppSet's pools promise is stated as invariants and `Settles`, not as a
  specification of its own.

## 7. Layout

`M.tla` is a model, `MCM.tla` its small instances, `MCM.cfg` (and `MCM<Name>.cfg`)
the runs, `MProofs.tla` its theorems. `tlc -config MCX.cfg MCX.tla` runs an
instance, `tlapm XProofs.tla` checks the proofs of a module.

What could come next: an abstract set of pools that `YurtAppSet` and
`YurtAppDaemon` both implement; requests that outlive the process that sent
them; `RestMeansConverged` with timeouts, for the pools whose creates did not
time out.
