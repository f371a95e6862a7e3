----------------------------- MODULE YurtAppSet -----------------------------
(***************************************************************************)
(* The YurtAppSet controller (src/pkg/yurtappmanager/controller/           *)
(* yurtappset): one YurtAppSet, its pool workloads (Deployments or         *)
(* StatefulSets) on the API server, the informer caches every read of the  *)
(* controller is served from, and the reconcile loop, one API call a step. *)
(* The UnitedDeployment controller is the same code with other names.      *)
(***************************************************************************)
EXTENDS Integers, FiniteSets

CONSTANTS
    Ids,            \* names the API server can generate for workloads
    Pools,          \* pool names
    Templates,      \* workload templates; a revision is named by its template
    Replicas,       \* replica counts
    Patches,        \* values of a pool's patch, NoPatch among them
    NoPatch,        \* no patch, recorded as the annotation ""
    BadPatches,     \* patches that cannot be merged into the template
    Absent,         \* no object of this name
    Specs,          \* the specifications users write
    InitialSpec,    \* the one of Specs the YurtAppSet is created with
    Faults,         \* the faults considered, of "error", "lost", "timeout", "crash"
    UserActions,    \* what users do, of "edit", "scale", "remove", "delete"
    MaxFaults,      \* bound on the number of faults
    MaxEdits,       \* bound on the number of user actions
    MaxStaleReads   \* bound on the reconciles that start before the caches
                    \* have seen every write

Kinds == {"StatefulSet", "Deployment"}
PoolConfig == [replicas : Replicas, patch : Patches]
AppSpec == UNION {[kind : Kinds, template : Templates, pools : [ps -> PoolConfig]] :
                     ps \in SUBSET Pools}
Workload == [kind : Kinds, pool : Pools, rev : Templates, replicas : Replicas, patch : Patches]

ASSUME ConstantAssumption ==
    /\ Absent \notin Workload \cup Replicas
    /\ NoPatch \in Patches \ BadPatches
    /\ BadPatches \subseteq Patches
    /\ Replicas \subseteq Nat
    /\ Specs \subseteq AppSpec
    /\ InitialSpec \in Specs
    /\ MaxFaults \in Nat /\ MaxEdits \in Nat /\ MaxStaleReads \in Nat

\* A condition of the status that was never set is "Unknown".
Condition == {"Unknown", "True", "False"}
Status == [observed : Nat, provisioned : Condition, updated : Condition,
           replicas : [Pools -> Replicas \cup {Absent}]]
Object == [phase : {"live", "terminating", "gone"}, gen : Nat, spec : Specs, status : Status]
Pool == [id : Ids, seen : Workload]

VARIABLES
    \* the API server and its caches
    yas,         \* the YurtAppSet
    yasCache,    \* the YurtAppSet as its informer last saw it
    yasSynced,   \* yasCache is the server's current version
    workloads,   \* workloads[id] on the server
    cache,       \* workloads[id] as the informers last saw it
    stale,       \* the names written since their informer last saw them
    \* the controller
    queued,      \* the YurtAppSet's key is in the work queue
    pc,          \* the phase of the running reconcile
    inst,        \* instance, read from the cache
    nameToPool,  \* the pools found, with the workloads as they were read
    doomed,      \* workloads the current phase has still to delete
    todo,        \* pools the current phase has still to hand to a batch
    batch,       \* pools whose call is in flight in the current batch
    size,        \* size of the next batch
    failed,      \* the current phase met an error
    acted,       \* managePoolProvision created or deleted something
    newStatus,   \* the status under construction
    outcome,     \* how the last reconcile ended
    \* the bounds
    faults, edits, staleReads

yasVars == <<yas, yasCache, yasSynced>>
workloadVars == <<workloads, cache, stale>>
workVars == <<doomed, todo, batch, size, failed, acted>>
reconcileVars == <<pc, inst, nameToPool, doomed, todo, batch, size, failed, acted, newStatus, outcome>>
boundVars == <<faults, edits, staleReads>>
vars == <<yasVars, workloadVars, queued, reconcileVars, boundVars>>

Phases == {"idle", "dups", "create", "delete", "clean", "update", "status"}
Outcomes == {"none", "ok", "failed", "unlisted", "requeued"}

TypeOK ==
    /\ yas \in Object /\ yasCache \in Object /\ yasSynced \in BOOLEAN
    /\ workloads \in [Ids -> Workload \cup {Absent}]
    /\ cache \in [Ids -> Workload \cup {Absent}]
    /\ stale \in SUBSET Ids
    /\ queued \in BOOLEAN
    /\ pc \in Phases
    /\ inst \in Object
    /\ \E found \in SUBSET Pools : nameToPool \in [found -> Pool]
    /\ doomed \in SUBSET Ids
    /\ todo \in SUBSET Pools /\ batch \in SUBSET Pools
    /\ size \in Nat
    /\ failed \in BOOLEAN /\ acted \in BOOLEAN
    /\ newStatus \in Status
    /\ outcome \in Outcomes
    /\ faults \in 0 .. MaxFaults /\ edits \in 0 .. MaxEdits
    /\ staleReads \in 0 .. MaxStaleReads

-----------------------------------------------------------------------------
(* What a YurtAppSet asks for, and what a copy of the cluster holds.        *)

NoPools == [p \in {} |-> Absent]
EmptyStatus == [observed |-> 0, provisioned |-> "Unknown", updated |-> "Unknown",
                replicas |-> [p \in Pools |-> Absent]]
InitialObject == [phase |-> "live", gen |-> 1, spec |-> InitialSpec, status |-> EmptyStatus]

Present(objects) == {id \in Ids : objects[id] # Absent}
OfKind(objects, kind) == {id \in Present(objects) : objects[id].kind = kind}
OfPool(objects, kind, p) == {id \in OfKind(objects, kind) : objects[id].pool = p}
PoolsOf(objects, kind) == {objects[id].pool : id \in OfKind(objects, kind)}

\* The names nobody refers to any more: generated names do not repeat.
FreeIds == {id \in Ids : /\ workloads[id] = Absent /\ cache[id] = Absent
                         /\ id \notin doomed
                         /\ \A p \in DOMAIN nameToPool : nameToPool[p].id # id}

\* GenerateName: which unused name the server makes up does not matter.
NewId == CHOOSE id \in FreeIds : TRUE

\* ApplyPoolTemplate: everything the controller writes in a pool's workload.
\* The patch is merged last, and recorded once merged.
ApplyPoolTemplate(spec, p) ==
    [kind |-> spec.kind, pool |-> p, rev |-> spec.template,
     replicas |-> spec.pools[p].replicas, patch |-> spec.pools[p].patch]

Patchable(spec, p) == spec.pools[p].patch \notin BadPatches

\* CreatePool ignores ApplyPoolTemplate's error: the workload is then created
\* as it was before the patch.
CreatedPool(spec, p) ==
    IF Patchable(spec, p) THEN ApplyPoolTemplate(spec, p)
    ELSE [ApplyPoolTemplate(spec, p) EXCEPT !.patch = NoPatch]

RevisionOutdated(spec, p) ==  \* mutant: replicas and patch are not compared
    nameToPool[p].seen.rev # spec.template

\* IsExpected (true when the revision is not the expected one), or other
\* replicas, or another patch.
NeedsUpdate(spec, p) == nameToPool[p].seen # ApplyPoolTemplate(spec, p)

-----------------------------------------------------------------------------
(* Writes to the API server, and the faults of a call.                      *)

Fault(kind) ==
    /\ kind \in Faults
    /\ faults < MaxFaults
    /\ faults' = faults + 1

\* A write that changes nothing makes no new version and no event.
WriteWorkload(id, value) ==
    /\ workloads' = [workloads EXCEPT ![id] = value]
    /\ stale' = IF workloads[id] = value THEN stale ELSE stale \cup {id}
    /\ UNCHANGED cache

WriteObject(value) ==
    /\ yas' = value
    /\ yasSynced' = (yasSynced /\ value = yas)
    /\ UNCHANGED yasCache

\* DeletePool(id) ends with result.  A lost answer is an error, though the
\* server has done the work.
DeletePool(id, result) ==
    \/ /\ result = "ok"
       /\ workloads[id] # Absent
       /\ WriteWorkload(id, Absent)
       /\ UNCHANGED faults
    \/ /\ result = "NotFound"
       /\ workloads[id] = Absent
       /\ UNCHANGED <<workloadVars, faults>>
    \/ /\ result = "error"
       /\ Fault("error")
       /\ UNCHANGED workloadVars
    \/ /\ result = "error"
       /\ Fault("lost")
       /\ WriteWorkload(id, Absent)

\* The create of a workload ends with an error or not.  An error for which
\* IsTimeout holds counts as none, whether the server did the work or not.
CreateWorkload(value, err) ==
    \/ /\ FreeIds # {}
       /\ WriteWorkload(NewId, value)
       /\ \/ ~err /\ UNCHANGED faults
          \/ ~err /\ Fault("timeout")
          \/ err /\ Fault("lost")
    \/ /\ UNCHANGED workloadVars
       /\ \/ ~err /\ Fault("timeout")
          \/ err /\ Fault("error")

CreatePoolOrFail(p, err) ==  \* mutant: the merge error is returned
    IF Patchable(inst.spec, p) THEN CreateWorkload(ApplyPoolTemplate(inst.spec, p), err)
    ELSE err /\ UNCHANGED <<workloadVars, faults>>

CreatePool(p, err) == CreateWorkload(CreatedPool(inst.spec, p), err)

\* UpdatePool for pool p, all updateRetries attempts.  An attempt reads the
\* cache, applies the template and writes; it is refused while the cache
\* lags behind the server.
UpdatePool(p, err) ==
    LET id == nameToPool[p].id
        applicable == cache[id] # Absent /\ Patchable(inst.spec, p)
    IN \/ /\ applicable /\ id \notin stale
          /\ WriteWorkload(id, ApplyPoolTemplate(inst.spec, p))
          /\ \/ ~err /\ UNCHANGED faults
             \/ err /\ Fault("lost")
       \/ /\ err
          /\ ~applicable \/ id \in stale
          /\ UNCHANGED <<workloadVars, faults>>
       \/ /\ err
          /\ Fault("error")
          /\ UNCHANGED workloadVars

-----------------------------------------------------------------------------
(* Reconcile.                                                               *)

CachesSynced == yasSynced /\ stale = {}

\* A worker takes the key; the reads of this reconcile may be stale.
TakeKey ==
    /\ pc = "idle" /\ queued
    /\ queued' = FALSE
    /\ IF CachesSynced THEN UNCHANGED staleReads
       ELSE staleReads < MaxStaleReads /\ staleReads' = staleReads + 1

\* Reconcile returns; what it held is dropped.
Return(result) ==
    /\ pc' = "idle"
    /\ outcome' = result
    /\ inst' = InitialObject
    /\ nameToPool' = NoPools
    /\ newStatus' = EmptyStatus
    /\ doomed' = {} /\ todo' = {} /\ batch' = {} /\ size' = 1
    /\ failed' = FALSE /\ acted' = FALSE

\* The YurtAppSet is gone (NotFound) or has a deletion timestamp.
SkipDeleted ==
    /\ TakeKey
    /\ yasCache.phase # "live"
    /\ Return("ok")
    /\ UNCHANGED <<yasVars, workloadVars, faults, edits>>

\* constructYurtAppSetRevisions fails: the error requeues the key.
RevisionsFail ==
    /\ pc = "idle" /\ queued /\ UNCHANGED queued
    /\ yasCache.phase = "live"
    /\ Fault("error")
    /\ Return("requeued")
    /\ UNCHANGED <<yasVars, workloadVars, edits, staleReads>>

\* GetAllPools fails (a claim that the server refuses, a list error): the
\* error is recorded as an event and Reconcile returns nil.
ListFails ==
    /\ TakeKey
    /\ yasCache.phase = "live"
    /\ Fault("error")
    /\ Return("unlisted")
    /\ UNCHANGED <<yasVars, workloadVars, edits>>

\* GetAllPools and classifyPoolByPoolName: the cached list comes in no
\* particular order, so any workload of a pool may be the one that is kept.
ListPools ==
    /\ TakeKey
    /\ yasCache.phase = "live"
    /\ inst' = yasCache
    /\ LET kind == yasCache.spec.kind
           found == PoolsOf(cache, kind)
       IN \E first \in [found -> Ids] :
             /\ \A p \in found : first[p] \in OfPool(cache, kind, p)
             /\ nameToPool' = [p \in found |-> [id |-> first[p], seen |-> cache[first[p]]]]
             /\ doomed' = OfKind(cache, kind) \ {first[p] : p \in found}
    /\ pc' = "dups"
    /\ outcome' = "none"
    /\ UNCHANGED <<yasVars, workloadVars, todo, batch, size, failed, acted,
                   newStatus, faults, edits>>

\* deleteDupPool, one duplicate: NotFound is tolerated, any other error ends
\* the reconcile as a failed list does.
DeleteDup(id) ==
    /\ pc = "dups" /\ id \in doomed
    /\ \/ /\ DeletePool(id, "ok") \/ DeletePool(id, "NotFound")
          /\ doomed' = doomed \ {id}
          /\ UNCHANGED <<pc, inst, nameToPool, todo, batch, size, failed, acted, newStatus, outcome>>
       \/ /\ DeletePool(id, "error")
          /\ Return("unlisted")
    /\ UNCHANGED <<yasVars, queued, edits, staleReads>>

MissingOrOutdated ==  \* mutant: recreate a pool that needs an update
    {p \in DOMAIN inst.spec.pools : p \in DOMAIN nameToPool => NeedsUpdate(inst.spec, p)}

Missing == DOMAIN inst.spec.pools \ DOMAIN nameToPool

\* managePoolProvision: what is expected and was not found is created.
StartCreates ==
    /\ pc = "dups" /\ doomed = {}
    /\ pc' = "create"
    /\ todo' = Missing
    /\ acted' = (todo' # {})
    /\ UNCHANGED <<yasVars, workloadVars, queued, inst, nameToPool, doomed, batch, size,
                   failed, newStatus, outcome, boundVars>>

\* SlowStartBatch: the next batch, unless a call of the last one failed.
NextBatch ==
    /\ pc \in {"create", "update"}
    /\ batch = {} /\ todo # {} /\ ~failed
    /\ \E b \in SUBSET todo :
          /\ Cardinality(b) = IF size < Cardinality(todo) THEN size ELSE Cardinality(todo)
          /\ batch' = b
          /\ todo' = todo \ b
    /\ size' = 2 * size
    /\ UNCHANGED <<yasVars, workloadVars, queued, pc, inst, nameToPool, doomed, failed,
                   acted, newStatus, outcome, boundVars>>

BatchesDone == batch = {} /\ (todo = {} \/ failed)

\* The calls of a batch are concurrent; an error of one does not stop the others.
BatchCall(p) ==
    /\ p \in batch
    /\ \E err \in BOOLEAN :
          /\ \/ pc = "create" /\ CreatePool(p, err)
             \/ pc = "update" /\ UpdatePool(p, err)
          /\ failed' = (failed \/ err)
    /\ batch' = batch \ {p}
    /\ UNCHANGED <<yasVars, queued, pc, inst, nameToPool, doomed, todo, size, acted,
                   newStatus, outcome, edits, staleReads>>

UnexpectedNames ==  \* mutant: deletes by pool name
    DOMAIN nameToPool \ DOMAIN inst.spec.pools

Unexpected == {nameToPool[p].id : p \in DOMAIN nameToPool \ DOMAIN inst.spec.pools}

\* Pools found and not expected are deleted, whatever became of the creates.
StartDeletes ==
    /\ pc = "create" /\ BatchesDone
    /\ pc' = "delete"
    /\ doomed' = Unexpected
    /\ acted' = (acted \/ doomed' # {})
    /\ todo' = {} /\ size' = 1
    /\ UNCHANGED <<yasVars, workloadVars, queued, inst, nameToPool, batch, failed,
                   newStatus, outcome, boundVars>>

\* Here NotFound is an error like any other; the loop goes on all the same.
DeleteCall(id) ==
    /\ pc \in {"delete", "clean"} /\ id \in doomed
    /\ \E result \in {"ok", "NotFound", "error"} :
          /\ DeletePool(id, result)
          /\ failed' = (failed \/ result # "ok")
    /\ doomed' = doomed \ {id}
    /\ UNCHANGED <<yasVars, queued, pc, inst, nameToPool, todo, batch, size, acted,
                   newStatus, outcome, edits, staleReads>>

NoneOfOtherKind == {}  \* mutant: the other template type is not cleaned

OfOtherKind == UNION {OfKind(cache, kind) : kind \in Kinds \ {inst.spec.kind}}

\* The workloads of the other template type are all deleted, as the cache
\* shows them now; failing to list them is an error of the phase.
StartClean ==
    /\ pc = "delete" /\ doomed = {}
    /\ pc' = "clean"
    /\ \/ /\ doomed' = OfOtherKind
          /\ acted' = (acted \/ doomed' # {})
          /\ UNCHANGED <<failed, faults>>
       \/ /\ Fault("error")
          /\ failed' = TRUE
          /\ UNCHANGED <<doomed, acted>>
    /\ UNCHANGED <<yasVars, workloadVars, queued, inst, nameToPool, todo, batch, size,
                   newStatus, outcome, edits, staleReads>>

ProvisionFailedSilently ==  \* mutant: the condition is not set
    /\ pc = "clean" /\ doomed = {} /\ failed
    /\ newStatus' = inst.status
    /\ pc' = "status"
    /\ UNCHANGED <<yasVars, workloadVars, queued, inst, nameToPool, workVars, outcome, boundVars>>

\* managePools: an error of the provision is reported and ends it; without
\* one the condition is touched only if something was provisioned.
ProvisionFailed ==
    /\ pc = "clean" /\ doomed = {} /\ failed
    /\ newStatus' = [inst.status EXCEPT !.provisioned = "False"]
    /\ pc' = "status"
    /\ UNCHANGED <<yasVars, workloadVars, queued, inst, nameToPool, workVars, outcome, boundVars>>

StartUpdates ==
    /\ pc = "clean" /\ doomed = {} /\ ~failed
    /\ newStatus' = [inst.status EXCEPT !.provisioned = IF acted THEN "True" ELSE @]
    /\ todo' = {p \in DOMAIN inst.spec.pools \cap DOMAIN nameToPool : NeedsUpdate(inst.spec, p)}
    /\ pc' = "update"
    /\ UNCHANGED <<yasVars, workloadVars, queued, inst, nameToPool, doomed, batch, size,
                   failed, acted, outcome, boundVars>>

FinishUpdates ==
    /\ pc = "update" /\ BatchesDone
    /\ newStatus' = [newStatus EXCEPT !.updated = IF failed THEN "False" ELSE "True"]
    /\ pc' = "status"
    /\ UNCHANGED <<yasVars, workloadVars, queued, inst, nameToPool, workVars, outcome, boundVars>>

StatusOfSpec ==  \* mutant: reports the replicas asked for
    [newStatus EXCEPT !.observed = inst.gen,
                      !.replicas = [p \in Pools |->
                                       IF p \in DOMAIN inst.spec.pools
                                       THEN inst.spec.pools[p].replicas ELSE Absent]]

StatusWithoutObserved ==  \* mutant: a failure starts from an empty status
    [newStatus EXCEPT !.observed = IF failed THEN 0 ELSE inst.gen,
                      !.replicas = [p \in Pools |->
                                       IF p \in DOMAIN nameToPool
                                       THEN nameToPool[p].seen.replicas ELSE Absent]]

\* calculateStatus and updateYurtAppSet: the counts are those of the pools as
\* they were read; the early return for an unchanged status is never taken
\* (it compares the addresses of two collision counts).
CalculatedStatus ==
    [newStatus EXCEPT !.observed = inst.gen,
                      !.replicas = [p \in Pools |->
                                       IF p \in DOMAIN nameToPool
                                       THEN nameToPool[p].seen.replicas ELSE Absent]]

\* The status is written over the version in the cache, on the first attempt
\* or after a refused one, so it is accepted if that is the server's version.
UpdateStatus ==
    /\ pc = "status"
    /\ yas.phase # "gone" /\ yasSynced
    /\ WriteObject([yas EXCEPT !.status = CalculatedStatus])
    /\ \/ /\ Return(IF failed THEN "failed" ELSE "ok")
          /\ UNCHANGED <<queued, faults>>
       \/ /\ Fault("lost")
          /\ Return("requeued")
          /\ queued' = TRUE
    /\ UNCHANGED <<workloadVars, edits, staleReads>>

\* Every attempt is refused: the error requeues the key.
UpdateStatusFails ==
    /\ pc = "status"
    /\ \/ (yas.phase = "gone" \/ ~yasSynced) /\ UNCHANGED faults
       \/ Fault("error")
    /\ Return("requeued")
    /\ queued' = TRUE
    /\ UNCHANGED <<yasVars, workloadVars, edits, staleReads>>

Reconcile ==
    \/ SkipDeleted \/ RevisionsFail \/ ListFails \/ ListPools
    \/ \E id \in Ids : DeleteDup(id) \/ DeleteCall(id)
    \/ StartCreates \/ NextBatch
    \/ \E p \in Pools : BatchCall(p)
    \/ StartDeletes \/ StartClean \/ ProvisionFailed \/ StartUpdates \/ FinishUpdates
    \/ UpdateStatus \/ UpdateStatusFails

-----------------------------------------------------------------------------
(* The informers, the manager process, the users and the garbage collector. *)

\* An informer catches up; its events enqueue the YurtAppSet's key.
SyncYurtAppSet ==
    /\ ~yasSynced
    /\ yasCache' = yas
    /\ yasSynced' = TRUE
    /\ queued' = TRUE
    /\ UNCHANGED <<yas, workloadVars, reconcileVars, boundVars>>

\* (A workload created and deleted since leaves nothing behind.)
SyncWorkloads(kind) ==
    LET others == {OfKind(objects, other) : objects \in {workloads, cache}, other \in Kinds \ {kind}}
        news == stale \ UNION others
    IN /\ news # {}
       /\ cache' = [id \in Ids |-> IF id \in news THEN workloads[id] ELSE cache[id]]
       /\ stale' = stale \ news
       /\ queued' = TRUE
       /\ UNCHANGED <<yasVars, workloads, reconcileVars, boundVars>>

\* The informers' resync period enqueues every object again.
Resync ==
    /\ pc = "idle" /\ ~queued
    /\ queued' = TRUE
    /\ UNCHANGED <<yasVars, workloadVars, reconcileVars, boundVars>>

\* The manager dies, or loses its lease; the next one lists everything.
Crash ==
    /\ Fault("crash")
    /\ Return("requeued")
    /\ yasCache' = yas /\ yasSynced' = TRUE
    /\ cache' = workloads /\ stale' = {}
    /\ queued' = TRUE
    /\ UNCHANGED <<yas, workloads, edits, staleReads>>

UserAction(kind) ==
    /\ kind \in UserActions
    /\ edits < MaxEdits
    /\ edits' = edits + 1
    /\ UNCHANGED <<queued, reconcileVars, faults, staleReads>>

EditSpec(spec) ==
    /\ UserAction("edit")
    /\ yas.phase = "live" /\ spec # yas.spec
    /\ WriteObject([yas EXCEPT !.spec = spec, !.gen = @ + 1])
    /\ UNCHANGED workloadVars

\* Somebody scales a workload by hand, or an autoscaler does.
ScaleWorkload(id) ==
    /\ UserAction("scale")
    /\ workloads[id] # Absent
    /\ \E n \in Replicas : WriteWorkload(id, [workloads[id] EXCEPT !.replicas = n])
    /\ UNCHANGED yasVars

RemoveWorkload(id) ==
    /\ UserAction("remove")
    /\ workloads[id] # Absent
    /\ WriteWorkload(id, Absent)
    /\ UNCHANGED yasVars

\* kubectl delete: in the background, or waiting for the dependents.
DeleteYurtAppSet(phase) ==
    /\ UserAction("delete")
    /\ yas.phase = "live"
    /\ WriteObject([yas EXCEPT !.phase = phase])
    /\ UNCHANGED workloadVars

\* The garbage collector deletes what a deleted YurtAppSet owns, and then the
\* YurtAppSet that waited for it.
CollectGarbage(id) ==
    /\ yas.phase # "live"
    /\ workloads[id] # Absent
    /\ WriteWorkload(id, Absent)
    /\ UNCHANGED <<yasVars, queued, reconcileVars, boundVars>>

FinishDeletion ==
    /\ yas.phase = "terminating" /\ Present(workloads) = {}
    /\ WriteObject([yas EXCEPT !.phase = "gone"])
    /\ UNCHANGED <<workloadVars, queued, reconcileVars, boundVars>>

User ==
    \/ \E spec \in Specs : EditSpec(spec)
    \/ \E id \in Ids : ScaleWorkload(id) \/ RemoveWorkload(id)
    \/ \E phase \in {"terminating", "gone"} : DeleteYurtAppSet(phase)

Sync == SyncYurtAppSet \/ \E kind \in Kinds : SyncWorkloads(kind)
Collector == FinishDeletion \/ \E id \in Ids : CollectGarbage(id)

Init ==
    /\ yas = InitialObject /\ yasCache = InitialObject /\ yasSynced = TRUE
    /\ workloads = [id \in Ids |-> Absent]
    /\ cache = [id \in Ids |-> Absent]
    /\ stale = {}
    /\ queued = TRUE
    /\ pc = "idle" /\ inst = InitialObject /\ nameToPool = NoPools /\ newStatus = EmptyStatus
    /\ doomed = {} /\ todo = {} /\ batch = {} /\ size = 1
    /\ failed = FALSE /\ acted = FALSE
    /\ outcome = "none"
    /\ faults = 0 /\ edits = 0 /\ staleReads = 0

Next == Reconcile \/ Sync \/ Resync \/ Crash \/ User \/ Collector

Spec == Init /\ [][Next]_vars

\* The worker, the informers' watches, the resync timer and the garbage
\* collector keep running; users and faults owe nothing.
FairSpec ==
    /\ Spec
    /\ WF_vars(Reconcile)
    /\ WF_vars(Sync)
    /\ WF_vars(Resync)
    /\ WF_vars(Collector)

-----------------------------------------------------------------------------
(* Properties.                                                              *)

\* The pools of spec, each with one workload that matches it, and no other.
Matches(spec) ==
    /\ Present(workloads) = OfKind(workloads, spec.kind)
    /\ PoolsOf(workloads, spec.kind) = DOMAIN spec.pools
    /\ \A p \in DOMAIN spec.pools :
          \E id \in Ids : /\ OfPool(workloads, spec.kind, p) = {id}
                          /\ workloads[id] = ApplyPoolTemplate(spec, p)

\* Nothing is queued, running or on its way to a cache: until a user acts, or
\* the resync period ends, nothing happens any more.
Quiescent == pc = "idle" /\ ~queued /\ CachesSynced /\ yas.phase = "live"

\* Each expected pool has a workload, and only they have.
Provisioned ==
    PoolsOf(workloads, yas.spec.kind) = DOMAIN yas.spec.pools

\* A controller at rest after a reconcile that met no error has done its job,
\* whatever stale reads, crashes, lost answers and user actions came before:
\* each expected pool has exactly one workload with the current template,
\* replicas and patch, and no other workload is left.  (Where creates may time
\* out it is false: see ProvisionedIsTruthful.)
RestMeansConverged == Quiescent /\ outcome = "ok" => Matches(yas.spec)

\* A status written by the last reconcile is the truth once at rest: it is
\* about the current generation and counts the replicas of the workloads
\* there are, though it was computed from snapshots taken before the writes.
StatusAtRest ==
    Quiescent /\ outcome \in {"ok", "failed"} =>
        /\ yas.status.observed = yas.gen
        /\ \A p \in Pools : yas.status.replicas[p] = Absent
                             <=> p \notin PoolsOf(workloads, yas.spec.kind)
        /\ \A id \in OfKind(workloads, yas.spec.kind) :
              yas.status.replicas[workloads[id].pool] = workloads[id].replicas

\* Errors of managePools are swallowed by Reconcile, so the conditions are the
\* only trace of them: at rest after one, a condition is False; at rest after
\* a reconcile without error, the pools are reported as updated.
ConditionsAtRest ==
    Quiescent =>
        /\ outcome = "failed" =>
              yas.status.provisioned = "False" \/ yas.status.updated = "False"
        /\ outcome = "ok" => yas.status.updated = "True"

\* A patch that cannot be merged is an error of every reconcile, but it does
\* not keep a pool from existing: where no call failed, a controller at rest
\* has provisioned exactly the expected pools, once each, though users edited,
\* scaled and removed while it worked from stale reads.
BadPatchStillProvisions ==
    Quiescent /\ faults = 0 =>
        /\ Provisioned
        /\ \A p \in Pools : Cardinality(OfPool(workloads, yas.spec.kind, p)) <= 1

\* As long as no reconcile started from stale caches, no pool ever has two
\* workloads: CreatePool lets the server generate names, so only the read
\* before it prevents a duplicate, also after a crash, a lost or timed out
\* create, or a user's action in the middle.
NoDuplicates ==
    staleReads = 0 =>
        \A kind \in Kinds, p \in Pools : Cardinality(OfPool(workloads, kind, p)) <= 1

\* The observed generation never goes back and never runs ahead of the
\* generation: though the retries of updateYurtAppSet write an old status over
\* a newer object, a late reconcile cannot undo what a later one reported.
ObservedGenerationMonotonic ==
    [][/\ yas'.status.observed >= yas.status.observed
       /\ yas'.status.observed <= yas'.gen]_vars

\* Once users and faults stop, the cluster settles: the YurtAppSet's pools are
\* all provisioned and up to date for good, or it is gone and so are its
\* workloads, including those a late reconcile created after its deletion.
Settles ==
    <>[](IF yas.phase = "live" THEN Matches(yas.spec) ELSE Present(workloads) = {})

\* Documentation: "PoolProvisioned means all the expected pools are
\* provisioned and unexpected pools are deleted" (yurtappset_types.go).
ProvisionedIsTruthful ==
    Quiescent /\ yas.status.observed = yas.gen /\ yas.status.provisioned = "True"
        => Provisioned

=============================================================================
