------------------------ MODULE YurtAppSetRestProofs ------------------------
(***************************************************************************)
(* A YurtAppSet controller at rest has done its job, and its status is the *)
(* truth: for every set of pools, names and specifications, any number of  *)
(* faults, stale reads and user actions.                                   *)
(*                                                                         *)
(* An event enqueues the key.  So a controller that comes to rest has seen *)
(* no event since its last reconcile took the key: nothing that was read   *)
(* then has changed, and none of the calls of that reconcile changed       *)
(* anything.  What is left to do, phase by phase, was then nothing from    *)
(* the start.                                                              *)
(***************************************************************************)
EXTENDS YurtAppSetProofs

NoTimeouts == "timeout" \notin Faults

\* No event is on its way, and none has come since the key was taken.
Calm == ~queued /\ CachesSynced /\ yas.phase = "live"

\* A create that ends without error has been done.
CreatesAreDone == NoTimeouts \/ faults = 0

FoundIds == {nameToPool[p].id : p \in DOMAIN nameToPool}
Owned == OfKind(workloads, inst.spec.kind)
Outdated == {p \in DOMAIN inst.spec.pools \cap DOMAIN nameToPool : NeedsUpdate(inst.spec, p)}

\* A copy that is synced is the original.
Current == yasSynced => yasCache = yas

\* The pools found are the pools there are.
Faithful ==
    /\ inst = yas
    /\ DOMAIN nameToPool = PoolsOf(workloads, inst.spec.kind)
    /\ \A p \in DOMAIN nameToPool : /\ nameToPool[p].seen = workloads[nameToPool[p].id]
                                    /\ workloads[nameToPool[p].id] # Absent

\* While no event comes, the reconcile's snapshot is what there is.
Snapshot == Calm /\ pc # "idle" => Faithful

\* Nothing was deleted, since that would be seen: so the duplicates are all
\* still to be deleted, or there are none.
NoneDeleted ==
    Calm =>
        /\ pc = "dups" => doomed = Owned \ FoundIds
        /\ pc \notin {"idle", "dups"} => Owned \subseteq FoundIds
        /\ pc = "delete" /\ ~failed => doomed = Unexpected
        /\ pc = "clean" /\ ~failed => Unexpected = {} /\ doomed = OfOtherKind
        /\ \/ pc = "update"
           \/ pc = "status" /\ (~failed \/ faults = 0)
           => Unexpected = {} /\ OfOtherKind = {}

\* Nor was anything created.
NoneCreated ==
    Calm /\ CreatesAreDone =>
        /\ pc = "create" /\ ~failed => todo \cup batch = Missing
        /\ \/ pc \in {"delete", "clean"} /\ ~failed
           \/ pc = "update"
           \/ pc = "status" /\ (~failed \/ faults = 0)
           => Missing = {}

\* Nor updated.
NoneUpdated ==
    Calm =>
        /\ pc = "update" /\ ~failed => todo \cup batch = Outdated
        /\ pc = "status" /\ ~failed => Outdated = {}

\* A phase of the provision fails only because a call does.
FaultsFail ==
    Calm /\ faults = 0 =>
        /\ pc \in {"dups", "create", "delete", "clean"} => ~failed
        /\ pc = "idle" => outcome \in {"ok", "failed"}

\* An error of one reconcile is forgotten before the next.
Dropped == pc = "idle" => ~failed

\* An error is in a condition of the new status.
ErrorsTold ==
    pc = "status" =>
        /\ failed => newStatus.provisioned = "False" \/ newStatus.updated = "False"
        /\ ~failed => newStatus.updated = "True"

AtRest ==
    /\ NoTimeouts => RestMeansConverged
    /\ StatusAtRest /\ ConditionsAtRest /\ BadPatchStillProvisions

IRest ==
    /\ IInv
    /\ Current /\ Snapshot /\ NoneDeleted /\ NoneCreated /\ NoneUpdated
    /\ FaultsFail /\ Dropped /\ ErrorsTold /\ AtRest

\* What holds only while no event comes.
Resting == Snapshot /\ NoneDeleted /\ NoneCreated /\ NoneUpdated /\ FaultsFail /\ AtRest

-----------------------------------------------------------------------------
(* What the steps do to what is observed.                                   *)

LEMMA Types ==
    ASSUME IInv
    PROVE  /\ workloads \in [Ids -> Workload \cup {Absent}]
           /\ cache \in [Ids -> Workload \cup {Absent}]
           /\ yas \in Object /\ inst \in Object /\ faults \in Nat
           /\ queued \in BOOLEAN /\ failed \in BOOLEAN
BY ConstantAssumption DEF IInv, TypeOK

LEMMA CalmCaches ==
    ASSUME IInv, Current, CachesSynced
    PROVE  yasCache = yas /\ cache = workloads
BY Types DEF IInv, Identities, Current, CachesSynced

\* A step that the informers have seen at once has changed nothing.
LEMMA SeenWorkloads ==
    ASSUME IInv, [Next]_vars, Calm'
    PROVE  stale = {} /\ UNCHANGED <<workloads, cache>>
<1>1. /\ workloads \in [Ids -> Workload \cup {Absent}] /\ stale' = {} /\ ~queued'
      /\ Absent \notin Workload
  BY Types, ConstantAssumption DEF Calm, CachesSynced
<1>2. ASSUME NEW id \in Ids, NEW value, WriteWorkload(id, value)
      PROVE  stale = {} /\ UNCHANGED <<workloads, cache>>
  BY <1>1, <1>2 DEF WriteWorkload
<1>3. ASSUME UNCHANGED workloadVars
      PROVE  stale = {} /\ UNCHANGED <<workloads, cache>>
  BY <1>1, <1>3 DEF workloadVars
<1>4. CASE Quiet
  BY <1>2, <1>3, <1>4 DEF Quiet, NoneAdded, Removes, Rewrites
<1>5. ASSUME NEW p \in Pools, Creates(p)
      PROVE  stale = {} /\ UNCHANGED <<workloads, cache>>
  BY <1>2, <1>5, NewIdFree DEF Creates, Adds
<1>6. CASE ListPools
  BY <1>3, <1>6 DEF ListPools
<1>7. CASE Crash \/ \E kind \in Kinds : SyncWorkloads(kind)
  BY <1>1, <1>7 DEF Crash, SyncWorkloads
<1>8. QED
  BY <1>4, <1>5, <1>6, <1>7, Effects DEF IInv

\* A step either leaves the YurtAppSet and its copy, writes it, or is told.
LEMMA ObjectStep ==
    ASSUME [Next]_vars
    PROVE  UNCHANGED yasVars \/ (\E value : WriteObject(value)) \/ queued'
<1> USE DEF yasVars
<1>1. CASE \/ SkipDeleted \/ RevisionsFail \/ ListFails \/ ListPools
           \/ StartCreates \/ NextBatch \/ StartDeletes \/ StartClean
           \/ ProvisionFailed \/ StartUpdates \/ FinishUpdates \/ UpdateStatusFails
  BY <1>1 DEF SkipDeleted, RevisionsFail, ListFails, ListPools, StartCreates, NextBatch,
              StartDeletes, StartClean, ProvisionFailed, StartUpdates, FinishUpdates,
              UpdateStatusFails
<1>2. CASE \/ \E id \in Ids : DeleteDup(id) \/ DeleteCall(id)
           \/ \E p \in Pools : BatchCall(p)
  BY <1>2 DEF DeleteDup, DeleteCall, BatchCall
<1>3. CASE UpdateStatus \/ User \/ Collector
  BY <1>3 DEF UpdateStatus, User, EditSpec, ScaleWorkload, RemoveWorkload, DeleteYurtAppSet,
              Collector, FinishDeletion, CollectGarbage
<1>4. CASE Sync \/ Resync \/ Crash
  BY <1>4 DEF Sync, SyncYurtAppSet, SyncWorkloads, Resync, Crash
<1>5. CASE UNCHANGED vars
  BY <1>5 DEF vars
<1>6. QED
  BY <1>1, <1>2, <1>3, <1>4, <1>5 DEF Next, Reconcile

LEMMA CurrentStep ==
    ASSUME Current, [Next]_vars
    PROVE  Current'
<1>1. CASE UNCHANGED yasVars \/ \E value : WriteObject(value)
  BY <1>1 DEF Current, yasVars, WriteObject
<1>2. CASE Crash \/ SyncYurtAppSet
  BY <1>2 DEF Crash, SyncYurtAppSet, Current
<1>3. CASE \E kind \in Kinds : SyncWorkloads(kind)
  <2>1. UNCHANGED yasVars
    BY <1>3 DEF SyncWorkloads
  <2>2. QED
    BY <1>1, <2>1
<1>4. CASE UpdateStatusFails \/ UpdateStatus \/ Resync
  BY <1>1, <1>4 DEF UpdateStatusFails, UpdateStatus, Resync
<1>5. CASE User \/ Collector
  <2>1. UNCHANGED yasVars \/ \E value : WriteObject(value)
    BY <1>5 DEF User, EditSpec, ScaleWorkload, RemoveWorkload, DeleteYurtAppSet,
                Collector, FinishDeletion, CollectGarbage
  <2>2. QED
    BY <1>1, <2>1
<1>6. CASE \/ SkipDeleted \/ RevisionsFail \/ ListFails \/ ListPools
           \/ StartCreates \/ NextBatch \/ StartDeletes \/ StartClean
           \/ ProvisionFailed \/ StartUpdates \/ FinishUpdates
           \/ \E id \in Ids : DeleteDup(id) \/ DeleteCall(id)
           \/ \E p \in Pools : BatchCall(p)
  BY <1>1, <1>6 DEF SkipDeleted, RevisionsFail, ListFails, ListPools, StartCreates, NextBatch,
              StartDeletes, StartClean, ProvisionFailed, StartUpdates, FinishUpdates,
              DeleteDup, DeleteCall, BatchCall
<1>7. CASE UNCHANGED vars
  BY <1>1, <1>7 DEF vars
<1>8. QED
  BY <1>2, <1>3, <1>4, <1>5, <1>6, <1>7 DEF Next, Reconcile, Sync

\* Only a worker takes the key out of the queue.
LEMMA KeyStep ==
    ASSUME [Next]_vars, ~queued'
    PROVE  ~queued \/ SkipDeleted \/ ListFails \/ ListPools
<1> USE DEF reconcileVars
<1>1. CASE \/ RevisionsFail
           \/ StartCreates \/ NextBatch \/ StartDeletes \/ StartClean
           \/ ProvisionFailed \/ StartUpdates \/ FinishUpdates \/ UpdateStatusFails
  BY <1>1 DEF RevisionsFail, StartCreates, NextBatch,
              StartDeletes, StartClean, ProvisionFailed, StartUpdates, FinishUpdates,
              UpdateStatusFails
<1>2. CASE \/ \E id \in Ids : DeleteDup(id) \/ DeleteCall(id)
           \/ \E p \in Pools : BatchCall(p)
  BY <1>2 DEF DeleteDup, DeleteCall, BatchCall
<1>3. CASE UpdateStatus \/ User \/ Collector
  BY <1>3 DEF UpdateStatus, User, UserAction, EditSpec, ScaleWorkload, RemoveWorkload,
              DeleteYurtAppSet, Collector, FinishDeletion, CollectGarbage
<1>4. CASE Sync \/ Resync \/ Crash
  BY <1>4 DEF Sync, SyncYurtAppSet, SyncWorkloads, Resync, Crash
<1>5. CASE UNCHANGED vars
  BY <1>5 DEF vars
<1>6. QED
  BY <1>1, <1>2, <1>3, <1>4, <1>5 DEF Next, Reconcile

\* So calm begins with a read, and nothing is written as long as it lasts.
LEMMA CalmStep ==
    ASSUME IInv, Current, [Next]_vars, Calm'
    PROVE  /\ UNCHANGED <<workloads, cache, yas, yasCache>>
           /\ yasSynced /\ stale = {} /\ yas.phase = "live"
           /\ ListPools \/ ListFails \/ ~queued
<1>1. stale = {} /\ UNCHANGED <<workloads, cache>>
  BY SeenWorkloads
<1>2. yasSynced /\ UNCHANGED <<yas, yasCache>>
  BY ObjectStep DEF Calm, CachesSynced, yasVars, WriteObject
<1>3. yas.phase = "live" /\ yasCache = yas
  BY <1>2 DEF Calm, Current
<1>4. ~SkipDeleted
  BY <1>3 DEF SkipDeleted
<1>5. QED
  BY <1>1, <1>2, <1>3, <1>4, KeyStep DEF Calm

-----------------------------------------------------------------------------
(* What is known at rest, after a reconcile that has changed nothing.       *)

\* The workloads of the pools found are theirs.
LEMMA FoundPools ==
    ASSUME IInv, Faithful, NEW p \in DOMAIN nameToPool
    PROVE  /\ p \in Pools /\ nameToPool[p].id \in Owned
           /\ workloads[nameToPool[p].id].pool = p
           /\ nameToPool[p].seen = workloads[nameToPool[p].id]
           /\ nameToPool[p].seen.replicas \in Replicas
           /\ nameToPool[p].seen.replicas # Absent
<1>1. /\ p \in Pools /\ nameToPool[p].id \in Ids /\ nameToPool[p].seen \in Workload
  BY FoundType DEF IInv
<1>2. /\ workloads[nameToPool[p].id] # Absent
      /\ nameToPool[p].seen = workloads[nameToPool[p].id]
  BY DEF Faithful
<1>3. nameToPool[p].seen.replicas \in Replicas
  BY <1>1 DEF Workload
<1>4. QED
  BY <1>1, <1>2, <1>3, ConstantAssumption DEF IInv, Identities, Owned, OfKind, Present

\* With nothing but the pools found, each workload is its pool's only one.
LEMMA OnlyFound ==
    ASSUME IInv, Faithful, Owned \subseteq FoundIds, NEW id \in Owned
    PROVE  /\ workloads[id].pool \in DOMAIN nameToPool
           /\ id = nameToPool[workloads[id].pool].id
<1>1. PICK p \in DOMAIN nameToPool : id = nameToPool[p].id
  BY DEF FoundIds
<1>2. QED
  BY <1>1, FoundPools

\* The status counts the workloads there are.
LEMMA StatusCounts ==
    ASSUME IInv, Faithful, Owned \subseteq FoundIds, yas.status = CalculatedStatus
    PROVE  /\ yas.status.observed = yas.gen
           /\ \A p \in Pools : yas.status.replicas[p] = Absent
                                <=> p \notin PoolsOf(workloads, yas.spec.kind)
           /\ \A id \in OfKind(workloads, yas.spec.kind) :
                 yas.status.replicas[workloads[id].pool] = workloads[id].replicas
<1>1. /\ inst = yas /\ OfKind(workloads, yas.spec.kind) = Owned
      /\ PoolsOf(workloads, yas.spec.kind) = DOMAIN nameToPool
  BY DEF Faithful, Owned
<1>2. newStatus \in Status
  BY DEF IInv, TypeOK
<1>3. /\ CalculatedStatus.observed = inst.gen
      /\ CalculatedStatus.replicas = [p \in Pools |-> IF p \in DOMAIN nameToPool
                                                      THEN nameToPool[p].seen.replicas
                                                      ELSE Absent]
  BY <1>2 DEF CalculatedStatus, Status
<1>4. \A p \in Pools : yas.status.replicas[p] = IF p \in DOMAIN nameToPool
                                                THEN nameToPool[p].seen.replicas
                                                ELSE Absent
  BY <1>3
<1>5. ASSUME NEW id \in Owned
      PROVE  yas.status.replicas[workloads[id].pool] = workloads[id].replicas
  BY <1>4, OnlyFound, FoundPools
<1>6. QED
  BY <1>1, <1>3, <1>4, <1>5, FoundPools

\* With no pool missing and none unexpected, the pools are those expected.
LEMMA PoolsExpected ==
    ASSUME IInv, Faithful, Missing = {}, Unexpected = {}
    PROVE  DOMAIN nameToPool = DOMAIN yas.spec.pools
BY DEF Faithful, Missing, Unexpected

\* Each pool has one workload at most.
LEMMA OnlyOne ==
    ASSUME IInv, Faithful, Owned \subseteq FoundIds, NEW p \in Pools
    PROVE  Cardinality(OfPool(workloads, yas.spec.kind, p)) <= 1
<1> DEFINE owned == OfPool(workloads, yas.spec.kind, p)
<1>1. \A id1, id2 \in owned : id1 = id2
  <2>1. \A id \in owned : id \in Owned /\ workloads[id].pool = p
    BY DEF OfPool, Faithful, Owned
  <2>2. QED
    BY <2>1, OnlyFound
<1> HIDE DEF owned
<1>2. CASE owned = {}
  BY <1>2, FS_EmptySet DEF owned
<1>3. ASSUME NEW id \in owned
      PROVE  Cardinality(owned) <= 1
  <2>1. owned = {id}
    BY <1>1, <1>3
  <2>2. Cardinality({id}) = 1
    BY FS_Singleton
  <2>3. QED
    BY <2>1, <2>2
<1>4. QED
  BY <1>2, <1>3 DEF owned

\* When nothing was left to do, the cluster is as the specification says.
LEMMA NothingLeft ==
    ASSUME IInv, Faithful, cache = workloads, Owned \subseteq FoundIds,
           Missing = {}, Unexpected = {}, OfOtherKind = {}, Outdated = {}
    PROVE  Matches(yas.spec)
<1> DEFINE spec == yas.spec
<1>1. /\ inst = yas /\ OfKind(workloads, spec.kind) = Owned
      /\ PoolsOf(workloads, spec.kind) = DOMAIN nameToPool
  BY DEF Faithful, Owned
<1>2. DOMAIN nameToPool = DOMAIN spec.pools
  BY PoolsExpected
<1>3. Present(workloads) = OfKind(workloads, spec.kind)
  <2>1. \A id \in Present(workloads) : workloads[id].kind \in Kinds
    BY Types DEF Present, Workload
  <2>2. \A id \in Present(workloads) : workloads[id].kind \notin Kinds \ {spec.kind}
    BY <1>1 DEF OfOtherKind, OfKind
  <2>3. QED
    BY <2>1, <2>2 DEF OfKind
<1>4. ASSUME NEW p \in DOMAIN spec.pools
      PROVE  \E id \in Ids : /\ OfPool(workloads, spec.kind, p) = {id}
                             /\ workloads[id] = ApplyPoolTemplate(spec, p)
  <2> DEFINE id == nameToPool[p].id
  <2>1. p \in DOMAIN nameToPool
    BY <1>2
  <2>2. /\ id \in Owned /\ workloads[id].pool = p /\ nameToPool[p].seen = workloads[id]
    BY <2>1, FoundPools
  <2>3. ~NeedsUpdate(inst.spec, p)
    BY <1>1, <2>1 DEF Outdated
  <2>4. workloads[id] = ApplyPoolTemplate(spec, p)
    BY <1>1, <2>2, <2>3 DEF NeedsUpdate
  <2>5. \A other \in Owned : workloads[other].pool = p => other = id
    BY OnlyFound
  <2>6. OfPool(workloads, spec.kind, p) = {id}
    BY <1>1, <2>2, <2>5 DEF OfPool
  <2>7. id \in Ids
    BY <2>2 DEF Owned, OfKind, Present
  <2>8. QED
    BY <2>4, <2>6, <2>7
<1>5. QED
  BY <1>1, <1>2, <1>3, <1>4 DEF Matches

-----------------------------------------------------------------------------
(* What each step does while no event comes.                                *)

\* A fault is counted, and not forgotten.
LEMMA FaultsCounted ==
    ASSUME IInv
    PROVE  /\ \A kind : Fault(kind) => faults' # 0
           /\ faults' = faults \/ (\E kind : Fault(kind)) =>
                 (faults' = 0 => faults = 0) /\ (CreatesAreDone' => CreatesAreDone)
BY Types DEF Fault, CreatesAreDone, NoTimeouts

\* What the controller compares does not change while the reconcile keeps its
\* snapshot.
Views == <<Owned, FoundIds, Missing, Unexpected, OfOtherKind, Outdated, Faithful>>

LEMMA SameViews ==
    ASSUME UNCHANGED <<workloads, cache, yas, inst, nameToPool>>
    PROVE  UNCHANGED Views
BY DEF Views, Owned, FoundIds, Missing, Unexpected, OfOtherKind, Outdated, NeedsUpdate, Faithful

\* While calm, a deletion that ends well would be seen: it finds nothing to
\* delete or fails.
LEMMA CalmDelete ==
    ASSUME IInv, UNCHANGED workloads, NEW id \in Ids, NEW result, DeletePool(id, result)
    PROVE  \/ /\ result = "NotFound"
              /\ workloads[id] = Absent /\ faults' = faults
           \/ /\ result = "error" /\ faults' # 0
              /\ \E kind : Fault(kind)
<1>1. CASE result = "error" /\ (Fault("error") \/ Fault("lost"))
  BY <1>1, FaultsCounted
<1>2. CASE workloads[id] # Absent /\ WriteWorkload(id, Absent)
  BY <1>2, Types DEF WriteWorkload
<1>3. QED
  BY <1>1, <1>2 DEF DeletePool, workloadVars

\* A creation fails, or times out with nothing done.
LEMMA CalmCreate ==
    ASSUME IInv, UNCHANGED workloads, NEW p \in batch, NEW err \in BOOLEAN,
           pc = "create", CreatePool(p, err)
    PROVE  faults' # 0 /\ (err \/ ~NoTimeouts) /\ \E kind : Fault(kind)
<1> DEFINE value == CreatedPool(inst.spec, p)
<1>1. inst.spec \in Specs /\ p \in DOMAIN inst.spec.pools
  BY ObjectType DEF IInv, TypeOK, Work
<1>2. value # Absent
  BY <1>1, AppliedType
<1>3. CreateWorkload(value, err)
  BY DEF CreatePool
<1> HIDE DEF value
<1>4. ~(FreeIds # {} /\ WriteWorkload(NewId, value))
  BY <1>2, NewIdFree, Types DEF WriteWorkload, FreeIds
<1>5. \/ err /\ Fault("error")
      \/ Fault("timeout")
  BY <1>3, <1>4 DEF CreateWorkload
<1>6. QED
  BY <1>5, FaultsCounted DEF Fault, NoTimeouts

\* An update fails, since what is updated is not what it should be.
LEMMA CalmUpdate ==
    ASSUME IInv, Faithful, UNCHANGED workloads, NEW p \in Outdated, NEW err \in BOOLEAN,
           UpdatePool(p, err)
    PROVE  err
<1> DEFINE id == nameToPool[p].id
           value == ApplyPoolTemplate(inst.spec, p)
<1>1. p \in DOMAIN nameToPool /\ nameToPool[p].seen # value
  BY DEF Outdated, NeedsUpdate
<1>2. id \in Ids /\ workloads[id] # value
  BY <1>1, FoundType DEF Faithful, IInv
<1>3. WriteWorkload(id, value) \/ err
  BY DEF UpdatePool
<1> HIDE DEF id, value
<1>4. QED
  BY <1>2, <1>3, Types DEF WriteWorkload

\* An update counts its fault, if it has one.
LEMMA UpdateFaults ==
    ASSUME NEW p, NEW err, UpdatePool(p, err)
    PROVE  faults' = faults \/ \E kind : Fault(kind)
BY DEF UpdatePool

\* A step on the way, while nothing comes.
Lull ==
    /\ IRest /\ Calm /\ Calm'
    /\ UNCHANGED <<workloads, cache, yas, inst, nameToPool>>
    /\ pc # "idle" /\ pc' # "idle"

\* What is compared stays, and nothing is at rest yet.
LEMMA LullFacts ==
    ASSUME Lull
    PROVE  /\ IInv /\ UNCHANGED Views /\ Faithful /\ Snapshot' /\ AtRest'
           /\ cache = workloads
           /\ batch # {} => pc \in {"create", "update"}
<1>1. IInv /\ UNCHANGED Views /\ cache = workloads
  BY SameViews, CalmCaches DEF Lull, IRest, Calm
<1>2. Faithful
  BY DEF Lull, IRest, Snapshot
<1>3. Snapshot'
  BY <1>1, <1>2 DEF Snapshot, Views
<1>4. AtRest'
  BY DEF Lull, AtRest, RestMeansConverged, StatusAtRest, ConditionsAtRest,
         BadPatchStillProvisions, Quiescent
<1>5. QED
  BY <1>1, <1>2, <1>3, <1>4 DEF IInv, Work

\* The phases of a reconcile find nothing to do, or what they do fails.
LEMMA StartStep ==
    ASSUME Lull, StartCreates \/ NextBatch
    PROVE  Resting'
<1>1. CASE StartCreates
  <2>1. /\ pc = "dups" /\ doomed = {} /\ batch' = {} /\ todo' = Missing
        /\ pc' = "create" /\ UNCHANGED <<failed, faults>>
    BY <1>1, LullFacts DEF StartCreates, boundVars
  <2>2. Owned \subseteq FoundIds /\ ~(failed /\ faults = 0)
    BY <2>1 DEF Lull, IRest, NoneDeleted, FaultsFail
  <2>3. QED
    BY <2>1, <2>2, LullFacts DEF Resting, NoneDeleted, NoneCreated, NoneUpdated, FaultsFail, Views
<1>2. CASE NextBatch
  <2>1. /\ todo' \cup batch' = todo \cup batch
        /\ UNCHANGED <<pc, doomed, failed, faults>>
    BY <1>2 DEF NextBatch, boundVars
  <2>2. CreatesAreDone' <=> CreatesAreDone
    BY <2>1 DEF CreatesAreDone, NoTimeouts
  <2>3. QED
    BY <2>1, <2>2, LullFacts
       DEF Lull, IRest, Resting, NoneDeleted, NoneCreated, NoneUpdated, FaultsFail, Views
<1>3. QED
  BY <1>1, <1>2

\* A batch creates or updates nothing: what ends well would be seen, so its
\* calls fail, or time out with nothing done.
LEMMA BatchStep ==
    ASSUME Lull, NEW p \in Pools, BatchCall(p)
    PROVE  Resting'
<1>1. PICK err \in BOOLEAN :
         /\ \/ pc = "create" /\ CreatePool(p, err)
            \/ pc = "update" /\ UpdatePool(p, err)
         /\ failed' = (failed \/ err)
  BY DEF BatchCall
<1>2. /\ p \in batch /\ UNCHANGED <<pc, doomed, todo>>
      /\ IInv /\ UNCHANGED workloads /\ failed \in BOOLEAN
  BY LullFacts, Types DEF BatchCall, Lull
<1>3. CASE pc = "create"
  <2>1. faults' # 0 /\ (err \/ ~NoTimeouts)
    BY <1>1, <1>2, <1>3, CalmCreate
  <2>2. CreatesAreDone' => failed'
    BY <1>1, <2>1 DEF CreatesAreDone, NoTimeouts
  <2>3. Owned \subseteq FoundIds
    BY <1>3 DEF Lull, IRest, NoneDeleted
  <2>4. QED
    BY <1>2, <1>3, <2>1, <2>2, <2>3, LullFacts
       DEF Resting, NoneDeleted, NoneCreated, NoneUpdated, FaultsFail, Views
<1>4. CASE pc = "update"
  <2>1. UpdatePool(p, err)
    BY <1>1, <1>4
  <2>2. failed'
    <3>1. CASE failed
      BY <1>1, <3>1
    <3>2. CASE ~failed
      <4>1. p \in Outdated
        BY <1>2, <1>4, <3>2 DEF Lull, IRest, NoneUpdated
      <4>2. err
        BY <1>2, <2>1, <4>1, LullFacts, CalmUpdate
      <4>3. QED
        BY <1>1, <4>2
    <3>3. QED
      BY <3>1, <3>2
  <2>3. CreatesAreDone' => CreatesAreDone
    BY <1>2, <2>1, FaultsCounted, UpdateFaults
  <2>4. QED
    BY <1>2, <1>4, <2>2, <2>3, LullFacts
       DEF Lull, IRest, Resting, NoneDeleted, NoneCreated, NoneUpdated, FaultsFail, Views
<1>5. QED
  BY <1>1, <1>3, <1>4

\* What is unexpected is all to be deleted, and a delete fails.
LEMMA DeleteStep ==
    ASSUME Lull, StartDeletes \/ \E id \in Ids : DeleteCall(id)
    PROVE  Resting'
<1>1. CASE StartDeletes
  <2>1. /\ pc = "create" /\ pc' = "delete" /\ doomed' = Unexpected
        /\ batch = {} /\ (todo = {} \/ failed) /\ UNCHANGED <<failed, faults>>
    BY <1>1 DEF StartDeletes, BatchesDone, boundVars
  <2>2. CreatesAreDone' => CreatesAreDone
    BY <2>1 DEF CreatesAreDone, NoTimeouts
  <2>3. QED
    BY <2>1, <2>2, LullFacts
       DEF Lull, IRest, Resting, NoneDeleted, NoneCreated, NoneUpdated, FaultsFail, Views
<1>2. ASSUME NEW id \in Ids, DeleteCall(id)
      PROVE  Resting'
  <2>1. PICK result \in {"ok", "NotFound", "error"} :
           DeletePool(id, result) /\ failed' = (failed \/ result # "ok")
    BY <1>2 DEF DeleteCall
  <2>2. /\ pc \in {"delete", "clean"} /\ id \in doomed /\ UNCHANGED pc
        /\ IInv /\ UNCHANGED workloads /\ failed \in BOOLEAN
    BY <1>2, LullFacts, Types DEF DeleteCall, Lull
  <2>3. failed' /\ (faults' # 0 \/ (result = "NotFound" /\ workloads[id] = Absent /\ faults' = faults))
    BY <2>1, <2>2, CalmDelete
  <2>4. faults' # 0
    <3>1. ~failed => workloads[id] # Absent
      <4>1. ~failed => doomed \in {Unexpected, OfOtherKind}
        BY <2>2 DEF Lull, IRest, NoneDeleted
      <4>2. \A other \in Unexpected : workloads[other] # Absent
        BY LullFacts DEF Faithful, Unexpected
      <4>3. \A other \in OfOtherKind : workloads[other] # Absent
        BY LullFacts DEF OfOtherKind, OfKind, Present
      <4>4. QED
        BY <2>2, <4>1, <4>2, <4>3
    <3>2. failed => faults # 0
      BY <2>2 DEF Lull, IRest, FaultsFail
    <3>3. QED
      BY <2>3, <3>1, <3>2
  <2>5. Owned \subseteq FoundIds
    BY <2>2 DEF Lull, IRest, NoneDeleted
  <2>6. QED
    BY <2>2, <2>3, <2>4, <2>5, LullFacts
       DEF Resting, NoneDeleted, NoneCreated, NoneUpdated, FaultsFail, Views
<1>3. QED
  BY <1>1, <1>2

\* So are the workloads of the other template type.
LEMMA CleanStep ==
    ASSUME Lull, StartClean
    PROVE  Resting'
<1>1. /\ pc = "delete" /\ doomed = {} /\ pc' = "clean"
      /\ \/ doomed' = OfOtherKind /\ UNCHANGED <<failed, faults>>
         \/ failed' /\ Fault("error")
  BY DEF StartClean
<1>2. Owned \subseteq FoundIds /\ (~failed => Unexpected = {}) /\ (failed => faults # 0)
  BY <1>1 DEF Lull, IRest, NoneDeleted, FaultsFail
<1>3. CASE doomed' = OfOtherKind /\ UNCHANGED <<failed, faults>>
  <2>1. CreatesAreDone' => CreatesAreDone
    BY <1>3 DEF CreatesAreDone, NoTimeouts
  <2>2. CreatesAreDone' /\ ~failed' => Missing = {}
    BY <1>1, <1>3, <2>1 DEF Lull, IRest, NoneCreated
  <2>3. QED
    BY <1>1, <1>2, <1>3, <2>2, LullFacts
       DEF Resting, NoneDeleted, NoneCreated, NoneUpdated, FaultsFail, Views
<1>4. CASE failed' /\ Fault("error")
  <2>1. faults' # 0
    BY <1>4, LullFacts, FaultsCounted
  <2>2. QED
    BY <1>1, <1>2, <1>4, <2>1, LullFacts
       DEF Resting, NoneDeleted, NoneCreated, NoneUpdated, FaultsFail, Views
<1>5. QED
  BY <1>1, <1>3, <1>4

\* A condition is set to what became of the phase.
LEMMA ConditionStep ==
    ASSUME Lull, ProvisionFailed \/ StartUpdates \/ FinishUpdates
    PROVE  Resting'
<1>1. UNCHANGED <<failed, faults>> /\ Owned \subseteq FoundIds
  BY DEF ProvisionFailed, StartUpdates, FinishUpdates, workVars, boundVars,
         Lull, IRest, NoneDeleted
<1>2. CreatesAreDone' => CreatesAreDone
  BY <1>1 DEF CreatesAreDone, NoTimeouts
<1>3. CASE ProvisionFailed
  <2>1. pc = "clean" /\ pc' = "status" /\ failed
    BY <1>3 DEF ProvisionFailed
  <2>2. faults # 0
    BY <2>1 DEF Lull, IRest, FaultsFail
  <2>3. QED
    BY <1>1, <2>1, <2>2, LullFacts
       DEF Resting, NoneDeleted, NoneCreated, NoneUpdated, FaultsFail, Views
<1>4. CASE StartUpdates
  <2>1. /\ pc = "clean" /\ doomed = {} /\ ~failed /\ pc' = "update"
        /\ todo' = Outdated /\ batch' = {}
    BY <1>4, LullFacts DEF StartUpdates, Outdated
  <2>2. /\ Unexpected = {} /\ OfOtherKind = {}
        /\ CreatesAreDone' => Missing = {}
    BY <1>2, <2>1 DEF Lull, IRest, NoneDeleted, NoneCreated
  <2>3. QED
    BY <1>1, <2>1, <2>2, LullFacts
       DEF Resting, NoneDeleted, NoneCreated, NoneUpdated, FaultsFail, Views
<1>5. CASE FinishUpdates
  <2>1. pc = "update" /\ pc' = "status" /\ batch = {} /\ (todo = {} \/ failed)
    BY <1>5 DEF FinishUpdates, BatchesDone
  <2>2. /\ Unexpected = {} /\ OfOtherKind = {}
        /\ CreatesAreDone' => Missing = {}
        /\ ~failed => Outdated = {}
    BY <1>2, <2>1 DEF Lull, IRest, NoneDeleted, NoneCreated, NoneUpdated
  <2>3. QED
    BY <1>1, <2>1, <2>2, LullFacts
       DEF Resting, NoneDeleted, NoneCreated, NoneUpdated, FaultsFail, Views
<1>6. QED
  BY <1>3, <1>4, <1>5

\* A reconcile that takes the key reads what is there.
LEMMA ListStep ==
    ASSUME IRest, Calm', UNCHANGED <<workloads, cache, yas, yasCache>>, ListPools
    PROVE  Resting'
<1>1. /\ CachesSynced /\ pc' = "dups" /\ inst' = yas
      /\ yasCache = yas /\ cache = workloads
  BY CalmCaches DEF IRest, ListPools, Calm, CachesSynced, yasVars, workloadVars
<1> DEFINE found == PoolsOf(workloads, yas.spec.kind)
<1>2. PICK first \in [found -> Ids] :
         /\ \A p \in found : first[p] \in OfPool(workloads, yas.spec.kind, p)
         /\ nameToPool' = [p \in found |-> [id |-> first[p], seen |-> workloads[first[p]]]]
         /\ doomed' = OfKind(workloads, yas.spec.kind) \ {first[p] : p \in found}
  BY <1>1 DEF ListPools
<1>3. Faithful'
  BY <1>1, <1>2 DEF Faithful, OfPool, OfKind, Present
<1>4. doomed' = (Owned \ FoundIds)'
  BY <1>1, <1>2 DEF Owned, FoundIds
<1>5. ~failed'
  BY DEF ListPools, TakeKey, IRest, Dropped
<1>6. AtRest'
  BY <1>1 DEF AtRest, RestMeansConverged, StatusAtRest, ConditionsAtRest,
              BadPatchStillProvisions, Quiescent
<1>7. QED
  BY <1>1, <1>3, <1>4, <1>5, <1>6
     DEF Resting, Snapshot, NoneDeleted, NoneCreated, NoneUpdated, FaultsFail

\* A reconcile that could not list its pools, or not delete a duplicate, has
\* met a fault, and promises nothing.
LEMMA UnlistedStep ==
    ASSUME IRest, Return("unlisted"), faults' # 0
    PROVE  Resting'
<1>1. pc' = "idle" /\ outcome' = "unlisted"
  BY DEF Return
<1>2. QED
  BY <1>1 DEF Resting, Snapshot, NoneDeleted, NoneCreated, NoneUpdated, FaultsFail,
              AtRest, RestMeansConverged, StatusAtRest, ConditionsAtRest,
              BadPatchStillProvisions

\* A duplicate is deleted, which would be seen, or not.
LEMMA DupStep ==
    ASSUME IRest, Calm, UNCHANGED <<workloads, cache, yas, yasCache>>,
           NEW id \in Ids, DeleteDup(id)
    PROVE  Resting'
<1>1. IInv
  BY DEF IRest
<1>2. pc = "dups" /\ id \in doomed
  BY DEF DeleteDup
<1>3. workloads[id] # Absent
  BY <1>2 DEF IRest, NoneDeleted, Owned, OfKind, Present
<1>4. DeletePool(id, "error") /\ Return("unlisted")
  BY <1>1, <1>3, CalmDelete DEF DeleteDup
<1>5. faults' # 0
  BY <1>1, <1>4, CalmDelete
<1>6. QED
  BY <1>4, <1>5, UnlistedStep

\* The status is written when there was nothing left to do, or an error.
LEMMA StatusStep ==
    ASSUME IRest, Calm, Calm', UNCHANGED <<workloads, cache, yas, yasCache>>, UpdateStatus
    PROVE  Resting'
<1>1. IInv /\ Faithful /\ cache = workloads /\ pc = "status" /\ Owned \subseteq FoundIds
  BY CalmCaches DEF IRest, Calm, UpdateStatus, Snapshot, NoneDeleted
<1>2. /\ yas' = [yas EXCEPT !.status = CalculatedStatus]
      /\ Return(IF failed THEN "failed" ELSE "ok") /\ UNCHANGED faults
  BY DEF UpdateStatus, WriteObject, Calm
<1>3. yas.status = CalculatedStatus
  BY <1>1, <1>2, Types DEF Object
<1>4. pc' = "idle" /\ outcome' = (IF failed THEN "failed" ELSE "ok")
  BY <1>2 DEF Return
<1>5. StatusAtRest'
  BY <1>1, <1>3, StatusCounts
     DEF StatusAtRest, OfKind, PoolsOf, Present
<1>6. ConditionsAtRest'
  <2>1. /\ yas.status.provisioned = newStatus.provisioned
        /\ yas.status.updated = newStatus.updated
    BY <1>1, <1>3 DEF CalculatedStatus, IInv, TypeOK, Status
  <2>2. /\ failed => newStatus.provisioned = "False" \/ newStatus.updated = "False"
        /\ ~failed => newStatus.updated = "True"
    BY <1>1 DEF IRest, ErrorsTold
  <2>3. QED
    BY <1>4, <2>1, <2>2 DEF ConditionsAtRest
<1>7. NoTimeouts => RestMeansConverged'
  <2>1. SUFFICES ASSUME NoTimeouts, ~failed PROVE RestMeansConverged'
    BY <1>4 DEF RestMeansConverged
  <2>2. Missing = {} /\ Unexpected = {} /\ OfOtherKind = {} /\ Outdated = {}
    BY <1>1, <2>1 DEF IRest, NoneDeleted, NoneCreated, NoneUpdated, CreatesAreDone
  <2>3. Matches(yas.spec)
    BY <1>1, <2>2, NothingLeft
  <2>4. QED
    BY <2>3 DEF RestMeansConverged, Matches, OfPool, OfKind, PoolsOf, Present
<1>8. BadPatchStillProvisions'
  <2>1. SUFFICES ASSUME faults = 0 PROVE BadPatchStillProvisions'
    BY <1>2 DEF BadPatchStillProvisions
  <2>2. Missing = {} /\ Unexpected = {}
    BY <1>1, <2>1 DEF IRest, NoneDeleted, NoneCreated, CreatesAreDone, Calm
  <2>3. Provisioned
    BY <1>1, <2>2, PoolsExpected DEF Faithful, Provisioned
  <2>4. \A p \in Pools : Cardinality(OfPool(workloads, yas.spec.kind, p)) <= 1
    BY <1>1, OnlyOne
  <2>5. QED
    BY <2>3, <2>4 DEF BadPatchStillProvisions, Provisioned, OfPool, OfKind, PoolsOf, Present
<1>9. QED
  BY <1>4, <1>5, <1>6, <1>7, <1>8
     DEF Resting, Snapshot, NoneDeleted, NoneCreated, NoneUpdated, FaultsFail, AtRest

\* Users, the garbage collector and the informers leave the reconcile alone.
LEMMA OtherStep ==
    ASSUME IRest, Calm, UNCHANGED <<workloads, cache, yas, yasCache>>,
           UNCHANGED reconcileVars, UNCHANGED faults
    PROVE  Resting'
<1>1. UNCHANGED <<pc, inst, nameToPool, doomed, todo, batch, failed, newStatus, outcome>>
  BY DEF reconcileVars
<1>2. UNCHANGED Views
  BY <1>1, SameViews
<1>3. CreatesAreDone' <=> CreatesAreDone
  BY DEF CreatesAreDone, NoTimeouts
<1>4. (Snapshot /\ NoneDeleted /\ NoneCreated /\ NoneUpdated /\ FaultsFail)'
  BY <1>1, <1>2, <1>3
     DEF IRest, Snapshot, NoneDeleted, NoneCreated, NoneUpdated, FaultsFail, Views
<1>5. (NoTimeouts => RestMeansConverged)'
  BY <1>1 DEF IRest, AtRest, NoTimeouts, RestMeansConverged, Quiescent, Calm, Matches,
              OfPool, OfKind, PoolsOf, Present
<1>6. (StatusAtRest /\ ConditionsAtRest)'
  BY <1>1 DEF IRest, AtRest, StatusAtRest, ConditionsAtRest, Quiescent, Calm,
              OfKind, PoolsOf, Present
<1>7. BadPatchStillProvisions'
  BY <1>1 DEF IRest, AtRest, BadPatchStillProvisions, Quiescent, Calm, Provisioned,
              OfPool, OfKind, PoolsOf, Present
<1>8. QED
  BY <1>4, <1>5, <1>6, <1>7 DEF Resting, AtRest

-----------------------------------------------------------------------------
(* The inductive invariant.                                                 *)

\* Whatever step is taken, a state in which no event is on its way is as it
\* should be.
LEMMA RestingStep ==
    ASSUME IRest, [Next]_vars
    PROVE  Resting'
<1>1. CASE ~Calm'
  BY <1>1 DEF Resting, Snapshot, NoneDeleted, NoneCreated, NoneUpdated, FaultsFail, AtRest,
              RestMeansConverged, StatusAtRest, ConditionsAtRest, BadPatchStillProvisions,
              Quiescent, Calm
<1>2. ASSUME Calm' PROVE Resting'
  <2>1. /\ UNCHANGED <<workloads, cache, yas, yasCache>>
        /\ yasSynced /\ stale = {} /\ yas.phase = "live"
        /\ ListPools \/ ListFails \/ ~queued
    BY <1>2, CalmStep DEF IRest
  <2>2. CASE ListPools
    BY <1>2, <2>1, <2>2, ListStep
  <2>3. CASE ListFails
    <3>1. IInv /\ Fault("error") /\ Return("unlisted")
      BY <2>3 DEF ListFails, IRest
    <3>2. faults' # 0
      BY <3>1, FaultsCounted
    <3>3. QED
      BY <3>1, <3>2, UnlistedStep
  <2>4. ASSUME ~queued PROVE Resting'
    <3>1. Calm
      BY <2>1, <2>4 DEF Calm, CachesSynced
    <3>2. CASE \E id \in Ids : DeleteDup(id)
      BY <2>1, <3>1, <3>2, DupStep
    <3>3. CASE UpdateStatus
      BY <1>2, <2>1, <3>1, <3>3, StatusStep
    <3>4. CASE StartCreates \/ NextBatch
      <4>1. Lull
        BY <1>2, <2>1, <3>1, <3>4 DEF Lull, StartCreates, NextBatch
      <4>2. QED
        BY <3>4, <4>1, StartStep
    <3>5. ASSUME NEW p \in Pools, BatchCall(p) PROVE Resting'
      <4>1. Lull
        <5>1. pc \in {"create", "update"} /\ UNCHANGED <<pc, inst, nameToPool>>
          BY <3>5 DEF BatchCall
        <5>2. QED
          BY <1>2, <2>1, <3>1, <5>1 DEF Lull
      <4>2. QED
        BY <3>5, <4>1, BatchStep
    <3>6. CASE StartDeletes \/ \E id \in Ids : DeleteCall(id)
      <4>1. Lull
        BY <1>2, <2>1, <3>1, <3>6 DEF Lull, StartDeletes, DeleteCall
      <4>2. QED
        BY <3>6, <4>1, DeleteStep
    <3>7. CASE StartClean
      <4>1. Lull
        BY <1>2, <2>1, <3>1, <3>7 DEF Lull, StartClean
      <4>2. QED
        BY <3>7, <4>1, CleanStep
    <3>8. CASE ProvisionFailed \/ StartUpdates \/ FinishUpdates
      <4>1. Lull
        BY <1>2, <2>1, <3>1, <3>8 DEF Lull, ProvisionFailed, StartUpdates, FinishUpdates
      <4>2. QED
        BY <3>8, <4>1, ConditionStep
    <3>9. CASE SkipDeleted \/ RevisionsFail \/ UpdateStatusFails
      BY <1>2, <2>4, <3>9 DEF SkipDeleted, RevisionsFail, UpdateStatusFails, TakeKey, Calm
    <3>10. CASE Sync \/ Resync \/ Crash
      BY <1>2, <3>10 DEF Sync, SyncYurtAppSet, SyncWorkloads, Resync, Crash, Calm
    <3>11. CASE User
      <4>1. UNCHANGED <<reconcileVars, faults>>
        BY <3>11 DEF User, UserAction, EditSpec, ScaleWorkload, RemoveWorkload, DeleteYurtAppSet
      <4>2. QED
        BY <2>1, <3>1, <4>1, OtherStep
    <3>12. CASE Collector \/ UNCHANGED vars
      <4>1. UNCHANGED <<reconcileVars, faults>>
        BY <3>12 DEF Collector, FinishDeletion, CollectGarbage, vars, boundVars
      <4>2. QED
        BY <2>1, <3>1, <4>1, OtherStep
    <3>13. QED
      BY <2>2, <2>3, <3>2, <3>3, <3>4, <3>5, <3>6, <3>7, <3>8, <3>9, <3>10, <3>11, <3>12
         DEF Next, Reconcile
  <2>5. QED
    BY <2>1, <2>2, <2>3, <2>4
<1>3. QED
  BY <1>1, <1>2

\* A reconcile ends with nothing left of its errors, and each condition of the
\* new status is set once its phase is over.
LEMMA ErrorsStep ==
    ASSUME IRest, [Next]_vars
    PROVE  (Dropped /\ ErrorsTold)'
<1>1. /\ Dropped /\ ErrorsTold /\ newStatus \in Status /\ inst.status \in Status
  BY Types, ObjectType DEF IRest, IInv, TypeOK
<1>2. ASSUME NEW result, Return(result)
      PROVE  (Dropped /\ ErrorsTold)'
  BY <1>2 DEF Return, Dropped, ErrorsTold
<1>3. CASE UNCHANGED <<pc, failed, newStatus>>
  BY <1>1, <1>3 DEF Dropped, ErrorsTold
<1>4. CASE \/ SkipDeleted \/ RevisionsFail \/ ListFails \/ UpdateStatus
           \/ UpdateStatusFails \/ Crash
  BY <1>2, <1>4 DEF SkipDeleted, RevisionsFail, ListFails, UpdateStatus, UpdateStatusFails, Crash
<1>5. CASE ListPools \/ StartCreates \/ StartDeletes \/ StartClean \/ StartUpdates
  BY <1>5 DEF ListPools, StartCreates, StartDeletes, StartClean, StartUpdates,
              Dropped, ErrorsTold
<1>6. ASSUME NEW id \in Ids, DeleteDup(id) \/ DeleteCall(id)
      PROVE  (Dropped /\ ErrorsTold)'
  <2>1. CASE DeleteDup(id)
    BY <1>2, <1>3, <2>1 DEF DeleteDup
  <2>2. CASE DeleteCall(id)
    BY <2>2 DEF DeleteCall, Dropped, ErrorsTold
  <2>3. QED
    BY <1>6, <2>1, <2>2
<1>7. CASE NextBatch
  BY <1>3, <1>7 DEF NextBatch
<1>8. ASSUME NEW p \in Pools, BatchCall(p)
      PROVE  (Dropped /\ ErrorsTold)'
  <2>1. pc \in {"create", "update"} /\ UNCHANGED pc
    BY <1>8 DEF BatchCall
  <2>2. QED
    BY <2>1 DEF Dropped, ErrorsTold
<1>9. CASE ProvisionFailed
  BY <1>1, <1>9 DEF ProvisionFailed, workVars, Dropped, ErrorsTold, Status
<1>10. CASE FinishUpdates
  BY <1>1, <1>10 DEF FinishUpdates, workVars, Dropped, ErrorsTold, Status
<1>11. CASE Sync \/ Resync
  BY <1>3, <1>11 DEF Sync, SyncYurtAppSet, SyncWorkloads, Resync, reconcileVars
<1>12. CASE User
  BY <1>3, <1>12 DEF User, UserAction, EditSpec, ScaleWorkload, RemoveWorkload,
                     DeleteYurtAppSet, reconcileVars
<1>13. CASE Collector \/ UNCHANGED vars
  BY <1>3, <1>13 DEF Collector, FinishDeletion, CollectGarbage, vars, reconcileVars
<1>14. QED
  BY <1>4, <1>5, <1>6, <1>7, <1>8, <1>9, <1>10, <1>11, <1>12, <1>13 DEF Next, Reconcile

\* At the start the key is in the queue.
LEMMA InitRest == Init => IRest
<1> SUFFICES ASSUME Init PROVE IRest
  OBVIOUS
<1>1. IInv
  BY InitInvariant
<1>2. ~Calm /\ ~Quiescent
  BY DEF Init, Calm, Quiescent
<1>3. Current /\ Dropped /\ ErrorsTold
  BY DEF Init, Current, Dropped, ErrorsTold
<1>4. QED
  BY <1>1, <1>2, <1>3
     DEF IRest, Snapshot, NoneDeleted, NoneCreated, NoneUpdated, FaultsFail, AtRest,
         RestMeansConverged, StatusAtRest, ConditionsAtRest, BadPatchStillProvisions

\* Every reachable state satisfies the inductive invariant.
THEOREM RestInvariance == Spec => []IRest
<1>1. IInv' /\ IRest /\ [Next]_vars => IRest'
  BY CurrentStep, RestingStep, ErrorsStep DEF IRest, Resting
<1>2. QED
  BY InitRest, Invariance, <1>1, PTL DEF Spec

-----------------------------------------------------------------------------
(* Theorems.                                                                *)

\* At rest after a reconcile that met no error, each expected pool has one
\* workload, with the current template, replicas and patch, and there is no
\* other, provided that no create times out.
THEOREM RestConverged == "timeout" \notin Faults => (Spec => []RestMeansConverged)
<1>1. SUFFICES ASSUME NoTimeouts PROVE Spec => []RestMeansConverged
  BY DEF NoTimeouts
<1>2. IRest => RestMeansConverged
  BY <1>1 DEF IRest, AtRest
<1>3. QED
  BY RestInvariance, <1>2, PTL

\* At rest, the status written last is about the current generation, and
\* counts the replicas of the workloads there are.
THEOREM StatusTrue == Spec => []StatusAtRest
<1>1. IRest => StatusAtRest
  BY DEF IRest, AtRest
<1>2. QED
  BY RestInvariance, <1>1, PTL

\* At rest after an error of the pools, a condition is False; after a
\* reconcile without one, the pools are reported as updated.
THEOREM ConditionsTrue == Spec => []ConditionsAtRest
<1>1. IRest => ConditionsAtRest
  BY DEF IRest, AtRest
<1>2. QED
  BY RestInvariance, <1>1, PTL

\* Where no call failed, a controller at rest has provisioned the expected
\* pools, once each, also those whose patch cannot be merged.
THEOREM BadPatchProvisions == Spec => []BadPatchStillProvisions
<1>1. IRest => BadPatchStillProvisions
  BY DEF IRest, AtRest
<1>2. QED
  BY RestInvariance, <1>1, PTL

=============================================================================
