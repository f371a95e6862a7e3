-------------------------- MODULE YurtAppSetProofs --------------------------
(***************************************************************************)
(* The YurtAppSet controller keeps its types, never reports an older or a  *)
(* future generation, and makes no duplicate of a pool's workload as long  *)
(* as it never starts from stale caches: for every set of pools, names and *)
(* specifications, and any number of faults and user actions.              *)
(***************************************************************************)
EXTENDS YurtAppSet, FiniteSetTheorems, TLAPS

\* What a batch works on are pools of the specification; updates are of pools
\* that were found.
Work ==
    /\ pc \notin {"create", "update"} => batch = {}
    /\ pc \in {"create", "update"} => todo \cup batch \subseteq DOMAIN inst.spec.pools
    /\ pc = "update" => todo \cup batch \subseteq DOMAIN nameToPool
    /\ todo \cap batch = {}

\* Generations only grow, and the caches and the running reconcile lag behind.
Generations ==
    /\ yas.status.observed <= yasCache.gen
    /\ yasCache.gen <= yas.gen
    /\ pc # "idle" => /\ yas.status.observed <= inst.gen
                      /\ inst.gen <= yasCache.gen

\* A copy of a workload is of the same kind and pool as the workload.
SameIdentity(copy, original) ==
    copy # Absent /\ original # Absent =>
        copy.kind = original.kind /\ copy.pool = original.pool

\* Names are not reused, so what is known under a name stays what it was; and
\* what the informers have seen is what the server has.
Identities ==
    /\ \A id \in Ids : SameIdentity(cache[id], workloads[id])
    /\ \A id \in Ids \ stale : cache[id] = workloads[id]
    /\ \A p \in DOMAIN nameToPool :
          /\ workloads[nameToPool[p].id] # Absent =>
                /\ workloads[nameToPool[p].id].kind = inst.spec.kind
                /\ workloads[nameToPool[p].id].pool = p
          /\ cache[nameToPool[p].id] # Absent =>
                /\ cache[nameToPool[p].id].kind = inst.spec.kind
                /\ cache[nameToPool[p].id].pool = p

\* A pool that was not found, and whose call has not been made, has no workload.
StillMissing(p) ==
    \/ pc = "dups" /\ p \notin DOMAIN nameToPool
    \/ pc = "create" /\ p \in todo \cup batch

Fresh ==
    staleReads = 0 =>
        /\ \A id1, id2 \in Ids :
              /\ workloads[id1] # Absent /\ workloads[id2] # Absent
              /\ workloads[id1].kind = workloads[id2].kind
              /\ workloads[id1].pool = workloads[id2].pool
              => id1 = id2
        /\ \A id \in Ids : workloads[id] # Absent /\ workloads[id].kind = inst.spec.kind
              => ~ StillMissing(workloads[id].pool)

IInv == TypeOK /\ Work /\ Generations /\ Identities /\ Fresh

USE DEF Kinds

-----------------------------------------------------------------------------
(* The values the controller computes.                                      *)

\* The parts of a specification.
LEMMA SpecType ==
    ASSUME NEW spec \in Specs
    PROVE  /\ spec.kind \in Kinds
           /\ spec.template \in Templates
           /\ DOMAIN spec.pools \subseteq Pools
           /\ \A p \in DOMAIN spec.pools : /\ spec.pools[p].replicas \in Replicas
                                           /\ spec.pools[p].patch \in Patches
<1>1. spec \in AppSpec
  BY ConstantAssumption
<1>2. PICK ps \in SUBSET Pools :
         spec \in [kind : Kinds, template : Templates, pools : [ps -> PoolConfig]]
  BY <1>1 DEF AppSpec
<1>3. spec.pools \in [ps -> PoolConfig]
  BY <1>2
<1>4. QED
  BY <1>2, <1>3 DEF PoolConfig

\* The parts of an object.
LEMMA ObjectType ==
    ASSUME NEW o \in Object
    PROVE  /\ o.spec \in Specs /\ o.gen \in Nat /\ o.status \in Status
           /\ o.status.observed \in Nat /\ o.phase \in {"live", "terminating", "gone"}
BY DEF Object, Status

\* What the controller writes in a workload is a workload of the pool it was
\* meant for, of the template type of the specification.
LEMMA AppliedType ==
    ASSUME NEW spec \in Specs, NEW p \in DOMAIN spec.pools,
           NEW w \in {ApplyPoolTemplate(spec, p), CreatedPool(spec, p)}
    PROVE  /\ w \in Workload /\ w # Absent
           /\ w.kind = spec.kind /\ w.pool = p
<1>1. ApplyPoolTemplate(spec, p) \in Workload
  BY SpecType DEF ApplyPoolTemplate, Workload
<1>2. [ApplyPoolTemplate(spec, p) EXCEPT !.patch = NoPatch] \in Workload
  BY <1>1, ConstantAssumption DEF Workload
<1>3. w \in Workload /\ w # Absent
  BY <1>1, <1>2, ConstantAssumption DEF CreatedPool
<1>4. w.kind = spec.kind /\ w.pool = p
  BY DEF CreatedPool, ApplyPoolTemplate
<1>5. QED
  BY <1>3, <1>4

\* The pools found are a function on pools.
LEMMA FoundType ==
    ASSUME TypeOK
    PROVE  /\ DOMAIN nameToPool \subseteq Pools
           /\ \A p \in DOMAIN nameToPool : /\ nameToPool[p].id \in Ids
                                           /\ nameToPool[p].seen \in Workload
BY DEF TypeOK, Pool

\* The values a reconcile starts with.
LEMMA InitialTypes ==
    /\ InitialObject \in Object /\ EmptyStatus \in Status
    /\ \E found \in SUBSET Pools : NoPools \in [found -> Pool]
    /\ DOMAIN NoPools = {}
<1>1. EmptyStatus \in Status
  BY DEF EmptyStatus, Status, Condition
<1>2. InitialObject \in Object
  BY <1>1, ConstantAssumption DEF InitialObject, Object
<1>3. NoPools \in [{} -> Pool] /\ DOMAIN NoPools = {}
  BY DEF NoPools
<1>4. QED
  BY <1>1, <1>2, <1>3

\* The status that is written.
LEMMA CalculatedType ==
    ASSUME TypeOK
    PROVE  CalculatedStatus \in Status /\ CalculatedStatus.observed = inst.gen
<1>1. newStatus \in Status /\ inst.gen \in Nat
  BY ObjectType DEF TypeOK
<1>2. [p \in Pools |-> IF p \in DOMAIN nameToPool
                       THEN nameToPool[p].seen.replicas ELSE Absent]
         \in [Pools -> Replicas \cup {Absent}]
  BY FoundType DEF Workload
<1>3. QED
  BY <1>1, <1>2 DEF CalculatedStatus, Status

\* A name that is made up is a free one.
LEMMA NewIdFree ==
    ASSUME FreeIds # {}
    PROVE  NewId \in FreeIds /\ NewId \in Ids
BY DEF NewId, FreeIds

-----------------------------------------------------------------------------
(* What the steps do to the workloads.                                      *)

Removes(id) == WriteWorkload(id, Absent)

Rewrites(id) ==
    \E value \in Workload : /\ workloads[id] # Absent
                            /\ SameIdentity(value, workloads[id])
                            /\ WriteWorkload(id, value)

Adds(p) ==
    \E value \in Workload : /\ FreeIds # {}
                            /\ value.kind = inst.spec.kind /\ value.pool = p
                            /\ WriteWorkload(NewId, value)

NoneAdded ==
    \/ UNCHANGED workloadVars
    \/ \E id \in Ids : Removes(id) \/ Rewrites(id)

Written == NoneAdded \/ \E p \in batch : Adds(p)

WorkloadsTyped ==
    /\ workloads \in [Ids -> Workload \cup {Absent}]
    /\ cache \in [Ids -> Workload \cup {Absent}]
    /\ stale \in SUBSET Ids

LEMMA WrittenType ==
    ASSUME TypeOK, Written
    PROVE  WorkloadsTyped'
<1>1. CASE UNCHANGED workloadVars
  BY <1>1 DEF TypeOK, WorkloadsTyped, workloadVars
<1>2. ASSUME NEW id \in Ids, NEW value \in Workload \cup {Absent}, WriteWorkload(id, value)
      PROVE  WorkloadsTyped'
  BY <1>2 DEF TypeOK, WorkloadsTyped, WriteWorkload
<1>3. QED
  BY <1>1, <1>2, NewIdFree DEF Written, NoneAdded, Removes, Rewrites, Adds

\* A deletion removes the workload or leaves everything as it is.
LEMMA DeletePoolEffect ==
    ASSUME NEW id \in Ids, NEW result, TypeOK, DeletePool(id, result)
    PROVE  NoneAdded /\ faults' \in 0 .. MaxFaults
BY ConstantAssumption DEF DeletePool, NoneAdded, Removes, Fault, TypeOK

\* A creation adds a workload of the pool, or none.
LEMMA CreatePoolEffect ==
    ASSUME NEW p \in batch, NEW err \in BOOLEAN, TypeOK, Work, pc = "create",
           CreatePool(p, err)
    PROVE  /\ UNCHANGED workloadVars \/ Adds(p)
           /\ faults' \in 0 .. MaxFaults
<1> DEFINE value == CreatedPool(inst.spec, p)
<1>1. inst.spec \in Specs /\ p \in DOMAIN inst.spec.pools
  BY ObjectType DEF TypeOK, Work
<1>2. value \in Workload /\ value.kind = inst.spec.kind /\ value.pool = p
  BY <1>1, AppliedType
<1>3. CreateWorkload(value, err)
  BY DEF CreatePool
<1> HIDE DEF value
<1>4. UNCHANGED workloadVars \/ Adds(p)
  BY <1>2, <1>3 DEF CreateWorkload, Adds
<1>5. faults' \in 0 .. MaxFaults
  BY <1>3, ConstantAssumption DEF CreateWorkload, Fault, TypeOK
<1>6. QED
  BY <1>4, <1>5

\* An update keeps the kind and the pool of the workload.
LEMMA UpdatePoolEffect ==
    ASSUME NEW p \in batch, NEW err \in BOOLEAN, TypeOK, Work, Identities, pc = "update",
           UpdatePool(p, err)
    PROVE  NoneAdded /\ faults' \in 0 .. MaxFaults
<1> DEFINE id == nameToPool[p].id
           value == ApplyPoolTemplate(inst.spec, p)
<1>1. /\ inst.spec \in Specs /\ p \in DOMAIN inst.spec.pools
      /\ p \in DOMAIN nameToPool
  BY ObjectType DEF TypeOK, Work
<1>2. /\ id \in Ids
      /\ value \in Workload /\ value.kind = inst.spec.kind /\ value.pool = p
  BY <1>1, AppliedType, FoundType
<1>3. \/ UNCHANGED workloadVars
      \/ cache[id] # Absent /\ id \notin stale /\ WriteWorkload(id, value)
  BY DEF UpdatePool
<1>4. cache[id] # Absent /\ id \notin stale =>
         workloads[id] # Absent /\ SameIdentity(value, workloads[id])
  BY <1>1, <1>2 DEF Identities, SameIdentity
<1>5. NoneAdded
  <2> HIDE DEF id, value
  <2> QED BY <1>2, <1>3, <1>4 DEF NoneAdded, Rewrites
<1>6. faults' \in 0 .. MaxFaults
  BY ConstantAssumption DEF UpdatePool, Fault, TypeOK
<1>7. QED
  BY <1>5, <1>6

\* A user who scales keeps the kind and the pool of the workload.
LEMMA ScaleEffect ==
    ASSUME NEW id \in Ids, TypeOK, ScaleWorkload(id)
    PROVE  NoneAdded
<1>1. PICK n \in Replicas : WriteWorkload(id, [workloads[id] EXCEPT !.replicas = n])
  BY DEF ScaleWorkload
<1>2. workloads[id] \in Workload /\ workloads[id] # Absent
  BY DEF ScaleWorkload, TypeOK
<1>3. /\ [workloads[id] EXCEPT !.replicas = n] \in Workload
      /\ SameIdentity([workloads[id] EXCEPT !.replicas = n], workloads[id])
  BY <1>2 DEF Workload, SameIdentity
<1>4. QED
  BY <1>1, <1>2, <1>3 DEF NoneAdded, Rewrites

-----------------------------------------------------------------------------
(* The type invariant.                                                      *)

ReconcileTyped ==
    /\ pc \in Phases /\ inst \in Object
    /\ \E found \in SUBSET Pools : nameToPool \in [found -> Pool]
    /\ doomed \in SUBSET Ids
    /\ todo \in SUBSET Pools /\ batch \in SUBSET Pools
    /\ size \in Nat /\ failed \in BOOLEAN /\ acted \in BOOLEAN
    /\ newStatus \in Status /\ outcome \in Outcomes

LEMMA ReturnType ==
    ASSUME NEW result \in Outcomes, Return(result)
    PROVE  ReconcileTyped'
BY InitialTypes DEF Return, ReconcileTyped, Phases

\* Taking the key leaves its counter within its bound.
LEMMA TakeKeyType ==
    ASSUME TypeOK, TakeKey
    PROVE  queued' \in BOOLEAN /\ staleReads' \in 0 .. MaxStaleReads
<1>1. staleReads \in 0 .. MaxStaleReads /\ MaxStaleReads \in Nat
  BY ConstantAssumption DEF TypeOK
<1>2. \/ staleReads' = staleReads
      \/ staleReads < MaxStaleReads /\ staleReads' = staleReads + 1
  BY DEF TakeKey
<1>3. staleReads' \in 0 .. MaxStaleReads
  BY <1>1, <1>2
<1>4. queued' \in BOOLEAN
  BY DEF TakeKey
<1>5. QED
  BY <1>3, <1>4

LEMMA StartReconcileType ==
    ASSUME TypeOK, SkipDeleted \/ RevisionsFail \/ ListFails \/ ListPools
    PROVE  TypeOK'
<1>1. CASE SkipDeleted
  <2>1. ReconcileTyped'
    BY <1>1, ReturnType DEF SkipDeleted, Outcomes
  <2>2. QED
    BY <1>1, <2>1, TakeKeyType
       DEF SkipDeleted, TypeOK, ReconcileTyped, yasVars, workloadVars
<1>2. CASE RevisionsFail
  <2>1. ReconcileTyped'
    BY <1>2, ReturnType DEF RevisionsFail, Outcomes
  <2>2. QED
    BY <1>2, <2>1, ConstantAssumption
       DEF RevisionsFail, Fault, TypeOK, ReconcileTyped, yasVars, workloadVars
<1>3. CASE ListFails
  <2>1. ReconcileTyped'
    BY <1>3, ReturnType DEF ListFails, Outcomes
  <2>2. QED
    BY <1>3, <2>1, TakeKeyType, ConstantAssumption
       DEF ListFails, Fault, TypeOK, ReconcileTyped, yasVars, workloadVars
<1>4. CASE ListPools
  <2> DEFINE kind == yasCache.spec.kind
             found == PoolsOf(cache, kind)
  <2>1. PICK first \in [found -> Ids] :
           /\ \A p \in found : first[p] \in OfPool(cache, kind, p)
           /\ nameToPool' = [p \in found |-> [id |-> first[p], seen |-> cache[first[p]]]]
           /\ doomed' = OfKind(cache, kind) \ {first[p] : p \in found}
    BY <1>4 DEF ListPools
  <2>2. found \in SUBSET Pools
    BY DEF PoolsOf, OfKind, Present, TypeOK, Workload
  <2>3. \A p \in found : [id |-> first[p], seen |-> cache[first[p]]] \in Pool
    BY <2>1 DEF OfPool, OfKind, Present, TypeOK, Pool
  <2>4. nameToPool' \in [found -> Pool] /\ doomed' \in SUBSET Ids
    <3> HIDE DEF found
    <3>1. nameToPool' \in [found -> Pool]
      BY <2>1, <2>3
    <3>2. QED
      BY <2>1, <3>1 DEF OfKind, Present
  <2>5. ReconcileTyped'
    BY <1>4, <2>2, <2>4 DEF ListPools, ReconcileTyped, TypeOK, Phases, Outcomes
  <2>6. QED
    BY <1>4, <2>5, TakeKeyType
       DEF ListPools, TypeOK, ReconcileTyped, yasVars, workloadVars
<1>5. QED
  BY <1>1, <1>2, <1>3, <1>4

LEMMA CallType ==
    ASSUME TypeOK, Work, Identities,
           \/ \E id \in Ids : DeleteDup(id) \/ DeleteCall(id)
           \/ \E p \in Pools : BatchCall(p)
    PROVE  TypeOK'
<1>1. ASSUME NEW id \in Ids, DeleteDup(id)
      PROVE  TypeOK'
  <2>1. /\ \E result : DeletePool(id, result)
        /\ ReconcileTyped'
    BY <1>1, ReturnType DEF DeleteDup, TypeOK, ReconcileTyped, Outcomes
  <2>2. WorkloadsTyped' /\ faults' \in 0 .. MaxFaults
    BY <2>1, DeletePoolEffect, WrittenType DEF Written
  <2>3. QED
    BY <1>1, <2>1, <2>2 DEF DeleteDup, TypeOK, WorkloadsTyped, ReconcileTyped, yasVars
<1>2. ASSUME NEW id \in Ids, DeleteCall(id)
      PROVE  TypeOK'
  <2>1. /\ \E result : DeletePool(id, result)
        /\ ReconcileTyped'
    BY <1>2 DEF DeleteCall, TypeOK, ReconcileTyped
  <2>2. WorkloadsTyped' /\ faults' \in 0 .. MaxFaults
    BY <2>1, DeletePoolEffect, WrittenType DEF Written
  <2>3. QED
    BY <1>2, <2>1, <2>2 DEF DeleteCall, TypeOK, WorkloadsTyped, ReconcileTyped, yasVars
<1>3. ASSUME NEW p \in Pools, BatchCall(p)
      PROVE  TypeOK'
  <2>1. PICK err \in BOOLEAN :
           \/ pc = "create" /\ CreatePool(p, err)
           \/ pc = "update" /\ UpdatePool(p, err)
    BY <1>3 DEF BatchCall
  <2>2. p \in batch
    BY <1>3 DEF BatchCall
  <2>3. Written /\ faults' \in 0 .. MaxFaults
    BY <2>1, <2>2, CreatePoolEffect, UpdatePoolEffect DEF Written, NoneAdded
  <2>4. WorkloadsTyped'
    BY <2>3, WrittenType
  <2>5. ReconcileTyped'
    BY <1>3 DEF BatchCall, TypeOK, ReconcileTyped
  <2>6. QED
    BY <1>3, <2>3, <2>4, <2>5
       DEF BatchCall, TypeOK, WorkloadsTyped, ReconcileTyped, yasVars
<1>4. QED
  BY <1>1, <1>2, <1>3

\* The steps of managePools between the calls, and the status.
LEMMA PhaseType ==
    ASSUME TypeOK,
           \/ StartCreates \/ NextBatch \/ StartDeletes \/ StartClean
           \/ ProvisionFailed \/ StartUpdates \/ FinishUpdates
           \/ UpdateStatus \/ UpdateStatusFails
    PROVE  TypeOK'
<1> USE DEF yasVars, workloadVars, workVars, boundVars
<1>1. inst.spec \in Specs /\ inst.status \in Status
  BY ObjectType DEF TypeOK
<1>2. CASE StartCreates
  BY <1>1, <1>2, SpecType DEF StartCreates, TypeOK, Missing, Phases
<1>3. CASE NextBatch
  <2>1. batch' \in SUBSET Pools /\ todo' \in SUBSET Pools /\ size' \in Nat
    BY <1>3 DEF NextBatch, TypeOK
  <2>2. QED
    BY <1>3, <2>1 DEF NextBatch, TypeOK
<1>4. CASE StartDeletes
  <2>1. Unexpected \in SUBSET Ids
    BY FoundType DEF Unexpected
  <2>2. QED
    BY <1>4, <2>1 DEF StartDeletes, TypeOK, Phases
<1>5. CASE StartClean
  <2>1. OfOtherKind \in SUBSET Ids
    BY DEF OfOtherKind, OfKind, Present
  <2>2. doomed' \in SUBSET Ids /\ acted' \in BOOLEAN /\ failed' \in BOOLEAN
    BY <1>5, <2>1 DEF StartClean, TypeOK
  <2>3. faults' \in 0 .. MaxFaults
    BY <1>5, ConstantAssumption DEF StartClean, Fault, TypeOK
  <2>4. QED
    BY <1>5, <2>2, <2>3 DEF StartClean, TypeOK, Phases
<1>6. CASE ProvisionFailed
  <2>1. newStatus' \in Status
    BY <1>1, <1>6 DEF ProvisionFailed, Status, Condition
  <2>2. QED
    BY <1>6, <2>1 DEF ProvisionFailed, TypeOK, Phases
<1>7. CASE StartUpdates
  <2>1. newStatus' \in Status
    BY <1>1, <1>7 DEF StartUpdates, Status, Condition
  <2>2. todo' \in SUBSET Pools
    BY <1>1, <1>7, SpecType DEF StartUpdates
  <2>3. QED
    BY <1>7, <2>1, <2>2 DEF StartUpdates, TypeOK, Phases
<1>8. CASE FinishUpdates
  <2>1. newStatus' \in Status
    BY <1>8 DEF FinishUpdates, TypeOK, Status, Condition
  <2>2. QED
    BY <1>8, <2>1 DEF FinishUpdates, TypeOK, Phases
<1>9. CASE UpdateStatus
  <2>1. yas' \in Object /\ yasSynced' \in BOOLEAN /\ yasCache' = yasCache
    BY <1>9, CalculatedType DEF UpdateStatus, WriteObject, TypeOK, Object
  <2>2. \E result \in Outcomes : Return(result)
    BY <1>9 DEF UpdateStatus, Outcomes
  <2>3. ReconcileTyped'
    BY <2>2, ReturnType
  <2>4. queued' \in BOOLEAN
    BY <1>9 DEF UpdateStatus, TypeOK
  <2>5. \/ faults' = faults
        \/ faults < MaxFaults /\ faults' = faults + 1
    BY <1>9 DEF UpdateStatus, Fault
  <2>6. faults' \in 0 .. MaxFaults
    BY <2>5, ConstantAssumption DEF TypeOK
  <2>7. QED
    BY <1>9, <2>1, <2>3, <2>4, <2>6 DEF UpdateStatus, TypeOK, ReconcileTyped
<1>10. CASE UpdateStatusFails
  <2>1. ReconcileTyped'
    BY <1>10, ReturnType DEF UpdateStatusFails, Outcomes
  <2>2. faults' \in 0 .. MaxFaults
    BY <1>10, ConstantAssumption DEF UpdateStatusFails, Fault, TypeOK
  <2>3. QED
    BY <1>10, <2>1, <2>2 DEF UpdateStatusFails, TypeOK, ReconcileTyped
<1>11. QED
  BY <1>2, <1>3, <1>4, <1>5, <1>6, <1>7, <1>8, <1>9, <1>10

\* Everything around the controller.
LEMMA EnvironmentType ==
    ASSUME TypeOK, Sync \/ Resync \/ Crash \/ User \/ Collector
    PROVE  TypeOK'
<1> USE DEF yasVars, workloadVars, workVars, reconcileVars, boundVars
<1>1. CASE Sync
  <2>1. ASSUME SyncYurtAppSet PROVE TypeOK'
    BY <2>1 DEF SyncYurtAppSet, TypeOK
  <2>2. ASSUME NEW kind \in Kinds, SyncWorkloads(kind) PROVE TypeOK'
    <3>1. cache' \in [Ids -> Workload \cup {Absent}] /\ stale' \in SUBSET Ids
      BY <2>2 DEF SyncWorkloads, TypeOK
    <3>2. QED
      BY <2>2, <3>1 DEF SyncWorkloads, TypeOK
  <2>3. QED
    BY <1>1, <2>1, <2>2 DEF Sync
<1>2. CASE Resync
  BY <1>2 DEF Resync, TypeOK
<1>3. CASE Crash
  <2>1. ReconcileTyped' /\ faults' \in 0 .. MaxFaults
    BY <1>3, ReturnType, ConstantAssumption DEF Crash, Outcomes, Fault, TypeOK
  <2>2. QED
    BY <1>3, <2>1 DEF Crash, TypeOK, ReconcileTyped
<1>4. CASE User
  <2>1. ASSUME NEW kind, UserAction(kind)
        PROVE  edits' \in 0 .. MaxEdits /\ UNCHANGED <<queued, reconcileVars, faults, staleReads>>
    BY <2>1, ConstantAssumption DEF UserAction, TypeOK
  <2>2. ASSUME NEW spec \in Specs, EditSpec(spec) PROVE TypeOK'
    <3>1. [yas EXCEPT !.spec = spec, !.gen = @ + 1] \in Object
      <4>1. yas \in Object /\ yas.gen + 1 \in Nat
        BY ObjectType DEF TypeOK
      <4>2. QED
        BY <4>1 DEF Object
    <3>2. yas' \in Object /\ yasSynced' \in BOOLEAN /\ yasCache' = yasCache
      BY <2>2, <3>1 DEF EditSpec, WriteObject, TypeOK, yasVars
    <3>3. QED
      BY <2>1, <2>2, <3>2 DEF EditSpec, TypeOK
  <2>3. ASSUME NEW id \in Ids, ScaleWorkload(id) PROVE TypeOK'
    <3>1. WorkloadsTyped'
      BY <2>3, ScaleEffect, WrittenType DEF Written
    <3>2. QED
      BY <2>1, <2>3, <3>1 DEF ScaleWorkload, TypeOK, WorkloadsTyped
  <2>4. ASSUME NEW id \in Ids, RemoveWorkload(id) PROVE TypeOK'
    <3>1. WorkloadsTyped'
      BY <2>4, WrittenType DEF RemoveWorkload, Written, NoneAdded, Removes
    <3>2. QED
      BY <2>1, <2>4, <3>1 DEF RemoveWorkload, TypeOK, WorkloadsTyped
  <2>5. ASSUME NEW phase \in {"terminating", "gone"}, DeleteYurtAppSet(phase) PROVE TypeOK'
    <3>1. yas' \in Object /\ yasSynced' \in BOOLEAN /\ yasCache' = yasCache
      BY <2>5 DEF DeleteYurtAppSet, WriteObject, TypeOK, Object
    <3>2. QED
      BY <2>1, <2>5, <3>1 DEF DeleteYurtAppSet, TypeOK
  <2>6. QED
    BY <1>4, <2>2, <2>3, <2>4, <2>5 DEF User
<1>5. CASE Collector
  <2>1. ASSUME FinishDeletion PROVE TypeOK'
    <3>1. yas' \in Object /\ yasSynced' \in BOOLEAN /\ yasCache' = yasCache
      BY <2>1 DEF FinishDeletion, WriteObject, TypeOK, Object
    <3>2. QED
      BY <2>1, <3>1 DEF FinishDeletion, TypeOK
  <2>2. ASSUME NEW id \in Ids, CollectGarbage(id) PROVE TypeOK'
    <3>1. WorkloadsTyped'
      BY <2>2, WrittenType DEF CollectGarbage, Written, NoneAdded, Removes
    <3>2. QED
      BY <2>2, <3>1 DEF CollectGarbage, TypeOK, WorkloadsTyped
  <2>3. QED
    BY <1>5, <2>1, <2>2 DEF Collector
<1>6. QED
  BY <1>1, <1>2, <1>3, <1>4, <1>5

\* Every step keeps the types.
LEMMA TypeStep ==
    ASSUME TypeOK, Work, Identities, [Next]_vars
    PROVE  TypeOK'
<1>1. CASE Reconcile
  BY <1>1, StartReconcileType, CallType, PhaseType DEF Reconcile
<1>2. CASE Sync \/ Resync \/ Crash \/ User \/ Collector
  BY <1>2, EnvironmentType
<1>3. CASE UNCHANGED vars
  BY <1>3 DEF vars, yasVars, workloadVars, reconcileVars, boundVars, TypeOK
<1>4. QED
  BY <1>1, <1>2, <1>3 DEF Next

-----------------------------------------------------------------------------
(* The other parts of the invariant.                                        *)

\* A batch holds pools of the specification, and a pool is in it only once.
LEMMA WorkStep ==
    ASSUME TypeOK, Work, [Next]_vars
    PROVE  Work'
<1> USE DEF yasVars, workloadVars, workVars, reconcileVars, boundVars
<1>1. ASSUME NEW result, Return(result)
      PROVE  Work'
  BY <1>1 DEF Return, Work
<1>2. CASE SkipDeleted \/ RevisionsFail \/ ListFails \/ UpdateStatus \/ UpdateStatusFails \/ Crash
  BY <1>1, <1>2 DEF SkipDeleted, RevisionsFail, ListFails, UpdateStatus, UpdateStatusFails, Crash
<1>3. CASE ListPools
  BY <1>3 DEF ListPools, TakeKey, Work
<1>4. ASSUME NEW id \in Ids, DeleteDup(id) \/ DeleteCall(id)
      PROVE  Work'
  BY <1>1, <1>4 DEF DeleteDup, DeleteCall, Work
<1>5. CASE StartCreates
  BY <1>5 DEF StartCreates, Missing, Work
<1>6. CASE NextBatch
  BY <1>6 DEF NextBatch, Work
<1>7. ASSUME NEW p \in Pools, BatchCall(p)
      PROVE  Work'
  BY <1>7 DEF BatchCall, Work
<1>8. CASE StartDeletes \/ StartClean \/ ProvisionFailed \/ FinishUpdates
  BY <1>8 DEF StartDeletes, StartClean, ProvisionFailed, FinishUpdates, BatchesDone, Work
<1>9. CASE StartUpdates
  <2>1. /\ pc = "clean" /\ pc' = "update"
        /\ UNCHANGED <<inst, nameToPool, batch>>
        /\ todo' \subseteq DOMAIN inst.spec.pools \cap DOMAIN nameToPool
    BY <1>9 DEF StartUpdates
  <2>2. QED
    BY <2>1 DEF Work
<1>10. CASE Sync \/ Resync \/ User \/ Collector
  <2>1. CASE Sync \/ Resync
    BY <2>1 DEF Sync, SyncYurtAppSet, SyncWorkloads, Resync, Work
  <2>2. CASE User
    <3>1. UNCHANGED reconcileVars
      BY <2>2 DEF User, UserAction, EditSpec, ScaleWorkload, RemoveWorkload, DeleteYurtAppSet
    <3>2. QED
      BY <3>1 DEF Work
  <2>3. CASE Collector
    BY <2>3 DEF Collector, FinishDeletion, CollectGarbage, Work
  <2>4. QED
    BY <1>10, <2>1, <2>2, <2>3
<1>11. CASE UNCHANGED vars
  BY <1>11 DEF vars, Work
<1>12. QED
  BY <1>2, <1>3, <1>4, <1>5, <1>6, <1>7, <1>8, <1>9, <1>10, <1>11 DEF Next, Reconcile

\* No step but a status write, an edit, a read or an informer's event changes
\* a generation, and each of these keeps the order.
LEMMA GenerationsStep ==
    ASSUME TypeOK, Generations, [Next]_vars
    PROVE  /\ Generations'
           /\ yas'.status.observed >= yas.status.observed
           /\ yas'.status.observed <= yas'.gen
<1> USE DEF yasVars, workloadVars, workVars, reconcileVars, boundVars
<1> DEFINE Goal == /\ Generations'
                   /\ yas'.status.observed >= yas.status.observed
                   /\ yas'.status.observed <= yas'.gen
<1>1. /\ yas \in Object /\ yas.gen \in Nat /\ yas.status.observed \in Nat
      /\ yasCache.gen \in Nat /\ inst.gen \in Nat /\ yas.status \in Status
  BY ObjectType DEF TypeOK
<1>2. ASSUME UNCHANGED yasVars,
             pc' # "idle" => pc # "idle" /\ inst' = inst
      PROVE  Goal
  BY <1>1, <1>2 DEF Generations
<1>3. CASE \/ SkipDeleted \/ RevisionsFail \/ ListFails
           \/ StartCreates \/ NextBatch \/ StartDeletes \/ StartClean
           \/ ProvisionFailed \/ StartUpdates \/ FinishUpdates
  BY <1>2, <1>3 DEF SkipDeleted, RevisionsFail, ListFails, Return, StartCreates, NextBatch,
                    StartDeletes, StartClean, ProvisionFailed, StartUpdates, FinishUpdates
<1>4. ASSUME NEW id \in Ids, DeleteDup(id) \/ DeleteCall(id)
      PROVE  Goal
  BY <1>2, <1>4 DEF DeleteDup, DeleteCall, Return
<1>5. ASSUME NEW p \in Pools, BatchCall(p)
      PROVE  Goal
  BY <1>2, <1>5 DEF BatchCall
<1>6. CASE ListPools
  BY <1>1, <1>6 DEF ListPools, Generations
<1>7. CASE UpdateStatus
  <2>1. /\ yas' = [yas EXCEPT !.status = CalculatedStatus]
        /\ yasCache' = yasCache /\ pc' = "idle" /\ pc # "idle"
    BY <1>7 DEF UpdateStatus, WriteObject, Return
  <2>2. yas'.gen = yas.gen /\ yas'.status.observed = inst.gen
    BY <1>1, <2>1, CalculatedType DEF Object
  <2>3. QED
    BY <1>1, <2>1, <2>2 DEF Generations
<1>8. CASE UpdateStatusFails
  BY <1>2, <1>8 DEF UpdateStatusFails, Return
<1>9. CASE Crash
  BY <1>1, <1>9 DEF Crash, Return, Generations
<1>10. ASSUME UNCHANGED <<yasVars, pc, inst>>
       PROVE  Goal
  BY <1>1, <1>10 DEF Generations
<1>11. CASE Resync \/ \E kind \in Kinds : SyncWorkloads(kind)
  BY <1>10, <1>11 DEF Resync, SyncWorkloads
<1>12. CASE SyncYurtAppSet
  BY <1>1, <1>12 DEF SyncYurtAppSet, Generations
<1>13. ASSUME UNCHANGED <<yasCache, pc, inst>>, yas'.status = yas.status,
              yas'.gen \in {yas.gen, yas.gen + 1}
       PROVE  Goal
  BY <1>1, <1>13 DEF Generations
<1>14. ASSUME NEW spec \in Specs, EditSpec(spec)
       PROVE  Goal
  <2>1. /\ yas' = [yas EXCEPT !.spec = spec, !.gen = @ + 1]
        /\ UNCHANGED <<yasCache, pc, inst>>
    BY <1>14 DEF EditSpec, UserAction, WriteObject
  <2>2. yas'.status = yas.status /\ yas'.gen = yas.gen + 1
    BY <1>1, <2>1 DEF Object
  <2>3. QED
    BY <1>13, <2>1, <2>2
<1>15. ASSUME NEW phase \in {"terminating", "gone"},
              DeleteYurtAppSet(phase) \/ FinishDeletion
       PROVE  Goal
  <2>1. /\ \E ph : yas' = [yas EXCEPT !.phase = ph]
        /\ UNCHANGED <<yasCache, pc, inst>>
    BY <1>15 DEF DeleteYurtAppSet, FinishDeletion, UserAction, WriteObject
  <2>2. yas'.status = yas.status /\ yas'.gen = yas.gen
    BY <1>1, <2>1 DEF Object
  <2>3. QED
    BY <1>13, <2>1, <2>2
<1>16. ASSUME NEW id \in Ids, ScaleWorkload(id) \/ RemoveWorkload(id) \/ CollectGarbage(id)
       PROVE  Goal
  BY <1>10, <1>16 DEF ScaleWorkload, RemoveWorkload, CollectGarbage, UserAction
<1>17. CASE UNCHANGED vars
  BY <1>10, <1>17 DEF vars
<1>18. QED
  BY <1>3, <1>4, <1>5, <1>6, <1>7, <1>8, <1>9, <1>11, <1>12, <1>14, <1>15, <1>16, <1>17
     DEF Next, Reconcile, Sync, User, Collector

-----------------------------------------------------------------------------
(* Identities, and freshness.                                               *)

\* A step that is no read, no event of an informer and no creation adds no
\* workload, makes no pool missing, and keeps or drops what was found.
Quiet ==
    /\ NoneAdded
    /\ DOMAIN nameToPool' = {} \/ UNCHANGED <<inst, nameToPool>>
    /\ \A p \in Pools : StillMissing(p)' => StillMissing(p) /\ UNCHANGED inst
    /\ staleReads' >= staleReads

\* The creation of pool p, in a batch.
Creates(p) ==
    /\ Work
    /\ Adds(p)
    /\ pc = "create" /\ p \in batch /\ batch' = batch \ {p}
    /\ UNCHANGED <<pc, inst, nameToPool, todo, staleReads>>

LEMMA Effects ==
    ASSUME TypeOK, Work, Identities, [Next]_vars
    PROVE  \/ Quiet
           \/ \E p \in Pools : Creates(p)
           \/ ListPools \/ Crash \/ \E kind \in Kinds : SyncWorkloads(kind)
<1> USE DEF yasVars, workloadVars, workVars, reconcileVars, boundVars
<1>1. staleReads \in Nat
  BY ConstantAssumption DEF TypeOK
<1>2. ASSUME NEW result, Return(result), NoneAdded, staleReads' >= staleReads
      PROVE  Quiet
  BY <1>2, InitialTypes DEF Return, Quiet, StillMissing
<1>3. ASSUME UNCHANGED reconcileVars, NoneAdded, staleReads' = staleReads
      PROVE  Quiet
  BY <1>1, <1>3 DEF Quiet, StillMissing
<1>4. CASE SkipDeleted \/ ListFails
  <2>1. staleReads' >= staleReads
    BY <1>1, <1>4 DEF SkipDeleted, ListFails, TakeKey
  <2>2. QED
    BY <1>2, <1>4, <2>1 DEF SkipDeleted, ListFails, NoneAdded
<1>5. CASE RevisionsFail \/ UpdateStatus \/ UpdateStatusFails
  BY <1>1, <1>2, <1>5 DEF RevisionsFail, UpdateStatus, UpdateStatusFails, NoneAdded
<1>6. ASSUME NEW id \in Ids, DeleteDup(id)
      PROVE  Quiet
  <2>1. NoneAdded /\ staleReads' = staleReads
    BY <1>6, DeletePoolEffect DEF DeleteDup
  <2>2. CASE UNCHANGED <<pc, inst, nameToPool, todo, batch>>
    BY <1>1, <2>1, <2>2 DEF Quiet, StillMissing
  <2>3. QED
    BY <1>1, <1>2, <1>6, <2>1, <2>2 DEF DeleteDup
<1>7. ASSUME NEW id \in Ids, DeleteCall(id)
      PROVE  Quiet
  <2>1. NoneAdded /\ staleReads' = staleReads
    BY <1>7, DeletePoolEffect DEF DeleteCall
  <2>2. QED
    BY <1>1, <1>7, <2>1 DEF DeleteCall, Quiet, StillMissing
<1>8. ASSUME UNCHANGED <<workloadVars, inst, nameToPool, staleReads>>,
             \A p \in Pools : StillMissing(p)' => StillMissing(p)
      PROVE  Quiet
  BY <1>1, <1>8 DEF Quiet, NoneAdded
<1>9. CASE StartCreates
  BY <1>8, <1>9 DEF StartCreates, Missing, Work, StillMissing
<1>10. CASE NextBatch
  BY <1>8, <1>10 DEF NextBatch, StillMissing
<1>11. ASSUME NEW p \in Pools, BatchCall(p)
       PROVE  Quiet \/ Creates(p)
  <2>1. PICK err \in BOOLEAN :
           \/ pc = "create" /\ CreatePool(p, err)
           \/ pc = "update" /\ UpdatePool(p, err)
    BY <1>11 DEF BatchCall
  <2>2. /\ p \in batch /\ batch' = batch \ {p}
        /\ UNCHANGED <<pc, inst, nameToPool, todo, staleReads>>
    BY <1>11 DEF BatchCall
  <2>3. NoneAdded => Quiet
    BY <1>1, <2>2 DEF Quiet, StillMissing
  <2>4. CASE pc = "create" /\ CreatePool(p, err)
    <3>1. UNCHANGED workloadVars \/ Adds(p)
      BY <2>2, <2>4, CreatePoolEffect
    <3>2. QED
      BY <2>2, <2>3, <2>4, <3>1 DEF NoneAdded, Creates
  <2>5. CASE pc = "update" /\ UpdatePool(p, err)
    BY <2>2, <2>3, <2>5, UpdatePoolEffect
  <2>6. QED
    BY <2>1, <2>4, <2>5
<1>12. CASE StartDeletes \/ StartClean \/ ProvisionFailed \/ StartUpdates \/ FinishUpdates
  <2>1. /\ UNCHANGED <<workloadVars, inst, nameToPool, staleReads>>
        /\ pc' \notin {"dups", "create"}
    BY <1>12 DEF StartDeletes, StartClean, ProvisionFailed, StartUpdates, FinishUpdates
  <2>2. QED
    BY <1>8, <2>1 DEF StillMissing
<1>13. CASE SyncYurtAppSet \/ Resync
  BY <1>3, <1>13 DEF SyncYurtAppSet, Resync, NoneAdded
<1>14. ASSUME NEW id \in Ids, ScaleWorkload(id)
       PROVE  Quiet
  BY <1>3, <1>14, ScaleEffect DEF ScaleWorkload, UserAction
<1>15. ASSUME NEW id \in Ids, RemoveWorkload(id) \/ CollectGarbage(id)
       PROVE  Quiet
  BY <1>3, <1>15 DEF RemoveWorkload, UserAction, CollectGarbage, NoneAdded, Removes
<1>16. CASE \/ \E spec \in Specs : EditSpec(spec)
            \/ \E phase \in {"terminating", "gone"} : DeleteYurtAppSet(phase)
            \/ FinishDeletion
  BY <1>3, <1>16 DEF EditSpec, DeleteYurtAppSet, UserAction, FinishDeletion, NoneAdded
<1>17. CASE UNCHANGED vars
  BY <1>3, <1>17 DEF vars, NoneAdded
<1>18. QED
  BY <1>4, <1>5, <1>6, <1>7, <1>9, <1>10, <1>11, <1>12, <1>13, <1>14, <1>15, <1>16, <1>17
     DEF Next, Reconcile, Sync, User, Collector

LEMMA IdentitiesStep ==
    ASSUME TypeOK, Work, Identities, [Next]_vars
    PROVE  Identities'
<1>1. /\ workloads \in [Ids -> Workload \cup {Absent}]
      /\ cache \in [Ids -> Workload \cup {Absent}]
      /\ stale \in SUBSET Ids
      /\ \A p \in DOMAIN nameToPool : nameToPool[p].id \in Ids
  BY FoundType DEF TypeOK
<1>2. CASE Quiet
  <2>1. CASE UNCHANGED workloadVars
    BY <1>2, <2>1 DEF Quiet, Identities, workloadVars
  <2>2. ASSUME NEW id \in Ids, NEW value,
               WriteWorkload(id, value),
               value # Absent => workloads[id] # Absent /\ SameIdentity(value, workloads[id])
        PROVE  Identities'
    <3>1. /\ \A x \in Ids \ {id} : workloads'[x] = workloads[x]
          /\ workloads'[id] = value /\ cache' = cache
          /\ stale' = IF workloads[id] = value THEN stale ELSE stale \cup {id}
      BY <1>1, <2>2 DEF WriteWorkload
    <3>2. \A x \in Ids : SameIdentity(cache'[x], workloads'[x])
      BY <2>2, <3>1 DEF Identities, SameIdentity
    <3>3. \A x \in Ids \ stale' : cache'[x] = workloads'[x]
      BY <3>1 DEF Identities
    <3>4. CASE DOMAIN nameToPool' = {}
      BY <3>2, <3>3, <3>4 DEF Identities
    <3>5. CASE UNCHANGED <<inst, nameToPool>>
      <4>1. ASSUME NEW p \in DOMAIN nameToPool, workloads'[nameToPool[p].id] # Absent
            PROVE  /\ workloads'[nameToPool[p].id].kind = inst.spec.kind
                   /\ workloads'[nameToPool[p].id].pool = p
        BY <1>1, <2>2, <3>1, <4>1 DEF Identities, SameIdentity
      <4>2. QED
        BY <3>1, <3>2, <3>3, <3>5, <4>1 DEF Identities
    <3>6. QED
      BY <1>2, <3>4, <3>5 DEF Quiet
  <2>3. QED
    BY <1>2, <2>1, <2>2 DEF Quiet, NoneAdded, Removes, Rewrites
<1>3. ASSUME NEW q \in Pools, Creates(q)
      PROVE  Identities'
  <2>1. PICK value \in Workload : FreeIds # {} /\ WriteWorkload(NewId, value)
    BY <1>3 DEF Creates, Adds
  <2>2. /\ NewId \in Ids /\ workloads[NewId] = Absent /\ cache[NewId] = Absent
        /\ \A p \in DOMAIN nameToPool : nameToPool[p].id # NewId
    BY <2>1, NewIdFree DEF FreeIds
  <2> HIDE DEF NewId
  <2>3. /\ \A x \in Ids \ {NewId} : workloads'[x] = workloads[x]
        /\ cache' = cache
        /\ value # Absent /\ stale' = stale \cup {NewId}
        /\ inst' = inst /\ nameToPool' = nameToPool
    BY <1>1, <1>3, <2>1, <2>2, ConstantAssumption DEF WriteWorkload, Creates
  <2>4. QED
    BY <1>1, <2>2, <2>3 DEF Identities, SameIdentity
<1>4. CASE ListPools
  <2> DEFINE kind == yasCache.spec.kind
             found == PoolsOf(cache, kind)
  <2>1. PICK first \in [found -> Ids] :
           /\ \A p \in found : first[p] \in OfPool(cache, kind, p)
           /\ nameToPool' = [p \in found |-> [id |-> first[p], seen |-> cache[first[p]]]]
    BY <1>4 DEF ListPools
  <2>2. inst'.spec.kind = kind /\ UNCHANGED workloadVars
    BY <1>4 DEF ListPools
  <2>3. \A p \in DOMAIN nameToPool' :
           /\ nameToPool'[p].id \in Ids /\ cache[nameToPool'[p].id] # Absent
           /\ cache[nameToPool'[p].id].kind = kind
           /\ cache[nameToPool'[p].id].pool = p
    <3> HIDE DEF found
    <3> QED BY <2>1 DEF OfPool, OfKind, Present
  <2>4. QED
    BY <2>2, <2>3 DEF Identities, SameIdentity, workloadVars
<1>5. CASE Crash
  BY <1>1, <1>5, InitialTypes DEF Crash, Return, Identities, SameIdentity
<1>6. ASSUME NEW kind \in Kinds, SyncWorkloads(kind)
      PROVE  Identities'
  <2>1. PICK news \in SUBSET stale :
           /\ cache' = [id \in Ids |-> IF id \in news THEN workloads[id] ELSE cache[id]]
           /\ stale' = stale \ news
           /\ UNCHANGED <<workloads, inst, nameToPool>>
    <3> DEFINE others == {OfKind(objects, other) :
                             objects \in {workloads, cache}, other \in Kinds \ {kind}}
               news == stale \ UNION others
    <3>1. news \in SUBSET stale
      OBVIOUS
    <3>2. /\ cache' = [id \in Ids |-> IF id \in news THEN workloads[id] ELSE cache[id]]
          /\ stale' = stale \ news
          /\ UNCHANGED <<workloads, inst, nameToPool>>
      BY <1>6 DEF SyncWorkloads, reconcileVars
    <3> HIDE DEF news
    <3>3. QED
      BY <3>1, <3>2
  <2>2. \A x \in Ids : cache'[x] = IF x \in news THEN workloads[x] ELSE cache[x]
    BY <2>1
  <2>3. QED
    BY <1>1, <2>1, <2>2 DEF Identities, SameIdentity
<1>7. QED
  BY <1>2, <1>3, <1>4, <1>5, <1>6, Effects

LEMMA FreshStep ==
    ASSUME TypeOK, Work, Identities, Fresh, [Next]_vars
    PROVE  Fresh'
<1>1. /\ workloads \in [Ids -> Workload \cup {Absent}]
      /\ cache \in [Ids -> Workload \cup {Absent}]
      /\ staleReads \in Nat /\ inst \in Object
  BY ConstantAssumption DEF TypeOK
<1>2. \A id \in Ids : workloads[id] # Absent => workloads[id].pool \in Pools
  BY <1>1 DEF Workload
<1>3. CASE Quiet
  <2>1. SUFFICES ASSUME staleReads' = 0 PROVE Fresh'
    BY DEF Fresh
  <2>2. staleReads = 0
    BY <1>1, <1>3, <2>1 DEF Quiet
  <2>3. \A id \in Ids : workloads'[id] # Absent =>
           /\ workloads[id] # Absent
           /\ workloads'[id].kind = workloads[id].kind
           /\ workloads'[id].pool = workloads[id].pool
    BY <1>1, <1>3, ConstantAssumption
       DEF Quiet, NoneAdded, Removes, Rewrites, WriteWorkload, SameIdentity, workloadVars
  <2>4. \A p \in Pools : StillMissing(p)' => StillMissing(p) /\ inst' = inst
    BY <1>3 DEF Quiet
  <2>5. QED
    BY <1>2, <2>2, <2>3, <2>4 DEF Fresh
<1>4. ASSUME NEW q \in Pools, Creates(q)
      PROVE  Fresh'
  <2>1. PICK value \in Workload : /\ FreeIds # {} /\ WriteWorkload(NewId, value)
                                  /\ value.kind = inst.spec.kind /\ value.pool = q
    BY <1>4 DEF Creates, Adds
  <2>2. NewId \in Ids
    BY <2>1, NewIdFree
  <2> HIDE DEF NewId
  <2>3. /\ \A x \in Ids \ {NewId} : workloads'[x] = workloads[x]
        /\ workloads'[NewId] = value
        /\ inst' = inst /\ staleReads' = staleReads
    BY <1>1, <1>4, <2>1, <2>2 DEF WriteWorkload, Creates
  <2>4. /\ StillMissing(q)
        /\ ~ StillMissing(q)'
        /\ \A p \in Pools : StillMissing(p)' => StillMissing(p)
    BY <1>4 DEF Creates, StillMissing, Work
  <2>5. QED
    BY <1>2, <2>1, <2>2, <2>3, <2>4 DEF Fresh
<1>5. CASE ListPools
  <2>1. SUFFICES ASSUME staleReads' = 0 PROVE Fresh'
    BY DEF Fresh
  <2>2. staleReads = 0 /\ stale = {}
    BY <1>1, <1>5, <2>1 DEF ListPools, TakeKey, CachesSynced
  <2>3. /\ UNCHANGED workloads /\ pc' = "dups"
        /\ DOMAIN nameToPool' = PoolsOf(cache, inst'.spec.kind)
    BY <1>5 DEF ListPools, workloadVars
  <2>4. \A id \in Ids : cache[id] = workloads[id]
    BY <2>2 DEF Identities
  <2>5. ASSUME NEW id \in Ids, workloads[id] # Absent, workloads[id].kind = inst'.spec.kind
        PROVE  ~ StillMissing(workloads[id].pool)'
    BY <2>3, <2>4, <2>5 DEF PoolsOf, OfKind, Present, StillMissing
  <2>6. QED
    BY <2>2, <2>3, <2>5 DEF Fresh
<1>6. CASE Crash
  BY <1>6 DEF Crash, Return, Fresh, StillMissing
<1>7. ASSUME NEW kind \in Kinds, SyncWorkloads(kind)
      PROVE  Fresh'
  BY <1>7 DEF SyncWorkloads, Fresh, StillMissing, reconcileVars, boundVars
<1>8. QED
  BY <1>3, <1>4, <1>5, <1>6, <1>7, Effects

-----------------------------------------------------------------------------
(* Theorems.                                                                *)

\* In the initial state there is no workload, and no reconcile runs.
LEMMA InitInvariant == Init => IInv
<1> SUFFICES ASSUME Init PROVE IInv
  OBVIOUS
<1>1. /\ \A id \in Ids : workloads[id] = Absent /\ cache[id] = Absent
      /\ workloads \in [Ids -> Workload \cup {Absent}]
      /\ cache \in [Ids -> Workload \cup {Absent}]
  BY DEF Init
<1>2. TypeOK
  <2>1. /\ yas \in Object /\ yasCache \in Object /\ yasSynced \in BOOLEAN
        /\ queued \in BOOLEAN /\ WorkloadsTyped
    BY <1>1, InitialTypes DEF Init, WorkloadsTyped
  <2>2. ReconcileTyped
    BY InitialTypes DEF Init, ReconcileTyped, Phases, Outcomes
  <2>3. faults \in 0 .. MaxFaults /\ edits \in 0 .. MaxEdits /\ staleReads \in 0 .. MaxStaleReads
    BY ConstantAssumption DEF Init
  <2>4. QED
    BY <2>1, <2>2, <2>3 DEF TypeOK, WorkloadsTyped, ReconcileTyped
<1>3. Work /\ Identities
  BY <1>1, InitialTypes DEF Init, Work, Identities, SameIdentity
<1>4. Generations
  BY DEF Init, Generations, InitialObject, EmptyStatus
<1>5. Fresh
  BY <1>1 DEF Fresh
<1>6. QED
  BY <1>2, <1>3, <1>4, <1>5 DEF IInv

\* Every reachable state satisfies the inductive invariant.
THEOREM Invariance == Spec => []IInv
<1>1. IInv /\ [Next]_vars => IInv'
  BY TypeStep, WorkStep, GenerationsStep, IdentitiesStep, FreshStep DEF IInv
<1>2. QED
  BY InitInvariant, <1>1, PTL DEF Spec

\* All variables keep their types: in particular the controller only writes
\* workloads of pools of the specification it read.
THEOREM TypeCorrect == Spec => []TypeOK
<1>1. IInv => TypeOK
  BY DEF IInv
<1>2. QED
  BY Invariance, <1>1, PTL

\* The observed generation never goes back and never runs ahead of the
\* generation, however often an old status is written over a newer object.
THEOREM ObservedOnlyGrows == Spec => ObservedGenerationMonotonic
<1>1. IInv /\ [Next]_vars => [/\ yas'.status.observed >= yas.status.observed
                              /\ yas'.status.observed <= yas'.gen]_vars
  BY GenerationsStep DEF IInv
<1>2. QED
  BY Invariance, <1>1, PTL DEF Spec, ObservedGenerationMonotonic

\* As long as no reconcile started from stale caches, no pool ever has two
\* workloads: what was missing when the pools were listed is still missing
\* when its create is sent, whatever crashes, faults and users did since.
THEOREM NeverTwice == Spec => []NoDuplicates
<1>1. ASSUME IInv PROVE NoDuplicates
  <2>1. SUFFICES ASSUME staleReads = 0, NEW kind \in Kinds, NEW p \in Pools
                 PROVE  Cardinality(OfPool(workloads, kind, p)) <= 1
    BY DEF NoDuplicates
  <2> DEFINE owned == OfPool(workloads, kind, p)
  <2>2. \A id1, id2 \in owned : id1 = id2
    BY <1>1, <2>1 DEF IInv, Fresh, OfPool, OfKind, Present
  <2> HIDE DEF owned
  <2>3. CASE owned = {}
    BY <2>3, FS_EmptySet DEF owned
  <2>4. ASSUME NEW id \in owned
        PROVE  Cardinality(owned) <= 1
    <3>1. owned = {id}
      BY <2>2, <2>4
    <3>2. QED
      BY <3>1, FS_Singleton
  <2>5. QED
    BY <2>3, <2>4 DEF owned
<1>2. QED
  BY Invariance, <1>1, PTL

=============================================================================
