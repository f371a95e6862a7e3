------------------------- MODULE YurtAppDaemonProofs -------------------------
(***************************************************************************)
(* As long as the YurtAppDaemon controller lists the Deployments from a    *)
(* cache that has seen every write, no pool ever has two; and at rest the  *)
(* pools that are to have one have it.  For every set of pools, names,     *)
(* templates and taints, and any number of faults and user actions.        *)
(***************************************************************************)
EXTENDS YurtAppDaemon, FiniteSetTheorems, TLAPS

\* TypeOK by its parts.
ObjectTyped == yad \in Object /\ yadCache \in Object /\ yadSynced \in BOOLEAN

PoolsTyped ==
    /\ pools \in [Pools -> NodePool \cup {Absent}]
    /\ poolCache \in [Pools -> NodePool \cup {Absent}]
    /\ lagging \subseteq Pools

WorkloadsTyped ==
    /\ workloads \in [Ids -> Workload \cup {Absent}]
    /\ cache \in [Ids -> Workload \cup {Absent}]
    /\ stale \subseteq Ids

ListsTyped ==
    /\ DOMAIN found \subseteq Pools /\ found \in [DOMAIN found -> [id : Ids, seen : Workload]]
    /\ DOMAIN matching \subseteq Pools /\ matching \in [DOMAIN matching -> NodePool]

ReconcileTyped ==
    /\ queued \in BOOLEAN
    /\ pc \in {"idle", "list", "create", "delete", "update"}
    /\ inst \in Object
    /\ ListsTyped
    /\ todo \subseteq Pools /\ doomed \subseteq Ids
    /\ failed \in BOOLEAN /\ acted \in BOOLEAN

Counted ==
    /\ events \in 0 .. MaxEvents
    /\ staleReads \in 0 .. MaxStaleReads
    /\ misled \in BOOLEAN

\* What the informer has seen is what the server has.
Seen == \A id \in Ids \ stale : cache[id] = workloads[id]

\* A phase calls for pools that were listed the way it takes them to be.
Planned ==
    /\ pc = "idle" => found = Nothing /\ todo = {}
    /\ pc = "create" => todo \subseteq DOMAIN matching \ DOMAIN found
    /\ pc = "update" => todo \subseteq DOMAIN matching \cap DOMAIN found

\* What was read in a list still bounds what there is: a pool in the list has
\* no other workload, one that is not has none until its call is made.
Single ==
    /\ \A p \in Pools : \A a, b \in OfPool(workloads, p) : a = b
    /\ \A p \in DOMAIN found : OfPool(workloads, p) \subseteq {found[p].id}
    /\ pc = "list" => \A p \in Pools \ DOMAIN found : OfPool(workloads, p) = {}
    /\ pc = "create" => \A p \in todo : OfPool(workloads, p) = {}

IInv ==
    /\ ObjectTyped /\ PoolsTyped /\ WorkloadsTyped /\ ReconcileTyped /\ Counted
    /\ Seen /\ Planned
    /\ staleReads = 0 => Single

LEMMA Typed == IInv => TypeOK
<1> SUFFICES ASSUME IInv
             PROVE  TypeOK
  OBVIOUS
<1>1. /\ \E ps \in SUBSET Pools : found \in [ps -> [id : Ids, seen : Workload]]
      /\ \E ps \in SUBSET Pools : matching \in [ps -> NodePool]
  BY DEF IInv, ReconcileTyped, ListsTyped
<1>2. QED
  BY <1>1 DEF IInv, TypeOK, ObjectTyped, PoolsTyped, WorkloadsTyped, ReconcileTyped, Counted

-----------------------------------------------------------------------------
(* What a step leaves alone.                                                *)

LEMMA ObjectUntouched == IInv /\ UNCHANGED yadVars => ObjectTyped'
BY DEF IInv, yadVars, ObjectTyped

LEMMA PoolsUntouched == IInv /\ UNCHANGED poolVars => PoolsTyped'
BY DEF IInv, poolVars, PoolsTyped

LEMMA WorkloadsUntouched == IInv /\ UNCHANGED workloadVars => WorkloadsTyped' /\ Seen'
BY DEF IInv, workloadVars, WorkloadsTyped, Seen

LEMMA ReconcileUntouched == IInv /\ UNCHANGED reconcileVars /\ queued' \in BOOLEAN => ReconcileTyped' /\ Planned'
BY DEF IInv, reconcileVars, ReconcileTyped, ListsTyped, Planned

\* The lists still bound what there is if nothing was created and no name
\* came to another pool.
LEMMA SingleKept ==
    ASSUME IInv, UNCHANGED <<reconcileVars, staleReads>>,
           \A p \in Pools : OfPool(workloads', p) \subseteq OfPool(workloads, p)
    PROVE  staleReads' = 0 => Single'
<1>1. DOMAIN found \subseteq Pools /\ todo \subseteq Pools
  BY DEF IInv, ReconcileTyped, ListsTyped
<1>2. QED
  BY <1>1 DEF IInv, Single, reconcileVars

\* The lists are dropped.
LEMMA SingleDropped ==
    ASSUME IInv, pc' = "idle", found' = Nothing, UNCHANGED <<workloads, staleReads>>
    PROVE  staleReads' = 0 => Single'
BY DEF IInv, Single, Nothing

LEMMA InitialTyped == InitialObject \in Object
<1>1. << >> \in Orders({})
  <2>1. Cardinality({}) = 0
    BY FS_EmptySet
  <2>2. << >> \in [1 .. 0 -> {}]
    OBVIOUS
  <2>3. QED
    BY <2>1, <2>2 DEF Orders
<1>2. << >> \in UNION {Orders(ps) : ps \in SUBSET Pools}
  BY <1>1
<1>3. EmptyStatus \in Status
  BY <1>2 DEF EmptyStatus, Status
<1>4. QED
  BY <1>3, ConstantAssumption DEF InitialObject, Object

\* Return resets all that a reconcile holds.
LEMMA ReturnTyped ==
    ASSUME IInv, NEW err, Return(err)
    PROVE  ReconcileTyped' /\ Planned' /\ pc' = "idle" /\ found' = Nothing
<1>1. queued' \in BOOLEAN
  BY DEF IInv, ReconcileTyped, Return
<1>2. QED
  BY <1>1, InitialTyped DEF Return, ReconcileTyped, ListsTyped, Planned, Nothing

LEMMA FaultCounted ==
    ASSUME IInv, NEW kind, Fault(kind)
    PROVE  events' \in 0 .. MaxEvents
BY ConstantAssumption DEF IInv, Counted, Fault

LEMMA EventsCounted ==
    ASSUME IInv, UNCHANGED staleReads,
           \/ NoFault
           \/ \E kind \in {"error", "lost", "timeout", "list", "crash"} : Reported(kind) \/ Unreported(kind)
    PROVE  Counted'
<1>1. events' \in 0 .. MaxEvents
  BY FaultCounted DEF IInv, Counted, NoFault, Reported, Unreported
<1>2. misled' \in BOOLEAN
  BY DEF IInv, Counted, NoFault, Reported, Unreported
<1>3. QED
  BY <1>1, <1>2 DEF IInv, Counted

-----------------------------------------------------------------------------
(* Writes of workloads.                                                     *)

LEMMA WriteWorkloadTyped ==
    ASSUME IInv, NEW id \in Ids, NEW value \in Workload \cup {Absent}, WriteWorkload(id, value)
    PROVE  /\ WorkloadsTyped' /\ Seen'
           /\ \A i \in Ids : workloads'[i] = IF i = id THEN value ELSE workloads[i]
<1>1. WorkloadsTyped /\ Seen
  BY DEF IInv
<1>2. /\ workloads' = [workloads EXCEPT ![id] = value]
      /\ cache' = cache
      /\ stale' \subseteq Ids /\ stale \subseteq stale'
      /\ workloads[id] # value => id \in stale'
  BY <1>1 DEF WriteWorkload, WorkloadsTyped
<1>3. WorkloadsTyped'
  BY <1>1, <1>2 DEF WorkloadsTyped
<1>4. \A i \in Ids : workloads'[i] = IF i = id THEN value ELSE workloads[i]
  BY <1>1, <1>2 DEF WorkloadsTyped
<1>5. Seen'
  BY <1>1, <1>2, <1>4 DEF Seen
<1>6. QED
  BY <1>3, <1>4, <1>5

\* A write that gives no pool a workload it had not.
LEMMA WriteGivesNothing ==
    ASSUME IInv, NEW id \in Ids, NEW value \in Workload \cup {Absent}, WriteWorkload(id, value),
           value # Absent => workloads[id] # Absent /\ value.pool \in {None, workloads[id].pool}
    PROVE  \A p \in Pools : OfPool(workloads', p) \subseteq OfPool(workloads, p)
BY WriteWorkloadTyped, ConstantAssumption DEF OfPool, Present

\* What is written for pool p is of pool p.
LEMMA ApplyTemplateTyped ==
    ASSUME IInv, NEW p \in DOMAIN matching
    PROVE  /\ ApplyTemplate(inst.spec, p, matching[p]) \in Workload
           /\ ApplyTemplate(inst.spec, p, matching[p]).pool = p
<1>1. p \in Pools /\ matching[p] \in NodePool /\ inst.spec \in DaemonSpec
  BY ConstantAssumption DEF IInv, ReconcileTyped, ListsTyped, Object
<1>2. Tolerated[inst.spec.template] \subseteq Taints /\ matching[p].taints \subseteq Taints
  BY <1>1, ConstantAssumption DEF DaemonSpec, NodePool
<1>3. QED
  BY <1>1, <1>2 DEF ApplyTemplate, Workload, DaemonSpec

-----------------------------------------------------------------------------
(* Reconcile.                                                               *)

LEMMA SkipDeletedStep ==
    ASSUME IInv, SkipDeleted
    PROVE  IInv'
<1>1. ReconcileTyped' /\ Planned'
  BY ReconcileUntouched DEF SkipDeleted, TakeKey
<1>2. staleReads' = 0 => Single'
  BY SingleKept DEF SkipDeleted, boundVars, workloadVars
<1>3. Counted'
  BY DEF IInv, Counted, SkipDeleted, boundVars
<1>4. QED
  BY <1>1, <1>2, <1>3, ObjectUntouched, PoolsUntouched, WorkloadsUntouched DEF SkipDeleted, IInv

LEMMA ReadFailsStep ==
    ASSUME IInv, ReadFails
    PROVE  IInv'
<1>1. ReconcileTyped' /\ Planned'
  BY ReconcileUntouched DEF ReadFails, IInv, ReconcileTyped
<1>2. staleReads' = 0 => Single'
  BY SingleKept DEF ReadFails, workloadVars
<1>3. Counted'
  BY EventsCounted DEF ReadFails
<1>4. QED
  BY <1>1, <1>2, <1>3, ObjectUntouched, PoolsUntouched, WorkloadsUntouched DEF ReadFails, IInv

LEMMA NoControlStep ==
    ASSUME IInv, NoControl
    PROVE  IInv'
<1>1. /\ pc = "idle" /\ pc' = "update" /\ queued' = FALSE /\ inst' = yadCache /\ failed' = TRUE
      /\ UNCHANGED <<found, matching, todo, doomed, acted, boundVars>>
      /\ UNCHANGED <<yadVars, poolVars, workloadVars>>
  BY DEF NoControl, TakeKey
<1>2. ReconcileTyped' /\ Planned'
  BY <1>1 DEF IInv, ObjectTyped, ReconcileTyped, ListsTyped, Planned
<1>3. staleReads' = 0 => Single'
  BY <1>1 DEF IInv, Single, boundVars, workloadVars, OfPool, Present
<1>4. Counted'
  BY <1>1 DEF IInv, Counted, boundVars
<1>5. QED
  BY <1>1, <1>2, <1>3, <1>4, ObjectUntouched, PoolsUntouched, WorkloadsUntouched DEF IInv

\* What a list of the cache holds is what there is, if the cache is not stale.
LEMMA ListWorkloadsStep ==
    ASSUME IInv, ListWorkloads
    PROVE  IInv'
<1>1. PICK kept \in [PoolsOf(cache) -> Ids] :
         /\ \A p \in DOMAIN kept : kept[p] \in OfPool(cache, p)
         /\ found' = [p \in DOMAIN kept |-> [id |-> kept[p], seen |-> cache[kept[p]]]]
  BY DEF ListWorkloads
<1>2. /\ pc = "idle" /\ pc' = "list" /\ inst' = yadCache /\ queued' = FALSE
      /\ misled' = (misled /\ stale # {})
      /\ UNCHANGED <<matching, todo, doomed, failed, acted, events>>
      /\ UNCHANGED <<yadVars, poolVars, workloadVars>>
      /\ \/ stale = {} /\ staleReads' = staleReads
         \/ staleReads < MaxStaleReads /\ staleReads' = staleReads + 1
  BY DEF ListWorkloads, TakeKey
<1>3. WorkloadsTyped /\ Counted /\ ReconcileTyped /\ Seen
  BY DEF IInv
<1>4. PoolsOf(cache) \subseteq Pools
  BY <1>3 DEF WorkloadsTyped, PoolsOf, Present, Workload
<1>5. /\ DOMAIN found' = PoolsOf(cache)
      /\ \A p \in PoolsOf(cache) : /\ found'[p].id = kept[p]
                                   /\ kept[p] \in OfPool(cache, p)
                                   /\ found'[p] \in [id : Ids, seen : Workload]
  BY <1>1, <1>3 DEF WorkloadsTyped, OfPool, Present
<1>6. ListsTyped'
  <2>1. found' \in [DOMAIN found' -> [id : Ids, seen : Workload]]
    BY <1>1, <1>5
  <2>2. QED
    BY <1>2, <1>3, <1>4, <1>5, <2>1 DEF ReconcileTyped, ListsTyped
<1>7. ReconcileTyped' /\ Planned'
  BY <1>2, <1>3, <1>6 DEF IInv, ObjectTyped, ReconcileTyped, Planned
<1>8. Counted'
  <2>1. staleReads' \in 0 .. MaxStaleReads
    BY <1>2, <1>3, ConstantAssumption DEF Counted
  <2>2. QED
    BY <1>2, <1>3, <2>1 DEF Counted
<1>9. staleReads' = 0 => Single'
  <2> SUFFICES ASSUME staleReads' = 0
               PROVE  Single'
    OBVIOUS
  <2>1. stale = {} /\ staleReads = 0
    BY <1>2, <1>3 DEF Counted
  <2>2. cache = workloads /\ workloads' = workloads
    BY <1>2, <1>3, <2>1 DEF Seen, WorkloadsTyped, workloadVars
  <2>3. \A p \in Pools : \A a, b \in OfPool(workloads, p) : a = b
    BY <2>1 DEF IInv, Single
  <2>4. \A p \in Pools \ PoolsOf(cache) : OfPool(cache, p) = {}
    BY ConstantAssumption DEF PoolsOf, OfPool
  <2>5. \A p \in PoolsOf(cache) : OfPool(workloads, p) \subseteq {kept[p]}
    BY <1>4, <1>5, <2>2, <2>3
  <2>6. QED
    BY <1>2, <1>5, <2>2, <2>3, <2>4, <2>5 DEF Single
<1>10. QED
  BY <1>2, <1>7, <1>8, <1>9, ObjectUntouched, PoolsUntouched, WorkloadsUntouched DEF IInv

LEMMA ListPoolsStep ==
    ASSUME IInv, ListPools
    PROVE  IInv'
<1>1. /\ pc = "list" /\ pc' = "create"
      /\ todo' = DOMAIN matching' \ DOMAIN found /\ acted' = (todo' # {})
      /\ UNCHANGED <<queued, inst, found, doomed, failed, staleReads>>
      /\ UNCHANGED <<yadVars, poolVars, workloadVars>>
  BY DEF ListPools, Missing
<1>2. PoolsTyped /\ ReconcileTyped
  BY DEF IInv
<1>3. DOMAIN matching' \subseteq Pools /\ matching' \in [DOMAIN matching' -> NodePool]
  <2>1. CASE matching' = [p \in Selected(poolCache, inst.spec) |-> poolCache[p]]
    <3>1. \A p \in Selected(poolCache, inst.spec) : p \in Pools /\ poolCache[p] \in NodePool
      BY <1>2 DEF PoolsTyped, Selected
    <3>2. QED
      BY <2>1, <3>1
  <2>2. CASE matching' = Nothing
    BY <2>2 DEF Nothing
  <2>3. QED
    BY <2>1, <2>2 DEF ListPools
<1>4. ReconcileTyped'
  BY <1>1, <1>2, <1>3 DEF ReconcileTyped, ListsTyped
<1>5. Planned'
  BY <1>1 DEF Planned
<1>6. Counted'
  BY EventsCounted DEF ListPools
<1>7. staleReads' = 0 => Single'
  BY <1>1, <1>4 DEF IInv, Single, ReconcileTyped, workloadVars, OfPool, Present
<1>8. QED
  BY <1>1, <1>4, <1>5, <1>6, <1>7, ObjectUntouched, PoolsUntouched, WorkloadsUntouched DEF IInv

\* A create for a pool without workload, by a name nobody has.
LEMMA CreateCall ==
    ASSUME IInv, NEW p \in todo, pc = "create", NEW err, CreateWorkload(p, err),
           todo' = todo \ {p}, UNCHANGED <<pc, found, matching, staleReads>>
    PROVE  /\ WorkloadsTyped' /\ Seen'
           /\ staleReads' = 0 => Single'
           /\ NoFault \/ Unreported("timeout") \/ Reported("lost") \/ Reported("error")
<1>1. p \in DOMAIN matching /\ p \notin DOMAIN found /\ p \in Pools
  BY DEF IInv, Planned, ReconcileTyped
<1> DEFINE value == ApplyTemplate(inst.spec, p, matching[p])
<1>2. value \in Workload /\ value.pool = p
  BY <1>1, ApplyTemplateTyped
<1>3. NoFault \/ Unreported("timeout") \/ Reported("lost") \/ Reported("error")
  BY DEF CreateWorkload
<1>4. CASE UNCHANGED workloadVars
  <2>1. staleReads' = 0 => Single'
    BY <1>4 DEF IInv, Single, workloadVars, OfPool, Present
  <2>2. QED
    BY <1>3, <1>4, <2>1, WorkloadsUntouched
<1>5. CASE FreeIds # {} /\ WriteWorkload(NewId, value)
  <2>1. NewId \in Ids /\ workloads[NewId] = Absent
    BY <1>5 DEF NewId, FreeIds
  <2>2. /\ WorkloadsTyped' /\ Seen'
        /\ \A i \in Ids : workloads'[i] = IF i = NewId THEN value ELSE workloads[i]
    BY <1>2, <1>5, <2>1, WriteWorkloadTyped
  <2>3. \A q \in Pools : OfPool(workloads', q) =
                            IF q = p THEN OfPool(workloads, q) \cup {NewId} ELSE OfPool(workloads, q)
    <3> HIDE DEF value
    <3>1. value # Absent
      BY <1>2, ConstantAssumption
    <3>2. QED
      BY <1>1, <1>2, <2>1, <2>2, <3>1 DEF OfPool, Present
  <2>4. staleReads = 0 => OfPool(workloads, p) = {}
    BY DEF IInv, Single
  <2>5. staleReads' = 0 => Single'
    BY <1>1, <2>3, <2>4 DEF IInv, Single, ReconcileTyped, ListsTyped
  <2>6. QED
    BY <1>3, <2>2, <2>5
<1>6. QED
  BY <1>4, <1>5 DEF CreateWorkload

\* An update writes the workload that was listed for its pool.
LEMMA UpdateCall ==
    ASSUME IInv, NEW p \in todo, pc = "update", NEW err, UpdateWorkload(p, err),
           todo' = todo \ {p}, UNCHANGED <<pc, found, matching, staleReads>>
    PROVE  /\ WorkloadsTyped' /\ Seen'
           /\ staleReads' = 0 => Single'
           /\ NoFault \/ Reported("lost") \/ Reported("error")
<1>1. p \in DOMAIN matching /\ p \in DOMAIN found /\ p \in Pools /\ found[p].id \in Ids
  BY DEF IInv, Planned, ReconcileTyped, ListsTyped
<1> DEFINE value == ApplyTemplate(inst.spec, p, matching[p])
<1>2. value \in Workload /\ value.pool = p
  BY <1>1, ApplyTemplateTyped
<1>3. NoFault \/ Reported("lost") \/ Reported("error")
  BY DEF UpdateWorkload
<1>4. CASE UNCHANGED workloadVars
  <2>1. staleReads' = 0 => Single'
    BY <1>4 DEF IInv, Single, workloadVars, OfPool, Present
  <2>2. QED
    BY <1>3, <1>4, <2>1, WorkloadsUntouched
<1>5. CASE WriteWorkload(found[p].id, value)
  <2>1. /\ WorkloadsTyped' /\ Seen'
        /\ \A i \in Ids : workloads'[i] = IF i = found[p].id THEN value ELSE workloads[i]
    BY <1>1, <1>2, <1>5, WriteWorkloadTyped
  <2>2. \A q \in Pools : OfPool(workloads', q) \subseteq
                            IF q = p THEN OfPool(workloads, q) \cup {found[p].id}
                            ELSE OfPool(workloads, q)
    <3> HIDE DEF value
    <3>1. QED
      BY <1>1, <1>2, <2>1 DEF OfPool, Present
  <2>3. staleReads = 0 => OfPool(workloads, p) \subseteq {found[p].id}
    BY <1>1 DEF IInv, Single
  <2>4. staleReads' = 0 => Single'
    BY <1>1, <2>2, <2>3 DEF IInv, Single, ReconcileTyped, ListsTyped
  <2>5. QED
    BY <1>3, <2>1, <2>4
<1>6. QED
  BY <1>4, <1>5 DEF UpdateWorkload

LEMMA BulkCallStep ==
    ASSUME IInv, NEW p \in Pools, BulkCall(p)
    PROVE  IInv'
<1>1. PICK err \in BOOLEAN :
         /\ \/ pc = "create" /\ CreateWorkload(p, err)
            \/ pc = "update" /\ UpdateWorkload(p, err)
         /\ failed' = (failed \/ err)
  BY DEF BulkCall
<1>2. /\ p \in todo /\ todo' = todo \ {p}
      /\ UNCHANGED <<yadVars, poolVars, queued, pc, inst, found, matching, doomed, acted, staleReads>>
  BY DEF BulkCall
<1>3. /\ WorkloadsTyped' /\ Seen' /\ (staleReads' = 0 => Single')
      /\ NoFault \/ Unreported("timeout") \/ Reported("lost") \/ Reported("error")
  BY <1>1, <1>2, CreateCall, UpdateCall
<1>4. Counted'
  BY <1>2, <1>3, EventsCounted
<1>5. failed' \in BOOLEAN
  BY <1>1 DEF IInv, ReconcileTyped
<1>6. ReconcileTyped' /\ Planned'
  BY <1>2, <1>5 DEF IInv, ReconcileTyped, ListsTyped, Planned
<1>7. QED
  BY <1>2, <1>3, <1>4, <1>6, ObjectUntouched, PoolsUntouched DEF IInv

\* The plans of the next phases; what there is stays.
LEMMA PhaseStep ==
    ASSUME IInv, StartDeletes \/ StartUpdates
    PROVE  IInv'
<1>1. /\ UNCHANGED <<queued, inst, found, matching, failed, boundVars>>
      /\ UNCHANGED <<yadVars, poolVars, workloadVars>>
  BY DEF StartDeletes, StartUpdates
<1>2. ReconcileTyped
  BY DEF IInv
<1>3. ASSUME StartDeletes
      PROVE  ReconcileTyped' /\ Planned' /\ pc' \in {"delete", "update"}
  <2>1. doomed' \subseteq Ids /\ todo' = {} /\ pc' = "delete" /\ acted' \in BOOLEAN
    BY <1>2, <1>3 DEF StartDeletes, Unexpected, ReconcileTyped, ListsTyped
  <2>2. ReconcileTyped' /\ Planned'
    BY <1>1, <1>2, <2>1 DEF ReconcileTyped, ListsTyped, Planned
  <2>3. QED
    BY <2>1, <2>2
<1>4. ASSUME StartUpdates
      PROVE  ReconcileTyped' /\ Planned' /\ pc' \in {"delete", "update"}
  <2>1. /\ doomed' = doomed /\ acted' = acted /\ pc' = "update"
        /\ todo' \subseteq DOMAIN found \cap DOMAIN matching
    BY <1>4 DEF StartUpdates
  <2>2. ReconcileTyped' /\ Planned'
    BY <1>1, <1>2, <2>1 DEF ReconcileTyped, ListsTyped, Planned
  <2>3. QED
    BY <2>1, <2>2
<1>5. ReconcileTyped' /\ Planned' /\ pc' \in {"delete", "update"}
  BY <1>3, <1>4
<1>6. staleReads' = 0 => Single'
  BY <1>1, <1>5 DEF IInv, Single, boundVars, workloadVars, OfPool, Present
<1>7. Counted'
  BY <1>1 DEF IInv, Counted, boundVars
<1>8. QED
  BY <1>1, <1>5, <1>6, <1>7, ObjectUntouched, PoolsUntouched, WorkloadsUntouched DEF IInv

LEMMA DeleteCallStep ==
    ASSUME IInv, NEW id \in Ids, DeleteCall(id)
    PROVE  IInv'
<1>1. PICK err \in BOOLEAN : DeleteWorkload(id, err) /\ failed' = (failed \/ err)
  BY DEF DeleteCall
<1>2. /\ pc = "delete" /\ doomed' = doomed \ {id}
      /\ UNCHANGED <<yadVars, poolVars, queued, pc, inst, found, matching, todo, acted, staleReads>>
  BY DEF DeleteCall
<1>3. Counted'
  BY <1>1, <1>2, EventsCounted DEF DeleteWorkload
<1>4. /\ WorkloadsTyped' /\ Seen'
      /\ \A p \in Pools : OfPool(workloads', p) \subseteq OfPool(workloads, p)
  <2>1. CASE UNCHANGED workloadVars
    BY <2>1, WorkloadsUntouched DEF workloadVars
  <2>2. CASE WriteWorkload(id, Absent)
    BY <2>2, WriteWorkloadTyped, WriteGivesNothing
  <2>3. QED
    BY <1>1, <2>1, <2>2 DEF DeleteWorkload
<1>5. failed' \in BOOLEAN
  BY <1>1 DEF IInv, ReconcileTyped
<1>6. ReconcileTyped' /\ Planned'
  BY <1>2, <1>5 DEF IInv, ReconcileTyped, ListsTyped, Planned
<1>7. staleReads' = 0 => Single'
  BY <1>2, <1>4 DEF IInv, Single, ReconcileTyped, ListsTyped
<1>8. QED
  BY <1>2, <1>3, <1>4, <1>6, <1>7, ObjectUntouched, PoolsUntouched DEF IInv

LEMMA ReturnErrorStep ==
    ASSUME IInv, ReturnError
    PROVE  IInv'
<1>1. ReconcileTyped' /\ Planned' /\ pc' = "idle" /\ found' = Nothing
  BY ReturnTyped DEF ReturnError
<1>2. UNCHANGED <<yadVars, poolVars, workloadVars, boundVars>>
  BY DEF ReturnError
<1>3. Counted' /\ UNCHANGED <<workloads, staleReads>>
  BY <1>2 DEF IInv, Counted, boundVars, workloadVars
<1>4. QED
  BY <1>1, <1>2, <1>3, SingleDropped, ObjectUntouched, PoolsUntouched, WorkloadsUntouched DEF IInv

LEMMA WriteObjectTyped ==
    ASSUME IInv, NEW value \in Object, WriteObject(value)
    PROVE  ObjectTyped'
<1>1. yadSynced' \in BOOLEAN
  BY DEF WriteObject
<1>2. QED
  BY <1>1 DEF IInv, ObjectTyped, WriteObject

LEMMA UpdateStatusStep ==
    ASSUME IInv, UpdateStatus
    PROVE  IInv'
<1>1. PICK order \in Orders(DOMAIN matching) :
          \/ /\ NewStatus(order) = inst.status
             /\ Return(FALSE) /\ NoFault /\ UNCHANGED yadVars
          \/ /\ WriteObject([yad EXCEPT !.status = NewStatus(order)])
             /\ \/ Return(FALSE) /\ NoFault
                \/ Return(TRUE) /\ Reported("lost")
          \/ /\ NoFault \/ Reported("error")
             /\ Return(TRUE)
             /\ UNCHANGED yadVars
  BY DEF UpdateStatus
<1>2. UNCHANGED <<poolVars, workloadVars, staleReads>>
  BY DEF UpdateStatus
<1>3. ReconcileTyped' /\ Planned' /\ pc' = "idle" /\ found' = Nothing
  BY <1>1, ReturnTyped
<1>4. Counted'
  BY <1>1, <1>2, EventsCounted
<1>5. NewStatus(order) \in Status
  <2>1. inst \in Object /\ acted \in BOOLEAN /\ DOMAIN matching \subseteq Pools
    BY DEF IInv, ReconcileTyped, ListsTyped
  <2>2. inst.gen \in Nat /\ inst.status.provisioned \in BOOLEAN
    BY <2>1 DEF Object, Status
  <2>3. order \in UNION {Orders(ps) : ps \in SUBSET Pools}
    BY <1>1, <2>1
  <2>4. (inst.status.provisioned \/ acted) \in BOOLEAN
    BY <2>1, <2>2
  <2>5. QED
    BY <2>2, <2>3, <2>4 DEF NewStatus, Status
<1>6. [yad EXCEPT !.status = NewStatus(order)] \in Object
  BY <1>5 DEF IInv, ObjectTyped, Object
<1>7. ObjectTyped'
  BY <1>1, <1>6, ObjectUntouched, WriteObjectTyped
<1>8. UNCHANGED <<workloads, staleReads>>
  BY <1>2 DEF workloadVars
<1>9. QED
  BY <1>2, <1>3, <1>4, <1>7, <1>8, SingleDropped, PoolsUntouched, WorkloadsUntouched DEF IInv

-----------------------------------------------------------------------------
(* The informers, the manager's death, and the garbage collector.           *)

LEMMA SyncStep ==
    ASSUME IInv, Sync
    PROVE  IInv'
<1>1. UNCHANGED <<reconcileVars, staleReads, workloads>>
  BY DEF Sync, SyncYurtAppDaemon, SyncWorkloads, SyncPool, workloadVars, boundVars
<1>2. queued' \in BOOLEAN
  BY DEF IInv, ReconcileTyped, Sync, SyncYurtAppDaemon, SyncWorkloads, SyncPool
<1>3. ReconcileTyped' /\ Planned' /\ (staleReads' = 0 => Single')
  BY <1>1, <1>2, ReconcileUntouched, SingleKept
<1>4. CASE SyncYurtAppDaemon
  <2>1. ObjectTyped' /\ PoolsTyped' /\ WorkloadsTyped' /\ Seen' /\ Counted'
    BY <1>4, PoolsUntouched, WorkloadsUntouched
    DEF SyncYurtAppDaemon, IInv, ObjectTyped, Counted, boundVars
  <2>2. QED
    BY <1>3, <2>1 DEF IInv
<1>5. CASE SyncWorkloads
  <2>1. WorkloadsTyped' /\ Seen' /\ Counted'
    BY <1>5 DEF SyncWorkloads, IInv, WorkloadsTyped, Seen, Counted, boundVars
  <2>2. QED
    BY <1>3, <1>5, <2>1, ObjectUntouched, PoolsUntouched DEF SyncWorkloads, IInv
<1>6. ASSUME NEW p \in Pools, SyncPool(p)
      PROVE  IInv'
  <2>1. PoolsTyped'
    BY <1>6 DEF SyncPool, IInv, PoolsTyped
  <2>2. Counted'
    BY <1>6, EventsCounted DEF SyncPool
  <2>3. QED
    BY <1>3, <1>6, <2>1, <2>2, ObjectUntouched, WorkloadsUntouched DEF SyncPool, IInv
<1>7. QED
  BY <1>4, <1>5, <1>6 DEF Sync

LEMMA ResyncStep ==
    ASSUME IInv, Resync
    PROVE  IInv'
<1>1. queued' = TRUE /\ UNCHANGED <<yadVars, poolVars, workloadVars, reconcileVars, boundVars>>
  BY DEF Resync
<1>2. UNCHANGED <<workloads, staleReads>> /\ Counted'
  BY <1>1 DEF IInv, Counted, boundVars, workloadVars
<1>3. ReconcileTyped' /\ Planned' /\ (staleReads' = 0 => Single')
  BY <1>1, <1>2, ReconcileUntouched, SingleKept
<1>4. QED
  BY <1>1, <1>2, <1>3, ObjectUntouched, PoolsUntouched, WorkloadsUntouched DEF IInv

LEMMA RestartStep ==
    ASSUME IInv, Crash \/ Panic
    PROVE  IInv'
<1>1. Restart /\ (NoFault \/ Reported("crash"))
  BY DEF Crash, Panic
<1>2. ReconcileTyped' /\ Planned' /\ pc' = "idle" /\ found' = Nothing
  BY <1>1, ReturnTyped DEF Restart
<1>3. UNCHANGED <<workloads, staleReads>> /\ Counted'
  BY <1>1, EventsCounted DEF Restart
<1>4. ObjectTyped' /\ PoolsTyped' /\ WorkloadsTyped' /\ Seen'
  BY <1>1 DEF Restart, IInv, ObjectTyped, PoolsTyped, WorkloadsTyped, Seen
<1>5. QED
  BY <1>2, <1>3, <1>4, SingleDropped DEF IInv

LEMMA CollectorStep ==
    ASSUME IInv, Collector
    PROVE  IInv'
<1>1. UNCHANGED <<poolVars, queued, reconcileVars, boundVars>>
  BY DEF Collector, FinishDeletion, CollectGarbage
<1>2. UNCHANGED staleReads /\ Counted' /\ queued' \in BOOLEAN
  BY <1>1 DEF IInv, Counted, ReconcileTyped, boundVars
<1>3. ReconcileTyped' /\ Planned' /\ PoolsTyped'
  BY <1>1, <1>2, ReconcileUntouched, PoolsUntouched
<1>4. CASE FinishDeletion
  <2>1. [yad EXCEPT !.phase = "gone"] \in Object
    BY DEF IInv, ObjectTyped, Object
  <2>2. ObjectTyped' /\ WorkloadsTyped' /\ Seen' /\ workloads' = workloads
    BY <1>4, <2>1, WriteObjectTyped, WorkloadsUntouched DEF FinishDeletion, workloadVars
  <2>3. QED
    BY <1>1, <1>2, <1>3, <2>2, SingleKept DEF IInv
<1>5. CASE CollectGarbage
  <2>1. /\ workloads' = [id \in Ids |-> Absent] /\ stale' = stale \cup Present(workloads)
        /\ cache' = cache /\ UNCHANGED yadVars
    BY <1>5 DEF CollectGarbage
  <2>2. WorkloadsTyped' /\ Seen'
    BY <2>1 DEF IInv, WorkloadsTyped, Seen, Present
  <2>3. \A p \in Pools : OfPool(workloads', p) = {}
    BY <2>1 DEF OfPool, Present
  <2>4. QED
    BY <1>1, <1>2, <1>3, <2>1, <2>2, <2>3, ObjectUntouched, SingleKept DEF IInv
<1>6. QED
  BY <1>4, <1>5 DEF Collector

-----------------------------------------------------------------------------
(* Users.                                                                   *)

LEMMA UserActionKeeps ==
    ASSUME IInv, NEW kind, UserAction(kind), misled' \in BOOLEAN
    PROVE  ReconcileTyped' /\ Planned' /\ Counted' /\ UNCHANGED <<reconcileVars, staleReads>>
<1>1. events' \in 0 .. MaxEvents
  BY ConstantAssumption DEF IInv, Counted, UserAction
<1>2. Counted'
  BY <1>1 DEF IInv, Counted, UserAction
<1>3. queued' \in BOOLEAN
  BY DEF IInv, ReconcileTyped, UserAction
<1>4. QED
  BY <1>2, <1>3, ReconcileUntouched DEF UserAction

LEMMA UserObjectStep ==
    ASSUME IInv, NEW kind, UserAction(kind), NEW value \in Object, WriteObject(value),
           UNCHANGED <<poolVars, workloadVars, misled>>
    PROVE  IInv'
<1>1. misled' \in BOOLEAN /\ workloads' = workloads
  BY DEF IInv, Counted, workloadVars
<1>2. QED
  BY <1>1, UserActionKeeps, SingleKept, WriteObjectTyped, PoolsUntouched, WorkloadsUntouched DEF IInv

LEMMA UserWorkloadStep ==
    ASSUME IInv, NEW kind, UserAction(kind), NEW id \in Ids, NEW value \in Workload \cup {Absent},
           TouchWorkload(id, value), value # Absent => value.pool \in {None, workloads[id].pool}
    PROVE  IInv'
<1>1. misled' \in BOOLEAN /\ workloads[id] # Absent /\ WriteWorkload(id, value)
  BY DEF TouchWorkload
<1>2. UNCHANGED <<yadVars, poolVars>>
  BY DEF TouchWorkload
<1>3. \A p \in Pools : OfPool(workloads', p) \subseteq OfPool(workloads, p)
  BY <1>1, WriteGivesNothing
<1>4. QED
  BY <1>1, <1>2, <1>3, UserActionKeeps, SingleKept, WriteWorkloadTyped, ObjectUntouched,
     PoolsUntouched DEF IInv

LEMMA UserStep ==
    ASSUME IInv, User
    PROVE  IInv'
<1>1. ASSUME NEW spec \in Specs, EditSpec(spec)
      PROVE  IInv'
  <2>1. yad \in Object /\ yad.gen + 1 \in Nat
    BY DEF IInv, ObjectTyped, Object
  <2>2. [yad EXCEPT !.spec = spec, !.gen = @ + 1] \in Object
    BY <2>1 DEF Object
  <2>3. QED
    BY <1>1, <2>2, UserObjectStep DEF EditSpec
<1>2. ASSUME NEW p \in Pools, NEW value \in PoolSpecs \cup {Absent}, WritePool(p, value)
      PROVE  IInv'
  <2>1. PoolsTyped'
    BY <1>2, ConstantAssumption DEF WritePool, IInv, PoolsTyped
  <2>2. misled' \in BOOLEAN /\ UNCHANGED <<yadVars, workloadVars>> /\ workloads' = workloads
    BY <1>2 DEF WritePool, IInv, Counted, workloadVars
  <2>3. QED
    BY <1>2, <2>1, <2>2, UserActionKeeps, SingleKept, ObjectUntouched, WorkloadsUntouched
    DEF WritePool, IInv
<1>3. ASSUME NEW id \in Ids, TamperWorkload(id)
      PROVE  IInv'
  <2>1. workloads[id] \in Workload
    BY <1>3 DEF TamperWorkload, IInv, WorkloadsTyped
  <2>2. PICK value \in {[workloads[id] EXCEPT !.placed = FALSE],
                        [workloads[id] EXCEPT !.tolerates = {}],
                        [workloads[id] EXCEPT !.pool = None]} : TouchWorkload(id, value)
    BY <1>3 DEF TamperWorkload
  <2>3. value \in Workload /\ value.pool \in {None, workloads[id].pool}
    BY <2>1, <2>2 DEF Workload
  <2>4. QED
    BY <1>3, <2>2, <2>3, UserWorkloadStep DEF TamperWorkload
<1>4. ASSUME NEW id \in Ids, RemoveWorkload(id)
      PROVE  IInv'
  BY <1>4, UserWorkloadStep DEF RemoveWorkload
<1>5. ASSUME NEW phase \in {"terminating", "gone"}, DeleteYurtAppDaemon(phase)
      PROVE  IInv'
  <2>1. [yad EXCEPT !.phase = phase] \in Object
    BY DEF IInv, ObjectTyped, Object
  <2>2. QED
    BY <1>5, <2>1, UserObjectStep DEF DeleteYurtAppDaemon
<1>6. QED
  BY <1>1, <1>2, <1>3, <1>4, <1>5 DEF User

-----------------------------------------------------------------------------
(* The theorems.                                                            *)

LEMMA Start == Init => IInv
<1> SUFFICES ASSUME Init
             PROVE  IInv
  OBVIOUS
<1>1. ObjectTyped /\ PoolsTyped /\ WorkloadsTyped
  BY InitialTyped, ConstantAssumption DEF Init, ObjectTyped, PoolsTyped, WorkloadsTyped
<1>2. ReconcileTyped
  BY InitialTyped DEF Init, ReconcileTyped, ListsTyped, Nothing
<1>3. 0 \in 0 .. MaxEvents /\ 0 \in 0 .. MaxStaleReads
  BY ConstantAssumption
<1>4. Counted
  BY <1>3 DEF Init, Counted
<1>5. Seen /\ Planned /\ Single
  BY DEF Init, Seen, Planned, Single, Nothing, OfPool, Present
<1>6. QED
  BY <1>1, <1>2, <1>4, <1>5 DEF IInv

LEMMA Inductive == IInv /\ [Next]_vars => IInv'
<1> SUFFICES ASSUME IInv, [Next]_vars
             PROVE  IInv'
  OBVIOUS
<1>1. CASE Reconcile
  BY <1>1, SkipDeletedStep, ReadFailsStep, NoControlStep, ListWorkloadsStep, ListPoolsStep,
     BulkCallStep, PhaseStep, DeleteCallStep, ReturnErrorStep, UpdateStatusStep DEF Reconcile
<1>2. CASE UNCHANGED vars
  <2>1. /\ UNCHANGED yadVars /\ UNCHANGED poolVars /\ UNCHANGED workloadVars
        /\ UNCHANGED reconcileVars /\ UNCHANGED boundVars /\ queued' = queued
    BY <1>2 DEF vars
  <2>2. UNCHANGED <<workloads, staleReads>> /\ Counted' /\ queued' \in BOOLEAN
    BY <2>1 DEF IInv, Counted, ReconcileTyped, boundVars, workloadVars
  <2>3. QED
    BY <2>1, <2>2, ReconcileUntouched, SingleKept, ObjectUntouched, PoolsUntouched,
       WorkloadsUntouched DEF IInv
<1>3. QED
  BY <1>1, <1>2, SyncStep, ResyncStep, RestartStep, UserStep, CollectorStep DEF Next

\* Every reachable state satisfies the inductive invariant: types, what the
\* informer has seen, and what a list still says of what there is.
THEOREM Invariance == Spec => []IInv
BY Start, Inductive, PTL DEF Spec

\* Every variable keeps its type, the lists a reconcile holds included.
THEOREM TypeCorrect == Spec => []TypeOK
BY Typed, Invariance, PTL

\* No pool has two Deployments as long as no list of them was stale, though
\* names are generated and a create whose answer was lost, or that timed out,
\* is made again (classifyWorkloads, createWorkload).
THEOREM NeverTwice == Spec => []NoDuplicates
<1>1. IInv => NoDuplicates
  <2> SUFFICES ASSUME IInv, staleReads = 0, NEW p \in Pools
               PROVE  Cardinality(OfPool(workloads, p)) <= 1
    BY DEF NoDuplicates, NoTwins
  <2>1. \A a, b \in OfPool(workloads, p) : a = b
    BY DEF IInv, Single
  <2>2. CASE OfPool(workloads, p) = {}
    BY <2>2, FS_EmptySet
  <2>3. CASE OfPool(workloads, p) # {}
    <3>1. PICK id : OfPool(workloads, p) = {id}
      BY <2>1, <2>3
    <3>2. Cardinality({id}) = 1
      BY FS_Singleton
    <3>3. QED
      BY <3>1, <3>2
  <2>4. QED
    BY <2>2, <2>3
<1>2. QED
  BY <1>1, Invariance, PTL

-----------------------------------------------------------------------------
(* A controller at rest has served every pool.  An event of a YurtAppDaemon *)
(* or of a NodePool enqueues the key: so one that comes to rest has seen    *)
(* none since it took the key, and what it was to do is what is to be done. *)

\* No event is on its way, and none has come since the key was taken; the
\* Deployments are what the reconcile found and made.
Calm == Live /\ ~queued /\ yadSynced /\ lagging = {} /\ ~misled /\ staleReads = 0

\* A copy that is synced is the original.
Current ==
    /\ yadSynced => yadCache = yad
    /\ \A p \in Pools \ lagging : poolCache[p] = pools[p]

\* A workload was found for one pool only; what is deleted was found.
Distinct ==
    /\ \A p, q \in DOMAIN found : p # q => found[p].id # found[q].id
    /\ pc = "delete" => doomed \subseteq Unexpected

\* Pool p has the workload that was found, as it was read; has none; has one
\* that is up to date.
AsFound(p) == OfPool(workloads, p) = {found[p].id} /\ workloads[found[p].id] = found[p].seen
Vacant(p) == OfPool(workloads, p) = {}
Good(p) == \E id \in OfPool(workloads, p) : UpToDate(id, p)

\* How far the reconcile has come with pool p.
FarWith(p) ==
    LET isFound == p \in DOMAIN found
        matches == p \in DOMAIN matching
    IN /\ ~isFound /\ (pc = "list" \/ ~matches) => Vacant(p)
       /\ ~isFound /\ pc # "list" /\ matches => p \in todo \/ Good(p)
       /\ isFound /\ pc \in {"list", "create"} => AsFound(p)
       /\ isFound /\ pc = "delete" => IF matches \/ found[p].id \in doomed THEN AsFound(p) ELSE Vacant(p)
       /\ isFound /\ pc = "update" => IF ~matches THEN Vacant(p)
                                      ELSE IF p \in todo THEN AsFound(p) ELSE Good(p)

Underway ==
    Calm /\ pc # "idle" /\ ~failed =>
        /\ inst = yad
        /\ pc # "list" => /\ matching = [p \in Selected(pools, yad.spec) |-> pools[p]]
                          /\ pc = "delete" => todo = {}
        /\ \A p \in Pools : FarWith(p)

Done == Calm /\ pc = "idle" => Served /\ StatusIsRight

IRest == IInv /\ Current /\ Distinct /\ Underway /\ Done

-----------------------------------------------------------------------------
(* What the steps do to what is observed.                                   *)

LEMMA CurrentStep ==
    ASSUME IInv, Current, [Next]_vars
    PROVE  Current'
<1>1. \/ UNCHANGED yadVars
      \/ \E value : WriteObject(value)
      \/ yadCache' = yad /\ yad' = yad
  <2>1. CASE Reconcile
    BY <2>1 DEF Reconcile, SkipDeleted, ReadFails, NoControl, ListWorkloads, ListPools, BulkCall,
                StartDeletes, DeleteCall, StartUpdates, ReturnError, UpdateStatus, yadVars
  <2>2. CASE User
    BY <2>2 DEF User, EditSpec, WritePool, TamperWorkload, RemoveWorkload, TouchWorkload,
                DeleteYurtAppDaemon, yadVars
  <2>3. CASE Sync \/ Resync \/ Crash \/ Panic \/ Collector \/ UNCHANGED vars
    BY <2>3 DEF Sync, SyncYurtAppDaemon, SyncWorkloads, SyncPool, Resync, Crash, Panic, Restart,
                Collector, FinishDeletion, CollectGarbage, yadVars, vars
  <2>4. QED
    BY <2>1, <2>2, <2>3 DEF Next
<1>2. \/ UNCHANGED poolVars
      \/ \E p \in Pools : \E value : WritePool(p, value)
      \/ \E p \in Pools : SyncPool(p)
      \/ poolCache' = pools /\ pools' = pools
  <2>1. CASE Reconcile
    BY <2>1 DEF Reconcile, SkipDeleted, ReadFails, NoControl, ListWorkloads, ListPools, BulkCall,
                StartDeletes, DeleteCall, StartUpdates, ReturnError, UpdateStatus
  <2>2. CASE User
    BY <2>2 DEF User, EditSpec, TamperWorkload, RemoveWorkload, TouchWorkload, DeleteYurtAppDaemon
  <2>3. CASE Sync \/ Resync \/ Crash \/ Panic \/ Collector \/ UNCHANGED vars
    BY <2>3 DEF Sync, SyncYurtAppDaemon, SyncWorkloads, Resync, Crash, Panic, Restart,
                Collector, FinishDeletion, CollectGarbage, vars
  <2>4. QED
    BY <2>1, <2>2, <2>3 DEF Next
<1>3. yadSynced' => yadCache' = yad'
  <2>1. CASE UNCHANGED yadVars
    BY <2>1 DEF Current, yadVars
  <2>2. ASSUME NEW value, WriteObject(value), yadSynced'
        PROVE  yadCache' = yad'
    <3>1. yadSynced /\ value = yad /\ yad' = value /\ yadCache' = yadCache
      BY <2>2 DEF WriteObject
    <3>2. QED
      BY <3>1 DEF Current
  <2>3. CASE yadCache' = yad /\ yad' = yad
    BY <2>3
  <2>4. QED
    BY <1>1, <2>1, <2>2, <2>3
<1>4. \A p \in Pools \ lagging' : poolCache'[p] = pools'[p]
  BY <1>2 DEF Current, poolVars, WritePool, SyncPool, IInv, PoolsTyped
<1>5. QED
  BY <1>3, <1>4 DEF Current

LEMMA DistinctStep ==
    ASSUME IInv, Distinct, [Next]_vars
    PROVE  Distinct'
<1>1. CASE ListWorkloads
  <2>1. PICK kept \in [PoolsOf(cache) -> Ids] :
           /\ \A p \in DOMAIN kept : kept[p] \in OfPool(cache, p)
           /\ found' = [p \in DOMAIN kept |-> [id |-> kept[p], seen |-> cache[kept[p]]]]
    BY <1>1 DEF ListWorkloads
  <2>2. \A p \in DOMAIN found' : found'[p].id \in OfPool(cache, p)
    BY <2>1
  <2>3. pc' = "list"
    BY <1>1 DEF ListWorkloads
  <2>4. QED
    BY <2>2, <2>3 DEF Distinct, OfPool
<1>2. CASE pc' = "idle" /\ found' = Nothing
  BY <1>2 DEF Distinct, Nothing
<1>3. CASE StartDeletes
  BY <1>3 DEF StartDeletes, Distinct, Unexpected
<1>4. CASE found' = found /\ (pc' # "delete" \/ (pc = "delete" /\ matching' = matching /\ doomed' \subseteq doomed))
  BY <1>4 DEF Distinct, Unexpected
<1>5. CASE Reconcile
  BY <1>1, <1>2, <1>3, <1>4, <1>5
  DEF Reconcile, SkipDeleted, ReadFails, NoControl, ListPools, BulkCall,
      DeleteCall, StartUpdates, ReturnError, UpdateStatus, Return, reconcileVars
<1>6. CASE Sync \/ Resync \/ Crash \/ Panic \/ Collector \/ UNCHANGED vars
  BY <1>2, <1>4, <1>6 DEF Sync, SyncYurtAppDaemon, SyncWorkloads, SyncPool, Resync, Crash, Panic,
      Restart, Return, Collector, FinishDeletion, CollectGarbage, vars, reconcileVars
<1>7. CASE User
  BY <1>4, <1>7 DEF User, EditSpec, WritePool, TamperWorkload, RemoveWorkload, DeleteYurtAppDaemon,
      UserAction, reconcileVars
<1>8. QED
  BY <1>5, <1>6, <1>7 DEF Next

\* A reconcile starts from what there is.
LEMMA StartsCurrent ==
    ASSUME IInv, Current, Calm', SkipDeleted \/ NoControl \/ ListWorkloads
    PROVE  ~SkipDeleted /\ inst' = yad /\ UNCHANGED <<yad, pools, workloads>>
BY DEF Calm, Live, Current, SkipDeleted, NoControl, ListWorkloads, yadVars, poolVars, workloadVars

\* Only the start of a reconcile brings calm; the users do not, nor an event.
LEMMA StillCalm ==
    ASSUME IInv, [Next]_vars, Calm', ~SkipDeleted, ~NoControl, ~ListWorkloads
    PROVE  /\ Calm /\ UNCHANGED <<yad, pools>>
           /\ Reconcile \/ (UNCHANGED <<workloads, reconcileVars>>)
<1>1. yad \in Object /\ staleReads \in Nat /\ queued \in BOOLEAN /\ misled \in BOOLEAN /\ yadSynced \in BOOLEAN
  BY ConstantAssumption DEF IInv, ObjectTyped, ReconcileTyped, Counted
<1>2. yad'.phase = "live" /\ ~queued' /\ yadSynced' /\ lagging' = {} /\ ~misled' /\ staleReads' = 0
  BY DEF Calm, Live
<1>3. ASSUME NEW value, WriteObject(value)
      PROVE  UNCHANGED <<yad, yadSynced>>
  BY <1>1, <1>2, <1>3 DEF WriteObject
<1>4. CASE Reconcile
  <2>1. UNCHANGED <<poolVars, staleReads>>
    BY <1>4 DEF Reconcile, ReadFails, ListPools, BulkCall, StartDeletes, DeleteCall,
                StartUpdates, ReturnError, UpdateStatus, boundVars
  <2>2. UNCHANGED <<yad, yadSynced>>
    BY <1>3, <1>4 DEF Reconcile, ReadFails, ListPools, BulkCall, StartDeletes, DeleteCall,
                StartUpdates, ReturnError, UpdateStatus, yadVars
  <2>3. ~queued
    BY <1>1, <1>2, <1>4 DEF Reconcile, ReadFails, ListPools, BulkCall, StartDeletes, DeleteCall,
                StartUpdates, ReturnError, UpdateStatus, Return
  <2>4. ~misled
    BY <1>1, <1>2, <1>4 DEF Reconcile, ReadFails, ListPools, BulkCall, StartDeletes, DeleteCall,
                StartUpdates, ReturnError, UpdateStatus, boundVars, NoFault, Reported, Unreported,
                CreateWorkload, UpdateWorkload, DeleteWorkload
  <2>5. QED
    BY <1>2, <1>4, <2>1, <2>2, <2>3, <2>4 DEF Calm, Live, poolVars
<1>5. CASE Sync
  <2>1. CASE SyncWorkloads
    BY <1>2, <2>1 DEF SyncWorkloads, Calm, Live, yadVars, poolVars, boundVars
  <2>2. QED
    BY <1>2, <1>5, <2>1 DEF Sync, SyncYurtAppDaemon, SyncPool, Unreported
<1>6. CASE Resync \/ Crash \/ Panic
  BY <1>2, <1>6 DEF Resync, Crash, Panic, Restart, Return
<1>7. CASE User
  <2>1. ASSUME NEW spec \in Specs, EditSpec(spec)
        PROVE  FALSE
    <3>1. yad' = yad /\ yad' = [yad EXCEPT !.spec = spec, !.gen = @ + 1]
      BY <1>3, <2>1 DEF EditSpec, WriteObject
    <3>2. yad'.gen = yad.gen + 1 /\ yad.gen \in Nat
      BY <1>1, <3>1 DEF Object
    <3>3. QED
      BY <3>1, <3>2
  <2>2. ASSUME NEW p \in Pools, NEW value, WritePool(p, value)
        PROVE  FALSE
    BY <1>2, <2>2 DEF WritePool
  <2>3. ASSUME NEW id \in Ids, TamperWorkload(id) \/ RemoveWorkload(id)
        PROVE  FALSE
    BY <1>2, <2>3 DEF TamperWorkload, RemoveWorkload, TouchWorkload
  <2>4. ASSUME NEW phase \in {"terminating", "gone"}, DeleteYurtAppDaemon(phase)
        PROVE  FALSE
    <3>1. yad' = [yad EXCEPT !.phase = phase]
      BY <2>4 DEF DeleteYurtAppDaemon, WriteObject
    <3>2. QED
      BY <1>1, <1>2, <3>1 DEF Object
  <2>5. QED
    BY <1>7, <2>1, <2>2, <2>3, <2>4 DEF User
<1>8. CASE Collector
  <2>1. yad' \in {yad, [yad EXCEPT !.phase = "gone"]} /\ yad.phase # "live"
    BY <1>8 DEF Collector, FinishDeletion, CollectGarbage, WriteObject, yadVars
  <2>2. QED
    BY <1>1, <1>2, <2>1 DEF Object
<1>9. CASE UNCHANGED vars
  BY <1>2, <1>9 DEF vars, Calm, Live, yadVars, poolVars, workloadVars, boundVars
<1>10. QED
  BY <1>4, <1>5, <1>6, <1>7, <1>8, <1>9 DEF Next

-----------------------------------------------------------------------------
(* Each step of a reconcile that comes to rest.                             *)

\* A pool whose workloads a step leaves alone.
LEMMA PoolKept ==
    ASSUME NEW q \in Pools, OfPool(workloads', q) = OfPool(workloads, q),
           \A id \in OfPool(workloads, q) : workloads'[id] = workloads[id],
           UNCHANGED <<yad, pools, found>>
    PROVE  /\ AsFound(q) => AsFound(q)'
           /\ Vacant(q) => Vacant(q)'
           /\ Good(q) => Good(q)'
BY DEF AsFound, Vacant, Good, UpToDate

\* A write under one name, of a workload of pool p or of none.
LEMMA OthersKept ==
    ASSUME IInv, NEW id \in Ids, NEW value \in Workload \cup {Absent}, WriteWorkload(id, value),
           NEW p \in Pools, NEW q \in Pools, q # p, id \notin OfPool(workloads, q),
           value # Absent => value.pool = p,
           UNCHANGED <<yad, pools, found>>
    PROVE  /\ AsFound(q) => AsFound(q)'
           /\ Vacant(q) => Vacant(q)'
           /\ Good(q) => Good(q)'
<1>1. \A i \in Ids : workloads'[i] = IF i = id THEN value ELSE workloads[i]
  BY WriteWorkloadTyped
<1>2. OfPool(workloads', q) = OfPool(workloads, q)
  BY <1>1 DEF OfPool, Present
<1>3. \A i \in OfPool(workloads, q) : workloads'[i] = workloads[i]
  BY <1>1 DEF OfPool, Present
<1>4. QED
  BY <1>2, <1>3, PoolKept

\* Nothing but the caches and the counters.
LEMMA NothingNew ==
    ASSUME Calm, Underway, Done, UNCHANGED <<yad, pools, workloads, reconcileVars>>
    PROVE  Underway' /\ Done'
<1>1. UNCHANGED <<pc, inst, found, matching, todo, doomed, failed>>
  BY DEF reconcileVars
<1>2. \A p \in Pools : FarWith(p)' = FarWith(p)
  BY <1>1 DEF FarWith, AsFound, Vacant, Good, OfPool, Present, UpToDate
<1>3. Served' = Served /\ StatusIsRight' = StatusIsRight
  BY DEF Served, StatusIsRight, PoolsOf, Selected, OfPool, Present, UpToDate
<1>4. QED
  BY <1>1, <1>2, <1>3 DEF Underway, Done

LEMMA ListWorkloadsUnderway ==
    ASSUME IInv, Current, Calm', ListWorkloads
    PROVE  Underway' /\ Done'
<1>1. PICK kept \in [PoolsOf(cache) -> Ids] :
         /\ \A p \in DOMAIN kept : kept[p] \in OfPool(cache, p)
         /\ found' = [p \in DOMAIN kept |-> [id |-> kept[p], seen |-> cache[kept[p]]]]
  BY DEF ListWorkloads
<1>2. pc' = "list" /\ stale = {} /\ workloads' = workloads /\ staleReads = 0
  BY ConstantAssumption DEF ListWorkloads, Calm, IInv, Counted, workloadVars
<1>3. cache = workloads
  BY <1>2 DEF IInv, Seen, WorkloadsTyped
<1>4. inst' = yad /\ yad' = yad
  BY StartsCurrent
<1>5. /\ DOMAIN found' = PoolsOf(workloads)
      /\ \A p \in PoolsOf(workloads) : /\ found'[p].id \in OfPool(workloads, p)
                                       /\ found'[p].seen = workloads[found'[p].id]
  BY <1>1, <1>3
<1>6. \A p \in Pools : \A a, b \in OfPool(workloads, p) : a = b
  BY <1>2 DEF IInv, Single
<1>7. ASSUME NEW p \in Pools
      PROVE  IF p \in DOMAIN found' THEN AsFound(p)' ELSE Vacant(p)'
  <2>1. CASE p \in DOMAIN found'
    <3>1. OfPool(workloads', p) = {found'[p].id}
      BY <1>2, <1>5, <1>6, <2>1
    <3>2. workloads'[found'[p].id] = found'[p].seen
      BY <1>2, <1>5, <2>1
    <3>3. QED
      BY <2>1, <3>1, <3>2 DEF AsFound
  <2>2. CASE p \notin DOMAIN found'
    <3>1. OfPool(workloads', p) = {}
      BY <1>2, <1>5, <2>2, ConstantAssumption DEF PoolsOf, OfPool
    <3>2. QED
      BY <2>2, <3>1 DEF Vacant
  <2>3. QED
    BY <2>1, <2>2
<1>8. \A p \in Pools : FarWith(p)'
  BY <1>2, <1>7 DEF FarWith
<1>9. QED
  BY <1>2, <1>4, <1>8 DEF Underway, Done

LEMMA ListPoolsUnderway ==
    ASSUME IInv, Current, Underway, Calm, Calm', UNCHANGED <<yad, pools>>, ListPools
    PROVE  Underway' /\ Done'
<1>1. /\ pc = "list" /\ pc' = "create" /\ todo' = DOMAIN matching' \ DOMAIN found
      /\ UNCHANGED <<inst, found, doomed, failed, workloads>>
      /\ matching' = [p \in Selected(poolCache, inst.spec) |-> poolCache[p]]
  BY DEF ListPools, Missing, workloadVars, Unreported, Calm
<1>2. \A p \in Pools : poolCache[p] = pools[p]
  BY DEF Calm, Current
<1>3. SUFFICES ASSUME ~failed
               PROVE  Underway'
  BY <1>1 DEF Underway, Done
<1>4. inst = yad /\ \A p \in Pools : FarWith(p)
  BY <1>1, <1>3 DEF Underway
<1>5. Selected(poolCache, inst.spec) = Selected(pools, yad.spec)
  BY <1>2, <1>4 DEF Selected
<1>6. matching' = [p \in Selected(pools, yad.spec) |-> pools[p]]
  BY <1>1, <1>2, <1>5 DEF Selected
<1>7. ASSUME NEW p \in Pools
      PROVE  FarWith(p)'
  <2>1. IF p \in DOMAIN found THEN AsFound(p) ELSE Vacant(p)
    BY <1>1, <1>4 DEF FarWith
  <2>2. IF p \in DOMAIN found THEN AsFound(p)' ELSE Vacant(p)'
    BY <1>1, <2>1 DEF AsFound, Vacant
  <2>3. QED
    BY <1>1, <2>2 DEF FarWith
<1>8. QED
  BY <1>1, <1>4, <1>6, <1>7 DEF Underway

\* What is written for a pool that matches is up to date.
LEMMA AppliedIsGood ==
    ASSUME IInv, NEW p \in DOMAIN matching, NEW id \in Ids, inst = yad,
           matching = [q \in Selected(pools, yad.spec) |-> pools[q]],
           WriteWorkload(id, ApplyTemplate(inst.spec, p, matching[p])),
           UNCHANGED <<yad, pools>>
    PROVE  Good(p)'
<1> DEFINE value == ApplyTemplate(inst.spec, p, matching[p])
<1>1. value \in Workload /\ value.pool = p
  BY ApplyTemplateTyped
<1>2. /\ value.placed /\ value.rev = yad.spec.template
      /\ pools[p].taints \subseteq value.tolerates
  BY DEF ApplyTemplate
<1> HIDE DEF value
<1>3. workloads'[id] = value /\ value # Absent
  BY <1>1, WriteWorkloadTyped, ConstantAssumption DEF value
<1>4. id \in OfPool(workloads', p)
  BY <1>1, <1>3 DEF OfPool, Present
<1>5. UpToDate(id, p)'
  BY <1>2, <1>3 DEF UpToDate
<1>6. QED
  BY <1>4, <1>5 DEF Good

LEMMA BulkCallUnderway ==
    ASSUME IInv, Underway, Calm, Calm', UNCHANGED <<yad, pools>>,
           NEW p \in Pools, BulkCall(p)
    PROVE  Underway' /\ Done'
<1>1. /\ pc \in {"create", "update"} /\ p \in todo /\ todo' = todo \ {p}
      /\ UNCHANGED <<pc, inst, found, matching, doomed>>
  BY DEF BulkCall
<1>2. PICK err \in BOOLEAN :
         /\ \/ pc = "create" /\ CreateWorkload(p, err)
            \/ pc = "update" /\ UpdateWorkload(p, err)
         /\ failed' = (failed \/ err)
  BY DEF BulkCall
<1>3. SUFFICES ASSUME ~failed, ~err
               PROVE  Underway'
  BY <1>1, <1>2 DEF Underway, Done
<1>4. /\ inst = yad /\ matching = [q \in Selected(pools, yad.spec) |-> pools[q]]
      /\ \A q \in Pools : FarWith(q)
  BY <1>1, <1>3 DEF Underway
<1>5. p \in DOMAIN matching /\ (pc = "create" <=> p \notin DOMAIN found)
  BY <1>1 DEF IInv, Planned
<1> DEFINE value == ApplyTemplate(inst.spec, p, matching[p])
<1>6. value \in Workload /\ value.pool = p
  BY <1>5, ApplyTemplateTyped
<1>7. PICK id \in Ids :
         /\ WriteWorkload(id, value)
         /\ \A q \in Pools : q # p => id \notin OfPool(workloads, q)
  <2>1. CASE pc = "create"
    <3>1. FreeIds # {} /\ WriteWorkload(NewId, value)
      BY <1>2, <1>3, <2>1 DEF CreateWorkload, Unreported, Calm
    <3>2. NewId \in Ids /\ workloads[NewId] = Absent
      BY <3>1 DEF NewId, FreeIds
    <3>3. QED
      BY <3>1, <3>2 DEF OfPool, Present
  <2>2. CASE pc = "update"
    <3>1. WriteWorkload(found[p].id, value)
      BY <1>2, <1>3, <2>2 DEF UpdateWorkload
    <3>2. OfPool(workloads, p) = {found[p].id}
      BY <1>1, <1>4, <1>5, <2>2 DEF FarWith, AsFound
    <3>3. QED
      BY <3>1, <3>2 DEF OfPool, Present
  <2>3. QED
    BY <1>1, <2>1, <2>2
<1>8. Good(p)'
  BY <1>4, <1>5, <1>7, AppliedIsGood
<1> HIDE DEF value
<1>9. ASSUME NEW q \in Pools
      PROVE  FarWith(q)'
  <2>1. CASE q = p
    BY <1>1, <1>5, <1>8, <2>1 DEF FarWith
  <2>2. CASE q # p
    <3>1. /\ AsFound(q) => AsFound(q)'
          /\ Vacant(q) => Vacant(q)'
          /\ Good(q) => Good(q)'
      BY <1>1, <1>6, <1>7, <2>2, OthersKept
    <3>2. FarWith(q) /\ (q \in todo' <=> q \in todo)
      BY <1>1, <1>4, <2>2
    <3>3. QED
      BY <1>1, <3>1, <3>2 DEF FarWith
  <2>3. QED
    BY <2>1, <2>2
<1>10. QED
  BY <1>1, <1>4, <1>9 DEF Underway

LEMMA StartDeletesUnderway ==
    ASSUME IInv, Underway, Calm, UNCHANGED <<yad, pools>>, StartDeletes
    PROVE  Underway' /\ Done'
<1>1. /\ pc = "create" /\ pc' = "delete" /\ todo' = {} /\ doomed' = Unexpected
      /\ (todo = {} \/ failed)
      /\ UNCHANGED <<inst, found, matching, failed, workloads>>
  BY DEF StartDeletes, BulkDone, workloadVars
<1>2. SUFFICES ASSUME ~failed
               PROVE  Underway'
  BY <1>1 DEF Underway, Done
<1>3. /\ inst = yad /\ matching = [q \in Selected(pools, yad.spec) |-> pools[q]]
      /\ \A q \in Pools : FarWith(q)
  BY <1>1, <1>2 DEF Underway
<1>4. ASSUME NEW q \in Pools
      PROVE  FarWith(q)'
  <2>1. /\ AsFound(q) => AsFound(q)'
        /\ Vacant(q) => Vacant(q)'
        /\ Good(q) => Good(q)'
    BY <1>1, PoolKept
  <2>2. q \in DOMAIN found /\ q \notin DOMAIN matching => found[q].id \in doomed'
    BY <1>1 DEF Unexpected
  <2>3. FarWith(q) /\ q \notin todo
    BY <1>1, <1>2, <1>3
  <2>4. QED
    BY <1>1, <2>1, <2>2, <2>3 DEF FarWith
<1>5. QED
  BY <1>1, <1>3, <1>4 DEF Underway

LEMMA DeleteCallUnderway ==
    ASSUME IInv, Distinct, Underway, Calm, UNCHANGED <<yad, pools>>,
           NEW id \in Ids, DeleteCall(id)
    PROVE  Underway' /\ Done'
<1>1. /\ pc = "delete" /\ id \in doomed /\ doomed' = doomed \ {id}
      /\ UNCHANGED <<pc, inst, found, matching, todo>>
  BY DEF DeleteCall
<1>2. PICK err \in BOOLEAN : DeleteWorkload(id, err) /\ failed' = (failed \/ err)
  BY DEF DeleteCall
<1>3. SUFFICES ASSUME ~failed, ~err
               PROVE  Underway'
  BY <1>1, <1>2 DEF Underway, Done
<1>4. /\ inst = yad /\ matching = [q \in Selected(pools, yad.spec) |-> pools[q]] /\ todo = {}
      /\ \A q \in Pools : FarWith(q)
  BY <1>1, <1>3 DEF Underway
<1>5. WriteWorkload(id, Absent)
  BY <1>2, <1>3 DEF DeleteWorkload
<1>6. PICK r \in DOMAIN found \ DOMAIN matching : id = found[r].id
  BY <1>1 DEF Distinct, Unexpected
<1>7. r \in Pools
  BY <1>6 DEF IInv, ReconcileTyped, ListsTyped
<1>8. OfPool(workloads, r) = {id}
  BY <1>1, <1>4, <1>6, <1>7 DEF FarWith, AsFound
<1>9. \A q \in Pools : q # r => id \notin OfPool(workloads, q)
  BY <1>8 DEF OfPool, Present
<1>10. Vacant(r)'
  <2>1. \A i \in Ids : workloads'[i] = IF i = id THEN Absent ELSE workloads[i]
    BY <1>5, WriteWorkloadTyped
  <2>2. QED
    BY <1>8, <2>1 DEF Vacant, OfPool, Present
<1>11. ASSUME NEW q \in Pools
       PROVE  FarWith(q)'
  <2>1. CASE q = r
    BY <1>1, <1>6, <1>10, <2>1 DEF FarWith
  <2>2. CASE q # r
    <3>1. /\ AsFound(q) => AsFound(q)'
          /\ Vacant(q) => Vacant(q)'
          /\ Good(q) => Good(q)'
      BY <1>1, <1>5, <1>7, <1>9, <2>2, OthersKept
    <3>2. q \in DOMAIN found => (found[q].id \in doomed' <=> found[q].id \in doomed)
      BY <1>1, <1>6, <2>2 DEF Distinct
    <3>3. FarWith(q)
      BY <1>4
    <3>4. QED
      BY <1>1, <3>1, <3>2, <3>3 DEF FarWith
  <2>3. QED
    BY <2>1, <2>2
<1>12. QED
  BY <1>1, <1>4, <1>11 DEF Underway

LEMMA StartUpdatesUnderway ==
    ASSUME IInv, Underway, Calm, UNCHANGED <<yad, pools>>, StartUpdates
    PROVE  Underway' /\ Done'
<1>1. /\ pc = "delete" /\ pc' = "update" /\ doomed = {}
      /\ todo' = {p \in DOMAIN found \cap DOMAIN matching :
                     ~failed /\ NeedsUpdate(found[p].seen, inst.spec, matching[p])}
      /\ UNCHANGED <<inst, found, matching, failed, workloads>>
  BY DEF StartUpdates, workloadVars
<1>2. SUFFICES ASSUME ~failed
               PROVE  Underway'
  BY <1>1 DEF Underway, Done
<1>3. /\ inst = yad /\ matching = [q \in Selected(pools, yad.spec) |-> pools[q]] /\ todo = {}
      /\ \A q \in Pools : FarWith(q)
  BY <1>1, <1>2 DEF Underway
<1>4. ASSUME NEW q \in Pools
      PROVE  FarWith(q)'
  <2>1. /\ AsFound(q) => AsFound(q)'
        /\ Vacant(q) => Vacant(q)'
        /\ Good(q) => Good(q)'
    BY <1>1, PoolKept
  <2>2. ASSUME q \in DOMAIN found, q \in DOMAIN matching, q \notin todo', AsFound(q)
        PROVE  Good(q)
    <3>1. ~NeedsUpdate(found[q].seen, inst.spec, matching[q]) /\ matching[q] = pools[q]
      BY <1>1, <1>2, <1>3, <2>2
    <3>2. UpToDate(found[q].id, q)
      BY <1>3, <2>2, <3>1 DEF AsFound, UpToDate, NeedsUpdate
    <3>3. QED
      BY <2>2, <3>2 DEF AsFound, Good
  <2>3. FarWith(q) /\ q \notin todo
    BY <1>3
  <2>4. QED
    BY <1>1, <2>1, <2>2, <2>3 DEF FarWith
<1>5. QED
  BY <1>1, <1>3, <1>4 DEF Underway

\* An order of some pools lists each of them.
LEMMA OrderOnto ==
    ASSUME NEW ps, IsFiniteSet(ps), NEW order \in Orders(ps)
    PROVE  {order[i] : i \in DOMAIN order} = ps
<1> DEFINE c == Cardinality(ps)
<1>1. c \in Nat
  BY FS_CardinalityType
<1>2. order \in [1 .. c -> ps] /\ \A i, j \in 1 .. c : order[i] = order[j] => i = j
  BY DEF Orders
<1> HIDE DEF c
<1>3. order \in Injection(1 .. c, ps)
  BY <1>2 DEF Injection, IsInjective
<1>4. Cardinality(1 .. c) = c
  <2>1. 1 \in Int /\ c \in Int
    BY <1>1
  <2>2. Cardinality(1 .. c) = IF 1 > c THEN 0 ELSE c - 1 + 1
    BY <2>1, FS_Interval, Zenon
  <2>3. QED
    BY <1>1, <2>2
<1>5. order \in Surjection(1 .. c, ps)
  BY <1>3, <1>4, FS_Injection DEF c
<1>6. QED
  BY <1>2, <1>5 DEF Surjection

\* Nothing is left to do: every pool is served, and the status says so.
LEMMA UpdateStatusDone ==
    ASSUME IInv, Underway, Calm, Calm', UNCHANGED <<yad, pools>>, UpdateStatus
    PROVE  Underway' /\ Done'
<1>1. PICK order \in Orders(DOMAIN matching) :
          \/ /\ NewStatus(order) = inst.status
             /\ Return(FALSE)
          \/ /\ WriteObject([yad EXCEPT !.status = NewStatus(order)])
             /\ pc' = "idle"
          \/ Return(TRUE)
  BY DEF UpdateStatus, Return
<1>2. pc = "update" /\ todo = {} /\ ~failed /\ workloads' = workloads
  BY DEF UpdateStatus, workloadVars
<1>3. pc' = "idle" /\ ~Return(TRUE)
  BY <1>1 DEF Return, Calm
<1>4. /\ inst = yad /\ matching = [q \in Selected(pools, yad.spec) |-> pools[q]]
      /\ \A q \in Pools : FarWith(q)
  BY <1>2 DEF Underway
<1>5. DOMAIN matching = Selected(pools, yad.spec) /\ DOMAIN matching \subseteq Pools
  BY <1>4 DEF Selected
<1>6. \A q \in Pools : IF q \in DOMAIN matching THEN Good(q) ELSE Vacant(q)
  BY <1>2, <1>4 DEF FarWith
<1>7. Served
  <2>1. PoolsOf(workloads) \subseteq Pools
    BY DEF PoolsOf, Present, IInv, WorkloadsTyped, Workload
  <2>2. \A q \in Pools : q \in PoolsOf(workloads) <=> OfPool(workloads, q) # {}
    BY ConstantAssumption DEF PoolsOf, OfPool
  <2>3. \A q \in Pools : q \in PoolsOf(workloads) <=> q \in DOMAIN matching
    BY <1>6, <2>2 DEF Good, Vacant
  <2>4. PoolsOf(workloads) = Selected(pools, yad.spec)
    BY <1>5, <2>1, <2>3
  <2>5. QED
    BY <1>5, <1>6, <2>4 DEF Served, Good
<1>8. yad.status = NewStatus(order)
  <2>1. yad \in Object
    BY DEF IInv, ObjectTyped
  <2>2. QED
    BY <1>1, <1>3, <1>4, <2>1 DEF WriteObject, Object
<1>9. StatusIsRight
  <2>1. IsFiniteSet(DOMAIN matching)
    BY <1>5, ConstantAssumption, FS_Subset
  <2>2. {order[i] : i \in DOMAIN order} = DOMAIN matching
    BY <2>1, OrderOnto
  <2>3. yad.status.observed = yad.gen /\ yad.status.nodePools = order
    BY <1>4, <1>8 DEF NewStatus
  <2>4. QED
    BY <1>5, <2>2, <2>3 DEF StatusIsRight
<1>10. Served' /\ StatusIsRight'
  BY <1>2, <1>7, <1>9
  DEF Served, StatusIsRight, PoolsOf, Selected, OfPool, Present, UpToDate
<1>11. QED
  BY <1>3, <1>10 DEF Underway, Done

LEMMA CalmStep ==
    ASSUME IRest, [Next]_vars, Calm'
    PROVE  Underway' /\ Done'
<1>1. IInv /\ Current /\ Distinct /\ Underway /\ Done
  BY DEF IRest
<1>2. CASE ListWorkloads
  BY <1>1, <1>2, ListWorkloadsUnderway
<1>3. CASE NoControl
  BY <1>3 DEF NoControl, Underway, Done
<1>4. CASE SkipDeleted
  BY <1>1, <1>4, StartsCurrent
<1>5. CASE ~SkipDeleted /\ ~NoControl /\ ~ListWorkloads
  <2>1. /\ Calm /\ UNCHANGED <<yad, pools>>
        /\ Reconcile \/ UNCHANGED <<workloads, reconcileVars>>
    BY <1>1, <1>5, StillCalm
  <2>2. CASE UNCHANGED <<workloads, reconcileVars>>
    BY <1>1, <2>1, <2>2, NothingNew
  <2>3. CASE Reconcile
    <3>1. CASE ReadFails
      BY <2>2, <3>1 DEF ReadFails, workloadVars
    <3>2. CASE ReturnError
      BY <3>2 DEF ReturnError, Return, Calm
    <3>3. CASE ListPools
      BY <1>1, <2>1, <3>3, ListPoolsUnderway
    <3>4. ASSUME NEW p \in Pools, BulkCall(p)
          PROVE  Underway' /\ Done'
      BY <1>1, <2>1, <3>4, BulkCallUnderway
    <3>5. CASE StartDeletes
      BY <1>1, <2>1, <3>5, StartDeletesUnderway
    <3>6. ASSUME NEW id \in Ids, DeleteCall(id)
          PROVE  Underway' /\ Done'
      BY <1>1, <2>1, <3>6, DeleteCallUnderway
    <3>7. CASE StartUpdates
      BY <1>1, <2>1, <3>7, StartUpdatesUnderway
    <3>8. CASE UpdateStatus
      BY <1>1, <2>1, <3>8, UpdateStatusDone
    <3>9. QED
      BY <1>5, <2>3, <3>1, <3>2, <3>3, <3>4, <3>5, <3>6, <3>7, <3>8 DEF Reconcile
  <2>4. QED
    BY <2>1, <2>2, <2>3
<1>6. QED
  BY <1>2, <1>3, <1>4, <1>5

LEMMA StartRest == Init => IRest
<1> SUFFICES ASSUME Init
             PROVE  IRest
  OBVIOUS
<1>1. Current /\ Distinct /\ Underway /\ Done
  BY DEF Init, Current, Distinct, Underway, Done, Calm, Nothing
<1>2. QED
  BY <1>1, Start DEF IRest

LEMMA InductiveRest == IRest /\ [Next]_vars => IRest'
<1> SUFFICES ASSUME IRest, [Next]_vars
             PROVE  IRest'
  OBVIOUS
<1>1. Underway' /\ Done'
  BY CalmStep DEF Underway, Done
<1>2. QED
  BY <1>1, Inductive, CurrentStep, DistinctStep DEF IRest

\* Every reachable state satisfies the stronger invariant: what a reconcile
\* that no event disturbs has done, and has still to do.
THEOREM RestInvariance == Spec => []IRest
BY StartRest, InductiveRest, PTL DEF Spec

\* Unless errors were dropped, Deployments tampered with or listed from a stale
\* cache, a controller at rest has served every pool that matches, with the
\* template and the taints they have now, and says so: for any number of pools,
\* and whatever calls failed or pools came and went while it worked.
THEOREM RestServed == Spec => []RestMeansServed
<1>1. IRest => RestMeansServed
  BY DEF IRest, Done, RestMeansServed, Quiescent, Calm
<1>2. QED
  BY <1>1, RestInvariance, PTL

=============================================================================
