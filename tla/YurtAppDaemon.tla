--------------------------- MODULE YurtAppDaemon ---------------------------
(***************************************************************************)
(* The YurtAppDaemon controller (src/pkg/yurtappmanager/controller/        *)
(* yurtappdaemon): one YurtAppDaemon, the NodePools its selector is about, *)
(* one Deployment for each pool that matches, and the informer caches all  *)
(* reads are served from.  Only YurtAppDaemons and NodePools are watched:  *)
(* what becomes of a Deployment enqueues nothing.  A revision is named by  *)
(* its template, as in YurtAppSet; a bulk of calls is what BulkCall        *)
(* promises of SlowStartBatch.                                             *)
(***************************************************************************)
EXTENDS Integers, FiniteSets, Sequences

CONSTANTS
    Ids,            \* names the API server can generate for Deployments
    Pools,          \* names of NodePools
    Templates,      \* workload templates
    Taints,         \* taints of NodePools
    Tolerated,      \* the taints a template tolerates by itself
    PanicTemplates, \* those with an affinity, but no node affinity
    Labels,         \* labels of NodePools; a selector selects one
    Absent,         \* no object of this name
    None,           \* no annotation that names the NodePool
    Specs,          \* the specifications users write
    InitialSpec,    \* the one the YurtAppDaemon is created with
    PoolSpecs,      \* the NodePools users write
    InitialPools,   \* those there are at first
    Faults,         \* the faults considered, of "error", "lost", "timeout",
                    \* "list" and "crash"
    UserActions,    \* what users do, of "edit", "pool", "tamper", "remove", "delete"
    MaxEvents,      \* bound on the number of faults and user actions
    MaxStaleReads   \* bound on the reconciles that list Deployments before
                    \* their cache has seen every write, or that start before
                    \* a deletion was seen

Kinds == {"StatefulSet", "Deployment"}
DaemonSpec == [kind : Kinds, template : Templates, selector : Labels]
NodePool == [label : Labels, taints : SUBSET Taints]

\* placed: the node selector is the one that names the pool.
Workload == [pool : Pools \cup {None}, rev : Templates, placed : BOOLEAN,
             tolerates : SUBSET Taints]

ASSUME ConstantAssumption ==
    /\ Absent \notin Workload \cup NodePool /\ None \notin Pools /\ IsFiniteSet(Pools)
    /\ Tolerated \in [Templates -> SUBSET Taints]
    /\ PanicTemplates \subseteq Templates
    /\ Specs \subseteq DaemonSpec /\ InitialSpec \in Specs
    /\ PoolSpecs \subseteq NodePool
    /\ InitialPools \in [Pools -> PoolSpecs \cup {Absent}]
    /\ MaxEvents \in Nat /\ MaxStaleReads \in Nat

\* The order of the listed pools is that of a Go map: any order.
Orders(ps) == {s \in [1 .. Cardinality(ps) -> ps] : \A i, j \in DOMAIN s : s[i] = s[j] => i = j}
Status == [observed : Nat, provisioned : BOOLEAN, updated : BOOLEAN,
           nodePools : UNION {Orders(ps) : ps \in SUBSET Pools}]
Object == [phase : {"live", "terminating", "gone"}, gen : Nat, spec : Specs, status : Status]

VARIABLES
    \* the API server and its caches
    yad,         \* the YurtAppDaemon
    yadCache,    \* as its informer last saw it
    yadSynced,   \* yadCache is the server's current version
    pools,       \* pools[p] on the server
    poolCache,   \* as the informer last saw it
    lagging,     \* the NodePools written since
    workloads,   \* workloads[id] on the server
    cache,       \* as the informer last saw it
    stale,       \* the names written since
    \* the controller
    queued,      \* the YurtAppDaemon's key is in the work queue
    pc,          \* the phase of the running reconcile
    inst,        \* instance, as read
    found,       \* currentNPToWorkload, with the workloads as they were read
    matching,    \* allNameToNodePools
    todo,        \* the pools whose call the current phase has still to make
    doomed,      \* needDeleted
    failed,      \* the current phase met an error
    acted,       \* something was created or deleted
    \* the bounds
    events, staleReads,
    misled       \* something happened that no error and no event tells of

yadVars == <<yad, yadCache, yadSynced>>
poolVars == <<pools, poolCache, lagging>>
workloadVars == <<workloads, cache, stale>>
reconcileVars == <<pc, inst, found, matching, todo, doomed, failed, acted>>
boundVars == <<events, staleReads, misled>>
vars == <<yadVars, poolVars, workloadVars, queued, reconcileVars, boundVars>>

EmptyStatus == [observed |-> 0, provisioned |-> FALSE, updated |-> FALSE, nodePools |-> << >>]
InitialObject == [phase |-> "live", gen |-> 1, spec |-> InitialSpec, status |-> EmptyStatus]
Nothing == [p \in {} |-> Absent]

TypeOK ==
    /\ yad \in Object /\ yadCache \in Object /\ yadSynced \in BOOLEAN
    /\ pools \in [Pools -> NodePool \cup {Absent}]
    /\ poolCache \in [Pools -> NodePool \cup {Absent}]
    /\ lagging \subseteq Pools
    /\ workloads \in [Ids -> Workload \cup {Absent}]
    /\ cache \in [Ids -> Workload \cup {Absent}]
    /\ stale \subseteq Ids
    /\ queued \in BOOLEAN
    /\ pc \in {"idle", "list", "create", "delete", "update"}
    /\ inst \in Object
    /\ \E ps \in SUBSET Pools : found \in [ps -> [id : Ids, seen : Workload]]
    /\ \E ps \in SUBSET Pools : matching \in [ps -> NodePool]
    /\ todo \subseteq Pools /\ doomed \subseteq Ids
    /\ failed \in BOOLEAN /\ acted \in BOOLEAN
    /\ events \in 0 .. MaxEvents
    /\ staleReads \in 0 .. MaxStaleReads
    /\ misled \in BOOLEAN

-----------------------------------------------------------------------------
(* What a YurtAppDaemon asks for.                                           *)

Present(objects) == {id \in Ids : objects[id] # Absent}
OfPool(objects, p) == {id \in Present(objects) : objects[id].pool = p}
PoolsOf(objects) == {objects[id].pool : id \in Present(objects)} \ {None}
Selected(objects, spec) == {p \in Pools : objects[p] # Absent /\ objects[p].label = spec.selector}

\* The names nobody refers to any more; which one the server takes does not
\* matter.
FreeIds == {id \in Ids : /\ workloads[id] = Absent /\ cache[id] = Absent /\ id \notin doomed
                         /\ \A p \in DOMAIN found : found[p].id # id}
NewId == CHOOSE id \in FreeIds : TRUE

\* applyTemplate: the template's tolerations, and one for each taint.
ApplyTemplate(spec, p, nodePool) ==
    [pool |-> p, rev |-> spec.template, placed |-> TRUE,
     tolerates |-> Tolerated[spec.template] \cup nodePool.taints]

RevisionDiffers(workload, spec, nodePool) ==  \* mutant: taints are not compared
    ~workload.placed \/ workload.rev # spec.template

\* classifyWorkloads.  Tolerations nobody needs any more make no difference.
NeedsUpdate(workload, spec, nodePool) ==
    \/ ~workload.placed
    \/ ~ nodePool.taints \subseteq workload.tolerates
    \/ workload.rev # spec.template

-----------------------------------------------------------------------------
(* Writes to the API server, and the faults of a call.                      *)

Fault(kind) ==
    /\ kind \in Faults
    /\ events < MaxEvents
    /\ events' = events + 1

NoFault == UNCHANGED <<events, misled>>

\* A fault that is an error, and one that is not.
Reported(kind) == Fault(kind) /\ UNCHANGED misled
Unreported(kind) == Fault(kind) /\ misled' = TRUE

\* A write that changes nothing makes no new version and no event.
WriteWorkload(id, value) ==
    /\ workloads' = [workloads EXCEPT ![id] = value]
    /\ stale' = IF workloads[id] = value THEN stale ELSE stale \cup {id}
    /\ UNCHANGED cache

WriteObject(value) ==
    /\ yad' = value
    /\ yadSynced' = (yadSynced /\ value = yad)
    /\ UNCHANGED yadCache

\* DeleteWorkload; what is already gone is an error.  A lost answer is one
\* too, though the server has done the work.
DeleteWorkload(id, err) ==
    \/ /\ workloads[id] # Absent
       /\ WriteWorkload(id, Absent)
       /\ \/ ~err /\ NoFault
          \/ err /\ Reported("lost")
    \/ /\ err /\ UNCHANGED workloadVars
       /\ \/ workloads[id] = Absent /\ NoFault
          \/ Reported("error")

\* CreateWorkload; an error for which IsTimeout holds counts as none, whether
\* the server did the work or not.
CreateWorkload(p, err) ==
    \/ /\ FreeIds # {}
       /\ WriteWorkload(NewId, ApplyTemplate(inst.spec, p, matching[p]))
       /\ \/ ~err /\ (NoFault \/ Unreported("timeout"))
          \/ err /\ Reported("lost")
    \/ /\ UNCHANGED workloadVars
       /\ \/ ~err /\ Unreported("timeout")
          \/ err /\ Reported("error")

\* UpdateWorkload with all its attempts: an attempt reads the cache, applies
\* the template and writes; it is refused while the cache lags.
UpdateWorkload(p, err) ==
    LET id == found[p].id
        accepted == cache[id] # Absent /\ id \notin stale
    IN \/ /\ accepted
          /\ WriteWorkload(id, ApplyTemplate(inst.spec, p, matching[p]))
          /\ \/ ~err /\ NoFault
             \/ err /\ Reported("lost")
       \/ /\ err /\ UNCHANGED workloadVars
          /\ \/ ~accepted /\ NoFault
             \/ Reported("error")

-----------------------------------------------------------------------------
(* Reconcile.                                                               *)

\* Reconcile returns; what it held is dropped.  An error requeues the key.
Return(err) ==
    /\ pc' = "idle" /\ inst' = InitialObject
    /\ found' = Nothing /\ matching' = Nothing
    /\ todo' = {} /\ doomed' = {}
    /\ failed' = FALSE /\ acted' = FALSE
    /\ queued' = IF err THEN TRUE ELSE queued

TakeKey ==
    /\ pc = "idle" /\ queued
    /\ queued' = FALSE

SkipDeleted ==
    /\ TakeKey
    /\ yadCache.phase # "live"
    /\ UNCHANGED <<yadVars, poolVars, workloadVars, reconcileVars, boundVars>>

\* getTemplateControls, GetAllWorkloads with its claims, and
\* getNodePoolToWorkLoad: of two workloads of a pool the map keeps either, as
\* the list comes in any order; one without annotation is skipped.
ListWorkloads ==
    /\ TakeKey
    /\ yadCache.phase = "live" /\ yadCache.spec.kind = "Deployment"
    /\ IF stale = {} /\ yad.phase = "live" THEN UNCHANGED staleReads
       ELSE staleReads < MaxStaleReads /\ staleReads' = staleReads + 1
    /\ inst' = yadCache
    /\ \E kept \in [PoolsOf(cache) -> Ids] :
          /\ \A p \in DOMAIN kept : kept[p] \in OfPool(cache, p)
          /\ found' = [p \in DOMAIN kept |-> [id |-> kept[p], seen |-> cache[kept[p]]]]
    /\ pc' = "list"
    /\ misled' = (misled /\ stale # {})
    /\ UNCHANGED <<yadVars, poolVars, workloadVars, matching, todo, doomed, failed, acted,
                   events>>

\* There is no controller of StatefulSets: an error, each time.
NoControl ==
    /\ TakeKey
    /\ yadCache.phase = "live" /\ yadCache.spec.kind = "StatefulSet"
    /\ inst' = yadCache
    /\ pc' = "update" /\ failed' = TRUE
    /\ UNCHANGED <<yadVars, poolVars, workloadVars, found, matching, todo, doomed, acted,
                   boundVars>>

MissingOrOutdated ==  \* mutant: a workload that needs an update is created anew
    {p \in DOMAIN matching' : p \in DOMAIN found =>
         NeedsUpdate(found[p].seen, inst.spec, matching'[p])}

\* classifyWorkloads: the pools without workload.
Missing == DOMAIN matching' \ DOMAIN found

\* getNameToNodePools: an error of the list is dropped, and no pool matches.
ListPools ==
    /\ pc = "list"
    /\ \/ NoFault /\ matching' = [p \in Selected(poolCache, inst.spec) |-> poolCache[p]]
       \/ Unreported("list") /\ matching' = Nothing
    /\ todo' = Missing
    /\ acted' = (todo' # {})
    /\ pc' = "create"
    /\ UNCHANGED <<yadVars, poolVars, workloadVars, queued, inst, found, doomed, failed,
                   staleReads>>

\* One call of a bulk; after a failed one the others need not be made.
BulkCall(p) ==
    /\ pc \in {"create", "update"} /\ p \in todo
    /\ inst.spec.template \notin PanicTemplates
    /\ \E err \in BOOLEAN :
          /\ \/ pc = "create" /\ CreateWorkload(p, err)
             \/ pc = "update" /\ UpdateWorkload(p, err)
          /\ failed' = (failed \/ err)
    /\ todo' = todo \ {p}
    /\ UNCHANGED <<yadVars, poolVars, queued, pc, inst, found, matching, doomed, acted,
                   staleReads>>

BulkDone == todo = {} \/ failed

UnexpectedNames ==  \* mutant: deletes by the pool's name
    DOMAIN found \ DOMAIN matching

Unexpected == {found[p].id : p \in DOMAIN found \ DOMAIN matching}

\* Workloads of pools that do not match are deleted, whatever became of the
\* creates.
StartDeletes ==
    /\ pc = "create" /\ BulkDone
    /\ todo' = {}
    /\ doomed' = Unexpected
    /\ acted' = (acted \/ doomed' # {})
    /\ pc' = "delete"
    /\ UNCHANGED <<yadVars, poolVars, workloadVars, queued, inst, found, matching, failed, boundVars>>

DeleteCall(id) ==
    /\ pc = "delete" /\ id \in doomed
    /\ \E err \in BOOLEAN : DeleteWorkload(id, err) /\ failed' = (failed \/ err)
    /\ doomed' = doomed \ {id}
    /\ UNCHANGED <<yadVars, poolVars, queued, pc, inst, found, matching, todo, acted,
                   staleReads>>

\* An error of the provision ends the reconcile.
StartUpdates ==
    /\ pc = "delete" /\ doomed = {}
    /\ todo' = {p \in DOMAIN found \cap DOMAIN matching :
                   ~failed /\ NeedsUpdate(found[p].seen, inst.spec, matching[p])}
    /\ pc' = "update"
    /\ UNCHANGED <<yadVars, poolVars, workloadVars, queued, inst, found, matching, doomed,
                   failed, acted, boundVars>>

\* An error, of the updates too, returns before the status is written: what
\* manageWorkloads set to False in it is lost.
ReturnError ==
    /\ pc = "update" /\ failed
    /\ Return(TRUE)
    /\ UNCHANGED <<yadVars, poolVars, workloadVars, boundVars>>

\* manageWorkloads and calculateStatus.
NewStatus(order) ==
    [observed |-> inst.gen, provisioned |-> inst.status.provisioned \/ acted,
     updated |-> TRUE, nodePools |-> order]

\* updateYurtAppDaemon: nothing is written if the status read at the start,
\* the order of its list included, is the new one.  Otherwise it is written
\* over the version in the cache, and accepted if that is the server's.
UpdateStatus ==
    /\ pc = "update" /\ todo = {} /\ ~failed
    /\ \E order \in Orders(DOMAIN matching) :
          \/ /\ NewStatus(order) = inst.status
             /\ Return(FALSE) /\ NoFault /\ UNCHANGED yadVars
          \/ /\ NewStatus(order) # inst.status
             /\ yad.phase # "gone" /\ yadSynced
             /\ WriteObject([yad EXCEPT !.status = NewStatus(order)])
             /\ \/ Return(FALSE) /\ NoFault
                \/ Return(TRUE) /\ Reported("lost")
          \/ /\ NewStatus(order) # inst.status
             /\ \/ (yad.phase = "gone" \/ ~yadSynced) /\ NoFault
                \/ Reported("error")
             /\ Return(TRUE)
             /\ UNCHANGED yadVars
    /\ UNCHANGED <<poolVars, workloadVars, staleReads>>

\* The revisions, the workloads or their claims cannot be read or written.
ReadFails ==
    /\ pc = "idle" /\ queued /\ yadCache.phase = "live"
    /\ Reported("error")
    /\ UNCHANGED <<yadVars, poolVars, workloadVars, queued, reconcileVars, staleReads>>

Reconcile ==
    \/ SkipDeleted \/ ReadFails \/ NoControl \/ ListWorkloads \/ ListPools
    \/ \E p \in Pools : BulkCall(p)
    \/ StartDeletes
    \/ \E id \in Ids : DeleteCall(id)
    \/ StartUpdates \/ ReturnError \/ UpdateStatus

-----------------------------------------------------------------------------
(* The informers, the manager process, the users and the garbage collector. *)

SyncYurtAppDaemon ==
    /\ ~yadSynced
    /\ yadCache' = yad /\ yadSynced' = TRUE
    /\ queued' = TRUE
    /\ UNCHANGED <<yad, poolVars, workloadVars, reconcileVars, boundVars>>

SyncPoolQuietly(p) ==  \* mutant: an update of a NodePool enqueues nothing
    /\ p \in lagging
    /\ poolCache' = [poolCache EXCEPT ![p] = pools[p]]
    /\ lagging' = lagging \ {p}
    /\ queued' = (queued \/ Absent \in {poolCache[p], pools[p]}) /\ NoFault
    /\ UNCHANGED <<yadVars, pools, workloadVars, reconcileVars, staleReads>>

\* EnqueueYurtAppDaemonForNodePool: an event of a NodePool enqueues every
\* YurtAppDaemon, unless they cannot be listed.
SyncPool(p) ==
    /\ p \in lagging
    /\ poolCache' = [poolCache EXCEPT ![p] = pools[p]]
    /\ lagging' = lagging \ {p}
    /\ \/ queued' = TRUE /\ NoFault
       \/ UNCHANGED queued /\ Unreported("list")
    /\ UNCHANGED <<yadVars, pools, workloadVars, reconcileVars, staleReads>>

\* Deployments are not watched: their informer only fills the cache.
SyncWorkloads ==
    /\ stale # {}
    /\ cache' = workloads /\ stale' = {}
    /\ UNCHANGED <<yadVars, poolVars, workloads, queued, reconcileVars, boundVars>>

\* The informers' resync period enqueues every object again.
Resync ==
    /\ pc = "idle" /\ ~queued
    /\ queued' = TRUE
    /\ UNCHANGED <<yadVars, poolVars, workloadVars, reconcileVars, boundVars>>

\* The next manager lists everything.
Restart ==
    /\ Return(TRUE)
    /\ yadCache' = yad /\ yadSynced' = TRUE
    /\ poolCache' = pools /\ lagging' = {}
    /\ cache' = workloads /\ stale' = {}
    /\ UNCHANGED <<yad, pools, workloads, staleReads>>

Crash == Reported("crash") /\ Restart

\* applyTemplate follows the node affinity of a template that has only
\* another affinity: the process dies.
Panic ==
    /\ pc \in {"create", "update"} /\ todo # {}
    /\ inst.spec.template \in PanicTemplates
    /\ Restart /\ NoFault

UserAction(kind) ==
    /\ kind \in UserActions
    /\ events < MaxEvents
    /\ events' = events + 1
    /\ UNCHANGED <<queued, reconcileVars, staleReads>>

\* The webhook allows another type of template.
EditSpec(spec) ==
    /\ UserAction("edit")
    /\ yad.phase = "live" /\ spec # yad.spec
    /\ WriteObject([yad EXCEPT !.spec = spec, !.gen = @ + 1])
    /\ UNCHANGED <<poolVars, workloadVars, misled>>

\* A NodePool is created, edited or deleted.
WritePool(p, value) ==
    /\ UserAction("pool")
    /\ value # pools[p]
    /\ pools' = [pools EXCEPT ![p] = value]
    /\ lagging' = lagging \cup {p}
    /\ UNCHANGED <<yadVars, poolCache, workloadVars, misled>>

TouchWorkload(id, value) ==
    /\ workloads[id] \notin {Absent, value}
    /\ WriteWorkload(id, value)
    /\ misled' = TRUE
    /\ UNCHANGED <<yadVars, poolVars>>

\* Somebody changes the node selector, the tolerations or the annotation of
\* a Deployment.
TamperWorkload(id) ==
    /\ UserAction("tamper")
    /\ workloads[id] # Absent
    /\ \/ TouchWorkload(id, [workloads[id] EXCEPT !.placed = FALSE])
       \/ TouchWorkload(id, [workloads[id] EXCEPT !.tolerates = {}])
       \/ TouchWorkload(id, [workloads[id] EXCEPT !.pool = None])

RemoveWorkload(id) ==
    /\ UserAction("remove")
    /\ TouchWorkload(id, Absent)

\* kubectl delete: in the background, or waiting for the dependents.
DeleteYurtAppDaemon(phase) ==
    /\ UserAction("delete")
    /\ yad.phase = "live"
    /\ WriteObject([yad EXCEPT !.phase = phase])
    /\ UNCHANGED <<poolVars, workloadVars, misled>>

CollectGarbage ==
    /\ yad.phase # "live" /\ Present(workloads) # {}
    /\ workloads' = [id \in Ids |-> Absent]
    /\ stale' = stale \cup Present(workloads)
    /\ UNCHANGED <<yadVars, poolVars, cache, queued, reconcileVars, boundVars>>

FinishDeletion ==
    /\ yad.phase = "terminating" /\ Present(workloads) = {}
    /\ WriteObject([yad EXCEPT !.phase = "gone"])
    /\ UNCHANGED <<poolVars, workloadVars, queued, reconcileVars, boundVars>>

User ==
    \/ \E spec \in Specs : EditSpec(spec)
    \/ \E p \in Pools, value \in PoolSpecs \cup {Absent} : WritePool(p, value)
    \/ \E id \in Ids : TamperWorkload(id) \/ RemoveWorkload(id)
    \/ \E phase \in {"terminating", "gone"} : DeleteYurtAppDaemon(phase)

Sync == SyncYurtAppDaemon \/ SyncWorkloads \/ \E p \in Pools : SyncPool(p)
Collector == FinishDeletion \/ CollectGarbage

Init ==
    /\ yad = InitialObject /\ yadCache = InitialObject /\ yadSynced = TRUE
    /\ pools = InitialPools /\ poolCache = InitialPools /\ lagging = {}
    /\ workloads = [id \in Ids |-> Absent]
    /\ cache = [id \in Ids |-> Absent] /\ stale = {}
    /\ queued = TRUE
    /\ pc = "idle" /\ inst = InitialObject
    /\ found = Nothing /\ matching = Nothing
    /\ todo = {} /\ doomed = {}
    /\ failed = FALSE /\ acted = FALSE
    /\ events = 0 /\ staleReads = 0 /\ misled = FALSE

Next == Reconcile \/ Sync \/ Resync \/ Crash \/ Panic \/ User \/ Collector

Spec == Init /\ [][Next]_vars

\* The worker, the informers' watches, the resync timer and the garbage
\* collector keep running; users and faults owe nothing.
FairSpec ==
    /\ Spec
    /\ WF_vars(Reconcile \/ Panic)
    /\ WF_vars(SyncYurtAppDaemon)
    /\ WF_vars(SyncWorkloads)
    /\ \A p \in Pools : WF_vars(SyncPool(p))
    /\ WF_vars(Resync)
    /\ WF_vars(Collector)

-----------------------------------------------------------------------------
(* Properties.                                                              *)

Live == yad.phase = "live"

UpToDate(id, p) ==
    /\ workloads[id].placed
    /\ workloads[id].rev = yad.spec.template
    /\ pools[p].taints \subseteq workloads[id].tolerates

\* Each pool that matches has a workload that is up to date, and no workload
\* names another pool.
Served ==
    /\ PoolsOf(workloads) = Selected(pools, yad.spec)
    /\ \A p \in Selected(pools, yad.spec) : \E id \in OfPool(workloads, p) : UpToDate(id, p)

NoTwins == \A p \in Pools : Cardinality(OfPool(workloads, p)) <= 1

\* Nothing is queued, running or on its way to a cache.
Quiescent == Live /\ pc = "idle" /\ ~queued /\ yadSynced /\ lagging = {} /\ stale = {}

\* The status is about the current generation and lists the pools that match.
StatusIsRight ==
    /\ yad.status.observed = yad.gen
    /\ {yad.status.nodePools[i] : i \in DOMAIN yad.status.nodePools} = Selected(pools, yad.spec)

\* As every error requeues the key and the events of both kinds do, a
\* controller at rest has served every pool with the template and taints they
\* have now, and says so: whatever calls failed, whatever pools came, went or
\* were relabelled while it worked.  (Dropped errors and what users do to
\* Deployments wake nobody, nor does a Deployment that the list missed.)
RestMeansServed == Quiescent /\ ~misled /\ staleReads = 0 => Served /\ StatusIsRight

\* As long as no list of Deployments was stale, no pool ever has two: names
\* are generated, so only what was read prevents a second one, after crashes,
\* lost answers and timeouts too.
NoDuplicates == staleReads = 0 => NoTwins

\* applyTemplate does not fail and has a controller.
Workable == yad.spec.kind = "Deployment" /\ yad.spec.template \notin PanicTemplates

\* Once users and faults stop, the resync repairs what no event told of: the
\* pools that match are served for good, or the YurtAppDaemon is gone and its
\* Deployments with it.
Settles ==
    <>[](IF Live THEN Workable => Served ELSE Present(workloads) = {})

=============================================================================
