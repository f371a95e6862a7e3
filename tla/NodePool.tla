------------------------------ MODULE NodePool ------------------------------
(***************************************************************************)
(* The NodePool controller (src/pkg/yurtappmanager/controller/nodepool),   *)
(* its webhook (webhook/nodepool) and the conversion between its two API   *)
(* versions: node pools, nodes, the informers with the events they hand to *)
(* the controller, and the reconcile loops of the pools, which run side by *)
(* side and write the same nodes.                                          *)
(***************************************************************************)
EXTENDS Integers, Sequences, FiniteSets

CONSTANTS
    Nodes,          \* node names
    Pools,          \* pool names
    DefaultPools,   \* those the manager creates itself
    LabelKeys,      \* keys of node labels
    Keys,           \* keys of node labels and of node annotations
    TaintKeys,      \* pairs of key and effect of a taint
    PoolValues,     \* values that pools give to labels, annotations and taints
    UserValues,     \* values that users and others give to them
    None,           \* no value, no pool, no recorded attributes
    Absent,         \* no object of this name
    Specs,          \* the attributes users ask for in a pool
    InitialSpec,    \* those of the pools users created before
    InitialPool,    \* the pool the nodes are assigned to when they register
    CreateTries,    \* attempts to create a default pool
    UserTaints,     \* the taints users set by hand
    Faults,         \* the faults considered, of "error", "lost", "crash", "relist"
    UserActions,    \* what users do, of "assign", "edit", "convert", "delete",
                    \* "create", "attribute", "taint", "register", "ready"
    MaxFaults,      \* bound on the number of faults
    MaxEdits        \* bound on the number of user actions

Attributes == [attrs : [Keys -> PoolValues \cup {None}],
               taints : [TaintKeys -> PoolValues \cup {None}]]
NoAttributes == [attrs |-> [k \in Keys |-> None], taints |-> [t \in TaintKeys |-> None]]

ASSUME ConstantAssumption ==
    /\ None \notin PoolValues \cup UserValues \cup Pools \cup Attributes
    /\ PoolValues \cap UserValues = {}
    /\ LabelKeys \subseteq Keys /\ UserTaints \subseteq TaintKeys
    /\ DefaultPools \subseteq Pools
    /\ Specs \subseteq Attributes /\ InitialSpec \in Specs
    /\ InitialPool \in Pools \cup {None}
    /\ IsFiniteSet(Nodes)
    /\ CreateTries \in Nat /\ MaxFaults \in Nat /\ MaxEdits \in Nat

Values == PoolValues \cup UserValues \cup {None}

\* desired and current are the labels that name pools, prev the annotation
\* with the pool attributes the node was last given.
Node == [desired : Pools \cup {None}, current : Pools \cup {None},
         prev : Attributes \cup {None}, attrs : [Keys -> Values],
         taints : [TaintKeys -> Values], ready : BOOLEAN]

PoolStatus == [nodes : SUBSET Nodes, ready : Nat, unready : Nat]
PoolObject == [spec : Attributes, status : PoolStatus]

ASSUME AbsentIsNoObject == Absent \notin Node \cup PoolObject

VARIABLES
    \* the API server and its caches
    nodes,       \* nodes[n] on the server
    nodeCache,   \* nodes[n] as the informer last saw it
    pending,     \* the versions of n the informer has still to see
    pools,       \* pools[p] on the server
    poolCache,   \* pools[p] as its informer last saw it
    lagging,     \* the pools whose cached version is not the server's
    \* the controller: one reconcile per pool
    queued,      \* the pools whose key is in the work queue
    pc,          \* the phase of p's reconcile
    inst,        \* nodePool, as read
    remove,      \* removedNodes still to write
    update,      \* nodes that concilateNode changes, still to write
    fresh,       \* those of them that nobody wrote since they were read
    poolFresh,   \* the pool's status is to be written, and nobody wrote the pool since
    newStatus,   \* what was counted in the desired nodes
    tries,       \* attempts left to create a default pool
    \* the webhook
    deleting,    \* the pools whose deletion was admitted and not yet done
    \* the bounds
    faults, edits,
    relisted     \* some informer skipped versions

nodeVars == <<nodes, nodeCache, pending, fresh>>
poolVars == <<pools, poolCache, lagging, poolFresh>>
reconcileVars == <<pc, inst, remove, update, newStatus>>
boundVars == <<faults, edits, relisted>>
vars == <<nodeVars, poolVars, queued, reconcileVars, tries, deleting, boundVars>>

EmptyStatus == [nodes |-> {}, ready |-> 0, unready |-> 0]
NoPool == [spec |-> NoAttributes, status |-> EmptyStatus]

TypeOK ==
    /\ nodes \in [Nodes -> Node \cup {Absent}]
    /\ nodeCache \in [Nodes -> Node \cup {Absent}]
    /\ pending \in [Nodes -> Seq(Node \cup {Absent})]
    /\ pools \in [Pools -> PoolObject \cup {Absent}]
    /\ poolCache \in [Pools -> PoolObject \cup {Absent}]
    /\ lagging \subseteq Pools /\ queued \subseteq Pools /\ deleting \subseteq Pools
    /\ pc \in [Pools -> {"idle", "list", "write"}]
    /\ inst \in [Pools -> PoolObject]
    /\ remove \in [Pools -> SUBSET Nodes] /\ update \in [Pools -> SUBSET Nodes]
    /\ fresh \in [Pools -> SUBSET Nodes]
    /\ poolFresh \in [Pools -> BOOLEAN]
    /\ newStatus \in [Pools -> PoolStatus]
    /\ tries \in [DefaultPools -> 0 .. CreateTries]
    /\ faults \in 0 .. MaxFaults /\ edits \in 0 .. MaxEdits
    /\ relisted \in BOOLEAN

-----------------------------------------------------------------------------
(* What the controller writes in a node.                                    *)

Recorded(node) == IF node.prev = None THEN NoAttributes ELSE node.prev

\* conciliateLabels, conciliateAnnotations and conciliateTaints, and with
\* nothing in old mergeMap: old keys go, whoever changed their values since,
\* and new ones overwrite what was there.
Conciliate(current, old, new) ==
    [k \in DOMAIN current |-> IF new[k] # None THEN new[k]
                              ELSE IF old[k] # None THEN None ELSE current[k]]

NoRecord(node, p, spec) ==  \* mutant: the annotation is written only once
    [node EXCEPT !.current = p,
                 !.prev = IF @ = None THEN spec ELSE @,
                 !.attrs = Conciliate(@, Recorded(node).attrs, spec.attrs),
                 !.taints = Conciliate(@, Recorded(node).taints, spec.taints)]

\* concilateNode, on the node as it was read; a node whose record equals the
\* pool's attributes keeps what users changed.
ConcilateNode(node, p, spec) ==
    IF node.prev = spec THEN [node EXCEPT !.current = p]
    ELSE [node EXCEPT !.current = p,
                      !.prev = spec,
                      !.attrs = Conciliate(@, Recorded(node).attrs, spec.attrs),
                      !.taints = Conciliate(@, Recorded(node).taints, spec.taints)]

\* conciliateTaints appends without looking for a taint of the same key and
\* effect; the API server refuses a node that has two.
DuplicatesTaint(node, spec) ==
    /\ node.prev \notin {None, spec}
    /\ \E t \in TaintKeys : /\ spec.taints[t] # None
                            /\ node.prev.taints[t] = None
                            /\ node.taints[t] # None

RemoveKeepingTaints(node) ==  \* mutant: taints are left on the node
    IF node.prev = None THEN node
    ELSE [node EXCEPT !.current = None, !.prev = None,
                      !.attrs = [k \in Keys |-> IF @[k] = node.prev.attrs[k] THEN None ELSE @[k]]]

RemoveKeepingLabel(node) ==  \* mutant: only the record goes
    IF node.prev = None THEN node
    ELSE [node EXCEPT !.prev = None,
                      !.attrs = [k \in Keys |-> IF @[k] = node.prev.attrs[k] THEN None ELSE @[k]],
                      !.taints = [t \in TaintKeys |-> IF node.prev.taints[t] # None THEN None ELSE @[t]]]

\* removePoolRelatedAttrs: labels and annotations go if they still have the
\* recorded value, taints whatever their value.
RemovePoolRelatedAttrs(node) ==
    IF node.prev = None THEN node
    ELSE [node EXCEPT !.current = None,
                      !.prev = None,
                      !.attrs = [k \in Keys |-> IF @[k] = node.prev.attrs[k] THEN None ELSE @[k]],
                      !.taints = [t \in TaintKeys |-> IF node.prev.taints[t] # None THEN None ELSE @[t]]]

-----------------------------------------------------------------------------
(* Writes to the API server, and the faults of a call.                      *)

Fault(kind) ==
    /\ kind \in Faults
    /\ faults < MaxFaults
    /\ faults' = faults + 1
    /\ relisted' = (relisted \/ kind = "relist")

NoFault == UNCHANGED <<faults, relisted>>

\* A write that changes nothing makes no new version and no event.
WriteNode(n, value) ==
    /\ nodes' = [nodes EXCEPT ![n] = value]
    /\ pending' = IF nodes[n] = value THEN pending
                  ELSE [pending EXCEPT ![n] = Append(@, value)]
    /\ fresh' = IF nodes[n] = value THEN fresh
                ELSE [p \in Pools |-> fresh[p] \ {n}]
    /\ UNCHANGED nodeCache

WritePool(p, value) ==
    /\ pools' = [pools EXCEPT ![p] = value]
    /\ lagging' = IF pools[p] = value THEN lagging ELSE lagging \cup {p}
    /\ poolFresh' = [poolFresh EXCEPT ![p] = @ /\ pools[p] = value]
    /\ UNCHANGED poolCache

Current(listed) == {n \in listed : pending[n] = << >>}

-----------------------------------------------------------------------------
(* Reconcile.                                                               *)

\* Reconcile returns; what it held is dropped.  An error requeues the key.
Return(p, err) ==
    /\ pc' = [pc EXCEPT ![p] = "idle"]
    /\ inst' = [inst EXCEPT ![p] = NoPool]
    /\ remove' = [remove EXCEPT ![p] = {}]
    /\ update' = [update EXCEPT ![p] = {}]
    /\ newStatus' = [newStatus EXCEPT ![p] = EmptyStatus]
    /\ queued' = IF err THEN queued \cup {p} ELSE queued

\* The pool is gone from the cache.
SkipMissing(p) ==
    /\ pc[p] = "idle" /\ p \in queued /\ poolCache[p] = Absent
    /\ queued' = queued \ {p}
    /\ UNCHANGED <<nodeVars, poolVars, reconcileVars, tries, deleting, boundVars>>

Cached == {n \in Nodes : nodeCache[n] # Absent}
Ready(ns) == {n \in ns : nodeCache[n].ready}

\* Get, and the list of the nodes whose desired label names the pool.  What
\* concilateNode does to each of them is settled by these reads.
ListDesired(p) ==
    /\ pc[p] = "idle" /\ p \in queued /\ poolCache[p] # Absent
    /\ queued' = queued \ {p}
    /\ pc' = [pc EXCEPT ![p] = "list"]
    /\ inst' = [inst EXCEPT ![p] = poolCache[p]]
    /\ LET desired == {n \in Cached : nodeCache[n].desired = p}
       IN /\ update' = [update EXCEPT ![p] =
                  {n \in desired : ConcilateNode(nodeCache[n], p, poolCache[p].spec) # nodeCache[n]}]
          /\ fresh' = [fresh EXCEPT ![p] = Current(update'[p])]
          /\ newStatus' = [newStatus EXCEPT ![p] =
                  [nodes |-> desired, ready |-> Cardinality(Ready(desired)),
                   unready |-> Cardinality(desired \ Ready(desired))]]
    /\ poolFresh' = [poolFresh EXCEPT ![p] = p \notin lagging /\ newStatus'[p] # poolCache[p].status]
    /\ UNCHANGED <<nodes, nodeCache, pending, pools, poolCache, lagging, remove,
                   tries, deleting, boundVars>>

\* The list of the nodes whose current label names the pool, a moment later,
\* and getRemovedNodes.
ListCurrent(p) ==
    /\ pc[p] = "list"
    /\ pc' = [pc EXCEPT ![p] = "write"]
    /\ remove' = [remove EXCEPT ![p] =
           {n \in Cached \ newStatus[p].nodes : nodeCache[n].current = p}]
    /\ fresh' = [fresh EXCEPT ![p] = @ \cup Current(remove'[p])]
    /\ UNCHANGED <<nodes, nodeCache, pending, poolVars, queued, inst, update, newStatus,
                   tries, deleting, boundVars>>

\* The write of node n is refused if anybody wrote it since it was read, or
\* if the value is not valid; a lost answer is an error, though the server
\* has done the work.  The error ends the reconcile.
UpdateNode(n, value, accepted, err) ==
    \/ /\ accepted
       /\ WriteNode(n, value)
       /\ \/ ~err /\ NoFault
          \/ err /\ Fault("lost")
    \/ /\ err /\ ~accepted
       /\ NoFault
       /\ UNCHANGED nodeVars
    \/ /\ err /\ Fault("error")
       /\ UNCHANGED nodeVars

RemoveNode(p, n) ==
    /\ pc[p] = "write" /\ n \in remove[p]
    /\ \E err \in BOOLEAN :
          /\ UpdateNode(n, RemovePoolRelatedAttrs(nodes[n]), n \in fresh[p], err)
          /\ IF err THEN Return(p, TRUE)
             ELSE /\ remove' = [remove EXCEPT ![p] = @ \ {n}]
                  /\ UNCHANGED <<pc, inst, update, newStatus, queued>>
    /\ UNCHANGED <<poolVars, tries, deleting, edits>>

AddOrUpdateNode(p, n) ==
    /\ pc[p] = "write" /\ remove[p] = {} /\ n \in update[p]
    /\ \E err \in BOOLEAN :
          /\ UpdateNode(n, ConcilateNode(nodes[n], p, inst[p].spec),
                        n \in fresh[p] /\ ~DuplicatesTaint(nodes[n], inst[p].spec), err)
          /\ IF err THEN Return(p, TRUE)
             ELSE /\ update' = [update EXCEPT ![p] = @ \ {n}]
                  /\ UNCHANGED <<pc, inst, remove, newStatus, queued>>
    /\ UNCHANGED <<poolVars, tries, deleting, edits>>

\* conciliateNodePoolStatus finds nothing to update.
StatusUnchanged(p) == newStatus[p] = inst[p].status

\* The status is written if it changed, over the version that was read.
UpdateStatus(p) ==
    /\ pc[p] = "write" /\ remove[p] = {} /\ update[p] = {}
    /\ \/ StatusUnchanged(p) /\ Return(p, FALSE) /\ NoFault /\ UNCHANGED poolVars
       \/ /\ poolFresh[p] /\ pools[p] # Absent
          /\ WritePool(p, [pools[p] EXCEPT !.status = newStatus[p]])
          /\ \/ Return(p, FALSE) /\ NoFault
             \/ Return(p, TRUE) /\ Fault("lost")
       \/ /\ ~StatusUnchanged(p)
          /\ ~poolFresh[p] \/ pools[p] = Absent
          /\ Return(p, TRUE) /\ NoFault /\ UNCHANGED poolVars
    /\ UNCHANGED <<nodeVars, tries, deleting, edits>>

\* A list fails, or the write of the status.
ReconcileFails(p) ==
    /\ pc[p] = "list" \/ (pc[p] = "write" /\ remove[p] = {} /\ update[p] = {})
    /\ Fault("error")
    /\ Return(p, TRUE)
    /\ UNCHANGED <<nodeVars, poolVars, tries, deleting, edits>>

Reconcile(p) ==
    \/ SkipMissing(p) \/ ListDesired(p) \/ ListCurrent(p)
    \/ \E n \in Nodes : RemoveNode(p, n) \/ AddOrUpdateNode(p, n)
    \/ UpdateStatus(p) \/ ReconcileFails(p)

CreateForever(p) ==  \* mutant: nothing stops the attempts
    /\ tries' = [tries EXCEPT ![p] = @ - 1]
    /\ \/ pools[p] = Absent /\ WritePool(p, NoPool) /\ NoFault
       \/ Fault("error") /\ UNCHANGED poolVars
    /\ UNCHANGED <<nodeVars, queued, reconcileVars, deleting, edits>>

\* createNodePool: a pool without attributes, unless there is one already;
\* an error costs one of the attempts.
CreateDefaultPool(p) ==
    /\ tries[p] > 0
    /\ \/ /\ pools[p] = Absent
          /\ WritePool(p, NoPool)
          /\ \/ tries' = [tries EXCEPT ![p] = 0] /\ NoFault
             \/ tries' = [tries EXCEPT ![p] = @ - 1] /\ Fault("lost")
       \/ /\ pools[p] # Absent
          /\ tries' = [tries EXCEPT ![p] = 0]
          /\ NoFault /\ UNCHANGED poolVars
       \/ /\ tries' = [tries EXCEPT ![p] = @ - 1]
          /\ Fault("error") /\ UNCHANGED poolVars
    /\ UNCHANGED <<nodeVars, queued, reconcileVars, deleting, edits>>

-----------------------------------------------------------------------------
(* The informers and what their events enqueue.                             *)

NewPoolOnly(old, new) ==  \* mutant: the pool that a node leaves is not enqueued
    IF new = Absent THEN {old.current} ELSE {new.desired}

MovesOnly(old, new) ==  \* mutant: other changes of a node are not events
    CASE old = Absent -> {new.desired}
      [] new = Absent -> {old.current}
      [] OTHER -> IF new.desired # old.current THEN {old.current, new.desired} ELSE {}

\* The Create, Update and Delete handlers: the label of the pool a node is to
\* join is compared with that of the pool it was in.  (The empty key is also
\* enqueued; its reconcile finds no pool.)
Enqueued(old, new) ==
    CASE old = Absent -> {new.desired}
      [] new = Absent -> {old.current}
      [] OTHER -> IF new.desired # old.current THEN {old.current, new.desired}
                  ELSE IF old # new THEN {new.desired} ELSE {}

SeeNode(n, new, unseen) ==
    /\ nodeCache' = [nodeCache EXCEPT ![n] = new]
    /\ pending' = [pending EXCEPT ![n] = unseen]
    /\ queued' = IF nodeCache[n] = new THEN queued
                 ELSE queued \cup (Enqueued(nodeCache[n], new) \cap Pools)
    /\ UNCHANGED <<nodes, fresh, poolVars, reconcileVars, tries, deleting, edits>>

SyncNode(n) ==
    /\ pending[n] # << >>
    /\ SeeNode(n, Head(pending[n]), Tail(pending[n]))
    /\ NoFault

\* The watch breaks and the list that follows shows the last version only.
RelistNode(n) ==
    /\ Len(pending[n]) > 1
    /\ Fault("relist")
    /\ SeeNode(n, nodes[n], << >>)

SyncPool(p) ==
    /\ p \in lagging
    /\ poolCache' = [poolCache EXCEPT ![p] = pools[p]]
    /\ lagging' = lagging \ {p}
    /\ queued' = queued \cup {p}
    /\ UNCHANGED <<nodeVars, pools, poolFresh, reconcileVars, tries, deleting, boundVars>>

\* The informer's resync period enqueues every pool again; taken once the
\* caches are current, since an earlier one adds nothing their events do not.
Resync(p) ==
    /\ p \notin queued /\ pc[p] = "idle" /\ pools[p] # Absent
    /\ lagging = {} /\ \A n \in Nodes : pending[n] = << >>
    /\ queued' = queued \cup {p}
    /\ UNCHANGED <<nodeVars, poolVars, reconcileVars, tries, deleting, boundVars>>

\* The manager dies, or loses its lease; the next one lists everything and
\* creates the default pools anew.
Crash ==
    /\ Fault("crash")
    /\ pc' = [p \in Pools |-> "idle"]
    /\ inst' = [p \in Pools |-> NoPool]
    /\ remove' = [p \in Pools |-> {}] /\ update' = [p \in Pools |-> {}]
    /\ newStatus' = [p \in Pools |-> EmptyStatus]
    /\ queued' = {p \in Pools : pools[p] # Absent}
    /\ nodeCache' = nodes /\ pending' = [n \in Nodes |-> << >>]
    /\ fresh' = [p \in Pools |-> {}]
    /\ poolCache' = pools /\ lagging' = {}
    /\ poolFresh' = [p \in Pools |-> FALSE]
    /\ tries' = [p \in DefaultPools |-> CreateTries]
    /\ UNCHANGED <<nodes, pools, deleting, edits>>

-----------------------------------------------------------------------------
(* Users, kubelets and the webhook.                                         *)

UserAction(kind) ==
    /\ kind \in UserActions
    /\ edits < MaxEdits
    /\ edits' = edits + 1
    /\ UNCHANGED <<queued, reconcileVars, tries, faults, relisted>>

NewNode(p) ==
    [desired |-> p, current |-> None, prev |-> None, attrs |-> NoAttributes.attrs,
     taints |-> NoAttributes.taints, ready |-> TRUE]

\* A kubelet registers its node, or a node is deleted.
RegisterNode(n, p) ==
    /\ UserAction("register")
    /\ nodes[n] = Absent
    /\ WriteNode(n, NewNode(p))
    /\ UNCHANGED <<poolVars, deleting>>

DeleteNode(n) ==
    /\ UserAction("register")
    /\ nodes[n] # Absent
    /\ WriteNode(n, Absent)
    /\ UNCHANGED <<poolVars, deleting>>

\* The label that assigns a node to a pool is set or removed.
AssignNode(n, p) ==
    /\ UserAction("assign")
    /\ nodes[n] # Absent /\ nodes[n].desired # p
    /\ WriteNode(n, [nodes[n] EXCEPT !.desired = p])
    /\ UNCHANGED <<poolVars, deleting>>

\* Somebody sets or removes a label, an annotation or a taint of a node.
SetAttribute(n, k, value) ==
    /\ UserAction("attribute")
    /\ nodes[n] # Absent /\ nodes[n].attrs[k] # value
    /\ WriteNode(n, [nodes[n] EXCEPT !.attrs[k] = value])
    /\ UNCHANGED <<poolVars, deleting>>

SetTaint(n, t, value) ==
    /\ UserAction("taint")
    /\ nodes[n] # Absent /\ nodes[n].taints[t] # value
    /\ WriteNode(n, [nodes[n] EXCEPT !.taints[t] = value])
    /\ UNCHANGED <<poolVars, deleting>>

FlipReady(n) ==
    /\ UserAction("ready")
    /\ nodes[n] # Absent
    /\ WriteNode(n, [nodes[n] EXCEPT !.ready = ~@])
    /\ UNCHANGED <<poolVars, deleting>>

\* The defaulting webhook writes the selector anew; validation refuses
\* malformed annotations and another type.
CreatePool(p, spec) ==
    /\ UserAction("create")
    /\ pools[p] = Absent
    /\ WritePool(p, [NoPool EXCEPT !.spec = spec])
    /\ UNCHANGED <<nodeVars, deleting>>

EditPool(p, spec) ==
    /\ UserAction("edit")
    /\ pools[p] # Absent /\ pools[p].spec # spec
    /\ WritePool(p, [pools[p] EXCEPT !.spec = spec])
    /\ UNCHANGED <<nodeVars, deleting>>

\* ConvertFrom and ConvertTo: neither copies the labels.
Converted(spec) == [spec EXCEPT !.attrs = [k \in Keys |-> IF k \in LabelKeys THEN None ELSE @[k]]]

\* A pool is read in the version v1beta1 and written back.
EditConvertedPool(p) ==
    /\ UserAction("convert")
    /\ pools[p] # Absent /\ Converted(pools[p].spec) # pools[p].spec
    /\ WritePool(p, [pools[p] EXCEPT !.spec = Converted(@)])
    /\ UNCHANGED <<nodeVars, deleting>>

\* validateNodePoolDeletion, served from the cache of the nodes; the server
\* deletes the pool some time after.
AdmitDeletion(p) ==
    /\ UserAction("delete")
    /\ pools[p] # Absent /\ p \notin DefaultPools \cup deleting
    /\ \A n \in Cached : nodeCache[n].current # p
    /\ deleting' = deleting \cup {p}
    /\ UNCHANGED <<nodeVars, poolVars>>

FinishDeletion(p) ==
    /\ p \in deleting
    /\ deleting' = deleting \ {p}
    /\ WritePool(p, Absent)
    /\ UNCHANGED <<nodeVars, queued, reconcileVars, tries, boundVars>>

UserOnNode(n) ==
    \/ DeleteNode(n) \/ FlipReady(n)
    \/ \E p \in Pools \cup {None} : RegisterNode(n, p) \/ AssignNode(n, p)
    \/ \E value \in UserValues \cup {None} :
          \/ \E k \in Keys : SetAttribute(n, k, value)
          \/ \E t \in UserTaints : SetTaint(n, t, value)

UserOnPool(p) ==
    \/ \E spec \in Specs : CreatePool(p, spec) \/ EditPool(p, spec)
    \/ EditConvertedPool(p) \/ AdmitDeletion(p) \/ FinishDeletion(p)

Init ==
    /\ nodes = [n \in Nodes |-> NewNode(InitialPool)]
    /\ nodeCache = nodes
    /\ pending = [n \in Nodes |-> << >>]
    /\ pools = [p \in Pools |-> IF p \in DefaultPools THEN Absent
                                ELSE [NoPool EXCEPT !.spec = InitialSpec]]
    /\ poolCache = pools /\ lagging = {}
    /\ queued = Pools \ DefaultPools
    /\ pc = [p \in Pools |-> "idle"]
    /\ inst = [p \in Pools |-> NoPool]
    /\ remove = [p \in Pools |-> {}] /\ update = [p \in Pools |-> {}]
    /\ fresh = [p \in Pools |-> {}] /\ poolFresh = [p \in Pools |-> FALSE]
    /\ newStatus = [p \in Pools |-> EmptyStatus]
    /\ tries = [p \in DefaultPools |-> CreateTries]
    /\ deleting = {}
    /\ faults = 0 /\ edits = 0 /\ relisted = FALSE

Next ==
    \/ \E p \in Pools : Reconcile(p) \/ SyncPool(p) \/ Resync(p) \/ UserOnPool(p)
    \/ \E p \in DefaultPools : CreateDefaultPool(p)
    \/ \E n \in Nodes : SyncNode(n) \/ RelistNode(n) \/ UserOnNode(n)
    \/ Crash

Spec == Init /\ [][Next]_vars

\* The workers, the informers' watches, the resync timer, the goroutine that
\* creates the default pools and a deletion that was admitted go on; users
\* and faults owe nothing.
FairSpec ==
    /\ Spec
    /\ \A p \in Pools : /\ WF_vars(Reconcile(p)) /\ WF_vars(SyncPool(p))
                        /\ WF_vars(Resync(p)) /\ WF_vars(FinishDeletion(p))
    /\ \A p \in DefaultPools : WF_vars(CreateDefaultPool(p))
    /\ \A n \in Nodes : WF_vars(SyncNode(n))

-----------------------------------------------------------------------------
(* Properties.                                                              *)

\* Whatever two pools' reconciles, users, lost answers and crashes do to a
\* node in any order, a value that came from a pool stands in its record: the
\* node carries nothing that leaving the pool would not take away.
PoolValuesAreRecorded ==
    \A n \in Nodes : nodes[n] # Absent =>
        /\ \A k \in Keys : nodes[n].attrs[k] \in PoolValues =>
              nodes[n].attrs[k] = Recorded(nodes[n]).attrs[k]
        /\ \A t \in TaintKeys : nodes[n].taints[t] \in PoolValues =>
              nodes[n].taints[t] = Recorded(nodes[n]).taints[t]

\* A node has a record if and only if it is labelled as a member: no crash,
\* refused write or hand-over leaves one without the other.
MembersAreRecorded ==
    \A n \in Nodes : nodes[n] # Absent => (nodes[n].current = None <=> nodes[n].prev = None)

\* Nothing is queued, running or on its way to a cache.
Quiescent ==
    /\ queued = {} /\ lagging = {} /\ deleting = {}
    /\ \A p \in Pools : pc[p] = "idle"
    /\ \A n \in Nodes : pending[n] = << >>

Existing(p) == p # None /\ pools[p] # Absent

Joined(n) ==
    nodes[n] # Absent =>
        /\ Existing(nodes[n].desired) =>
              /\ nodes[n].current = nodes[n].desired
              /\ nodes[n].prev = pools[nodes[n].desired].spec
              /\ \A t \in TaintKeys \ UserTaints :
                    nodes[n].taints[t] = pools[nodes[n].desired].spec.taints[t]
        /\ Existing(nodes[n].current) => nodes[n].current = nodes[n].desired

\* What the events enqueue is enough: at rest every node is a member of the
\* pool it is assigned to, with the pool's current attributes, and of no
\* other pool, though nodes moved, pools changed and writes were refused while
\* reconciles were under way.  (Where an informer skipped versions a node
\* can stay until the next resync.)
RestMeansJoined == Quiescent /\ ~relisted => \A n \in Nodes : Joined(n)

\* At rest a pool's status names exactly its nodes and counts the ready ones,
\* though one reconcile reads the nodes twice and writes the status last.
StatusAtRest ==
    Quiescent /\ ~relisted =>
        \A p \in Pools : pools[p] # Absent =>
            LET members == {n \in Nodes : nodes[n] # Absent /\ nodes[n].desired = p}
            IN pools[p].status =
                  [nodes |-> members,
                   ready |-> Cardinality({n \in members : nodes[n].ready}),
                   unready |-> Cardinality({n \in members : ~nodes[n].ready})]

\* Once users and faults stop, every node ends up for good as a member of its
\* pool with the pool's attributes, skipped events included.  Documentation:
\* "If specified, the Taints will be added to all nodes" (nodepool_types.go).
Settles == <>[](\A n \in Nodes : Joined(n))

=============================================================================
