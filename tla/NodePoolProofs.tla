--------------------------- MODULE NodePoolProofs ---------------------------
(***************************************************************************)
(* What node pools put on a node stands in the node's record, and a node   *)
(* has a record if and only if it is a member.  At rest each node carries  *)
(* what its pool asks for, and each status counts its nodes.  For every    *)
(* set of nodes, pools, keys and values, and any number of faults and user *)
(* actions.                                                                *)
(***************************************************************************)
EXTENDS NodePool, SequenceTheorems, FiniteSetTheorems, TLAPS

\* What a node carries of pools stands in its record, which members have.
Sound(node) ==
    /\ \A k \in Keys : node.attrs[k] \in PoolValues => node.attrs[k] = Recorded(node).attrs[k]
    /\ \A t \in TaintKeys : node.taints[t] \in PoolValues => node.taints[t] = Recorded(node).taints[t]
    /\ node.current = None <=> node.prev = None

NodesSound == \A n \in Nodes : nodes[n] # Absent => Sound(nodes[n])

\* The informer has seen the last version of a node, or is still to see it.
Seen ==
    \A n \in Nodes : IF pending[n] = << >> THEN nodeCache[n] = nodes[n]
                     ELSE pending[n][Len(pending[n])] = nodes[n]

\* A node that nobody wrote since it was read is there.
Fresh == \A p \in Pools : \A n \in fresh[p] : nodes[n] # Absent

IInv == TypeOK /\ NodesSound /\ Seen /\ Fresh

\* TypeOK by its parts: the nodes, the pools, the reconciles, the bounds.
NodesTyped ==
    /\ nodes \in [Nodes -> Node \cup {Absent}]
    /\ nodeCache \in [Nodes -> Node \cup {Absent}]
    /\ pending \in [Nodes -> Seq(Node \cup {Absent})]
    /\ fresh \in [Pools -> SUBSET Nodes]

PoolsTyped ==
    /\ pools \in [Pools -> PoolObject \cup {Absent}]
    /\ poolCache \in [Pools -> PoolObject \cup {Absent}]
    /\ lagging \subseteq Pools
    /\ poolFresh \in [Pools -> BOOLEAN]

ReconcilesTyped ==
    /\ queued \subseteq Pools
    /\ pc \in [Pools -> {"idle", "list", "write"}]
    /\ inst \in [Pools -> PoolObject]
    /\ remove \in [Pools -> SUBSET Nodes] /\ update \in [Pools -> SUBSET Nodes]
    /\ newStatus \in [Pools -> PoolStatus]

Counted ==
    /\ deleting \subseteq Pools
    /\ tries \in [DefaultPools -> 0 .. CreateTries]
    /\ faults \in 0 .. MaxFaults /\ edits \in 0 .. MaxEdits
    /\ relisted \in BOOLEAN

LEMMA TypeParts == NodesTyped' /\ PoolsTyped' /\ ReconcilesTyped' /\ Counted' => TypeOK'
BY DEF TypeOK, NodesTyped, PoolsTyped, ReconcilesTyped, Counted

LEMMA PartsOfType == TypeOK => NodesTyped /\ PoolsTyped /\ ReconcilesTyped /\ Counted
BY DEF TypeOK, NodesTyped, PoolsTyped, ReconcilesTyped, Counted

\* The invariant but for the variables of one reconcile or user.
NodesKept == NodesTyped' /\ NodesSound' /\ Seen' /\ Fresh'

LEMMA NodesUntouched == IInv /\ UNCHANGED nodeVars => NodesKept
BY PartsOfType DEF IInv, NodesKept, nodeVars, NodesTyped, NodesSound, Seen, Fresh, Sound, Recorded

LEMMA PoolsUntouched == IInv /\ UNCHANGED poolVars => PoolsTyped'
BY PartsOfType DEF IInv, poolVars, PoolsTyped

LEMMA ReconcilesUntouched == IInv /\ UNCHANGED <<queued, reconcileVars>> => ReconcilesTyped'
BY PartsOfType DEF IInv, reconcileVars, ReconcilesTyped

LEMMA Together == NodesKept /\ PoolsTyped' /\ ReconcilesTyped' /\ Counted' => IInv'
BY TypeParts DEF NodesKept, IInv

-----------------------------------------------------------------------------
(* What is written in a node.                                               *)

LEMMA NoAttributesTyped == NoAttributes \in Attributes /\ NoPool \in PoolObject
<1>1. NoAttributes \in Attributes
  BY DEF NoAttributes, Attributes
<1>2. EmptyStatus \in PoolStatus
  BY DEF EmptyStatus, PoolStatus
<1>3. QED
  BY <1>1, <1>2 DEF NoPool, PoolObject

LEMMA RecordedTyped ==
    ASSUME NEW node \in Node
    PROVE  Recorded(node) \in Attributes
BY NoAttributesTyped DEF Recorded, Node

\* Conciliate on a set of keys.
LEMMA ConciliateTyped ==
    ASSUME NEW K, NEW current \in [K -> Values], NEW old,
           NEW new \in [K -> PoolValues \cup {None}]
    PROVE  Conciliate(current, old, new) \in [K -> Values]
BY DEF Conciliate, Values

LEMMA ConcilateNodeTyped ==
    ASSUME NEW node \in Node, NEW p \in Pools, NEW spec \in Attributes
    PROVE  ConcilateNode(node, p, spec) \in Node
<1>1. /\ Conciliate(node.attrs, Recorded(node).attrs, spec.attrs) \in [Keys -> Values]
      /\ Conciliate(node.taints, Recorded(node).taints, spec.taints) \in [TaintKeys -> Values]
  BY ConciliateTyped DEF Node, Attributes
<1>2. QED
  BY <1>1 DEF ConcilateNode, Node

LEMMA RemovePoolRelatedAttrsTyped ==
    ASSUME NEW node \in Node
    PROVE  RemovePoolRelatedAttrs(node) \in Node
BY DEF RemovePoolRelatedAttrs, Node, Values

\* After Conciliate a pool's value is the new one, if what was there was old.
LEMMA ConciliateSound ==
    ASSUME NEW K, NEW current \in [K -> Values], NEW old \in [K -> PoolValues \cup {None}],
           NEW new \in [K -> PoolValues \cup {None}],
           \A k \in K : current[k] \in PoolValues => current[k] = old[k]
    PROVE  \A k \in K : Conciliate(current, old, new)[k] \in PoolValues
                        => Conciliate(current, old, new)[k] = new[k]
BY ConstantAssumption DEF Conciliate

LEMMA ConcilateNodeSound ==
    ASSUME NEW node \in Node, NEW p \in Pools, NEW spec \in Attributes, Sound(node)
    PROVE  Sound(ConcilateNode(node, p, spec))
<1> DEFINE new == ConcilateNode(node, p, spec)
           attrs == Conciliate(node.attrs, Recorded(node).attrs, spec.attrs)
           taints == Conciliate(node.taints, Recorded(node).taints, spec.taints)
<1>1. p # None /\ spec # None
  BY ConstantAssumption
<1>2. CASE node.prev = spec
  <2>1. new.current = p /\ new.prev = spec /\ new.attrs = node.attrs /\ new.taints = node.taints
    BY <1>2 DEF ConcilateNode, Node
  <2>2. Recorded(new) = spec /\ Recorded(node) = spec
    BY <1>1, <1>2, <2>1 DEF Recorded
  <2>3. QED
    BY <1>1, <2>1, <2>2 DEF Sound
<1>3. CASE node.prev # spec
  <2>1. new.current = p /\ new.prev = spec /\ new.attrs = attrs /\ new.taints = taints
    BY <1>3 DEF ConcilateNode, Node
  <2>2. Recorded(new) = spec
    BY <1>1, <2>1 DEF Recorded
  <2>3. Recorded(node) \in Attributes
    BY RecordedTyped
  <2>4. \A k \in Keys : attrs[k] \in PoolValues => attrs[k] = spec.attrs[k]
    BY <2>3, ConciliateSound DEF Sound, Node, Attributes
  <2>5. \A t \in TaintKeys : taints[t] \in PoolValues => taints[t] = spec.taints[t]
    BY <2>3, ConciliateSound DEF Sound, Node, Attributes
  <2>6. QED
    BY <1>1, <2>1, <2>2, <2>4, <2>5 DEF Sound
<1>4. QED
  BY <1>2, <1>3

LEMMA RemovePoolRelatedAttrsSound ==
    ASSUME NEW node \in Node, Sound(node)
    PROVE  Sound(RemovePoolRelatedAttrs(node))
<1> DEFINE new == RemovePoolRelatedAttrs(node)
<1>1. CASE node.prev = None
  BY <1>1 DEF RemovePoolRelatedAttrs
<1>2. CASE node.prev # None
  <2>1. /\ new.current = None /\ new.prev = None
        /\ new.attrs = [k \in Keys |-> IF node.attrs[k] = node.prev.attrs[k] THEN None
                                       ELSE node.attrs[k]]
        /\ new.taints = [t \in TaintKeys |-> IF node.prev.taints[t] # None THEN None
                                             ELSE node.taints[t]]
    BY <1>2 DEF RemovePoolRelatedAttrs, Node
  <2>2. Recorded(node) = node.prev /\ node.prev \in Attributes
    BY <1>2 DEF Recorded, Node
  <2>3. \A k \in Keys : new.attrs[k] \notin PoolValues
    BY <2>1, <2>2, ConstantAssumption DEF Sound
  <2>4. \A t \in TaintKeys : new.taints[t] \notin PoolValues
    BY <2>1, <2>2, ConstantAssumption DEF Sound
  <2>5. QED
    BY <2>1, <2>3, <2>4 DEF Sound
<1>3. QED
  BY <1>1, <1>2

-----------------------------------------------------------------------------
(* Writes and faults.                                                       *)

LEMMA FaultCounted ==
    ASSUME Counted, NEW kind, Fault(kind)
    PROVE  faults' \in 0 .. MaxFaults /\ relisted' \in BOOLEAN
<1>1. MaxFaults \in Nat /\ faults \in 0 .. MaxFaults
  BY ConstantAssumption DEF Counted
<1>2. faults' \in 0 .. MaxFaults
  BY <1>1 DEF Fault
<1>3. relisted' \in BOOLEAN
  BY DEF Fault, Counted
<1>4. QED
  BY <1>2, <1>3

LEMMA NoFaultCounted == Counted /\ NoFault => faults' \in 0 .. MaxFaults /\ relisted' \in BOOLEAN
BY DEF Counted, NoFault

\* A sound value written in a node by anybody; a reconcile writes only nodes
\* that are there.
LEMMA WriteKeeps ==
    ASSUME IInv, NEW n \in Nodes, NEW value \in Node \cup {Absent}, WriteNode(n, value),
           value # Absent => Sound(value)
    PROVE  NodesKept
<1>1. NodesTyped /\ NodesSound /\ Seen /\ Fresh
  BY PartsOfType DEF IInv
<1>2. /\ \A q \in Nodes : nodes'[q] = IF q = n THEN value ELSE nodes[q]
      /\ nodes' \in [Nodes -> Node \cup {Absent}]
  BY <1>1 DEF NodesTyped, WriteNode
<1>3. NodesSound'
  BY <1>1, <1>2 DEF NodesSound, Sound, Recorded
<1>4. CASE nodes[n] = value
  <2>1. \A q \in Nodes : nodes'[q] = nodes[q]
    BY <1>2, <1>4
  <2>2. UNCHANGED <<nodeCache, pending, fresh>>
    BY <1>4 DEF WriteNode
  <2>3. NodesTyped' /\ Seen' /\ Fresh'
    BY <1>1, <1>2, <2>1, <2>2 DEF NodesTyped, Seen, Fresh
  <2>4. QED
    BY <1>3, <2>3 DEF NodesKept
<1>5. CASE nodes[n] # value
  <2>1. /\ pending' = [pending EXCEPT ![n] = Append(@, value)]
        /\ fresh' = [p \in Pools |-> fresh[p] \ {n}]
        /\ nodeCache' = nodeCache
    BY <1>5 DEF WriteNode
  <2>2. pending[n] \in Seq(Node \cup {Absent})
    BY <1>1 DEF NodesTyped
  <2>3. /\ Append(pending[n], value) \in Seq(Node \cup {Absent})
        /\ Append(pending[n], value) # << >>
        /\ Append(pending[n], value)[Len(Append(pending[n], value))] = value
    BY <2>2
  <2>4. NodesTyped'
    BY <1>1, <1>2, <2>1, <2>3 DEF NodesTyped
  <2>5. Seen'
    <3> SUFFICES ASSUME NEW q \in Nodes
                 PROVE  IF pending'[q] = << >> THEN nodeCache'[q] = nodes'[q]
                        ELSE pending'[q][Len(pending'[q])] = nodes'[q]
      BY DEF Seen
    <3>1. CASE q = n
      BY <1>1, <1>2, <2>1, <2>3, <3>1 DEF NodesTyped
    <3>2. CASE q # n
      BY <1>1, <1>2, <2>1, <3>2 DEF NodesTyped, Seen
    <3>3. QED
      BY <3>1, <3>2
  <2>6. Fresh'
    BY <1>1, <1>2, <2>1 DEF NodesTyped, Fresh
  <2>7. QED
    BY <1>3, <2>4, <2>5, <2>6 DEF NodesKept
<1>6. QED
  BY <1>4, <1>5

LEMMA UpdateNodeKeeps ==
    ASSUME IInv, NEW n \in Nodes, NEW value, NEW accepted, NEW err,
           UpdateNode(n, value, accepted, err),
           accepted => value \in Node /\ Sound(value)
    PROVE  NodesKept /\ faults' \in 0 .. MaxFaults /\ relisted' \in BOOLEAN
<1>1. Counted
  BY PartsOfType DEF IInv
<1>2. faults' \in 0 .. MaxFaults /\ relisted' \in BOOLEAN
  BY <1>1, FaultCounted, NoFaultCounted DEF UpdateNode
<1>3. CASE accepted /\ WriteNode(n, value)
  BY <1>2, <1>3, WriteKeeps
<1>4. CASE UNCHANGED nodeVars
  BY <1>2, <1>4, NodesUntouched
<1>5. QED
  BY <1>2, <1>3, <1>4 DEF UpdateNode

LEMMA WritePoolTyped ==
    ASSUME IInv, NEW p \in Pools, NEW value \in PoolObject \cup {Absent}, WritePool(p, value)
    PROVE  PoolsTyped'
<1>1. PoolsTyped
  BY PartsOfType DEF IInv
<1>2. pools' \in [Pools -> PoolObject \cup {Absent}] /\ poolCache' \in [Pools -> PoolObject \cup {Absent}]
  BY <1>1 DEF PoolsTyped, WritePool
<1>3. lagging' \subseteq Pools
  BY <1>1 DEF PoolsTyped, WritePool
<1>4. poolFresh' \in [Pools -> BOOLEAN]
  BY <1>1 DEF PoolsTyped, WritePool
<1>5. QED
  BY <1>2, <1>3, <1>4 DEF PoolsTyped

LEMMA ReturnTyped ==
    ASSUME IInv, NEW p \in Pools, NEW err, Return(p, err)
    PROVE  ReconcilesTyped'
<1>1. ReconcilesTyped
  BY PartsOfType DEF IInv
<1>2. NoPool \in PoolObject /\ EmptyStatus \in PoolStatus
  BY NoAttributesTyped DEF EmptyStatus, PoolStatus
<1>3. queued' \subseteq Pools
  BY <1>1 DEF ReconcilesTyped, Return
<1>4. QED
  BY <1>1, <1>2, <1>3 DEF ReconcilesTyped, Return

-----------------------------------------------------------------------------
(* Reconcile.                                                               *)

LEMMA CountedUntouched == IInv /\ UNCHANGED <<tries, deleting, boundVars>> => Counted'
BY PartsOfType DEF IInv, boundVars, Counted

LEMMA SkipMissingStep ==
    ASSUME IInv, NEW p \in Pools, SkipMissing(p)
    PROVE  IInv'
<1>1. NodesKept /\ PoolsTyped' /\ Counted'
  BY NodesUntouched, PoolsUntouched, CountedUntouched DEF SkipMissing
<1>2. ReconcilesTyped'
  BY PartsOfType DEF IInv, SkipMissing, ReconcilesTyped, reconcileVars
<1>3. QED
  BY <1>1, <1>2, Together

\* What is counted in a list of nodes.
LEMMA Count ==
    ASSUME NEW ns \in SUBSET Nodes
    PROVE  [nodes |-> ns, ready |-> Cardinality(Ready(ns)),
            unready |-> Cardinality(ns \ Ready(ns))] \in PoolStatus
<1>1. IsFiniteSet(Ready(ns)) /\ IsFiniteSet(ns \ Ready(ns))
  BY ConstantAssumption, FS_Subset DEF Ready
<1>2. Cardinality(Ready(ns)) \in Nat /\ Cardinality(ns \ Ready(ns)) \in Nat
  BY <1>1, FS_CardinalityType
<1>3. QED
  BY <1>2 DEF PoolStatus

\* Current nodes among the cached ones are on the server.
LEMMA CurrentAreThere ==
    ASSUME IInv, NEW ns \in SUBSET Cached
    PROVE  Current(ns) \subseteq Nodes /\ \A n \in Current(ns) : nodes[n] # Absent
BY DEF IInv, Seen, Cached, Current

LEMMA ListDesiredStep ==
    ASSUME IInv, NEW p \in Pools, ListDesired(p)
    PROVE  IInv'
<1> DEFINE desired == {n \in Cached : nodeCache[n].desired = p}
<1>1. NodesTyped /\ PoolsTyped /\ ReconcilesTyped /\ NodesSound /\ Seen /\ Fresh
  BY PartsOfType DEF IInv
<1>2. /\ poolCache[p] \in PoolObject
      /\ queued' = queued \ {p}
      /\ pc' = [pc EXCEPT ![p] = "list"]
      /\ inst' = [inst EXCEPT ![p] = poolCache[p]]
      /\ UNCHANGED <<nodes, nodeCache, pending, pools, poolCache, lagging, remove>>
      /\ UNCHANGED <<tries, deleting, boundVars>>
  BY <1>1 DEF PoolsTyped, ListDesired
<1>3. /\ update' = [update EXCEPT ![p] =
             {n \in desired : ConcilateNode(nodeCache[n], p, poolCache[p].spec) # nodeCache[n]}]
      /\ fresh' = [fresh EXCEPT ![p] = Current(update'[p])]
      /\ newStatus' = [newStatus EXCEPT ![p] =
             [nodes |-> desired, ready |-> Cardinality(Ready(desired)),
              unready |-> Cardinality(desired \ Ready(desired))]]
  BY DEF ListDesired
<1>4. desired \subseteq Nodes /\ update'[p] \subseteq desired /\ desired \subseteq Cached
  BY <1>1, <1>3 DEF Cached, ReconcilesTyped
<1>5. ReconcilesTyped'
  <2>1. newStatus' \in [Pools -> PoolStatus]
    BY <1>1, <1>3, <1>4, Count DEF ReconcilesTyped
  <2>2. update' \in [Pools -> SUBSET Nodes]
    BY <1>1, <1>3, <1>4 DEF ReconcilesTyped
  <2>3. QED
    BY <1>1, <1>2, <2>1, <2>2 DEF ReconcilesTyped
<1>6. /\ Current(update'[p]) \subseteq Nodes
      /\ \A n \in Current(update'[p]) : nodes[n] # Absent
  BY <1>4, CurrentAreThere
<1>7. NodesTyped' /\ Fresh'
  BY <1>1, <1>2, <1>3, <1>6 DEF NodesTyped, Fresh
<1>8. NodesSound' /\ Seen'
  BY <1>1, <1>2 DEF NodesSound, Seen, Sound, Recorded
<1>9. poolFresh' \in [Pools -> BOOLEAN]
  BY <1>1 DEF PoolsTyped, ListDesired
<1>10. PoolsTyped' /\ Counted'
  BY <1>1, <1>2, <1>9, CountedUntouched DEF PoolsTyped
<1>11. QED
  BY <1>5, <1>7, <1>8, <1>10, Together DEF NodesKept

LEMMA ListCurrentStep ==
    ASSUME IInv, NEW p \in Pools, ListCurrent(p)
    PROVE  IInv'
<1>1. NodesTyped /\ ReconcilesTyped /\ NodesSound /\ Seen /\ Fresh
  BY PartsOfType DEF IInv
<1>2. /\ remove' = [remove EXCEPT ![p] =
             {n \in Cached \ newStatus[p].nodes : nodeCache[n].current = p}]
      /\ fresh' = [fresh EXCEPT ![p] = @ \cup Current(remove'[p])]
      /\ pc' = [pc EXCEPT ![p] = "write"]
      /\ UNCHANGED <<nodes, nodeCache, pending, poolVars, queued, inst, update, newStatus>>
      /\ UNCHANGED <<tries, deleting, boundVars>>
  BY DEF ListCurrent
<1>3. remove'[p] \subseteq Cached /\ remove'[p] \subseteq Nodes
  BY <1>1, <1>2 DEF ReconcilesTyped, Cached
<1>4. ReconcilesTyped'
  BY <1>1, <1>2, <1>3 DEF ReconcilesTyped
<1>5. /\ Current(remove'[p]) \subseteq Nodes
      /\ \A n \in Current(remove'[p]) : nodes[n] # Absent
  BY <1>3, CurrentAreThere
<1>6. NodesTyped' /\ Fresh'
  BY <1>1, <1>2, <1>5 DEF NodesTyped, Fresh
<1>7. NodesSound' /\ Seen'
  BY <1>1, <1>2 DEF NodesSound, Seen, Sound, Recorded
<1>8. PoolsTyped' /\ Counted'
  BY <1>2, PoolsUntouched, CountedUntouched
<1>9. QED
  BY <1>4, <1>6, <1>7, <1>8, Together DEF NodesKept

LEMMA RemoveNodeStep ==
    ASSUME IInv, NEW p \in Pools, NEW n \in Nodes, RemoveNode(p, n)
    PROVE  IInv'
<1>1. NodesTyped /\ ReconcilesTyped /\ Counted /\ NodesSound /\ Fresh
  BY PartsOfType DEF IInv
<1>2. PICK err \in BOOLEAN :
         /\ UpdateNode(n, RemovePoolRelatedAttrs(nodes[n]), n \in fresh[p], err)
         /\ IF err THEN Return(p, TRUE)
            ELSE /\ remove' = [remove EXCEPT ![p] = @ \ {n}]
                 /\ UNCHANGED <<pc, inst, update, newStatus, queued>>
  BY DEF RemoveNode
<1>3. n \in fresh[p] => nodes[n] \in Node /\ Sound(nodes[n])
  BY <1>1 DEF NodesTyped, NodesSound, Fresh
<1>4. n \in fresh[p] => /\ RemovePoolRelatedAttrs(nodes[n]) \in Node
                        /\ Sound(RemovePoolRelatedAttrs(nodes[n]))
  BY <1>3, RemovePoolRelatedAttrsTyped, RemovePoolRelatedAttrsSound
<1>5. NodesKept /\ faults' \in 0 .. MaxFaults /\ relisted' \in BOOLEAN
  BY <1>2, <1>4, UpdateNodeKeeps
<1>6. ReconcilesTyped'
  <2>1. CASE err
    BY <1>2, <2>1, ReturnTyped
  <2>2. CASE ~err
    BY <1>1, <1>2, <2>2 DEF ReconcilesTyped
  <2>3. QED
    BY <2>1, <2>2
<1>7. UNCHANGED <<poolVars, tries, deleting, edits>>
  BY DEF RemoveNode
<1>8. PoolsTyped' /\ Counted'
  BY <1>1, <1>5, <1>7, PoolsUntouched DEF Counted
<1>9. QED
  BY <1>5, <1>6, <1>8, Together

LEMMA AddOrUpdateNodeStep ==
    ASSUME IInv, NEW p \in Pools, NEW n \in Nodes, AddOrUpdateNode(p, n)
    PROVE  IInv'
<1> DEFINE accepted == n \in fresh[p] /\ ~DuplicatesTaint(nodes[n], inst[p].spec)
<1>1. NodesTyped /\ ReconcilesTyped /\ Counted /\ NodesSound /\ Fresh
  BY PartsOfType DEF IInv
<1>2. PICK err \in BOOLEAN :
         /\ UpdateNode(n, ConcilateNode(nodes[n], p, inst[p].spec), accepted, err)
         /\ IF err THEN Return(p, TRUE)
            ELSE /\ update' = [update EXCEPT ![p] = @ \ {n}]
                 /\ UNCHANGED <<pc, inst, remove, newStatus, queued>>
  BY DEF AddOrUpdateNode
<1>3. n \in fresh[p] => nodes[n] \in Node /\ Sound(nodes[n])
  BY <1>1 DEF NodesTyped, NodesSound, Fresh
<1>4. inst[p].spec \in Attributes
  BY <1>1 DEF ReconcilesTyped, PoolObject
<1>5. n \in fresh[p] => /\ ConcilateNode(nodes[n], p, inst[p].spec) \in Node
                        /\ Sound(ConcilateNode(nodes[n], p, inst[p].spec))
  BY <1>3, <1>4, ConcilateNodeTyped, ConcilateNodeSound
<1>6. NodesKept /\ faults' \in 0 .. MaxFaults /\ relisted' \in BOOLEAN
  <2> HIDE DEF accepted
  <2>1. accepted => n \in fresh[p]
    BY DEF accepted
  <2>2. QED
    BY <1>2, <1>5, <2>1, UpdateNodeKeeps
<1>7. ReconcilesTyped'
  <2>1. CASE err
    BY <1>2, <2>1, ReturnTyped
  <2>2. CASE ~err
    BY <1>1, <1>2, <2>2 DEF ReconcilesTyped
  <2>3. QED
    BY <2>1, <2>2
<1>8. UNCHANGED <<poolVars, tries, deleting, edits>>
  BY DEF AddOrUpdateNode
<1>9. PoolsTyped' /\ Counted'
  BY <1>1, <1>6, <1>8, PoolsUntouched DEF Counted
<1>10. QED
  BY <1>6, <1>7, <1>9, Together

LEMMA UpdateStatusStep ==
    ASSUME IInv, NEW p \in Pools, UpdateStatus(p)
    PROVE  IInv'
<1>1. PoolsTyped /\ ReconcilesTyped /\ Counted
  BY PartsOfType DEF IInv
<1>2. ReconcilesTyped'
  BY ReturnTyped DEF UpdateStatus
<1>3. NodesKept
  BY NodesUntouched DEF UpdateStatus
<1>4. Counted'
  <2>1. UNCHANGED <<tries, deleting, edits>> /\ (NoFault \/ Fault("lost"))
    BY DEF UpdateStatus
  <2>2. faults' \in 0 .. MaxFaults /\ relisted' \in BOOLEAN
    BY <1>1, <2>1, FaultCounted, NoFaultCounted
  <2>3. QED
    BY <1>1, <2>1, <2>2 DEF Counted
<1>5. PoolsTyped'
  <2>1. CASE UNCHANGED poolVars
    BY <2>1, PoolsUntouched
  <2>2. CASE /\ pools[p] # Absent
             /\ WritePool(p, [pools[p] EXCEPT !.status = newStatus[p]])
    <3>1. pools[p] \in PoolObject /\ newStatus[p] \in PoolStatus
      BY <1>1, <2>2 DEF PoolsTyped, ReconcilesTyped
    <3>2. [pools[p] EXCEPT !.status = newStatus[p]] \in PoolObject
      BY <3>1 DEF PoolObject
    <3>3. QED
      BY <2>2, <3>2, WritePoolTyped
  <2>3. QED
    BY <2>1, <2>2 DEF UpdateStatus
<1>6. QED
  BY <1>2, <1>3, <1>4, <1>5, Together

LEMMA ReconcileFailsStep ==
    ASSUME IInv, NEW p \in Pools, ReconcileFails(p)
    PROVE  IInv'
<1>1. Counted
  BY PartsOfType DEF IInv
<1>2. ReconcilesTyped'
  BY ReturnTyped DEF ReconcileFails
<1>3. NodesKept /\ PoolsTyped'
  BY NodesUntouched, PoolsUntouched DEF ReconcileFails
<1>4. Counted'
  BY <1>1, FaultCounted DEF ReconcileFails, Counted
<1>5. QED
  BY <1>2, <1>3, <1>4, Together

LEMMA CreateDefaultPoolStep ==
    ASSUME IInv, NEW p \in DefaultPools, CreateDefaultPool(p)
    PROVE  IInv'
<1>1. Counted /\ p \in Pools /\ CreateTries \in Nat
  BY PartsOfType, ConstantAssumption DEF IInv
<1>2. NodesKept /\ ReconcilesTyped'
  BY NodesUntouched, ReconcilesUntouched DEF CreateDefaultPool
<1>3. PoolsTyped'
  BY <1>1, WritePoolTyped, PoolsUntouched, NoAttributesTyped DEF CreateDefaultPool
<1>4. faults' \in 0 .. MaxFaults /\ relisted' \in BOOLEAN
  <2>1. NoFault \/ Fault("lost") \/ Fault("error")
    BY DEF CreateDefaultPool
  <2>2. QED
    BY <1>1, <2>1, FaultCounted, NoFaultCounted
<1>5. tries' \in [DefaultPools -> 0 .. CreateTries]
  <2>1. tries[p] > 0 /\ tries[p] \in 0 .. CreateTries
    BY <1>1 DEF CreateDefaultPool, Counted
  <2>2. 0 \in 0 .. CreateTries /\ tries[p] - 1 \in 0 .. CreateTries
    BY <1>1, <2>1
  <2>3. \E left \in 0 .. CreateTries : tries' = [tries EXCEPT ![p] = left]
    BY <2>2 DEF CreateDefaultPool
  <2>4. QED
    BY <1>1, <2>3 DEF Counted
<1>6. Counted'
  BY <1>1, <1>4, <1>5 DEF CreateDefaultPool, Counted
<1>7. QED
  BY <1>2, <1>3, <1>6, Together

-----------------------------------------------------------------------------
(* The informers and the manager's death.                                   *)

\* The cache takes over a version of a node, and the last one last.
LEMMA SeeNodeKeeps ==
    ASSUME IInv, NEW n \in Nodes, NEW new \in Node \cup {Absent},
           NEW unseen \in Seq(Node \cup {Absent}), SeeNode(n, new, unseen),
           IF unseen = << >> THEN new = nodes[n] ELSE unseen[Len(unseen)] = nodes[n]
    PROVE  NodesKept /\ PoolsTyped' /\ ReconcilesTyped'
<1>1. NodesTyped /\ ReconcilesTyped /\ NodesSound /\ Seen /\ Fresh
  BY PartsOfType DEF IInv
<1>2. /\ nodeCache' = [nodeCache EXCEPT ![n] = new]
      /\ pending' = [pending EXCEPT ![n] = unseen]
      /\ UNCHANGED <<nodes, fresh, poolVars, reconcileVars>>
  BY DEF SeeNode
<1>3. queued' \subseteq Pools
  BY <1>1 DEF ReconcilesTyped, SeeNode
<1>4. NodesTyped'
  BY <1>1, <1>2 DEF NodesTyped
<1>5. NodesSound' /\ Fresh'
  BY <1>1, <1>2 DEF NodesSound, Sound, Recorded, Fresh
<1>6. Seen'
  <2> SUFFICES ASSUME NEW q \in Nodes
               PROVE  IF pending'[q] = << >> THEN nodeCache'[q] = nodes'[q]
                      ELSE pending'[q][Len(pending'[q])] = nodes'[q]
    BY DEF Seen
  <2>1. CASE q = n
    BY <1>1, <1>2, <2>1 DEF NodesTyped
  <2>2. CASE q # n
    BY <1>1, <1>2, <2>2 DEF NodesTyped, Seen
  <2>3. QED
    BY <2>1, <2>2
<1>7. PoolsTyped' /\ ReconcilesTyped'
  BY <1>1, <1>2, <1>3, PoolsUntouched DEF ReconcilesTyped, reconcileVars
<1>8. QED
  BY <1>4, <1>5, <1>6, <1>7 DEF NodesKept

\* What is left of a sequence ends as it did.
LEMMA LastOfTail ==
    ASSUME NEW S, NEW s \in Seq(S), s # << >>
    PROVE  /\ Head(s) \in S /\ Tail(s) \in Seq(S)
           /\ IF Tail(s) = << >> THEN Head(s) = s[Len(s)]
              ELSE Tail(s)[Len(Tail(s))] = s[Len(s)]
<1> DEFINE t == Tail(s)
<1>1. Head(s) \in S /\ t \in Seq(S) /\ Len(t) = Len(s) - 1
  BY HeadTailProperties
<1>2. Len(s) \in Nat \ {0} /\ Head(s) = s[1]
  BY EmptySeq
<1>3. \A i \in 1 .. Len(t) : t[i] = s[i + 1]
  BY HeadTailProperties
<1> HIDE DEF t
<1>4. CASE t = << >>
  <2>1. Len(t) = 0
    BY <1>4, EmptySeq
  <2>2. Len(s) = 1
    BY <1>1, <1>2, <2>1
  <2>3. QED
    BY <1>1, <1>2, <1>4, <2>2 DEF t
<1>5. CASE t # << >>
  <2>1. Len(t) \in Nat \ {0}
    BY <1>1, <1>5, EmptySeq
  <2>2. t[Len(t)] = s[Len(t) + 1] /\ Len(t) + 1 = Len(s)
    BY <1>1, <1>2, <1>3, <2>1
  <2>3. QED
    BY <1>1, <1>5, <2>2 DEF t
<1>6. QED
  BY <1>4, <1>5

LEMMA SyncNodeStep ==
    ASSUME IInv, NEW n \in Nodes, SyncNode(n)
    PROVE  IInv'
<1>1. NodesTyped /\ Seen /\ Counted
  BY PartsOfType DEF IInv
<1>2. pending[n] \in Seq(Node \cup {Absent}) /\ pending[n] # << >>
  BY <1>1 DEF NodesTyped, SyncNode
<1>3. /\ Head(pending[n]) \in Node \cup {Absent}
      /\ Tail(pending[n]) \in Seq(Node \cup {Absent})
      /\ IF Tail(pending[n]) = << >> THEN Head(pending[n]) = pending[n][Len(pending[n])]
         ELSE Tail(pending[n])[Len(Tail(pending[n]))] = pending[n][Len(pending[n])]
  BY <1>2, LastOfTail
<1>4. pending[n][Len(pending[n])] = nodes[n]
  BY <1>1, <1>2 DEF Seen
<1>5. NodesKept /\ PoolsTyped' /\ ReconcilesTyped'
  BY <1>3, <1>4, SeeNodeKeeps DEF SyncNode
<1>6. Counted'
  BY <1>1, NoFaultCounted DEF SyncNode, SeeNode, Counted
<1>7. QED
  BY <1>5, <1>6, Together

LEMMA RelistNodeStep ==
    ASSUME IInv, NEW n \in Nodes, RelistNode(n)
    PROVE  IInv'
<1>1. NodesTyped /\ Counted
  BY PartsOfType DEF IInv
<1>2. nodes[n] \in Node \cup {Absent} /\ << >> \in Seq(Node \cup {Absent})
  BY <1>1 DEF NodesTyped
<1>3. NodesKept /\ PoolsTyped' /\ ReconcilesTyped'
  BY <1>2, SeeNodeKeeps DEF RelistNode
<1>4. Counted'
  BY <1>1, FaultCounted DEF RelistNode, SeeNode, Counted
<1>5. QED
  BY <1>3, <1>4, Together

LEMMA SyncPoolStep ==
    ASSUME IInv, NEW p \in Pools, SyncPool(p)
    PROVE  IInv'
<1>1. PoolsTyped /\ ReconcilesTyped
  BY PartsOfType DEF IInv
<1>2. NodesKept /\ Counted'
  BY NodesUntouched, CountedUntouched DEF SyncPool
<1>3. PoolsTyped'
  BY <1>1 DEF PoolsTyped, SyncPool
<1>4. ReconcilesTyped'
  BY <1>1 DEF ReconcilesTyped, SyncPool, reconcileVars
<1>5. QED
  BY <1>2, <1>3, <1>4, Together

LEMMA ResyncStep ==
    ASSUME IInv, NEW p \in Pools, Resync(p)
    PROVE  IInv'
<1>1. NodesKept /\ PoolsTyped' /\ Counted'
  BY NodesUntouched, PoolsUntouched, CountedUntouched DEF Resync
<1>2. ReconcilesTyped'
  BY PartsOfType DEF IInv, ReconcilesTyped, Resync, reconcileVars
<1>3. QED
  BY <1>1, <1>2, Together

\* Whoever starts knows what the server has, and holds nothing.
LEMMA CrashStep ==
    ASSUME IInv, Crash
    PROVE  IInv'
<1>1. NodesTyped /\ PoolsTyped /\ NodesSound /\ Counted
  BY PartsOfType DEF IInv
<1>2. NodesTyped' /\ NodesSound' /\ Seen' /\ Fresh'
  BY <1>1 DEF NodesTyped, NodesSound, Sound, Recorded, Seen, Fresh, Crash
<1>3. PoolsTyped'
  BY <1>1 DEF PoolsTyped, Crash
<1>4. ReconcilesTyped'
  BY NoAttributesTyped DEF ReconcilesTyped, Crash, EmptyStatus, PoolStatus
<1>5. Counted'
  <2>1. faults' \in 0 .. MaxFaults /\ relisted' \in BOOLEAN
    BY <1>1, FaultCounted DEF Crash
  <2>2. tries' \in [DefaultPools -> 0 .. CreateTries]
    BY ConstantAssumption DEF Crash
  <2>3. QED
    BY <1>1, <2>1, <2>2 DEF Counted, Crash
<1>6. QED
  BY <1>2, <1>3, <1>4, <1>5, Together DEF NodesKept

-----------------------------------------------------------------------------
(* Users, kubelets and the webhook.                                         *)

\* A user action leaves the reconciles and all bounds but its own.
LEMMA UserActionKeeps ==
    ASSUME IInv, NEW kind, UserAction(kind)
    PROVE  ReconcilesTyped' /\ (deleting' \subseteq Pools => Counted')
<1>1. Counted /\ ReconcilesTyped'
  BY PartsOfType, ReconcilesUntouched DEF IInv, UserAction
<1>2. edits' \in 0 .. MaxEdits
  BY <1>1, ConstantAssumption DEF UserAction, Counted
<1>3. deleting' \subseteq Pools => Counted'
  BY <1>1, <1>2 DEF UserAction, Counted
<1>4. QED
  BY <1>1, <1>3

\* A user's write of a node.
LEMMA UserWriteKeeps ==
    ASSUME IInv, NEW kind, UserAction(kind), NEW n \in Nodes, NEW value \in Node \cup {Absent},
           WriteNode(n, value), value # Absent => Sound(value), UNCHANGED <<poolVars, deleting>>
    PROVE  IInv'
<1>1. deleting' \subseteq Pools
  BY PartsOfType DEF IInv, Counted
<1>2. QED
  BY <1>1, UserActionKeeps, WriteKeeps, PoolsUntouched, Together

LEMMA RegisterNodeStep ==
    ASSUME IInv, NEW n \in Nodes, NEW p \in Pools \cup {None}, RegisterNode(n, p)
    PROVE  IInv'
<1>1. NewNode(p) \in Node
  BY NoAttributesTyped DEF NewNode, Node, Values, NoAttributes
<1>2. Sound(NewNode(p))
  BY ConstantAssumption DEF Sound, NewNode, NoAttributes
<1>3. QED
  BY <1>1, <1>2, UserWriteKeeps DEF RegisterNode

LEMMA DeleteNodeStep ==
    ASSUME IInv, NEW n \in Nodes, DeleteNode(n)
    PROVE  IInv'
BY UserWriteKeeps DEF DeleteNode

\* What a user finds in a node that is there.
LEMMA NodeFound ==
    ASSUME IInv, NEW n \in Nodes, nodes[n] # Absent
    PROVE  nodes[n] \in Node /\ Sound(nodes[n])
BY PartsOfType DEF IInv, NodesTyped, NodesSound

LEMMA AssignNodeStep ==
    ASSUME IInv, NEW n \in Nodes, NEW p \in Pools \cup {None}, AssignNode(n, p)
    PROVE  IInv'
<1> DEFINE value == [nodes[n] EXCEPT !.desired = p]
<1>1. nodes[n] \in Node /\ Sound(nodes[n])
  BY NodeFound DEF AssignNode
<1>2. value \in Node
  BY <1>1 DEF Node
<1>3. /\ value.attrs = nodes[n].attrs /\ value.taints = nodes[n].taints
      /\ value.prev = nodes[n].prev /\ value.current = nodes[n].current
  BY <1>1 DEF Node
<1>4. Sound(value)
  BY <1>1, <1>3 DEF Sound, Recorded
<1>5. QED
  BY <1>2, <1>4, UserWriteKeeps DEF AssignNode

LEMMA FlipReadyStep ==
    ASSUME IInv, NEW n \in Nodes, FlipReady(n)
    PROVE  IInv'
<1> DEFINE value == [nodes[n] EXCEPT !.ready = ~@]
<1>1. nodes[n] \in Node /\ Sound(nodes[n])
  BY NodeFound DEF FlipReady
<1>2. value \in Node
  BY <1>1 DEF Node
<1>3. /\ value.attrs = nodes[n].attrs /\ value.taints = nodes[n].taints
      /\ value.prev = nodes[n].prev /\ value.current = nodes[n].current
  BY <1>1 DEF Node
<1>4. Sound(value)
  BY <1>1, <1>3 DEF Sound, Recorded
<1>5. QED
  BY <1>2, <1>4, UserWriteKeeps DEF FlipReady

LEMMA SetAttributeStep ==
    ASSUME IInv, NEW n \in Nodes, NEW k \in Keys, NEW v \in UserValues \cup {None},
           SetAttribute(n, k, v)
    PROVE  IInv'
<1> DEFINE value == [nodes[n] EXCEPT !.attrs[k] = v]
<1>1. nodes[n] \in Node /\ Sound(nodes[n])
  BY NodeFound DEF SetAttribute
<1>2. v \notin PoolValues /\ v \in Values
  BY ConstantAssumption DEF Values
<1>3. value \in Node
  BY <1>1, <1>2 DEF Node
<1>4. /\ value.attrs = [nodes[n].attrs EXCEPT ![k] = v] /\ value.taints = nodes[n].taints
      /\ value.prev = nodes[n].prev /\ value.current = nodes[n].current
      /\ nodes[n].attrs \in [Keys -> Values]
  BY <1>1 DEF Node
<1>5. Sound(value)
  BY <1>1, <1>2, <1>4 DEF Sound, Recorded
<1>6. QED
  BY <1>3, <1>5, UserWriteKeeps DEF SetAttribute

LEMMA SetTaintStep ==
    ASSUME IInv, NEW n \in Nodes, NEW t \in TaintKeys, NEW v \in UserValues \cup {None},
           SetTaint(n, t, v)
    PROVE  IInv'
<1> DEFINE value == [nodes[n] EXCEPT !.taints[t] = v]
<1>1. nodes[n] \in Node /\ Sound(nodes[n])
  BY NodeFound DEF SetTaint
<1>2. v \notin PoolValues /\ v \in Values
  BY ConstantAssumption DEF Values
<1>3. value \in Node
  BY <1>1, <1>2 DEF Node
<1>4. /\ value.taints = [nodes[n].taints EXCEPT ![t] = v] /\ value.attrs = nodes[n].attrs
      /\ value.prev = nodes[n].prev /\ value.current = nodes[n].current
      /\ nodes[n].taints \in [TaintKeys -> Values]
  BY <1>1 DEF Node
<1>5. Sound(value)
  BY <1>1, <1>2, <1>4 DEF Sound, Recorded
<1>6. QED
  BY <1>3, <1>5, UserWriteKeeps DEF SetTaint

LEMMA UserOnNodeStep ==
    ASSUME IInv, NEW n \in Nodes, UserOnNode(n)
    PROVE  IInv'
<1>1. UserTaints \subseteq TaintKeys
  BY ConstantAssumption
<1>2. QED
  BY <1>1, DeleteNodeStep, FlipReadyStep, RegisterNodeStep, AssignNodeStep, SetAttributeStep,
     SetTaintStep DEF UserOnNode

\* A user's write of a pool.
LEMMA UserPoolKeeps ==
    ASSUME IInv, NEW kind, UserAction(kind), NEW p \in Pools, NEW value \in PoolObject,
           WritePool(p, value), UNCHANGED <<nodeVars, deleting>>
    PROVE  IInv'
<1>1. deleting' \subseteq Pools
  BY PartsOfType DEF IInv, Counted
<1>2. QED
  BY <1>1, UserActionKeeps, WritePoolTyped, NodesUntouched, Together

LEMMA SpecTyped ==
    ASSUME NEW pool \in PoolObject, NEW spec \in Attributes
    PROVE  [pool EXCEPT !.spec = spec] \in PoolObject
BY DEF PoolObject

LEMMA UserOnPoolStep ==
    ASSUME IInv, NEW p \in Pools, UserOnPool(p)
    PROVE  IInv'
<1>1. PoolsTyped /\ Counted /\ Specs \subseteq Attributes
  BY PartsOfType, ConstantAssumption DEF IInv
<1>2. pools[p] # Absent => pools[p] \in PoolObject
  BY <1>1 DEF PoolsTyped
<1>3. ASSUME NEW spec \in Specs, CreatePool(p, spec)
      PROVE  IInv'
  BY <1>1, <1>3, NoAttributesTyped, SpecTyped, UserPoolKeeps DEF CreatePool
<1>4. ASSUME NEW spec \in Specs, EditPool(p, spec)
      PROVE  IInv'
  BY <1>1, <1>2, <1>4, SpecTyped, UserPoolKeeps DEF EditPool
<1>5. ASSUME EditConvertedPool(p)
      PROVE  IInv'
  <2>1. pools[p] \in PoolObject /\ pools[p].spec \in Attributes
    BY <1>2, <1>5 DEF EditConvertedPool, PoolObject
  <2>2. Converted(pools[p].spec) \in Attributes
    BY <2>1 DEF Converted, Attributes
  <2>3. QED
    BY <1>5, <2>1, <2>2, SpecTyped, UserPoolKeeps DEF EditConvertedPool
<1>6. ASSUME AdmitDeletion(p)
      PROVE  IInv'
  <2>1. deleting' \subseteq Pools
    BY <1>1, <1>6 DEF AdmitDeletion, Counted
  <2>2. QED
    BY <1>6, <2>1, UserActionKeeps, NodesUntouched, PoolsUntouched, Together DEF AdmitDeletion
<1>7. ASSUME FinishDeletion(p)
      PROVE  IInv'
  <2>1. NodesKept /\ ReconcilesTyped' /\ PoolsTyped'
    BY <1>7, NodesUntouched, ReconcilesUntouched, WritePoolTyped DEF FinishDeletion
  <2>2. Counted'
    BY <1>1, <1>7 DEF FinishDeletion, Counted, boundVars
  <2>3. QED
    BY <2>1, <2>2, Together
<1>8. QED
  BY <1>3, <1>4, <1>5, <1>6, <1>7 DEF UserOnPool

-----------------------------------------------------------------------------
(* The theorems.                                                            *)

LEMMA Start == Init => IInv
<1> SUFFICES ASSUME Init
             PROVE  IInv
  OBVIOUS
<1>1. NewNode(InitialPool) \in Node /\ Sound(NewNode(InitialPool))
  <2>1. NewNode(InitialPool) \in Node
    BY ConstantAssumption, NoAttributesTyped DEF NewNode, Node, Values, NoAttributes
  <2>2. Sound(NewNode(InitialPool))
    BY ConstantAssumption DEF Sound, NewNode, NoAttributes
  <2>3. QED
    BY <2>1, <2>2
<1>2. [NoPool EXCEPT !.spec = InitialSpec] \in PoolObject
  BY ConstantAssumption, NoAttributesTyped, SpecTyped
<1>3. NodesTyped /\ NodesSound /\ Seen /\ Fresh
  BY <1>1 DEF Init, NodesTyped, NodesSound, Seen, Fresh
<1>4. PoolsTyped
  BY <1>2 DEF Init, PoolsTyped
<1>5. ReconcilesTyped
  BY NoAttributesTyped DEF Init, ReconcilesTyped, EmptyStatus, PoolStatus
<1>6. Counted
  <2>1. 0 \in 0 .. MaxFaults /\ 0 \in 0 .. MaxEdits /\ CreateTries \in 0 .. CreateTries
    BY ConstantAssumption
  <2>2. QED
    BY <2>1 DEF Init, Counted
<1>7. TypeOK
  BY <1>3, <1>4, <1>5, <1>6 DEF TypeOK, NodesTyped, PoolsTyped, ReconcilesTyped, Counted
<1>8. QED
  BY <1>3, <1>7 DEF IInv

LEMMA Inductive == IInv /\ [Next]_vars => IInv'
<1> SUFFICES ASSUME IInv, [Next]_vars
             PROVE  IInv'
  OBVIOUS
<1>1. ASSUME NEW p \in Pools, Reconcile(p)
      PROVE  IInv'
  BY <1>1, SkipMissingStep, ListDesiredStep, ListCurrentStep, RemoveNodeStep,
     AddOrUpdateNodeStep, UpdateStatusStep, ReconcileFailsStep DEF Reconcile
<1>2. ASSUME NEW p \in Pools, SyncPool(p) \/ Resync(p) \/ UserOnPool(p)
      PROVE  IInv'
  BY <1>2, SyncPoolStep, ResyncStep, UserOnPoolStep
<1>3. ASSUME NEW p \in DefaultPools, CreateDefaultPool(p)
      PROVE  IInv'
  BY <1>3, CreateDefaultPoolStep
<1>4. ASSUME NEW n \in Nodes, SyncNode(n) \/ RelistNode(n) \/ UserOnNode(n)
      PROVE  IInv'
  BY <1>4, SyncNodeStep, RelistNodeStep, UserOnNodeStep
<1>5. CASE UNCHANGED vars
  <2>1. /\ UNCHANGED nodeVars /\ UNCHANGED poolVars
        /\ UNCHANGED <<queued, reconcileVars>> /\ UNCHANGED <<tries, deleting, boundVars>>
    BY <1>5 DEF vars
  <2>2. QED
    BY <2>1, NodesUntouched, PoolsUntouched, ReconcilesUntouched, CountedUntouched, Together
<1>6. QED
  BY <1>1, <1>2, <1>3, <1>4, <1>5, CrashStep DEF Next

\* Every reachable state satisfies the inductive invariant: types, the records
\* of the nodes, and what the informers and the reconciles know of the nodes.
THEOREM Invariance == Spec => []IInv
BY Start, Inductive, PTL DEF Spec

\* Every variable keeps its type, the nodes' and pools' objects and the
\* versions on their way to the informers included.
THEOREM TypeCorrect == Spec => []TypeOK
<1>1. IInv => TypeOK
  BY DEF IInv
<1>2. QED
  BY <1>1, Invariance, PTL

\* A value that a pool put on a node stands in the node's record, whatever
\* pools, users and faults did to the node (concilateNode and
\* removePoolRelatedAttrs): nothing of a pool can stay behind.
THEOREM NothingUnrecorded == Spec => []PoolValuesAreRecorded
<1>1. IInv => PoolValuesAreRecorded
  BY DEF IInv, NodesSound, Sound, PoolValuesAreRecorded
<1>2. QED
  BY <1>1, Invariance, PTL

\* A node is labelled as a member if and only if it has a record of what its
\* pool gave it.
THEOREM RecordsOfMembers == Spec => []MembersAreRecorded
<1>1. IInv => MembersAreRecorded
  BY DEF IInv, NodesSound, Sound, MembersAreRecorded
<1>2. QED
  BY <1>1, Invariance, PTL

-----------------------------------------------------------------------------
(* At rest.  An event tells pool p of a node's change if the node is of p   *)
(* after it, or was a member of p before; a pool that nothing is on its way *)
(* to tell knows its nodes, and its reconcile has written nothing yet.      *)

Tells(p, old, new) ==
    \/ new # Absent /\ new.desired = p
    \/ old # Absent /\ old.current = p

\* The version of n before the i-th that is pending.
Before(n, i) == IF i = 1 THEN nodeCache[n] ELSE pending[n][i - 1]

Told(p, n) == \E i \in 1 .. Len(pending[n]) : Tells(p, Before(n, i), pending[n][i])

\* A node becomes a member only of the pool it is assigned to.
Follows(old, new) ==
    new # Absent /\ new.current # None =>
        new.current = new.desired \/ (old # Absent /\ old.current = new.current)

Steps ==
    \A n \in Nodes : \A i \in 1 .. Len(pending[n]) :
        Before(n, i) # pending[n][i] /\ Follows(Before(n, i), pending[n][i])

PoolSeen == \A p \in Pools : p \notin lagging => poolCache[p] = pools[p]

\* Taints that users leave alone are those that were recorded.
TaintsRecorded(node) ==
    \A t \in TaintKeys \ UserTaints : node.taints[t] = Recorded(node).taints[t]

NodesTainted == \A n \in Nodes : nodes[n] # Absent => TaintsRecorded(nodes[n])

Belongs(n, p) == nodes[n] # Absent /\ nodes[n].desired = p
Member(n, p) == nodes[n] # Absent /\ nodes[n].current = p
Given(n, p, spec) == Member(n, p) /\ nodes[n].prev = spec

\* What a reconcile is to write and can: the node as it was read.
Holds(p) ==
    /\ update[p] \subseteq newStatus[p].nodes
    /\ \A n \in update[p] \cap fresh[p] : Belongs(n, p) /\ ~Given(n, p, inst[p].spec)
    /\ \A n \in remove[p] \cap fresh[p] : Member(n, p)
    /\ pc[p] = "list" => fresh[p] \subseteq update[p]
    /\ pc[p] # "write" => remove[p] = {}

CountOf(p) ==
    LET members == {n \in Nodes : nodes[n] # Absent /\ nodes[n].desired = p}
    IN [nodes |-> members,
        ready |-> Cardinality({n \in members : nodes[n].ready}),
        unready |-> Cardinality({n \in members : ~nodes[n].ready})]

\* Nothing is on its way that would start another reconcile of p.
Calm(p) ==
    /\ ~relisted /\ p \notin queued /\ p \notin lagging /\ pools[p] # Absent
    /\ \A n \in Nodes : ~Told(p, n)

Done(p) ==
    /\ pools[p].status = CountOf(p)
    /\ \A n \in Nodes : Belongs(n, p) => Given(n, p, pools[p].spec)
    /\ \A n \in Nodes : Member(n, p) => Belongs(n, p)

\* A node that left the pool since it was listed is still to be written, and
\* its write will be refused; without one, what was counted is what there is.
Going(p) ==
    /\ inst[p] = pools[p]
    /\ \A n \in Nodes \ newStatus[p].nodes : ~Belongs(n, p)
    /\ \A n \in newStatus[p].nodes \ update[p] : Belongs(n, p) /\ Given(n, p, pools[p].spec)
    /\ update[p] \subseteq fresh[p] => newStatus[p] = CountOf(p)
    /\ pc[p] = "write" => \A n \in Nodes \ newStatus[p].nodes : Member(n, p) => n \in remove[p]

Owes(p) == Calm(p) => IF pc[p] = "idle" THEN Done(p) ELSE Going(p)

IRest ==
    /\ IInv /\ PoolSeen /\ Steps /\ NodesTainted
    /\ \A p \in Pools : Holds(p) /\ Owes(p)

-----------------------------------------------------------------------------
(* Versions and events.                                                     *)

LEMMA TypesAtRest ==
    ASSUME IRest
    PROVE  /\ NodesTyped /\ PoolsTyped /\ ReconcilesTyped /\ Counted
           /\ NodesSound /\ Seen /\ Fresh
BY PartsOfType DEF IRest, IInv

\* The handlers enqueue the pools that a change tells.
LEMMA TellsEnqueues ==
    ASSUME NEW p \in Pools, NEW old \in Node \cup {Absent}, NEW new \in Node \cup {Absent},
           old # new, Tells(p, old, new)
    PROVE  p \in Enqueued(old, new)
<1>1. CASE old = Absent
  BY <1>1 DEF Tells, Enqueued
<1>2. CASE old # Absent /\ new = Absent
  BY <1>2 DEF Tells, Enqueued
<1>3. CASE old # Absent /\ new # Absent
  BY <1>3 DEF Tells, Enqueued
<1>4. QED
  BY <1>1, <1>2, <1>3

\* A pool that is told nothing of a node's pending versions has nothing to do
\* with the node any more, and it was no member in the cache.
LEMMA Untold ==
    ASSUME IRest, NEW p \in Pools, NEW n \in Nodes, ~Told(p, n), pending[n] # << >>
    PROVE  /\ ~(nodeCache[n] # Absent /\ nodeCache[n].current = p)
           /\ ~Belongs(n, p) /\ ~Member(n, p)
<1> DEFINE last == Len(pending[n])
<1>1. pending[n] \in Seq(Node \cup {Absent}) /\ pending[n][last] = nodes[n]
  BY TypesAtRest DEF NodesTyped, Seen
<1>2. last \in Nat \ {0}
  BY <1>1, EmptySeq
<1>3. 1 \in 1 .. last /\ last \in 1 .. last
  BY <1>2
<1>4. ~Tells(p, nodeCache[n], pending[n][1])
  BY <1>3 DEF Told, Before
<1>5. ~Tells(p, Before(n, last), nodes[n]) /\ Follows(Before(n, last), nodes[n])
  BY <1>1, <1>3 DEF Told, IRest, Steps
<1>6. p # None
  BY ConstantAssumption
<1>7. QED
  BY <1>4, <1>5, <1>6 DEF Tells, Follows, Belongs, Member

\* With no pending version, or if it is a member in the cache, a node of a
\* pool that is told nothing is on the server as the cache has it.
LEMMA AsCached ==
    ASSUME IRest, NEW p \in Pools, NEW n \in Nodes, ~Told(p, n),
           \/ pending[n] = << >>
           \/ nodeCache[n] # Absent /\ nodeCache[n].current = p
           \/ Belongs(n, p) \/ Member(n, p)
    PROVE  pending[n] = << >> /\ nodeCache[n] = nodes[n]
<1>1. pending[n] = << >>
  BY Untold
<1>2. QED
  BY <1>1, TypesAtRest DEF Seen

\* One more version.
LEMMA Appended ==
    ASSUME IRest, NEW n \in Nodes, NEW value \in Node \cup {Absent}, WriteNode(n, value),
           nodes[n] # value
    PROVE  /\ Len(pending'[n]) = Len(pending[n]) + 1 /\ Len(pending[n]) \in Nat
           /\ \A i \in 1 .. Len(pending[n]) : pending'[n][i] = pending[n][i] /\ Before(n, i)' = Before(n, i)
           /\ pending'[n][Len(pending[n]) + 1] = value
           /\ \A i : i = Len(pending[n]) + 1 => Before(n, i)' = nodes[n]
           /\ \A q \in Nodes \ {n} : pending'[q] = pending[q] /\ \A i : Before(q, i)' = Before(q, i)
<1> DEFINE s == pending[n]
           t == Append(pending[n], value)
<1>1. s \in Seq(Node \cup {Absent}) /\ pending \in [Nodes -> Seq(Node \cup {Absent})]
  BY TypesAtRest DEF NodesTyped
<1>2. /\ pending' = [pending EXCEPT ![n] = t]
      /\ nodeCache' = nodeCache
  BY DEF WriteNode
<1>3. IF s = << >> THEN nodeCache[n] = nodes[n] ELSE s[Len(s)] = nodes[n]
  BY TypesAtRest DEF Seen
<1>4. pending'[n] = t
  BY <1>1, <1>2
<1>5. /\ Len(t) = Len(s) + 1 /\ Len(s) \in Nat
      /\ \A i \in 1 .. Len(s) : t[i] = s[i]
      /\ t[Len(s) + 1] = value
  BY <1>1
<1>6. s = << >> <=> Len(s) = 0
  BY <1>1, EmptySeq
<1> HIDE DEF t, s
<1>7. \A i \in 1 .. Len(s) : Before(n, i)' = Before(n, i)
  <2> SUFFICES ASSUME NEW i \in 1 .. Len(s)
               PROVE  Before(n, i)' = Before(n, i)
    OBVIOUS
  <2>1. CASE i = 1
    BY <1>2, <2>1 DEF Before
  <2>2. CASE i # 1
    <3>1. i - 1 \in 1 .. Len(s)
      BY <1>5, <2>2
    <3>2. t[i - 1] = s[i - 1]
      BY <1>5, <3>1
    <3>3. QED
      BY <1>4, <2>2, <3>2 DEF Before, s
  <2>3. QED
    BY <2>1, <2>2
<1>8. \A i : i = Len(s) + 1 => Before(n, i)' = nodes[n]
  <2> SUFFICES ASSUME NEW i, i = Len(s) + 1
               PROVE  Before(n, i)' = nodes[n]
    OBVIOUS
  <2>1. CASE Len(s) = 0
    <3>1. i = 1
      BY <2>1
    <3>2. QED
      BY <1>2, <1>3, <1>6, <2>1, <3>1 DEF Before
  <2>2. CASE Len(s) # 0
    <3>1. Len(s) \in 1 .. Len(s) /\ i # 1 /\ i - 1 = Len(s)
      BY <1>5, <2>2
    <3>2. t[Len(s)] = s[Len(s)]
      BY <1>5, <3>1
    <3>3. QED
      BY <1>3, <1>4, <1>6, <2>2, <3>1, <3>2 DEF Before
  <2>3. QED
    BY <2>1, <2>2
<1>9. \A q \in Nodes \ {n} : pending'[q] = pending[q] /\ \A i : Before(q, i)' = Before(q, i)
  BY <1>1, <1>2 DEF Before
<1>10. QED
  BY <1>4, <1>5, <1>7, <1>8, <1>9 DEF s

\* A pool that is told of nothing afterwards was told of nothing before, nor
\* of this change.
LEMMA WriteTells ==
    ASSUME IRest, NEW n \in Nodes, NEW value \in Node \cup {Absent}, WriteNode(n, value),
           nodes[n] # value, NEW p \in Pools
    PROVE  /\ ~Told(p, n)' => ~Told(p, n) /\ ~Tells(p, nodes[n], value)
           /\ \A q \in Nodes \ {n} : ~Told(p, q)' => ~Told(p, q)
<1> DEFINE last == Len(pending[n])
<1>1. /\ Len(pending'[n]) = last + 1 /\ last \in Nat
      /\ \A i \in 1 .. last : pending'[n][i] = pending[n][i] /\ Before(n, i)' = Before(n, i)
      /\ pending'[n][last + 1] = value
      /\ \A i : i = last + 1 => Before(n, i)' = nodes[n]
      /\ \A q \in Nodes \ {n} : pending'[q] = pending[q] /\ \A i : Before(q, i)' = Before(q, i)
  BY Appended
<1>2. Told(p, n)' <=> \E i \in 1 .. Len(pending'[n]) : Tells(p, Before(n, i)', pending'[n][i])
  BY DEF Told, Tells
<1> HIDE DEF last
<1>3. ASSUME Tells(p, nodes[n], value)
      PROVE  Told(p, n)'
  <2>1. PICK i \in 1 .. Len(pending'[n]) : i = last + 1
    BY <1>1
  <2>2. Before(n, i)' = nodes[n] /\ pending'[n][i] = value
    BY <1>1, <2>1
  <2>3. QED
    BY <1>2, <1>3, <2>1, <2>2
<1>4. ASSUME Told(p, n)
      PROVE  Told(p, n)'
  <2>1. PICK i \in 1 .. last : Tells(p, Before(n, i), pending[n][i])
    BY <1>4 DEF Told, last
  <2>2. i \in 1 .. Len(pending'[n])
    BY <1>1, <2>1
  <2>3. Tells(p, Before(n, i)', pending'[n][i])
    BY <1>1, <2>1
  <2>4. QED
    BY <1>2, <2>2, <2>3
<1>5. \A q \in Nodes \ {n} : Told(p, q)' <=> Told(p, q)
  BY <1>1 DEF Told, Tells
<1>6. QED
  BY <1>3, <1>4, <1>5

LEMMA WriteSteps ==
    ASSUME IRest, NEW n \in Nodes, NEW value \in Node \cup {Absent}, WriteNode(n, value),
           Follows(nodes[n], value)
    PROVE  Steps'
<1>1. CASE nodes[n] = value
  BY <1>1 DEF WriteNode, IRest, Steps, Before, Follows
<1>2. CASE nodes[n] # value
  <2> DEFINE last == Len(pending[n])
  <2>1. /\ Len(pending'[n]) = last + 1 /\ last \in Nat
        /\ \A i \in 1 .. last : pending'[n][i] = pending[n][i] /\ Before(n, i)' = Before(n, i)
        /\ pending'[n][last + 1] = value
        /\ \A i : i = last + 1 => Before(n, i)' = nodes[n]
        /\ \A q \in Nodes \ {n} : pending'[q] = pending[q] /\ \A i : Before(q, i)' = Before(q, i)
    BY <1>2, Appended
  <2>2. \A q \in Nodes : \A i \in 1 .. Len(pending[q]) :
           Before(q, i) # pending[q][i] /\ Follows(Before(q, i), pending[q][i])
    BY DEF IRest, Steps
  <2> SUFFICES ASSUME NEW q \in Nodes, NEW i \in 1 .. Len(pending'[q])
               PROVE  Before(q, i)' # pending'[q][i] /\ Follows(Before(q, i)', pending'[q][i])
    BY DEF Steps, Follows
  <2>3. CASE q # n
    BY <2>1, <2>2, <2>3
  <2>4. CASE q = n /\ i = last + 1
    BY <1>2, <2>1, <2>4
  <2>5. CASE q = n /\ i # last + 1
    <3> HIDE DEF last
    <3>1. i \in 1 .. last
      BY <2>1, <2>5
    <3>2. QED
      BY <2>1, <2>2, <2>5, <3>1 DEF last
  <2>6. QED
    BY <2>3, <2>4, <2>5
<1>3. QED
  BY <1>1, <1>2

\* The cache takes over the first pending version of a node; the pools that it
\* tells are enqueued.
LEMMA SyncTells ==
    ASSUME IRest, NEW n \in Nodes, SyncNode(n)
    PROVE  /\ Steps'
           /\ \A p \in Pools, q \in Nodes : p \notin queued' /\ ~Told(p, q)' => ~Told(p, q)
<1> DEFINE s == pending[n]
           t == Tail(s)
<1>1. /\ s \in Seq(Node \cup {Absent}) /\ s # << >>
      /\ nodeCache \in [Nodes -> Node \cup {Absent}]
      /\ pending \in [Nodes -> Seq(Node \cup {Absent})]
  BY TypesAtRest DEF NodesTyped, SyncNode
<1>2. /\ nodeCache' = [nodeCache EXCEPT ![n] = Head(s)]
      /\ pending' = [pending EXCEPT ![n] = t]
      /\ queued' = IF nodeCache[n] = Head(s) THEN queued
                   ELSE queued \cup (Enqueued(nodeCache[n], Head(s)) \cap Pools)
  BY DEF SyncNode, SeeNode
<1>3. t \in Seq(Node \cup {Absent}) /\ Len(t) = Len(s) - 1 /\ \A i \in 1 .. Len(t) : t[i] = s[i + 1]
  BY <1>1, HeadTailProperties
<1>4. Len(s) \in Nat \ {0} /\ Head(s) = s[1] /\ Head(s) \in Node \cup {Absent}
  BY <1>1, EmptySeq, HeadTailProperties
<1>5. nodeCache'[n] = Head(s) /\ pending'[n] = t
  BY <1>1, <1>2
<1>6. \A q \in Nodes \ {n} : pending'[q] = pending[q] /\ \A i : Before(q, i)' = Before(q, i)
  BY <1>1, <1>2 DEF Before
<1> HIDE DEF t
<1>7. \A i \in 1 .. Len(t) : i + 1 \in 1 .. Len(s) /\ Before(n, i)' = Before(n, i + 1)
  <2> SUFFICES ASSUME NEW i \in 1 .. Len(t)
               PROVE  i + 1 \in 1 .. Len(s) /\ Before(n, i)' = Before(n, i + 1)
    OBVIOUS
  <2> HIDE DEF s
  <2>1. i + 1 \in 1 .. Len(s) /\ i + 1 # 1 /\ (i + 1) - 1 = i
    BY <1>3, <1>4
  <2>2. Before(n, i + 1) = s[i]
    BY <2>1 DEF Before, s
  <2>3. CASE i = 1
    BY <1>4, <1>5, <2>1, <2>2, <2>3 DEF Before
  <2>4. CASE i # 1
    <3>1. i - 1 \in 1 .. Len(t) /\ (i - 1) + 1 = i
      BY <1>3, <1>4, <2>4
    <3>2. t[i - 1] = s[i]
      BY <1>3, <3>1
    <3>3. Before(n, i)' = t[i - 1]
      BY <1>5, <2>4 DEF Before
    <3>4. QED
      BY <2>1, <2>2, <3>2, <3>3
  <2>5. QED
    BY <2>3, <2>4
<1>8. Steps'
  <2> SUFFICES ASSUME NEW q \in Nodes, NEW i \in 1 .. Len(pending'[q])
               PROVE  Before(q, i)' # pending'[q][i] /\ Follows(Before(q, i)', pending'[q][i])
    BY DEF Steps, Follows
  <2>1. \A m \in Nodes : \A j \in 1 .. Len(pending[m]) :
           Before(m, j) # pending[m][j] /\ Follows(Before(m, j), pending[m][j])
    BY DEF IRest, Steps
  <2>2. CASE q # n
    BY <1>6, <2>1, <2>2
  <2>3. CASE q = n
    <3>1. i \in 1 .. Len(t)
      BY <1>5, <2>3
    <3>2. i + 1 \in 1 .. Len(s) /\ Before(n, i)' = Before(n, i + 1) /\ t[i] = s[i + 1]
      BY <1>3, <1>7, <3>1
    <3>3. Before(n, i + 1) # s[i + 1] /\ Follows(Before(n, i + 1), s[i + 1])
      BY <2>1, <3>2
    <3>4. QED
      BY <1>5, <2>3, <3>2, <3>3
  <2>4. QED
    BY <2>2, <2>3
<1>9. ASSUME NEW p \in Pools, p \notin queued', Told(p, n)
      PROVE  Told(p, n)'
  <2>1. PICK i \in 1 .. Len(s) : Tells(p, Before(n, i), s[i])
    BY <1>9 DEF Told
  <2>2. i # 1
    <3> SUFFICES ASSUME i = 1
                 PROVE  FALSE
      OBVIOUS
    <3>1. Before(n, 1) = nodeCache[n] /\ 1 \in 1 .. Len(pending[n])
      BY <2>1 DEF Before
    <3>2. nodeCache[n] # Head(s)
      BY <1>4, <3>1 DEF IRest, Steps
    <3>3. nodeCache[n] \in Node \cup {Absent} /\ Tells(p, nodeCache[n], Head(s))
      BY <1>1, <1>4, <2>1, <3>1
    <3>4. p \in Enqueued(nodeCache[n], Head(s))
      BY <1>4, <3>2, <3>3, TellsEnqueues
    <3>5. QED
      BY <1>2, <1>9, <3>2, <3>4
  <2> HIDE DEF s
  <2>3. i - 1 \in 1 .. Len(t) /\ (i - 1) + 1 = i
    BY <1>3, <1>4, <2>1, <2>2
  <2>4. PICK j \in 1 .. Len(t) : j + 1 = i
    BY <2>3
  <2>5. Before(n, j)' = Before(n, i) /\ t[j] = s[i]
    BY <1>3, <1>7, <2>4
  <2>6. Tells(p, Before(n, j)', pending'[n][j])
    BY <1>5, <2>1, <2>5
  <2>7. j \in 1 .. Len(pending'[n])
    BY <1>5, <2>4
  <2>8. QED
    BY <2>6, <2>7 DEF Told, Tells
<1>10. \A p \in Pools, q \in Nodes \ {n} : Told(p, q)' <=> Told(p, q)
  BY <1>6 DEF Told, Tells
<1>11. QED
  BY <1>8, <1>9, <1>10

-----------------------------------------------------------------------------
(* What leaves a pool's reconcile and its debt as they are.                 *)

\* The step is not of p's reconcile, and what keeps p from rest goes on.
Same(p) ==
    /\ pc'[p] = pc[p] /\ inst'[p] = inst[p] /\ newStatus'[p] = newStatus[p]
    /\ remove'[p] = remove[p] /\ update'[p] = update[p]

Lasting(p) ==
    /\ pools'[p] = pools[p] \/ p \in lagging'
    /\ p \in lagging => p \in lagging' \cup queued'
    /\ p \in queued => p \in queued'
    /\ relisted => relisted'

LEMMA StillCalm ==
    ASSUME NEW p \in Pools, Lasting(p), Calm(p)', \A n \in Nodes : ~Told(p, n)' => ~Told(p, n)
    PROVE  Calm(p) /\ pools'[p] = pools[p]
BY DEF Lasting, Calm

\* No node changes; the cache may.
LEMMA NodesSame ==
    ASSUME IRest, NEW p \in Pools, Same(p), Lasting(p), nodes' = nodes, fresh'[p] = fresh[p],
           \A n \in Nodes : p \notin queued' /\ ~Told(p, n)' => ~Told(p, n)
    PROVE  Holds(p)' /\ Owes(p)'
<1>1. Holds(p) /\ Owes(p)
  BY DEF IRest
<1>2. Holds(p)'
  BY <1>1 DEF Holds, Same, Belongs, Given, Member
<1>3. ASSUME Calm(p)'
      PROVE  IF pc'[p] = "idle" THEN Done(p)' ELSE Going(p)'
  <2>1. Calm(p) /\ pools'[p] = pools[p]
    BY <1>3, StillCalm DEF Calm
  <2>2. IF pc[p] = "idle" THEN Done(p) ELSE Going(p)
    BY <1>1, <2>1 DEF Owes
  <2>3. CountOf(p)' = CountOf(p)
    BY DEF CountOf
  <2>4. CASE pc[p] = "idle"
    BY <2>1, <2>2, <2>3, <2>4 DEF Same, Done, Belongs, Given, Member
  <2>5. CASE pc[p] # "idle"
    BY <2>1, <2>2, <2>3, <2>5 DEF Same, Going, Belongs, Given, Member
  <2>6. QED
    BY <2>4, <2>5 DEF Same
<1>4. QED
  BY <1>2, <1>3 DEF Owes

\* Nothing of the nodes and their caches changes.
LEMMA Untouched ==
    ASSUME IRest, NEW p \in Pools, Same(p), Lasting(p), UNCHANGED <<nodes, nodeCache, pending>>,
           fresh'[p] = fresh[p]
    PROVE  Holds(p)' /\ Owes(p)'
<1>1. \A n \in Nodes : Told(p, n)' <=> Told(p, n)
  BY DEF Told, Before, Tells
<1>2. QED
  BY <1>1, NodesSame

LEMMA CountSame ==
    ASSUME NEW p \in Pools, NEW n \in Nodes, \A q \in Nodes \ {n} : nodes'[q] = nodes[q],
           ~Belongs(n, p), ~Belongs(n, p)'
    PROVE  CountOf(p)' = CountOf(p)
<1> DEFINE members == {q \in Nodes : nodes[q] # Absent /\ nodes[q].desired = p}
           after == {q \in Nodes : nodes'[q] # Absent /\ nodes'[q].desired = p}
<1>1. after = members
  BY DEF Belongs
<1>2. n \notin members
  BY DEF Belongs
<1>3. /\ {q \in after : nodes'[q].ready} = {q \in members : nodes[q].ready}
      /\ {q \in after : ~nodes'[q].ready} = {q \in members : ~nodes[q].ready}
  BY <1>1, <1>2
<1>4. QED
  BY <1>1, <1>3 DEF CountOf

\* Somebody else writes a node.
LEMMA NodeWritten ==
    ASSUME IRest, NEW p \in Pools, Same(p), Lasting(p),
           NEW n \in Nodes, NEW value \in Node \cup {Absent}, WriteNode(n, value),
           Follows(nodes[n], value)
    PROVE  Holds(p)' /\ Owes(p)'
<1>1. Holds(p) /\ Owes(p) /\ NodesTyped
  BY TypesAtRest DEF IRest
<1>2. nodes' = [nodes EXCEPT ![n] = value] /\ nodes \in [Nodes -> Node \cup {Absent}]
  BY <1>1 DEF WriteNode, NodesTyped
<1>3. CASE nodes[n] = value
  BY <1>2, <1>3, Untouched DEF WriteNode
<1>4. CASE nodes[n] # value
  <2>1. \A q \in Nodes \ {n} : nodes'[q] = nodes[q]
    BY <1>2
  <2>2. nodes'[n] = value /\ fresh'[p] = fresh[p] \ {n}
    BY <1>2, <1>4 DEF WriteNode
  <2>3. \A q \in Nodes \ {n} : /\ Belongs(q, p)' <=> Belongs(q, p)
                               /\ Member(q, p)' <=> Member(q, p)
                               /\ \A spec : nodes'[q].prev = spec <=> nodes[q].prev = spec
    BY <2>1 DEF Belongs, Member
  <2>4. Holds(p)'
    <3>1. \A q \in update'[p] \cap fresh'[p] : Belongs(q, p)' /\ ~Given(q, p, inst[p].spec)'
      <4> SUFFICES ASSUME NEW q \in update[p] \cap (fresh[p] \ {n})
                   PROVE  Belongs(q, p)' /\ ~Given(q, p, inst[p].spec)'
        BY <2>2 DEF Same
      <4>1. q \in Nodes \ {n} /\ Belongs(q, p) /\ ~Given(q, p, inst[p].spec)
        BY <1>1 DEF Holds, NodesTyped
      <4>2. nodes'[q] = nodes[q] /\ inst'[p] = inst[p]
        BY <2>1, <4>1 DEF Same
      <4>3. QED
        BY <4>1, <4>2 DEF Belongs, Given, Member
    <3>2. \A q \in remove'[p] \cap fresh'[p] : Member(q, p)'
      <4> SUFFICES ASSUME NEW q \in remove[p] \cap (fresh[p] \ {n})
                   PROVE  Member(q, p)'
        BY <2>2 DEF Same
      <4>1. q \in Nodes \ {n} /\ Member(q, p)
        BY <1>1 DEF Holds, NodesTyped
      <4>2. QED
        BY <2>3, <4>1
    <3>3. QED
      BY <1>1, <2>2, <3>1, <3>2 DEF Holds, Same
  <2>5. ASSUME Calm(p)'
        PROVE  IF pc'[p] = "idle" THEN Done(p)' ELSE Going(p)'
    <3>1. ~Tells(p, nodes[n], value) /\ \A q \in Nodes : ~Told(p, q)' => ~Told(p, q)
      BY <1>4, <2>5, WriteTells DEF Calm
    <3>2. Calm(p) /\ pools'[p] = pools[p]
      BY <2>5, <3>1, StillCalm
    <3>3. IF pc[p] = "idle" THEN Done(p) ELSE Going(p)
      BY <1>1, <3>2 DEF Owes
    <3>4. p # None
      BY ConstantAssumption
    <3>5. ~Member(n, p) /\ ~Belongs(n, p)' /\ ~Member(n, p)'
      BY <2>2, <3>1, <3>4 DEF Tells, Follows, Belongs, Member
    <3>6. ~Belongs(n, p) => CountOf(p)' = CountOf(p)
      BY <2>1, <3>5, CountSame
    <3>7. CASE pc[p] = "idle"
      <4>1. ~Belongs(n, p)
        BY <3>3, <3>5, <3>7 DEF Done, Given
      <4>2. QED
        BY <2>3, <3>2, <3>3, <3>5, <3>6, <3>7, <4>1 DEF Done, Given, Same
    <3>8. CASE pc[p] # "idle"
      <4>1. n \notin newStatus[p].nodes \ update[p]
        BY <3>3, <3>5, <3>8 DEF Going, Given
      <4>2. update'[p] \subseteq fresh'[p] => newStatus'[p] = CountOf(p)'
        <5> SUFFICES ASSUME update[p] \subseteq fresh[p] \ {n}
                     PROVE  newStatus[p] = CountOf(p)'
          BY <2>2 DEF Same
        <5>1. n \notin newStatus[p].nodes
          BY <4>1
        <5>2. ~Belongs(n, p)
          BY <3>3, <3>8, <5>1 DEF Going
        <5>3. QED
          BY <3>3, <3>6, <3>8, <5>2 DEF Going
      <4>3. inst'[p] = pools'[p] /\ \A q \in Nodes \ newStatus'[p].nodes : ~Belongs(q, p)'
        BY <2>3, <3>2, <3>3, <3>5, <3>8 DEF Going, Same
      <4>4. \A q \in newStatus'[p].nodes \ update'[p] : Belongs(q, p)' /\ Given(q, p, pools[p].spec)'
        <5> SUFFICES ASSUME NEW q \in newStatus[p].nodes \ update[p]
                     PROVE  Belongs(q, p)' /\ Given(q, p, pools[p].spec)'
          BY DEF Same
        <5>1. Belongs(q, p) /\ Given(q, p, pools[p].spec) /\ q \in Nodes
          BY <3>3, <3>8, TypesAtRest DEF Going, ReconcilesTyped, PoolStatus
        <5>2. q # n
          BY <4>1
        <5>3. QED
          BY <2>3, <3>2, <5>1, <5>2 DEF Given
      <4>5. pc'[p] = "write" => \A q \in Nodes \ newStatus'[p].nodes : Member(q, p)' => q \in remove'[p]
        BY <2>3, <3>3, <3>5, <3>8 DEF Going, Same
      <4>6. QED
        BY <3>8, <4>2, <4>3, <4>4, <4>5 DEF Going, Same
    <3>9. QED
      BY <3>7, <3>8 DEF Same
  <2>6. QED
    BY <2>4, <2>5 DEF Owes
<1>5. QED
  BY <1>3, <1>4

-----------------------------------------------------------------------------
(* The steps of a reconcile.                                                *)

LEMMA NodesKeptAtRest ==
    ASSUME IRest, UNCHANGED <<nodes, nodeCache, pending>>
    PROVE  Steps' /\ NodesTainted'
BY DEF IRest, Steps, Before, Follows, NodesTainted, TaintsRecorded, Recorded

LEMMA NodeWrittenAtRest ==
    ASSUME IRest, NEW n \in Nodes, NEW value \in Node \cup {Absent}, WriteNode(n, value),
           Follows(nodes[n], value), value # Absent => TaintsRecorded(value)
    PROVE  Steps' /\ NodesTainted'
<1>1. Steps'
  BY WriteSteps
<1>2. \A q \in Nodes : nodes'[q] = IF q = n THEN value ELSE nodes[q]
  BY TypesAtRest DEF WriteNode, NodesTyped
<1>3. NodesTainted'
  BY <1>2 DEF IRest, NodesTainted, TaintsRecorded, Recorded
<1>4. QED
  BY <1>1, <1>3

LEMMA PoolsKeptAtRest ==
    ASSUME IRest, UNCHANGED <<pools, poolCache, lagging>>
    PROVE  PoolSeen'
BY DEF IRest, PoolSeen

\* Whoever writes a pool, it was not changed or the cache lags.
LEMMA PoolWrittenAtRest ==
    ASSUME IRest, NEW p \in Pools, NEW value \in PoolObject \cup {Absent}, WritePool(p, value)
    PROVE  /\ PoolSeen' /\ lagging \subseteq lagging'
           /\ \A q \in Pools : pools'[q] = pools[q] \/ q \in lagging'
<1>1. PoolsTyped /\ PoolSeen
  BY TypesAtRest DEF IRest
<1>2. \A q \in Pools : pools'[q] = IF q = p THEN value ELSE pools[q]
  BY <1>1 DEF WritePool, PoolsTyped
<1>3. \A q \in Pools : pools'[q] = pools[q] \/ q \in lagging'
  BY <1>2 DEF WritePool
<1>4. lagging \subseteq lagging' /\ poolCache' = poolCache
  BY DEF WritePool
<1>5. QED
  BY <1>1, <1>3, <1>4 DEF PoolSeen

\* A reconcile is over, and the pool is not at rest.
LEMMA Idle ==
    ASSUME NEW p \in Pools, pc'[p] = "idle", remove'[p] = {}, update'[p] = {},
           p \in queued' \/ ~Calm(p)'
    PROVE  Holds(p)' /\ Owes(p)'
<1>1. Holds(p)'
  BY DEF Holds
<1>2. Owes(p)'
  BY DEF Owes, Calm
<1>3. QED
  BY <1>1, <1>2

LEMMA ReturnParts ==
    ASSUME IRest, NEW p \in Pools, NEW err, Return(p, err)
    PROVE  /\ pc'[p] = "idle" /\ remove'[p] = {} /\ update'[p] = {}
           /\ queued \subseteq queued' /\ (err => p \in queued')
           /\ \A q \in Pools \ {p} : Same(q)
<1>1. ReconcilesTyped
  BY TypesAtRest
<1>2. QED
  BY <1>1 DEF ReconcilesTyped, Return, Same

LEMMA FaultsLast ==
    ASSUME NoFault \/ \E kind : Fault(kind)
    PROVE  relisted => relisted'
BY DEF NoFault, Fault

LEMMA SkipMissingRest ==
    ASSUME IRest, NEW p \in Pools, SkipMissing(p)
    PROVE  IRest'
<1>1. IInv'
  BY SkipMissingStep DEF IRest
<1>2. /\ queued' = queued \ {p} /\ poolCache[p] = Absent
      /\ UNCHANGED <<nodes, nodeCache, pending>> /\ fresh' = fresh
      /\ UNCHANGED <<pools, poolCache, lagging>> /\ relisted' = relisted
      /\ UNCHANGED <<pc, inst, remove, update, newStatus>>
  BY DEF SkipMissing, nodeVars, poolVars, reconcileVars, boundVars
<1>3. \A q \in Pools \ {p} : Same(q) /\ Lasting(q)
  BY <1>2 DEF Same, Lasting
<1>4. \A q \in Pools \ {p} : Holds(q)' /\ Owes(q)'
  BY <1>2, <1>3, Untouched
<1>5. Holds(p)' /\ Owes(p)'
  <2>1. Holds(p)'
    BY <1>2 DEF IRest, Holds, Belongs, Given, Member
  <2>2. ~Calm(p)'
    BY <1>2 DEF IRest, PoolSeen, Calm
  <2>3. QED
    BY <2>1, <2>2 DEF Owes
<1>6. QED
  BY <1>1, <1>2, <1>4, <1>5, NodesKeptAtRest, PoolsKeptAtRest DEF IRest

\* concilateNode changes a node unless it is a member with the pool's record.
LEMMA ConcilateNodeSame ==
    ASSUME NEW node \in Node, NEW p \in Pools, NEW spec \in Attributes
    PROVE  ConcilateNode(node, p, spec) = node <=> node.current = p /\ node.prev = spec
<1>1. CASE node.prev = spec
  BY <1>1 DEF ConcilateNode, Node
<1>2. CASE node.prev # spec
  <2>1. ConcilateNode(node, p, spec).prev = spec
    BY <1>2 DEF ConcilateNode, Node
  <2>2. QED
    BY <1>2, <2>1
<1>3. QED
  BY <1>1, <1>2

LEMMA ListDesiredRest ==
    ASSUME IRest, NEW p \in Pools, ListDesired(p)
    PROVE  IRest'
<1> DEFINE desired == {n \in Cached : nodeCache[n].desired = p}
           changed == {n \in desired : ConcilateNode(nodeCache[n], p, poolCache[p].spec) # nodeCache[n]}
<1>1. IInv'
  BY ListDesiredStep DEF IRest
<1>2. NodesTyped /\ PoolsTyped /\ ReconcilesTyped /\ Seen
  BY TypesAtRest
<1>3. /\ pc[p] = "idle" /\ queued' = queued \ {p} /\ pc' = [pc EXCEPT ![p] = "list"]
      /\ inst' = [inst EXCEPT ![p] = poolCache[p]] /\ poolCache[p] # Absent
      /\ update' = [update EXCEPT ![p] = changed]
      /\ fresh' = [fresh EXCEPT ![p] = Current(update'[p])]
      /\ newStatus' = [newStatus EXCEPT ![p] =
             [nodes |-> desired, ready |-> Cardinality(Ready(desired)),
              unready |-> Cardinality(desired \ Ready(desired))]]
      /\ UNCHANGED <<nodes, nodeCache, pending>>
      /\ UNCHANGED <<pools, poolCache, lagging>> /\ remove' = remove /\ relisted' = relisted
  BY DEF ListDesired, boundVars
<1>4. \A q \in Pools \ {p} : Same(q) /\ Lasting(q) /\ fresh'[q] = fresh[q]
  BY <1>2, <1>3 DEF Same, Lasting, ReconcilesTyped, NodesTyped
<1>5. \A q \in Pools \ {p} : Holds(q)' /\ Owes(q)'
  BY <1>3, <1>4, Untouched
<1>6. /\ pc'[p] = "list" /\ inst'[p] = poolCache[p] /\ update'[p] = changed
      /\ fresh'[p] = Current(changed) /\ remove'[p] = remove[p]
      /\ newStatus'[p] = [nodes |-> desired, ready |-> Cardinality(Ready(desired)),
                          unready |-> Cardinality(desired \ Ready(desired))]
  BY <1>2, <1>3 DEF ReconcilesTyped, NodesTyped
<1>7. newStatus'[p].nodes = desired /\ changed \subseteq desired /\ desired \subseteq Nodes
  BY <1>6 DEF Cached
<1>8. poolCache[p] \in PoolObject /\ poolCache[p].spec \in Attributes
  BY <1>2, <1>3 DEF PoolsTyped, PoolObject
<1>9. \A n \in desired :
         /\ nodeCache[n] # Absent /\ nodeCache[n].desired = p
         /\ n \in changed <=> ~(nodeCache[n].current = p /\ nodeCache[n].prev = poolCache[p].spec)
  <2> SUFFICES ASSUME NEW n \in desired
               PROVE  /\ nodeCache[n] # Absent /\ nodeCache[n].desired = p
                      /\ n \in changed <=> ~(nodeCache[n].current = p /\ nodeCache[n].prev = poolCache[p].spec)
    OBVIOUS
  <2>1. nodeCache[n] \in Node /\ nodeCache[n] # Absent /\ nodeCache[n].desired = p
    BY <1>2 DEF Cached, NodesTyped
  <2>2. QED
    BY <1>8, <2>1, ConcilateNodeSame
<1>10. \A n \in Current(changed) : n \in changed /\ pending[n] = << >> /\ nodeCache[n] = nodes[n]
  BY <1>2, <1>7 DEF Current, Seen
<1>11. remove[p] = {}
  BY <1>3 DEF IRest, Holds
<1> HIDE DEF desired, changed
<1>12. Holds(p)'
  <2>1. \A n \in update'[p] \cap fresh'[p] : Belongs(n, p)' /\ ~Given(n, p, inst[p].spec)'
    <3> SUFFICES ASSUME NEW n \in Current(changed)
                 PROVE  Belongs(n, p)' /\ ~Given(n, p, inst[p].spec)'
      BY <1>6
    <3>1. n \in changed /\ nodeCache[n] = nodes[n] /\ n \in desired
      BY <1>7, <1>10
    <3>2. QED
      BY <1>3, <1>6, <1>9, <3>1 DEF Belongs, Given, Member
  <2>2. fresh'[p] \subseteq update'[p]
    BY <1>6, <1>10
  <2>3. QED
    BY <1>6, <1>7, <1>11, <2>1, <2>2 DEF Holds
<1>13. ASSUME Calm(p)'
       PROVE  Going(p)'
  <2>1. p \notin lagging /\ \A n \in Nodes : ~Told(p, n)
    BY <1>3, <1>13 DEF Calm, Told, Before, Tells
  <2>2. inst'[p] = pools'[p] /\ poolCache[p] = pools[p]
    BY <1>3, <1>6, <2>1 DEF IRest, PoolSeen
  <2>3. \A n \in Nodes \ desired : ~Belongs(n, p)
    BY <2>1, AsCached DEF desired, Cached, Belongs
  <2>4. \A n \in desired \ changed : nodeCache[n] = nodes[n] /\ Belongs(n, p) /\ Given(n, p, pools[p].spec)
    <3> SUFFICES ASSUME NEW n \in desired \ changed
                 PROVE  nodeCache[n] = nodes[n] /\ Belongs(n, p) /\ Given(n, p, pools[p].spec)
      OBVIOUS
    <3>1. /\ n \in Nodes /\ nodeCache[n] # Absent /\ nodeCache[n].desired = p
          /\ nodeCache[n].current = p /\ nodeCache[n].prev = pools[p].spec
      BY <1>7, <1>9, <2>2
    <3>2. nodeCache[n] = nodes[n]
      BY <2>1, <3>1, AsCached
    <3>3. QED
      BY <3>1, <3>2 DEF Belongs, Given, Member
  <2>5. ASSUME changed \subseteq Current(changed)
        PROVE  newStatus'[p] = CountOf(p)
    <3> DEFINE members == {n \in Nodes : nodes[n] # Absent /\ nodes[n].desired = p}
    <3>1. \A n \in desired : nodeCache[n] = nodes[n]
      BY <1>10, <2>4, <2>5
    <3>2. desired = members
      BY <1>7, <1>9, <2>3, <3>1 DEF Belongs
    <3>3. /\ Ready(desired) = {n \in members : nodes[n].ready}
          /\ desired \ Ready(desired) = {n \in members : ~nodes[n].ready}
      BY <3>1, <3>2 DEF Ready
    <3>4. QED
      BY <1>6, <3>2, <3>3 DEF CountOf
  <2>6. CountOf(p)' = CountOf(p)
    BY <1>3 DEF CountOf
  <2>7. \A n \in newStatus'[p].nodes \ update'[p] : Belongs(n, p)' /\ Given(n, p, pools[p].spec)'
    BY <1>3, <1>6, <1>7, <2>4 DEF Belongs, Given, Member
  <2>8. \A n \in Nodes \ newStatus'[p].nodes : ~Belongs(n, p)'
    BY <1>3, <1>7, <2>3 DEF Belongs
  <2>9. update'[p] \subseteq fresh'[p] => newStatus'[p] = CountOf(p)'
    BY <1>6, <2>5, <2>6
  <2>10. QED
    BY <1>6, <2>2, <2>7, <2>8, <2>9 DEF Going
<1>14. Owes(p)'
  BY <1>6, <1>13 DEF Owes
<1>15. QED
  BY <1>1, <1>3, <1>5, <1>12, <1>14, NodesKeptAtRest, PoolsKeptAtRest DEF IRest

LEMMA ListCurrentRest ==
    ASSUME IRest, NEW p \in Pools, ListCurrent(p)
    PROVE  IRest'
<1> DEFINE leaving == {n \in Cached \ newStatus[p].nodes : nodeCache[n].current = p}
<1>1. IInv'
  BY ListCurrentStep DEF IRest
<1>2. NodesTyped /\ ReconcilesTyped /\ Seen
  BY TypesAtRest
<1>3. /\ pc[p] = "list" /\ pc' = [pc EXCEPT ![p] = "write"]
      /\ remove' = [remove EXCEPT ![p] = leaving]
      /\ fresh' = [fresh EXCEPT ![p] = @ \cup Current(remove'[p])]
      /\ UNCHANGED <<nodes, nodeCache, pending>> /\ UNCHANGED <<pools, poolCache, lagging>>
      /\ UNCHANGED <<inst, update, newStatus>> /\ queued' = queued /\ relisted' = relisted
  BY DEF ListCurrent, boundVars, poolVars
<1>4. \A q \in Pools \ {p} : Same(q) /\ Lasting(q) /\ fresh'[q] = fresh[q]
  BY <1>2, <1>3 DEF Same, Lasting, ReconcilesTyped, NodesTyped
<1>5. \A q \in Pools \ {p} : Holds(q)' /\ Owes(q)'
  BY <1>3, <1>4, Untouched
<1>6. /\ pc'[p] = "write" /\ remove'[p] = leaving
      /\ fresh'[p] = fresh[p] \cup Current(leaving)
  BY <1>2, <1>3 DEF ReconcilesTyped, NodesTyped
<1>7. /\ update[p] \subseteq newStatus[p].nodes /\ fresh[p] \subseteq update[p]
      /\ \A n \in update[p] \cap fresh[p] : Belongs(n, p) /\ ~Given(n, p, inst[p].spec)
  BY <1>3 DEF IRest, Holds
<1>8. /\ leaving \subseteq Nodes \ newStatus[p].nodes /\ Current(leaving) \subseteq leaving
      /\ \A n \in leaving : nodeCache[n] # Absent /\ nodeCache[n].current = p
      /\ \A n \in Current(leaving) : nodeCache[n] = nodes[n]
  BY <1>2 DEF Cached, Current, Seen
<1> HIDE DEF leaving
<1>9. update[p] \cap fresh'[p] = update[p] \cap fresh[p]
  BY <1>6, <1>7, <1>8
<1>10. Holds(p)'
  <2>1. \A n \in remove'[p] \cap fresh'[p] : Member(n, p)'
    <3> SUFFICES ASSUME NEW n \in leaving \cap fresh'[p]
                 PROVE  Member(n, p)'
      BY <1>6
    <3>1. n \in Current(leaving)
      BY <1>6, <1>7, <1>8
    <3>2. QED
      BY <1>3, <1>8, <3>1 DEF Member
  <2>2. \A n \in update'[p] \cap fresh'[p] : Belongs(n, p)' /\ ~Given(n, p, inst[p].spec)'
    BY <1>3, <1>7, <1>9 DEF Belongs, Given, Member
  <2>3. QED
    BY <1>3, <1>6, <1>7, <2>1, <2>2 DEF Holds
<1>11. ASSUME Calm(p)'
       PROVE  Going(p)'
  <2>1. Calm(p)
    BY <1>3, <1>11 DEF Calm, Told, Before, Tells
  <2>2. Going(p)
    BY <1>3, <2>1 DEF IRest, Owes
  <2>3. \A n \in Nodes \ newStatus[p].nodes : Member(n, p) => n \in leaving
    BY <2>1, AsCached DEF Calm, leaving, Cached, Member
  <2>4. CountOf(p)' = CountOf(p)
    BY <1>3 DEF CountOf
  <2>5. update'[p] \subseteq fresh'[p] => newStatus'[p] = CountOf(p)'
    BY <1>3, <1>9, <2>2, <2>4 DEF Going
  <2>6. QED
    BY <1>3, <1>6, <2>2, <2>3, <2>5 DEF Going, Belongs, Given, Member
<1>12. Owes(p)'
  BY <1>6, <1>11 DEF Owes
<1>13. QED
  BY <1>1, <1>3, <1>5, <1>10, <1>12, NodesKeptAtRest, PoolsKeptAtRest DEF IRest

\* A reconcile's write of a node that it may write tells its own pool, which
\* so is not at rest; to the others it is somebody's write.
LEMMA ReconcileWrites ==
    ASSUME IRest, NEW p \in Pools, NEW n \in Nodes, NEW value, NEW err \in BOOLEAN,
           \/ UNCHANGED nodeVars /\ err
           \/ /\ WriteNode(n, value) /\ value \in Node /\ Follows(nodes[n], value)
              /\ TaintsRecorded(value) /\ value # nodes[n] /\ Tells(p, nodes[n], value),
           relisted => relisted', UNCHANGED poolVars,
           err => Return(p, TRUE),
           ~err => /\ pc[p] = "write" /\ UNCHANGED <<pc, inst, newStatus, queued>>
                   /\ update'[p] \subseteq update[p] /\ remove'[p] \subseteq remove[p]
                   /\ \A q \in Pools \ {p} : update'[q] = update[q] /\ remove'[q] = remove[q]
    PROVE  Steps' /\ NodesTainted' /\ PoolSeen' /\ \A q \in Pools : Holds(q)' /\ Owes(q)'
<1>1. UNCHANGED <<pools, poolCache, lagging>>
  BY DEF poolVars
<1>2. \A q \in Pools \ {p} : Same(q) /\ Lasting(q)
  <2>1. CASE err
    BY <1>1, <2>1, ReturnParts DEF Lasting
  <2>2. CASE ~err
    BY <1>1, <2>2 DEF Same, Lasting
  <2>3. QED
    BY <2>1, <2>2
<1>3. err => Holds(p)' /\ Owes(p)'
  BY ReturnParts, Idle
<1>4. CASE UNCHANGED nodeVars /\ err
  <2>1. UNCHANGED <<nodes, nodeCache, pending>> /\ fresh' = fresh
    BY <1>4 DEF nodeVars
  <2>2. \A q \in Pools \ {p} : Holds(q)' /\ Owes(q)'
    BY <1>2, <2>1, Untouched
  <2>3. QED
    BY <1>1, <1>3, <1>4, <2>1, <2>2, NodesKeptAtRest, PoolsKeptAtRest
<1>5. CASE /\ WriteNode(n, value) /\ value \in Node /\ Follows(nodes[n], value)
           /\ TaintsRecorded(value) /\ value # nodes[n] /\ Tells(p, nodes[n], value)
  <2>1. \A q \in Pools \ {p} : Holds(q)' /\ Owes(q)'
    BY <1>2, <1>5, NodeWritten
  <2>2. Steps' /\ NodesTainted' /\ PoolSeen'
    BY <1>1, <1>5, NodeWrittenAtRest, PoolsKeptAtRest
  <2>3. ASSUME ~err
        PROVE  Holds(p)' /\ Owes(p)'
    <3>1. Told(p, n)'
      BY <1>5, WriteTells
    <3>2. Owes(p)'
      BY <3>1 DEF Owes, Calm
    <3>3. /\ \A q \in Nodes \ {n} : nodes'[q] = nodes[q]
          /\ fresh'[p] = fresh[p] \ {n}
      BY <1>5, TypesAtRest DEF WriteNode, NodesTyped
    <3>4. update[p] \subseteq Nodes /\ remove[p] \subseteq Nodes
      BY TypesAtRest DEF ReconcilesTyped
    <3>5. /\ update[p] \subseteq newStatus[p].nodes
          /\ \A q \in update[p] \cap fresh[p] : Belongs(q, p) /\ ~Given(q, p, inst[p].spec)
          /\ \A q \in remove[p] \cap fresh[p] : Member(q, p)
      BY DEF IRest, Holds
    <3>6. \A q \in update'[p] \cap fresh'[p] : Belongs(q, p)' /\ ~Given(q, p, inst[p].spec)'
      <4> SUFFICES ASSUME NEW q \in update'[p] \cap fresh'[p]
                   PROVE  Belongs(q, p)' /\ ~Given(q, p, inst[p].spec)'
        OBVIOUS
      <4>1. q \in Nodes \ {n} /\ Belongs(q, p) /\ ~Given(q, p, inst[p].spec)
        BY <2>3, <3>3, <3>4, <3>5
      <4>2. QED
        BY <2>3, <3>3, <4>1 DEF Belongs, Given, Member
    <3>7. \A q \in remove'[p] \cap fresh'[p] : Member(q, p)'
      <4> SUFFICES ASSUME NEW q \in remove'[p] \cap fresh'[p]
                   PROVE  Member(q, p)'
        OBVIOUS
      <4>1. q \in Nodes \ {n} /\ Member(q, p)
        BY <2>3, <3>3, <3>4, <3>5
      <4>2. QED
        BY <3>3, <4>1 DEF Member
    <3>8. QED
      BY <2>3, <3>2, <3>5, <3>6, <3>7 DEF Holds
  <2>4. QED
    BY <1>3, <2>1, <2>2, <2>3
<1>6. QED
  BY <1>4, <1>5

LEMMA RemoveNodeRest ==
    ASSUME IRest, NEW p \in Pools, NEW n \in Nodes, RemoveNode(p, n)
    PROVE  IRest'
<1> DEFINE value == RemovePoolRelatedAttrs(nodes[n])
           accepted == n \in fresh[p]
<1>1. IInv'
  BY RemoveNodeStep DEF IRest
<1>2. PICK err \in BOOLEAN :
         /\ UpdateNode(n, value, accepted, err)
         /\ IF err THEN Return(p, TRUE)
            ELSE /\ remove' = [remove EXCEPT ![p] = @ \ {n}]
                 /\ UNCHANGED <<pc, inst, update, newStatus, queued>>
  BY DEF RemoveNode
<1>3. pc[p] = "write" /\ n \in remove[p] /\ UNCHANGED poolVars
  BY DEF RemoveNode
<1>4. accepted => /\ value \in Node /\ Follows(nodes[n], value) /\ TaintsRecorded(value)
                  /\ value # nodes[n] /\ Tells(p, nodes[n], value)
  <2> SUFFICES ASSUME accepted
               PROVE  /\ value \in Node /\ Follows(nodes[n], value) /\ TaintsRecorded(value)
                      /\ value # nodes[n] /\ Tells(p, nodes[n], value)
    OBVIOUS
  <2>1. nodes[n] # Absent /\ nodes[n].current = p /\ p # None
    BY <1>3, ConstantAssumption DEF IRest, Holds, Member
  <2>2. nodes[n] \in Node /\ Sound(nodes[n]) /\ TaintsRecorded(nodes[n])
    BY <2>1, TypesAtRest DEF NodesTyped, NodesSound, IRest, NodesTainted
  <2>3. nodes[n].prev # None
    BY <2>1, <2>2 DEF Sound
  <2>4. value \in Node
    BY <2>2, RemovePoolRelatedAttrsTyped
  <2>5. /\ value.current = None /\ value.prev = None
        /\ value.taints = [t \in TaintKeys |-> IF nodes[n].prev.taints[t] # None THEN None
                                               ELSE nodes[n].taints[t]]
    BY <2>2, <2>3 DEF RemovePoolRelatedAttrs, Node
  <2>6. TaintsRecorded(value)
    <3>1. Recorded(nodes[n]) = nodes[n].prev /\ Recorded(value) = NoAttributes
      BY <2>3, <2>5 DEF Recorded
    <3>2. \A t \in TaintKeys : NoAttributes.taints[t] = None
      BY DEF NoAttributes
    <3>3. QED
      BY <2>2, <2>5, <3>1, <3>2 DEF TaintsRecorded
  <2>7. QED
    BY <2>1, <2>4, <2>5, <2>6 DEF Follows, Tells
<1> HIDE DEF value, accepted
<1>5. ~err => /\ pc[p] = "write" /\ UNCHANGED <<pc, inst, newStatus, queued>>
              /\ update'[p] \subseteq update[p] /\ remove'[p] \subseteq remove[p]
              /\ \A q \in Pools \ {p} : update'[q] = update[q] /\ remove'[q] = remove[q]
  BY <1>2, <1>3, TypesAtRest DEF ReconcilesTyped
<1>6. /\ err \in BOOLEAN /\ err => Return(p, TRUE)
      /\ \/ UNCHANGED nodeVars /\ err
         \/ accepted /\ WriteNode(n, value)
      /\ relisted => relisted'
  BY <1>2, FaultsLast DEF UpdateNode
<1>7. Steps' /\ NodesTainted' /\ PoolSeen' /\ \A q \in Pools : Holds(q)' /\ Owes(q)'
  BY <1>3, <1>4, <1>5, <1>6, ReconcileWrites
<1>8. QED
  BY <1>1, <1>7 DEF IRest

\* Taints that users leave alone are what the pool asks for.
LEMMA ConcilateNodeRecords ==
    ASSUME NEW node \in Node, NEW p \in Pools, NEW spec \in Attributes, TaintsRecorded(node)
    PROVE  TaintsRecorded(ConcilateNode(node, p, spec))
<1> DEFINE new == ConcilateNode(node, p, spec)
           taints == Conciliate(node.taints, Recorded(node).taints, spec.taints)
<1>1. spec # None
  BY ConstantAssumption
<1>2. CASE node.prev = spec
  <2>1. new.prev = spec /\ new.taints = node.taints
    BY <1>2 DEF ConcilateNode, Node
  <2>2. Recorded(new) = Recorded(node)
    BY <1>2, <2>1 DEF Recorded
  <2>3. QED
    BY <2>1, <2>2 DEF TaintsRecorded
<1>3. CASE node.prev # spec
  <2>1. new.prev = spec /\ new.taints = taints
    BY <1>3 DEF ConcilateNode, Node
  <2>2. Recorded(new) = spec
    BY <1>1, <2>1 DEF Recorded
  <2>3. node.taints \in [TaintKeys -> Values]
    BY DEF Node
  <2>4. \A t \in TaintKeys \ UserTaints : taints[t] = spec.taints[t]
    BY <2>3 DEF TaintsRecorded, Conciliate
  <2>5. QED
    BY <2>1, <2>2, <2>4 DEF TaintsRecorded
<1>4. QED
  BY <1>2, <1>3

LEMMA AddOrUpdateNodeRest ==
    ASSUME IRest, NEW p \in Pools, NEW n \in Nodes, AddOrUpdateNode(p, n)
    PROVE  IRest'
<1> DEFINE value == ConcilateNode(nodes[n], p, inst[p].spec)
           accepted == n \in fresh[p] /\ ~DuplicatesTaint(nodes[n], inst[p].spec)
<1>1. IInv'
  BY AddOrUpdateNodeStep DEF IRest
<1>2. PICK err \in BOOLEAN :
         /\ UpdateNode(n, value, accepted, err)
         /\ IF err THEN Return(p, TRUE)
            ELSE /\ update' = [update EXCEPT ![p] = @ \ {n}]
                 /\ UNCHANGED <<pc, inst, remove, newStatus, queued>>
  BY DEF AddOrUpdateNode
<1>3. pc[p] = "write" /\ n \in update[p] /\ UNCHANGED poolVars
  BY DEF AddOrUpdateNode
<1>4. accepted => /\ value \in Node /\ Follows(nodes[n], value) /\ TaintsRecorded(value)
                  /\ value # nodes[n] /\ Tells(p, nodes[n], value)
  <2> SUFFICES ASSUME n \in fresh[p]
               PROVE  /\ value \in Node /\ Follows(nodes[n], value) /\ TaintsRecorded(value)
                      /\ value # nodes[n] /\ Tells(p, nodes[n], value)
    OBVIOUS
  <2>1. Belongs(n, p) /\ ~Given(n, p, inst[p].spec)
    BY <1>3 DEF IRest, Holds
  <2>2. nodes[n] \in Node /\ TaintsRecorded(nodes[n]) /\ inst[p].spec \in Attributes
    BY <2>1, TypesAtRest DEF Belongs, NodesTyped, IRest, NodesTainted, ReconcilesTyped, PoolObject
  <2>3. value \in Node /\ TaintsRecorded(value)
    BY <2>2, ConcilateNodeTyped, ConcilateNodeRecords
  <2>4. value # nodes[n]
    BY <2>1, <2>2, ConcilateNodeSame DEF Given, Belongs, Member
  <2>5. value.current = p /\ value.desired = p
    BY <2>1, <2>2 DEF ConcilateNode, Node, Belongs
  <2>6. value # Absent
    BY <2>3, AbsentIsNoObject
  <2>7. QED
    BY <2>3, <2>4, <2>5, <2>6 DEF Follows, Tells
<1> HIDE DEF value, accepted
<1>5. ~err => /\ pc[p] = "write" /\ UNCHANGED <<pc, inst, newStatus, queued>>
              /\ update'[p] \subseteq update[p] /\ remove'[p] \subseteq remove[p]
              /\ \A q \in Pools \ {p} : update'[q] = update[q] /\ remove'[q] = remove[q]
  BY <1>2, <1>3, TypesAtRest DEF ReconcilesTyped
<1>6. /\ err \in BOOLEAN /\ err => Return(p, TRUE)
      /\ \/ UNCHANGED nodeVars /\ err
         \/ accepted /\ WriteNode(n, value)
      /\ relisted => relisted'
  BY <1>2, FaultsLast DEF UpdateNode
<1>7. Steps' /\ NodesTainted' /\ PoolSeen' /\ \A q \in Pools : Holds(q)' /\ Owes(q)'
  BY <1>3, <1>4, <1>5, <1>6, ReconcileWrites
<1>8. QED
  BY <1>1, <1>7 DEF IRest

\* A reconcile that comes to its end without an error has written what it
\* counted, or found it there.
LEMMA UpdateStatusRest ==
    ASSUME IRest, NEW p \in Pools, UpdateStatus(p)
    PROVE  IRest'
<1> DEFINE value == [pools[p] EXCEPT !.status = newStatus[p]]
<1>1. IInv'
  BY UpdateStatusStep DEF IRest
<1>2. PoolsTyped /\ ReconcilesTyped
  BY TypesAtRest
<1>3. /\ pc[p] = "write" /\ remove[p] = {} /\ update[p] = {}
      /\ UNCHANGED <<nodes, nodeCache, pending>> /\ fresh' = fresh
  BY DEF UpdateStatus, nodeVars
<1>4. \E err \in BOOLEAN : Return(p, err)
  BY DEF UpdateStatus
<1>5. relisted => relisted'
  BY FaultsLast DEF UpdateStatus
<1>6. /\ pc'[p] = "idle" /\ remove'[p] = {} /\ update'[p] = {}
      /\ queued \subseteq queued' /\ \A q \in Pools \ {p} : Same(q)
  BY <1>4, ReturnParts
<1>7. \/ UNCHANGED <<pools, poolCache, lagging>> /\ (Return(p, TRUE) \/ StatusUnchanged(p))
      \/ pools[p] \in PoolObject /\ value \in PoolObject /\ WritePool(p, value)
  <2>1. pools[p] # Absent => pools[p] \in PoolObject /\ value \in PoolObject
    BY <1>2 DEF PoolsTyped, ReconcilesTyped, PoolObject
  <2>2. QED
    BY <2>1 DEF UpdateStatus, poolVars
<1> HIDE DEF value
<1>8. /\ PoolSeen' /\ lagging \subseteq lagging'
      /\ \A q \in Pools : pools'[q] = pools[q] \/ q \in lagging'
  BY <1>7, PoolsKeptAtRest, PoolWrittenAtRest
<1>9. \A q \in Pools : Lasting(q)
  BY <1>5, <1>6, <1>8 DEF Lasting
<1>10. \A q \in Pools \ {p} : Holds(q)' /\ Owes(q)'
  BY <1>3, <1>6, <1>9, Untouched
<1>11. Holds(p)'
  BY <1>6 DEF Holds
<1>12. ASSUME Calm(p)'
       PROVE  Done(p)'
  <2>1. \A n \in Nodes : Told(p, n)' <=> Told(p, n)
    BY <1>3 DEF Told, Before, Tells
  <2>2. Calm(p) /\ pools'[p] = pools[p]
    BY <1>9, <1>12, <2>1, StillCalm
  <2>3. Going(p)
    BY <1>3, <2>2 DEF IRest, Owes
  <2>4. newStatus[p] = CountOf(p)
    BY <1>3, <2>3 DEF Going
  <2>5. pools'[p].status = newStatus[p]
    <3>1. CASE StatusUnchanged(p)
      BY <2>2, <2>3, <3>1 DEF StatusUnchanged, Going
    <3>2. CASE pools[p] \in PoolObject /\ WritePool(p, value)
      <4>1. pools'[p] = value /\ value.status = newStatus[p]
        BY <1>2, <3>2 DEF WritePool, PoolsTyped, PoolObject, value
      <4>2. QED
        BY <4>1
    <3>3. CASE Return(p, TRUE)
      BY <1>12, <3>3, ReturnParts DEF Calm
    <3>4. QED
      BY <1>7, <3>1, <3>2, <3>3
  <2>6. CountOf(p)' = CountOf(p)
    BY <1>3 DEF CountOf
  <2>7. \A n \in Nodes : (Belongs(n, p) => Given(n, p, pools[p].spec)) /\ (Member(n, p) => Belongs(n, p))
    BY <1>3, <2>3 DEF Going
  <2>8. QED
    BY <1>3, <2>2, <2>4, <2>5, <2>6, <2>7 DEF Done, Belongs, Given, Member
<1>13. Owes(p)'
  BY <1>6, <1>12 DEF Owes
<1>14. QED
  BY <1>1, <1>3, <1>8, <1>10, <1>11, <1>13, NodesKeptAtRest DEF IRest

LEMMA ReconcileFailsRest ==
    ASSUME IRest, NEW p \in Pools, ReconcileFails(p)
    PROVE  IRest'
<1>1. IInv'
  BY ReconcileFailsStep DEF IRest
<1>2. /\ UNCHANGED <<nodes, nodeCache, pending>> /\ fresh' = fresh
      /\ UNCHANGED <<pools, poolCache, lagging>> /\ Return(p, TRUE)
  BY DEF ReconcileFails, nodeVars, poolVars
<1>3. relisted => relisted'
  BY FaultsLast DEF ReconcileFails
<1>4. \A q \in Pools \ {p} : Same(q) /\ Lasting(q)
  BY <1>2, <1>3, ReturnParts DEF Lasting
<1>5. \A q \in Pools \ {p} : Holds(q)' /\ Owes(q)'
  BY <1>2, <1>4, Untouched
<1>6. Holds(p)' /\ Owes(p)'
  BY <1>2, ReturnParts, Idle
<1>7. QED
  BY <1>1, <1>2, <1>5, <1>6, NodesKeptAtRest, PoolsKeptAtRest DEF IRest

-----------------------------------------------------------------------------
(* The other steps.                                                         *)

\* A pool is written by no reconcile, or not at all.
LEMMA PoolStep ==
    ASSUME IRest, IInv', UNCHANGED nodeVars, UNCHANGED <<queued, reconcileVars>>,
           relisted => relisted',
           \/ UNCHANGED poolVars
           \/ \E p \in Pools : \E value \in PoolObject \cup {Absent} : WritePool(p, value)
    PROVE  IRest'
<1>1. /\ UNCHANGED <<nodes, nodeCache, pending>> /\ fresh' = fresh
      /\ UNCHANGED <<pc, inst, remove, update, newStatus>> /\ queued' = queued
  BY DEF nodeVars, reconcileVars
<1>2. /\ PoolSeen' /\ lagging \subseteq lagging'
      /\ \A q \in Pools : pools'[q] = pools[q] \/ q \in lagging'
  BY PoolsKeptAtRest, PoolWrittenAtRest DEF poolVars
<1>3. \A q \in Pools : Same(q) /\ Lasting(q)
  BY <1>1, <1>2 DEF Same, Lasting
<1>4. \A q \in Pools : Holds(q)' /\ Owes(q)'
  BY <1>1, <1>3, Untouched
<1>5. QED
  BY <1>1, <1>2, <1>4, NodesKeptAtRest DEF IRest

\* A node is written by no reconcile.
LEMMA NodeStep ==
    ASSUME IRest, IInv', UNCHANGED poolVars, NEW kind, UserAction(kind),
           NEW n \in Nodes, NEW value \in Node \cup {Absent}, WriteNode(n, value),
           Follows(nodes[n], value), value # Absent => TaintsRecorded(value)
    PROVE  IRest'
<1>1. /\ UNCHANGED <<pools, poolCache, lagging>> /\ queued' = queued /\ relisted' = relisted
      /\ UNCHANGED <<pc, inst, remove, update, newStatus>>
  BY DEF poolVars, UserAction, reconcileVars
<1>2. \A q \in Pools : Same(q) /\ Lasting(q)
  BY <1>1 DEF Same, Lasting
<1>3. \A q \in Pools : Holds(q)' /\ Owes(q)'
  BY <1>2, NodeWritten
<1>4. QED
  BY <1>1, <1>3, NodeWrittenAtRest, PoolsKeptAtRest DEF IRest

LEMMA CreateDefaultPoolRest ==
    ASSUME IRest, NEW p \in DefaultPools, CreateDefaultPool(p)
    PROVE  IRest'
<1>1. IInv' /\ p \in Pools
  BY CreateDefaultPoolStep, ConstantAssumption DEF IRest
<1>2. UNCHANGED nodeVars /\ UNCHANGED <<queued, reconcileVars>>
  BY DEF CreateDefaultPool
<1>3. relisted => relisted'
  BY FaultsLast DEF CreateDefaultPool
<1>4. UNCHANGED poolVars \/ \E q \in Pools : \E value \in PoolObject \cup {Absent} : WritePool(q, value)
  BY <1>1, NoAttributesTyped DEF CreateDefaultPool
<1>5. QED
  BY <1>1, <1>2, <1>3, <1>4, PoolStep

LEMMA SyncNodeRest ==
    ASSUME IRest, NEW n \in Nodes, SyncNode(n)
    PROVE  IRest'
<1>1. IInv'
  BY SyncNodeStep DEF IRest
<1>2. /\ nodes' = nodes /\ fresh' = fresh /\ UNCHANGED <<pools, poolCache, lagging>>
      /\ queued \subseteq queued' /\ relisted' = relisted
      /\ UNCHANGED <<pc, inst, remove, update, newStatus>>
  BY DEF SyncNode, SeeNode, NoFault, poolVars, reconcileVars
<1>3. \A q \in Pools : Same(q) /\ Lasting(q)
  BY <1>2 DEF Same, Lasting
<1>4. \A q \in Pools : Holds(q)' /\ Owes(q)'
  BY <1>2, <1>3, SyncTells, NodesSame
<1>5. NodesTainted'
  BY <1>2 DEF IRest, NodesTainted, TaintsRecorded, Recorded
<1>6. QED
  BY <1>1, <1>2, <1>4, <1>5, SyncTells, PoolsKeptAtRest DEF IRest

\* After versions were skipped nothing is claimed of the pools at rest.
LEMMA RelistNodeRest ==
    ASSUME IRest, NEW n \in Nodes, RelistNode(n)
    PROVE  IRest'
<1>1. IInv'
  BY RelistNodeStep DEF IRest
<1>2. /\ nodes' = nodes /\ fresh' = fresh /\ UNCHANGED <<pools, poolCache, lagging>>
      /\ UNCHANGED <<pc, inst, remove, update, newStatus>> /\ relisted'
      /\ nodeCache' = [nodeCache EXCEPT ![n] = nodes[n]] /\ pending' = [pending EXCEPT ![n] = << >>]
  BY DEF RelistNode, SeeNode, Fault, poolVars, reconcileVars
<1>3. \A q \in Pools : Holds(q)' /\ Owes(q)'
  BY <1>2 DEF IRest, Holds, Owes, Calm, Belongs, Given, Member
<1>4. NodesTainted'
  BY <1>2 DEF IRest, NodesTainted, TaintsRecorded, Recorded
<1>5. Steps'
  <2>1. pending'[n] = << >> /\ \A q \in Nodes \ {n} : pending'[q] = pending[q] /\ nodeCache'[q] = nodeCache[q]
    BY <1>2, TypesAtRest DEF NodesTyped
  <2> SUFFICES ASSUME NEW q \in Nodes, NEW i \in 1 .. Len(pending'[q])
               PROVE  Before(q, i)' # pending'[q][i] /\ Follows(Before(q, i)', pending'[q][i])
    BY DEF Steps, Follows
  <2>2. q # n
    BY <2>1
  <2>3. Before(q, i)' = Before(q, i) /\ pending'[q] = pending[q]
    BY <2>1, <2>2 DEF Before
  <2>4. QED
    BY <2>3 DEF IRest, Steps
<1>6. QED
  BY <1>1, <1>2, <1>3, <1>4, <1>5, PoolsKeptAtRest DEF IRest

LEMMA SyncPoolRest ==
    ASSUME IRest, NEW p \in Pools, SyncPool(p)
    PROVE  IRest'
<1>1. IInv'
  BY SyncPoolStep DEF IRest
<1>2. /\ UNCHANGED <<nodes, nodeCache, pending>> /\ fresh' = fresh
      /\ UNCHANGED <<pc, inst, remove, update, newStatus>> /\ relisted' = relisted
      /\ pools' = pools /\ lagging' = lagging \ {p} /\ queued' = queued \cup {p}
      /\ poolCache' = [poolCache EXCEPT ![p] = pools[p]]
  BY DEF SyncPool, nodeVars, reconcileVars, boundVars
<1>3. \A q \in Pools : Same(q) /\ Lasting(q)
  BY <1>2 DEF Same, Lasting
<1>4. \A q \in Pools : Holds(q)' /\ Owes(q)'
  BY <1>2, <1>3, Untouched
<1>5. PoolSeen'
  BY <1>2, TypesAtRest DEF IRest, PoolSeen, PoolsTyped
<1>6. QED
  BY <1>1, <1>2, <1>4, <1>5, NodesKeptAtRest DEF IRest

LEMMA ResyncRest ==
    ASSUME IRest, NEW p \in Pools, Resync(p)
    PROVE  IRest'
<1>1. IInv'
  BY ResyncStep DEF IRest
<1>2. /\ UNCHANGED <<nodes, nodeCache, pending>> /\ fresh' = fresh
      /\ UNCHANGED <<pools, poolCache, lagging>>
      /\ UNCHANGED <<pc, inst, remove, update, newStatus>> /\ relisted' = relisted
      /\ queued' = queued \cup {p}
  BY DEF Resync, nodeVars, poolVars, reconcileVars, boundVars
<1>3. \A q \in Pools : Same(q) /\ Lasting(q)
  BY <1>2 DEF Same, Lasting
<1>4. \A q \in Pools : Holds(q)' /\ Owes(q)'
  BY <1>2, <1>3, Untouched
<1>5. QED
  BY <1>1, <1>2, <1>4, NodesKeptAtRest, PoolsKeptAtRest DEF IRest

\* Whoever starts has every pool that exists in its queue.
LEMMA CrashRest ==
    ASSUME IRest, Crash
    PROVE  IRest'
<1>1. IInv'
  BY CrashStep DEF IRest
<1>2. /\ nodes' = nodes /\ pools' = pools /\ poolCache' = pools
      /\ pending' = [n \in Nodes |-> << >>]
      /\ pc' = [p \in Pools |-> "idle"]
      /\ remove' = [p \in Pools |-> {}] /\ update' = [p \in Pools |-> {}]
      /\ queued' = {p \in Pools : pools[p] # Absent}
  BY DEF Crash
<1>3. \A q \in Pools : Holds(q)' /\ Owes(q)'
  <2> SUFFICES ASSUME NEW q \in Pools
               PROVE  Holds(q)' /\ Owes(q)'
    OBVIOUS
  <2>1. pc'[q] = "idle" /\ remove'[q] = {} /\ update'[q] = {}
    BY <1>2
  <2>2. q \in queued' \/ ~Calm(q)'
    BY <1>2 DEF Calm
  <2>3. QED
    BY <2>1, <2>2, Idle
<1>4. PoolSeen' /\ NodesTainted'
  BY <1>2 DEF IRest, PoolSeen, NodesTainted, TaintsRecorded, Recorded
<1>5. Steps'
  BY <1>2 DEF Steps
<1>6. QED
  BY <1>1, <1>3, <1>4, <1>5 DEF IRest

\* What a user finds in a node.
LEMMA NodeFoundAtRest ==
    ASSUME IRest, NEW n \in Nodes, nodes[n] # Absent
    PROVE  nodes[n] \in Node /\ TaintsRecorded(nodes[n])
BY TypesAtRest DEF NodesTyped, IRest, NodesTainted

LEMMA UserOnNodeRest ==
    ASSUME IRest, NEW n \in Nodes, UserOnNode(n)
    PROVE  IRest'
<1>1. IInv'
  BY UserOnNodeStep DEF IRest
<1>2. ASSUME DeleteNode(n)
      PROVE  IRest'
  <2>1. Follows(nodes[n], Absent)
    BY DEF Follows
  <2>2. QED
    BY <1>1, <1>2, <2>1, NodeStep DEF DeleteNode
<1>3. ASSUME FlipReady(n)
      PROVE  IRest'
  <2> DEFINE value == [nodes[n] EXCEPT !.ready = ~@]
  <2>1. nodes[n] \in Node /\ TaintsRecorded(nodes[n]) /\ nodes[n] # Absent
    BY <1>3, NodeFoundAtRest DEF FlipReady
  <2>2. /\ value \in Node /\ value.taints = nodes[n].taints /\ value.prev = nodes[n].prev
        /\ value.current = nodes[n].current
    BY <2>1 DEF Node
  <2>3. TaintsRecorded(value) /\ Follows(nodes[n], value)
    BY <2>1, <2>2 DEF TaintsRecorded, Recorded, Follows
  <2>4. UserAction("ready") /\ WriteNode(n, value) /\ UNCHANGED poolVars
    BY <1>3 DEF FlipReady
  <2> HIDE DEF value
  <2>5. QED
    BY <1>1, <2>2, <2>3, <2>4, NodeStep
<1>4. ASSUME NEW p \in Pools \cup {None}, RegisterNode(n, p)
      PROVE  IRest'
  <2>1. NewNode(p) \in Node
    BY NoAttributesTyped DEF NewNode, Node, Values, NoAttributes
  <2>2. TaintsRecorded(NewNode(p)) /\ Follows(nodes[n], NewNode(p))
    BY DEF TaintsRecorded, Recorded, NewNode, Follows
  <2>3. QED
    BY <1>1, <1>4, <2>1, <2>2, NodeStep DEF RegisterNode
<1>5. ASSUME NEW p \in Pools \cup {None}, AssignNode(n, p)
      PROVE  IRest'
  <2> DEFINE value == [nodes[n] EXCEPT !.desired = p]
  <2>1. nodes[n] \in Node /\ TaintsRecorded(nodes[n]) /\ nodes[n] # Absent
    BY <1>5, NodeFoundAtRest DEF AssignNode
  <2>2. /\ value \in Node /\ value.taints = nodes[n].taints /\ value.prev = nodes[n].prev
        /\ value.current = nodes[n].current
    BY <2>1 DEF Node
  <2>3. TaintsRecorded(value) /\ Follows(nodes[n], value)
    BY <2>1, <2>2 DEF TaintsRecorded, Recorded, Follows
  <2>4. UserAction("assign") /\ WriteNode(n, value) /\ UNCHANGED poolVars
    BY <1>5 DEF AssignNode
  <2> HIDE DEF value
  <2>5. QED
    BY <1>1, <2>2, <2>3, <2>4, NodeStep
<1>6. ASSUME NEW v \in UserValues \cup {None}, NEW k \in Keys, SetAttribute(n, k, v)
      PROVE  IRest'
  <2> DEFINE value == [nodes[n] EXCEPT !.attrs[k] = v]
  <2>1. nodes[n] \in Node /\ TaintsRecorded(nodes[n]) /\ nodes[n] # Absent
    BY <1>6, NodeFoundAtRest DEF SetAttribute
  <2>2. /\ value.taints = nodes[n].taints /\ value.prev = nodes[n].prev
        /\ value.current = nodes[n].current
    BY <2>1 DEF Node
  <2>3. v \in Values
    BY DEF Values
  <2>4. value \in Node
    BY <2>1, <2>3 DEF Node
  <2>5. TaintsRecorded(value) /\ Follows(nodes[n], value)
    BY <2>1, <2>2 DEF TaintsRecorded, Recorded, Follows
  <2>6. UserAction("attribute") /\ WriteNode(n, value) /\ UNCHANGED poolVars
    BY <1>6 DEF SetAttribute
  <2> HIDE DEF value
  <2>7. QED
    BY <1>1, <2>4, <2>5, <2>6, NodeStep
<1>7. ASSUME NEW v \in UserValues \cup {None}, NEW t \in UserTaints, SetTaint(n, t, v)
      PROVE  IRest'
  <2> DEFINE value == [nodes[n] EXCEPT !.taints[t] = v]
  <2>1. nodes[n] \in Node /\ TaintsRecorded(nodes[n]) /\ nodes[n] # Absent
    BY <1>7, NodeFoundAtRest DEF SetTaint
  <2>2. /\ value.taints = [nodes[n].taints EXCEPT ![t] = v] /\ value.prev = nodes[n].prev
        /\ value.current = nodes[n].current /\ nodes[n].taints \in [TaintKeys -> Values]
    BY <2>1 DEF Node
  <2>3. v \in Values /\ t \in TaintKeys
    BY ConstantAssumption DEF Values
  <2>4. value \in Node
    BY <2>1, <2>3 DEF Node
  <2>5. TaintsRecorded(value) /\ Follows(nodes[n], value)
    BY <2>1, <2>2 DEF TaintsRecorded, Recorded, Follows
  <2>6. UserAction("taint") /\ WriteNode(n, value) /\ UNCHANGED poolVars
    BY <1>7 DEF SetTaint
  <2> HIDE DEF value
  <2>7. QED
    BY <1>1, <2>4, <2>5, <2>6, NodeStep
<1>8. QED
  BY <1>2, <1>3, <1>4, <1>5, <1>6, <1>7 DEF UserOnNode

LEMMA UserOnPoolRest ==
    ASSUME IRest, NEW p \in Pools, UserOnPool(p)
    PROVE  IRest'
<1>1. IInv'
  BY UserOnPoolStep DEF IRest
<1>2. PoolsTyped /\ Specs \subseteq Attributes
  BY TypesAtRest, ConstantAssumption
<1>3. pools[p] # Absent => pools[p] \in PoolObject
  BY <1>2 DEF PoolsTyped
<1>4. UNCHANGED nodeVars /\ UNCHANGED <<queued, reconcileVars>> /\ relisted' = relisted
  BY DEF UserOnPool, CreatePool, EditPool, EditConvertedPool, AdmitDeletion, FinishDeletion,
         UserAction, boundVars
<1>5. \/ UNCHANGED poolVars
      \/ \E value \in PoolObject \cup {Absent} : WritePool(p, value)
  <2>1. ASSUME NEW spec \in Specs, CreatePool(p, spec)
        PROVE  \E value \in PoolObject \cup {Absent} : WritePool(p, value)
    <3>1. [NoPool EXCEPT !.spec = spec] \in PoolObject
      BY <1>2, NoAttributesTyped, SpecTyped
    <3>2. QED
      BY <2>1, <3>1 DEF CreatePool
  <2>2. ASSUME NEW spec \in Specs, EditPool(p, spec)
        PROVE  \E value \in PoolObject \cup {Absent} : WritePool(p, value)
    <3>1. [pools[p] EXCEPT !.spec = spec] \in PoolObject
      BY <1>2, <1>3, <2>2, SpecTyped DEF EditPool
    <3>2. QED
      BY <2>2, <3>1 DEF EditPool
  <2>3. ASSUME EditConvertedPool(p)
        PROVE  \E value \in PoolObject \cup {Absent} : WritePool(p, value)
    <3>1. pools[p] \in PoolObject /\ pools[p].spec \in Attributes
      BY <1>3, <2>3 DEF EditConvertedPool, PoolObject
    <3>2. Converted(pools[p].spec) \in Attributes
      BY <3>1 DEF Converted, Attributes
    <3>3. [pools[p] EXCEPT !.spec = Converted(@)] \in PoolObject
      BY <3>1, <3>2, SpecTyped
    <3>4. QED
      BY <2>3, <3>3 DEF EditConvertedPool
  <2>4. QED
    BY <2>1, <2>2, <2>3 DEF UserOnPool, AdmitDeletion, FinishDeletion
<1>6. QED
  BY <1>1, <1>4, <1>5, PoolStep

LEMMA StartRest == Init => IRest
<1> SUFFICES ASSUME Init
             PROVE  IRest
  OBVIOUS
<1>1. IInv
  BY Start
<1>2. PoolSeen /\ Steps
  BY DEF Init, PoolSeen, Steps
<1>3. NodesTainted
  <2>1. \A n \in Nodes : nodes[n] = NewNode(InitialPool)
    BY DEF Init
  <2>2. TaintsRecorded(NewNode(InitialPool))
    BY DEF TaintsRecorded, Recorded, NewNode
  <2>3. QED
    BY <2>1, <2>2 DEF NodesTainted
<1>4. ASSUME NEW p \in Pools
      PROVE  Holds(p) /\ Owes(p)
  <2>1. pc[p] = "idle" /\ update[p] = {} /\ remove[p] = {}
    BY DEF Init
  <2>2. p \in queued \/ pools[p] = Absent
    BY DEF Init
  <2>3. QED
    BY <2>1, <2>2 DEF Holds, Owes, Calm
<1>5. QED
  BY <1>1, <1>2, <1>3, <1>4 DEF IRest

LEMMA InductiveRest == IRest /\ [Next]_vars => IRest'
<1> SUFFICES ASSUME IRest, [Next]_vars
             PROVE  IRest'
  OBVIOUS
<1>1. ASSUME NEW p \in Pools, Reconcile(p)
      PROVE  IRest'
  BY <1>1, SkipMissingRest, ListDesiredRest, ListCurrentRest, RemoveNodeRest,
     AddOrUpdateNodeRest, UpdateStatusRest, ReconcileFailsRest DEF Reconcile
<1>2. ASSUME NEW p \in Pools, SyncPool(p) \/ Resync(p) \/ UserOnPool(p)
      PROVE  IRest'
  BY <1>2, SyncPoolRest, ResyncRest, UserOnPoolRest
<1>3. ASSUME NEW p \in DefaultPools, CreateDefaultPool(p)
      PROVE  IRest'
  BY <1>3, CreateDefaultPoolRest
<1>4. ASSUME NEW n \in Nodes, SyncNode(n) \/ RelistNode(n) \/ UserOnNode(n)
      PROVE  IRest'
  BY <1>4, SyncNodeRest, RelistNodeRest, UserOnNodeRest
<1>5. CASE UNCHANGED vars
  <2>1. /\ UNCHANGED nodeVars /\ UNCHANGED poolVars
        /\ UNCHANGED <<queued, reconcileVars>> /\ relisted' = relisted
    BY <1>5 DEF vars, boundVars
  <2>2. IInv'
    BY Inductive DEF IRest
  <2>3. QED
    BY <2>1, <2>2, PoolStep
<1>6. QED
  BY <1>1, <1>2, <1>3, <1>4, <1>5, CrashRest DEF Next

\* Every reachable state satisfies the invariant of rest: unless versions were
\* skipped, a pool of which nothing is on its way to the queue has been served,
\* or its reconcile knows what is still to be done.
THEOREM RestInvariance == Spec => []IRest
BY StartRest, InductiveRest, PTL DEF Spec

\* At rest nothing is on its way to any pool.
LEMMA AllDone ==
    ASSUME IRest, Quiescent, ~relisted, NEW p \in Pools, pools[p] # Absent
    PROVE  Done(p)
<1>1. \A n \in Nodes : ~Told(p, n)
  BY DEF Quiescent, Told
<1>2. Calm(p)
  BY <1>1 DEF Quiescent, Calm
<1>3. QED
  BY <1>2 DEF IRest, Owes, Quiescent

\* At rest every node is a member of the pool it is assigned to, has the
\* pool's attributes, and is a member of no other (the events and the two
\* lists of Reconcile).
THEOREM RestJoins == Spec => []RestMeansJoined
<1>1. ASSUME IRest, Quiescent, ~relisted, NEW n \in Nodes
      PROVE  Joined(n)
  <2> SUFFICES ASSUME nodes[n] # Absent
               PROVE  /\ Existing(nodes[n].desired) =>
                            /\ nodes[n].current = nodes[n].desired
                            /\ nodes[n].prev = pools[nodes[n].desired].spec
                            /\ \A t \in TaintKeys \ UserTaints :
                                  nodes[n].taints[t] = pools[nodes[n].desired].spec.taints[t]
                      /\ Existing(nodes[n].current) => nodes[n].current = nodes[n].desired
    BY DEF Joined
  <2>1. nodes[n] \in Node /\ TaintsRecorded(nodes[n])
    BY <1>1, NodeFoundAtRest
  <2>2. nodes[n].desired \in Pools \cup {None} /\ nodes[n].current \in Pools \cup {None}
    BY <2>1 DEF Node
  <2>3. ASSUME Existing(nodes[n].desired)
        PROVE  /\ nodes[n].current = nodes[n].desired
               /\ nodes[n].prev = pools[nodes[n].desired].spec
               /\ \A t \in TaintKeys \ UserTaints :
                     nodes[n].taints[t] = pools[nodes[n].desired].spec.taints[t]
    <3> DEFINE p == nodes[n].desired
    <3>1. p \in Pools /\ pools[p] # Absent
      BY <2>2, <2>3 DEF Existing
    <3>2. Given(n, p, pools[p].spec)
      BY <1>1, <3>1, AllDone DEF Done, Belongs
    <3>3. pools[p].spec \in Attributes
      BY <1>1, <3>1, TypesAtRest DEF PoolsTyped, PoolObject
    <3>4. pools[p].spec # None
      BY <3>3, ConstantAssumption
    <3>5. Recorded(nodes[n]) = pools[p].spec
      BY <3>2, <3>4 DEF Given, Recorded
    <3>6. QED
      BY <2>1, <3>2, <3>5 DEF Given, Member, TaintsRecorded
  <2>4. ASSUME Existing(nodes[n].current)
        PROVE  nodes[n].current = nodes[n].desired
    <3>1. nodes[n].current \in Pools /\ pools[nodes[n].current] # Absent
      BY <2>2, <2>4 DEF Existing
    <3>2. Belongs(n, nodes[n].current)
      BY <1>1, <3>1, AllDone DEF Done, Member
    <3>3. QED
      BY <3>2 DEF Belongs
  <2>5. QED
    BY <2>3, <2>4
<1>2. IRest => RestMeansJoined
  BY <1>1 DEF RestMeansJoined
<1>3. QED
  BY <1>2, RestInvariance, PTL

\* At rest the status of a pool names its nodes and counts those that are
\* ready (conciliateNodePoolStatus).
THEOREM StatusTrue == Spec => []StatusAtRest
<1>1. ASSUME IRest, Quiescent, ~relisted, NEW p \in Pools, pools[p] # Absent
      PROVE  pools[p].status = CountOf(p)
  BY <1>1, AllDone DEF Done
<1>2. IRest => StatusAtRest
  BY <1>1 DEF StatusAtRest, CountOf
<1>3. QED
  BY <1>2, RestInvariance, PTL

=============================================================================
