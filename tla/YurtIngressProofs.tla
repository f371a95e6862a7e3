-------------------------- MODULE YurtIngressProofs --------------------------
(***************************************************************************)
(* The types of the YurtIngress controller: the counters of a status never *)
(* run below zero and its conditions name only pools that there are.  And  *)
(* what holds at rest: each pool is served but for what another            *)
(* YurtIngress's calls took from it, each status is true, and what the     *)
(* pools share stands unless a reconcile was stopped amid it.  For every   *)
(* set of YurtIngresses, pools, parts of a pool and specifications,        *)
(* whatever fails, conflicts or makes the manager panic.                   *)
(***************************************************************************)
EXTENDS YurtIngress, FiniteSetTheorems, TLAPS

Todo == [common : BOOLEAN, added : SUBSET Pools, removed : SUBSET Pools,
         updated : SUBSET Pools, jobs : SUBSET Pools, ips : SUBSET Pools,
         pool : Pools \cup {Absent}, n : Nat]

\* TypeOK by its parts, with what types alone do not give: a YurtIngress that
\* nobody wrote since it was read is there, ...
IngsTyped ==
    /\ ings \in [Ings -> Ingress \cup {Unborn, Absent}]
    /\ fresh \subseteq Ings
    /\ \A y \in fresh : Exists(y)

RestTyped ==
    /\ rest \in [Pools -> SUBSET (PartNames \ {"configuration"})]
    /\ hook \in [Pools -> Ings \cup {Absent}]
    /\ lost \in [Pools -> SUBSET Serving]

\* ... a Deployment that was not written is cached as it is, ...
DepTyped ==
    /\ dep \in [Pools -> Deployment \cup {Absent}]
    /\ depCache \in [Pools -> Deployment \cup {Absent}]
    /\ lagging \subseteq Pools
    /\ RestTyped
    /\ \A p \in Pools \ lagging : depCache[p] = dep[p]

NsTyped ==
    /\ ns \in {"gone", "active", "terminating"}
    /\ nsCache \in {"gone", "active", "terminating"}
    /\ common \subseteq Sharable

\* ... and a reconcile under way has read its YurtIngress, and with a pool in
\* hand has calls left to make for it.
InProgress(work) == work.pool \in work.added \cup work.removed => work.n \in DOMAIN Parts

ReconcileTyped ==
    /\ queued \subseteq Ings
    /\ pc \in [Ings -> {"idle", "apply", "retire", "status", "finalize", "cleanup"}]
    /\ inst \in [Ings -> Ingress \cup {Absent}]
    /\ todo \in [Ings -> Todo]
    /\ only \in [Ings -> BOOLEAN]
    /\ \A y \in Ings : (pc[y] # "idle" => inst[y] # Absent) /\ InProgress(todo[y])

Counted ==
    /\ faults \in 0 .. MaxEvents /\ edits \in 0 .. MaxEvents
    /\ dropped \in BOOLEAN /\ cut \in BOOLEAN

IInv == IngsTyped /\ DepTyped /\ NsTyped /\ ReconcileTyped /\ Counted

LEMMA Typed == IInv => TypeOK
BY DEF IInv, TypeOK, IngsTyped, DepTyped, RestTyped, NsTyped, ReconcileTyped, Counted, Todo

-----------------------------------------------------------------------------
(* Objects and statuses.                                                    *)

LEMMA SpecParts ==
    ASSUME NEW spec \in IngressSpec
    PROVE  /\ spec.replicas \in Replicas /\ spec.image \in Images /\ spec.certgen \in CertGens
           /\ DOMAIN spec.pools \subseteq Pools
           /\ \A p \in DOMAIN spec.pools : spec.pools[p] \in IPs
<1>1. PICK ps \in SUBSET Pools : spec \in [replicas : Replicas, image : Images, certgen : CertGens,
                                           pools : [ps -> IPs]]
  BY DEF IngressSpec
<1>2. QED
  BY <1>1

LEMMA ConditionParts ==
    ASSUME NEW c \in Conditions
    PROVE  /\ DOMAIN c \subseteq Pools
           /\ c \in [DOMAIN c -> [ready : BOOLEAN, ips : IPs]]
<1>1. PICK ps \in SUBSET Pools : c \in [ps -> [ready : BOOLEAN, ips : IPs]]
  BY DEF Conditions
<1>2. QED
  BY <1>1

LEMMA ConditionsOf ==
    ASSUME NEW ps, ps \subseteq Pools, NEW c \in [ps -> [ready : BOOLEAN, ips : IPs]]
    PROVE  c \in Conditions
BY DEF Conditions

LEMMA IngressParts ==
    ASSUME NEW ing \in Ingress
    PROVE  /\ ing.spec \in IngressSpec /\ ing.status \in Status
           /\ Asked(ing) \subseteq Pools /\ Listed(ing) \subseteq Pools
           /\ IsFiniteSet(Asked(ing)) /\ Cardinality(Asked(ing)) \in Nat
<1>1. ing.spec \in IngressSpec /\ ing.status \in Status /\ ing.status.conditions \in Conditions
  BY DEF Ingress, Status
<1>2. Asked(ing) \subseteq Pools /\ Listed(ing) \subseteq Pools
  BY <1>1, SpecParts, ConditionParts DEF Asked, Listed
<1>3. IsFiniteSet(Asked(ing))
  BY <1>2, ConstantAssumption, FS_Subset
<1>4. QED
  BY <1>1, <1>2, <1>3, FS_CardinalityType

LEMMA LessIsNat ==
    ASSUME NEW n \in Nat, NEW k \in Nat
    PROVE  Less(n, k) \in Nat
BY DEF Less

\* The cardinality of any set of pools.
LEMMA PoolsCounted ==
    ASSUME NEW ps, ps \subseteq Pools
    PROVE  Cardinality(ps) \in Nat
BY ConstantAssumption, FS_Subset, FS_CardinalityType

LEMMA ChangedStatusTyped ==
    ASSUME NEW ing \in Ingress, NEW retired \in BOOLEAN
    PROVE  ChangedStatus(ing, retired) \in Status
<1> DEFINE old == ing.status
           removed == IF Asked(ing) = {} THEN {} ELSE Removed(ing)
           kept == IF retired THEN {} ELSE (Listed(ing) \ removed) \cup Added(ing)
           ready == Less(old.readyNum, Cardinality(ReadyIn(old.conditions) \cap removed))
           unready == Less(old.unreadyNum + Cardinality(Added(ing)),
                           Cardinality(removed \ ReadyIn(old.conditions)))
           reset == Unchanged(ing) # {} /\ ing.spec.image # old.image
           conditions == [p \in kept |-> IF p \in Listed(ing) THEN old.conditions[p]
                                         ELSE [ready |-> FALSE, ips |-> ing.spec.pools[p]]]
           readyNum == IF retired \/ reset THEN 0 ELSE ready
           unreadyNum == IF retired THEN 0 ELSE IF reset THEN Cardinality(Asked(ing)) ELSE unready
<1>1. /\ Asked(ing) \subseteq Pools /\ Listed(ing) \subseteq Pools
      /\ old \in Status /\ ing.spec \in IngressSpec
  BY IngressParts
<1>2. /\ removed \subseteq Pools /\ Added(ing) \subseteq Pools
      /\ kept \subseteq Listed(ing) \cup Asked(ing) /\ kept \subseteq Pools
  BY <1>1 DEF Removed, Added
<1>3. conditions \in Conditions
  <2>1. /\ old.conditions \in [Listed(ing) -> [ready : BOOLEAN, ips : IPs]]
        /\ \A p \in Asked(ing) : ing.spec.pools[p] \in IPs
    BY <1>1, ConditionParts, SpecParts DEF Status, Listed, Asked
  <2>2. conditions \in [kept -> [ready : BOOLEAN, ips : IPs]]
    BY <1>2, <2>1
  <2>3. QED
    BY <1>2, <2>2, ConditionsOf
<1>4. /\ Cardinality(ReadyIn(old.conditions) \cap removed) \in Nat
      /\ Cardinality(removed \ ReadyIn(old.conditions)) \in Nat
      /\ Cardinality(Added(ing)) \in Nat /\ Cardinality(Asked(ing)) \in Nat
  BY <1>1, <1>2, PoolsCounted
<1>5. readyNum \in Nat /\ unreadyNum \in Nat
  <2>1. old.readyNum \in Nat /\ old.unreadyNum + Cardinality(Added(ing)) \in Nat
    BY <1>1, <1>4 DEF Status
  <2>2. ready \in Nat /\ unready \in Nat
    BY <1>4, <2>1, LessIsNat
  <2>3. QED
    BY <1>4, <2>2
<1>6. ChangedStatus(ing, retired) =
        [old EXCEPT !.conditions = conditions, !.readyNum = readyNum, !.unreadyNum = unreadyNum]
  BY DEF ChangedStatus
<1> HIDE DEF conditions, readyNum, unreadyNum, old
<1>7. QED
  BY <1>1, <1>3, <1>5, <1>6 DEF Status

\* No pool is reported that is not asked for: otherwise the manager panics.
LEMMA ObservedStatusTyped ==
    ASSUME NEW y \in Ings, NEW ing \in Ingress, Reported(y, ing) \subseteq Asked(ing)
    PROVE  ObservedStatus(y, ing) \in Status
<1> DEFINE ready == {p \in Reported(y, ing) : depCache[p].up = ing.spec.replicas}
           conditions == [p \in Reported(y, ing) |->
                              [ready |-> p \in ready, ips |-> ing.spec.pools[p]]]
<1>1. /\ Asked(ing) \subseteq Pools /\ IsFiniteSet(Asked(ing)) /\ ing.status \in Status
      /\ \A p \in Asked(ing) : ing.spec.pools[p] \in IPs
  BY IngressParts, SpecParts DEF Asked
<1>2. conditions \in Conditions
  <2>1. conditions \in [Reported(y, ing) -> [ready : BOOLEAN, ips : IPs]]
    BY <1>1
  <2>2. QED
    BY <1>1, <2>1, ConditionsOf
<1>3. /\ Cardinality(ready) \in Nat /\ Cardinality(Asked(ing)) \in Nat
      /\ Cardinality(ready) <= Cardinality(Asked(ing))
  <2>1. ready \subseteq Asked(ing)
    OBVIOUS
  <2> HIDE DEF ready
  <2>2. QED
    BY <1>1, <2>1, FS_Subset, FS_CardinalityType
<1>4. ObservedStatus(y, ing) =
        [ing.status EXCEPT !.conditions = conditions, !.readyNum = Cardinality(ready),
                           !.unreadyNum = Cardinality(Asked(ing)) - Cardinality(ready)]
  BY DEF ObservedStatus
<1>5. Cardinality(Asked(ing)) - Cardinality(ready) \in Nat
  BY <1>3
<1> HIDE DEF conditions, ready
<1>6. QED
  BY <1>1, <1>2, <1>3, <1>4, <1>5 DEF Status

LEMMA PlanTyped ==
    ASSUME NEW ing \in Ingress
    PROVE  /\ Plan(ing) \in Todo /\ [Nothing EXCEPT !.removed = Asked(ing)] \in Todo
           /\ InProgress(Plan(ing)) /\ InProgress([Nothing EXCEPT !.removed = Asked(ing)])
<1>1. Asked(ing) \subseteq Pools /\ Listed(ing) \subseteq Pools
  BY IngressParts
<1>2. QED
  BY <1>1, ConstantAssumption DEF Plan, Todo, Nothing, InProgress, Added, Removed, Unchanged, IfDiffers

LEMMA NewIngressTyped ==
    ASSUME NEW spec \in IngressSpec
    PROVE  NewIngress(spec) \in Ingress
<1>1. NewStatus.conditions \in Conditions
  <2>1. NewStatus.conditions \in [{} -> [ready : BOOLEAN, ips : IPs]]
    BY DEF NewStatus
  <2>2. QED
    BY <2>1, ConditionsOf
<1>2. NewStatus \in Status
  BY <1>1 DEF NewStatus, Status
<1>3. QED
  BY <1>2 DEF NewIngress, Ingress

\* What the helper creates for a pool, and what pools share.
LEMMA ObjectNames ==
    /\ Serving \subseteq PartNames /\ "deployment" \notin PartNames
    /\ \A n \in DOMAIN Parts : n # 0 /\ Object(n) = Parts[n] /\ Object(n) \in PartNames
    /\ Object(0) = "deployment"
    /\ Sharable = {"clusterRoles", "roles", "accounts", "config"}
<1>1. /\ \A n \in DOMAIN Parts : Parts[n] \in PartNames /\ n # 0
      /\ Parts \in Seq(PartNames)
  BY PartsAssumption
<1>2. DOMAIN Shared = 1 .. 4
  BY DEF Shared
<1>3. Sharable = {Shared[1], Shared[2], Shared[3], Shared[4]}
  BY <1>2 DEF Sharable
<1>4. QED
  BY <1>1, <1>3 DEF Serving, PartNames, Object, Shared

-----------------------------------------------------------------------------
(* What a step leaves alone, and what it writes.                            *)

LEMMA IngsUntouched == IInv /\ UNCHANGED <<ings, fresh>> => IngsTyped'
BY DEF IInv, IngsTyped, Exists

LEMMA DepUntouched == IInv /\ UNCHANGED depVars => DepTyped'
BY DEF IInv, depVars, DepTyped, RestTyped

LEMMA NsUntouched == IInv /\ UNCHANGED nsVars => NsTyped'
BY DEF IInv, nsVars, NsTyped

LEMMA ReconcileUntouched ==
    ASSUME IInv, UNCHANGED reconcileVars, queued' \subseteq Ings
    PROVE  ReconcileTyped'
BY DEF IInv, reconcileVars, ReconcileTyped

LEMMA CountedUntouched == IInv /\ UNCHANGED boundVars => Counted'
BY DEF IInv, boundVars, Counted

LEMMA WriteIngressTyped ==
    ASSUME IInv, NEW y \in Ings, NEW value \in Ingress \cup {Absent}, WriteIngress(y, value)
    PROVE  IngsTyped'
<1>1. /\ ings' = [ings EXCEPT ![y] = value]
      /\ fresh' \subseteq fresh /\ (y \in fresh' => value = ings[y])
  BY DEF WriteIngress
<1>2. \A z \in fresh' : Exists(z)'
  BY <1>1 DEF IInv, IngsTyped, Exists
<1>3. QED
  BY <1>1, <1>2 DEF IInv, IngsTyped

LEMMA WriteDepTyped ==
    ASSUME IInv, NEW p \in Pools, NEW value \in Deployment \cup {Absent}, WriteDep(p, value),
           RestTyped', UNCHANGED depCache
    PROVE  DepTyped'
BY DEF IInv, DepTyped, WriteDep

\* The object of a call with a pool in hand.
LEMMA CallOf ==
    ASSUME IInv, NEW y \in Ings, NEW p \in todo[y].added \cup todo[y].removed, InHand(y, p)
    PROVE  Object(todo[y].n) \in PartNames \cup {"deployment"}
BY ObjectNames DEF InHand, IInv, ReconcileTyped, InProgress

LEMMA MakeTyped ==
    ASSUME IInv, NEW y \in Ings, pc[y] # "idle", NEW p \in Pools,
           NEW object \in PartNames \cup {"deployment"}, Make(y, p, object)
    PROVE  DepTyped'
<1>1. inst[y] \in Ingress
  BY DEF IInv, ReconcileTyped
<1>2. inst[y].spec.replicas \in Replicas
  BY <1>1, IngressParts, SpecParts
<1>3. NewDeployment(y) \in Deployment
  BY <1>2 DEF NewDeployment, Deployment
<1>4. RestTyped'
  <2>1. rest' \in [Pools -> SUBSET (PartNames \ {"configuration"})]
    BY DEF IInv, DepTyped, RestTyped, Make
  <2>2. hook' \in [Pools -> Ings \cup {Absent}]
    BY DEF IInv, DepTyped, RestTyped, Make
  <2>3. lost' \in [Pools -> SUBSET Serving]
    BY DEF IInv, DepTyped, RestTyped, Make
  <2>4. QED
    BY <2>1, <2>2, <2>3 DEF RestTyped
<1>5. CASE UNCHANGED <<dep, lagging>>
  BY <1>4, <1>5 DEF IInv, DepTyped, Make
<1>6. CASE WriteDep(p, NewDeployment(y))
  BY <1>3, <1>4, <1>6, WriteDepTyped DEF Make
<1>7. QED
  BY <1>5, <1>6 DEF Make

LEMMA TakesTyped ==
    ASSUME IInv, NEW y, NEW p \in Pools, NEW object, Takes(y, p, object)
    PROVE  lost' \in [Pools -> SUBSET Serving]
<1>1. Has(p) \subseteq Serving
  BY DEF Has
<1>2. QED
  BY <1>1 DEF Takes, IInv, DepTyped, RestTyped

LEMMA UnmakeTyped ==
    ASSUME IInv, NEW y, NEW p \in Pools, NEW object, Unmake(y, p, object)
    PROVE  DepTyped'
<1>1. RestTyped'
  <2>1. rest' \in [Pools -> SUBSET (PartNames \ {"configuration"})]
    BY DEF IInv, DepTyped, RestTyped, Unmake
  <2>2. hook' \in [Pools -> Ings \cup {Absent}]
    BY DEF IInv, DepTyped, RestTyped, Unmake
  <2>3. QED
    BY <2>1, <2>2, TakesTyped DEF RestTyped, Unmake
<1>2. CASE UNCHANGED <<dep, lagging>>
  BY <1>1, <1>2 DEF IInv, DepTyped, Unmake
<1>3. CASE WriteDep(p, Absent)
  BY <1>1, <1>3, WriteDepTyped DEF Unmake
<1>4. QED
  BY <1>2, <1>3 DEF Unmake

LEMMA FaultCounted ==
    ASSUME IInv, NEW kind, Fault(kind)
    PROVE  faults' \in 0 .. MaxEvents /\ edits' \in 0 .. MaxEvents
BY ConstantAssumption DEF IInv, Counted, Fault

LEMMA NothingIsTodo == Nothing \in Todo /\ InProgress(Nothing)
BY DEF Nothing, Todo, InProgress

LEMMA ReturnTyped ==
    ASSUME IInv, NEW y \in Ings, NEW news, news \subseteq Ings, Return(y, FALSE, news)
    PROVE  ReconcileTyped'
<1>1. queued' \subseteq Ings
  BY DEF IInv, ReconcileTyped, Return
<1>2. QED
  BY <1>1, NothingIsTodo DEF IInv, ReconcileTyped, Return

\* A reconcile that ends with an error, or without one and without news.
LEMMA EndTyped ==
    ASSUME IInv, NEW y \in Ings, Return(y, TRUE, {}) \/ Return(y, FALSE, {})
    PROVE  ReconcileTyped'
<1>1. /\ pc' = [pc EXCEPT ![y] = "idle"] /\ inst' = [inst EXCEPT ![y] = Absent]
      /\ todo' = [todo EXCEPT ![y] = Nothing] /\ only' = [only EXCEPT ![y] = FALSE]
  BY DEF Return
<1>2. queued' \subseteq Ings
  BY DEF IInv, ReconcileTyped, Return
<1>3. QED
  BY <1>1, <1>2, NothingIsTodo DEF IInv, ReconcileTyped

LEMMA FailsTyped ==
    ASSUME IInv, NEW y \in Ings, Fails(y)
    PROVE  ReconcileTyped' /\ Counted' /\ fresh' = fresh
<1>1. /\ Return(y, TRUE, {}) /\ fresh' = fresh /\ Fault("error")
      /\ dropped' = dropped /\ cut' = cut
  BY DEF Fails, CallFails
<1>2. QED
  BY <1>1, EndTyped, FaultCounted DEF IInv, Counted

LEMMA FailsHalfwayTyped ==
    ASSUME IInv, NEW y \in Ings, FailsHalfway(y)
    PROVE  ReconcileTyped' /\ Counted' /\ fresh' = fresh
<1>1. /\ Return(y, TRUE, {}) /\ fresh' = fresh /\ Fault("error")
      /\ dropped' = dropped /\ cut' = TRUE
  BY DEF FailsHalfway
<1>2. QED
  BY <1>1, EndTyped, FaultCounted DEF IInv, Counted

\* Some of the work is done, and the reconcile goes on.
LEMMA WorkTyped ==
    ASSUME IInv, NEW y \in Ings, NEW work \in Todo, InProgress(work), todo' = [todo EXCEPT ![y] = work],
           UNCHANGED <<pc, inst, only, queued>>
    PROVE  ReconcileTyped'
BY DEF IInv, ReconcileTyped

\* A YurtIngress that a reconcile holds.
LEMMA Held ==
    ASSUME IInv, NEW y \in Ings, pc[y] # "idle"
    PROVE  inst[y] \in Ingress /\ todo[y] \in Todo /\ InProgress(todo[y])
BY DEF IInv, ReconcileTyped

\* The work, with the next call made or the last one.
LEMMA CallingParts ==
    ASSUME NEW work \in Todo, NEW p \in Pools \cup {Absent}
    PROVE  /\ Calling(work, p) \in Todo
           /\ Calling(work, p).pool = p /\ Calling(work, p).n = work.n + 1
           /\ Calling(work, p).added = work.added /\ Calling(work, p).removed = work.removed
           /\ Calling(work, p).common <=> work.common
<1>1. work.n + 1 \in Nat
  BY DEF Todo
<1>2. Calling(work, p) = [work EXCEPT !.pool = p, !.n = work.n + 1]
  BY DEF Calling
<1> DEFINE next == work.n + 1
<1> HIDE DEF next
<1>3. Calling(work, p) = [work EXCEPT !.pool = p, !.n = next]
  BY <1>2 DEF next
<1>4. next \in Nat
  BY <1>1 DEF next
<1>5. /\ Calling(work, p) \in Todo
      /\ Calling(work, p).pool = p /\ Calling(work, p).n = next
      /\ Calling(work, p).added = work.added /\ Calling(work, p).removed = work.removed
      /\ Calling(work, p).common <=> work.common
  BY <1>3, <1>4 DEF Todo
<1>6. QED
  BY <1>5 DEF next

LEMMA FinishedParts ==
    ASSUME NEW work \in Todo
    PROVE  /\ Finished(work) \in Todo
           /\ Finished(work).pool = Absent /\ Finished(work).n = 0
           /\ Finished(work).added = work.added /\ Finished(work).removed = work.removed
BY DEF Finished, Todo

\* The next call for a pool, or the first: there are calls left.
LEMMA CallingTyped ==
    ASSUME NEW work \in Todo, NEW p \in Pools, work.n < Len(Parts)
    PROVE  Calling(work, p) \in Todo /\ InProgress(Calling(work, p))
<1>1. Calling(work, p) \in Todo /\ Calling(work, p).n = work.n + 1
  BY CallingParts
<1>2. DOMAIN Parts = 1 .. Len(Parts) /\ Len(Parts) \in Nat
  BY PartsAssumption
<1>3. work.n \in Nat
  BY DEF Todo
<1>4. work.n + 1 \in DOMAIN Parts
  BY <1>2, <1>3
<1>5. QED
  BY <1>1, <1>4 DEF InProgress

\* Work on what is shared, for no pool.
LEMMA CommonTyped ==
    ASSUME NEW work \in Todo
    PROVE  /\ Calling(work, Absent) \in Todo /\ InProgress(Calling(work, Absent))
           /\ Finished(work) \in Todo /\ InProgress(Finished(work))
           /\ [Finished(work) EXCEPT !.common = FALSE] \in Todo
           /\ InProgress([Finished(work) EXCEPT !.common = FALSE])
<1>1. work.added \subseteq Pools /\ work.removed \subseteq Pools
  BY DEF Todo
<1>2. Absent \notin work.added \cup work.removed
  BY <1>1, ConstantAssumption
<1>3. Calling(work, Absent) \in Todo /\ InProgress(Calling(work, Absent))
  BY <1>2, CallingParts DEF InProgress
<1>4. Finished(work) \in Todo /\ InProgress(Finished(work))
  BY <1>2, FinishedParts DEF InProgress
<1> DEFINE done == Finished(work)
<1>5. done \in Todo /\ done.pool = Absent /\ done.added = work.added /\ done.removed = work.removed
  BY FinishedParts
<1> HIDE DEF done
<1>6. /\ [done EXCEPT !.common = FALSE] \in Todo
      /\ [done EXCEPT !.common = FALSE].pool = Absent
      /\ [done EXCEPT !.common = FALSE].added = work.added
      /\ [done EXCEPT !.common = FALSE].removed = work.removed
  BY <1>5 DEF Todo
<1>7. InProgress([done EXCEPT !.common = FALSE])
  BY <1>2, <1>6 DEF InProgress
<1>8. QED
  BY <1>3, <1>4, <1>6, <1>7 DEF done

\* The last call for a pool.
LEMMA FinishedTyped ==
    ASSUME NEW work \in Todo, NEW p
    PROVE  /\ Created(work, p) \in Todo
           /\ InProgress(Created(work, p))
           /\ Deleted(work, p) \in Todo
           /\ InProgress(Deleted(work, p))
           /\ Recreated(work, p) \in Todo
           /\ InProgress(Recreated(work, p))
BY ConstantAssumption DEF Finished, Created, Deleted, Recreated, Todo, InProgress

LEMMA ExistingTyped ==
    ASSUME IInv, NEW y \in Ings, Exists(y)
    PROVE  ings[y] \in Ingress
BY DEF IInv, IngsTyped, Exists

-----------------------------------------------------------------------------
(* Reconcile.                                                               *)

LEMMA SkipMissingStep ==
    ASSUME IInv, NEW y \in Ings, SkipMissing(y)
    PROVE  IInv'
<1>1. /\ UNCHANGED <<ings, fresh>> /\ UNCHANGED depVars /\ UNCHANGED nsVars
      /\ UNCHANGED reconcileVars /\ UNCHANGED boundVars /\ queued' \subseteq Ings
  BY DEF SkipMissing, IInv, ReconcileTyped
<1>2. QED
  BY <1>1, IngsUntouched, DepUntouched, NsUntouched, ReconcileUntouched, CountedUntouched DEF IInv

LEMMA GetStep ==
    ASSUME IInv, NEW y \in Ings, Get(y)
    PROVE  IInv'
<1> DEFINE ing == [ings[y] EXCEPT !.finalizer = TRUE]
<1>1. /\ Exists(y) /\ ings' = [ings EXCEPT ![y] = ing]
      /\ fresh' = fresh \cup {y}
      /\ UNCHANGED depVars /\ UNCHANGED nsVars /\ UNCHANGED boundVars /\ UNCHANGED only
  BY DEF Get
<1>2. ing \in Ingress
  BY <1>1, ExistingTyped DEF Ingress
<1>3. ings'[y] = ing
  BY <1>1 DEF IInv, IngsTyped
<1>4. /\ queued' \subseteq Ings /\ pc' = [pc EXCEPT ![y] = "apply"]
      /\ inst' = [inst EXCEPT ![y] = ing] /\ todo' = [todo EXCEPT ![y] = Plan(ing)]
  BY <1>3 DEF Get, Notify, IInv, ReconcileTyped
<1> HIDE DEF ing
<1>5. IngsTyped'
  BY <1>1, <1>2, AbsentIsNoObject DEF IInv, IngsTyped, Exists
<1>6. ReconcileTyped'
  BY <1>1, <1>2, <1>4, PlanTyped, AbsentIsNoObject DEF IInv, ReconcileTyped
<1>7. QED
  BY <1>1, <1>5, <1>6, DepUntouched, NsUntouched, CountedUntouched DEF IInv

LEMMA GetDeletedStep ==
    ASSUME IInv, NEW y \in Ings, GetDeleted(y)
    PROVE  IInv'
<1>1. /\ Exists(y) /\ ings' = ings /\ fresh' = fresh \cup {y}
      /\ UNCHANGED depVars /\ UNCHANGED nsVars
      /\ queued' = queued \ {y} /\ pc' = [pc EXCEPT ![y] = "finalize"]
      /\ inst' = [inst EXCEPT ![y] = ings[y]]
      /\ todo' = [todo EXCEPT ![y] = [Nothing EXCEPT !.removed = Asked(ings[y])]]
  BY DEF GetDeleted
<1>2. ings[y] \in Ingress
  BY <1>1, ExistingTyped
<1>3. only' \in [Ings -> BOOLEAN] /\ Counted'
  <2>1. CASE only' = [only EXCEPT ![y] = IsOnly] /\ UNCHANGED boundVars
    BY <2>1, CountedUntouched DEF IInv, ReconcileTyped, IsOnly
  <2>2. CASE CallFails /\ UNCHANGED only
    BY <2>2, FaultCounted DEF IInv, ReconcileTyped, Counted, CallFails
  <2>3. QED
    BY <2>1, <2>2 DEF GetDeleted
<1>4. IngsTyped'
  BY <1>1 DEF IInv, IngsTyped, Exists
<1>5. ReconcileTyped'
  BY <1>1, <1>2, <1>3, PlanTyped, AbsentIsNoObject DEF IInv, ReconcileTyped
<1>6. QED
  BY <1>1, <1>3, <1>4, <1>5, DepUntouched, NsUntouched DEF IInv

LEMMA CreateNamespaceStep ==
    ASSUME IInv, NEW y \in Ings, CreateNamespace(y)
    PROVE  IInv'
<1>1. /\ pc[y] = "apply" /\ ings' = ings /\ UNCHANGED depVars /\ nsCache' = nsCache /\ common' = common
      /\ ns' \in {ns, "active"}
      /\ \/ /\ todo' = [todo EXCEPT ![y] = Calling(todo[y], Absent)]
            /\ UNCHANGED <<pc, inst, only, queued, fresh>> /\ UNCHANGED boundVars
         \/ Return(y, TRUE, {}) /\ UNCHANGED fresh /\ UNCHANGED boundVars
         \/ Fails(y)
         \/ FailsHalfway(y)
  BY DEF CreateNamespace
<1>2. NsTyped'
  BY <1>1 DEF IInv, NsTyped
<1>3. ReconcileTyped' /\ Counted' /\ fresh' = fresh
  <2>1. CASE /\ todo' = [todo EXCEPT ![y] = Calling(todo[y], Absent)]
             /\ UNCHANGED <<pc, inst, only, queued, fresh>> /\ UNCHANGED boundVars
    BY <1>1, <2>1, Held, CommonTyped, WorkTyped, CountedUntouched
  <2>2. CASE Return(y, TRUE, {}) /\ UNCHANGED fresh /\ UNCHANGED boundVars
    BY <2>2, EndTyped, CountedUntouched
  <2>3. QED
    BY <1>1, <2>1, <2>2, FailsTyped, FailsHalfwayTyped
<1>4. QED
  BY <1>1, <1>2, <1>3, IngsUntouched, DepUntouched DEF IInv

LEMMA CreateCommonStep ==
    ASSUME IInv, NEW y \in Ings, CreateCommon(y)
    PROVE  IInv'
<1> DEFINE object == Shared[todo[y].n]
           work == IF todo[y].n < Len(Shared) THEN Calling(todo[y], Absent)
                   ELSE [Finished(todo[y]) EXCEPT !.common = FALSE]
<1>1. /\ pc[y] = "apply" /\ todo[y].n \in DOMAIN Shared
      /\ ings' = ings /\ UNCHANGED depVars /\ UNCHANGED <<ns, nsCache>>
      /\ common' \in {common, common \cup {object}}
      /\ \/ /\ todo' = [todo EXCEPT ![y] = work]
            /\ UNCHANGED <<pc, inst, only, queued, fresh>> /\ UNCHANGED boundVars
         \/ Return(y, TRUE, {}) /\ UNCHANGED fresh /\ UNCHANGED boundVars
         \/ FailsHalfway(y)
  BY DEF CreateCommon
<1>2. object \in Sharable
  BY <1>1 DEF Sharable
<1>3. NsTyped'
  BY <1>1, <1>2 DEF IInv, NsTyped
<1>4. ReconcileTyped' /\ Counted' /\ fresh' = fresh
  <2>1. CASE todo' = [todo EXCEPT ![y] = work] /\ UNCHANGED <<pc, inst, only, queued, fresh>>
             /\ UNCHANGED boundVars
    <3>1. work \in Todo /\ InProgress(work)
      BY <1>1, Held, CommonTyped
    <3> HIDE DEF work
    <3>2. QED
      BY <2>1, <3>1, WorkTyped, CountedUntouched
  <2>2. CASE Return(y, TRUE, {}) /\ UNCHANGED fresh /\ UNCHANGED boundVars
    BY <2>2, EndTyped, CountedUntouched
  <2>3. QED
    BY <1>1, <2>1, <2>2, FailsHalfwayTyped
<1>5. QED
  BY <1>1, <1>3, <1>4, IngsUntouched, DepUntouched DEF IInv

LEMMA CreateSpecificStep ==
    ASSUME IInv, NEW y \in Ings, NEW p \in Pools, CreateSpecific(y, p)
    PROVE  IInv'
<1> DEFINE object == Object(todo[y].n)
           work == IF todo[y].n < Len(Parts) THEN Calling(todo[y], p)
                   ELSE Created(todo[y], p)
<1>1. /\ pc[y] = "apply" /\ p \in todo[y].added /\ InHand(y, p)
      /\ ings' = ings /\ UNCHANGED nsVars
      /\ UNCHANGED depVars \/ Make(y, p, object)
      /\ \/ /\ todo' = [todo EXCEPT ![y] = work]
            /\ UNCHANGED <<pc, inst, only, queued, fresh>> /\ UNCHANGED boundVars
         \/ Return(y, TRUE, {}) /\ UNCHANGED fresh /\ UNCHANGED boundVars
         \/ Fails(y)
  BY DEF CreateSpecific
<1>2. object \in PartNames \cup {"deployment"}
  BY <1>1, CallOf
<1>3. DepTyped'
  BY <1>1, <1>2, MakeTyped, DepUntouched
<1>4. ReconcileTyped' /\ Counted' /\ fresh' = fresh
  <2>1. CASE todo' = [todo EXCEPT ![y] = work] /\ UNCHANGED <<pc, inst, only, queued, fresh>>
             /\ UNCHANGED boundVars
    <3>1. work \in Todo /\ InProgress(work)
      BY <1>1, Held, CallingTyped, FinishedTyped DEF InHand
    <3> HIDE DEF work
    <3>2. QED
      BY <2>1, <3>1, WorkTyped, CountedUntouched
  <2>2. CASE Return(y, TRUE, {}) /\ UNCHANGED fresh /\ UNCHANGED boundVars
    BY <2>2, EndTyped, CountedUntouched
  <2>3. QED
    BY <1>1, <2>1, <2>2, FailsTyped
<1>5. QED
  BY <1>1, <1>3, <1>4, IngsUntouched, NsUntouched DEF IInv

LEMMA DeleteSpecificStep ==
    ASSUME IInv, NEW y \in Ings, NEW p \in Pools, DeleteSpecific(y, p)
    PROVE  IInv'
<1> DEFINE object == Object(todo[y].n)
           work == IF todo[y].n < Len(Parts) THEN Calling(todo[y], p)
                   ELSE Deleted(todo[y], p)
<1>1. /\ pc[y] # "idle" /\ p \in todo[y].removed /\ InHand(y, p)
      /\ ings' = ings /\ UNCHANGED nsVars
      /\ UNCHANGED depVars \/ Unmake(y, p, object)
      /\ \/ /\ todo' = [todo EXCEPT ![y] = work]
            /\ UNCHANGED <<pc, inst, only, queued, fresh>> /\ UNCHANGED boundVars
         \/ Fails(y)
  BY DEF DeleteSpecific
<1>2. DepTyped'
  BY <1>1, UnmakeTyped, DepUntouched
<1>3. ReconcileTyped' /\ Counted' /\ fresh' = fresh
  <2>1. CASE todo' = [todo EXCEPT ![y] = work] /\ UNCHANGED <<pc, inst, only, queued, fresh>>
             /\ UNCHANGED boundVars
    <3>1. work \in Todo /\ InProgress(work)
      BY <1>1, Held, CallingTyped, FinishedTyped DEF InHand
    <3> HIDE DEF work
    <3>2. QED
      BY <2>1, <3>1, WorkTyped, CountedUntouched
  <2>2. QED
    BY <1>1, <2>1, FailsTyped
<1>4. QED
  BY <1>1, <1>2, <1>3, IngsUntouched, NsUntouched DEF IInv

LEMMA ListOthersStep ==
    ASSUME IInv, NEW y \in Ings, ListOthers(y)
    PROVE  IInv'
<1>1. /\ pc[y] = "apply" /\ UNCHANGED <<ings, fresh>> /\ UNCHANGED depVars /\ UNCHANGED nsVars
      /\ UNCHANGED <<inst, todo, queued>>
      /\ pc' = [pc EXCEPT ![y] = IF only'[y] THEN "retire" ELSE "status"]
  BY DEF ListOthers
<1>2. only' \in [Ings -> BOOLEAN] /\ Counted'
  <2>1. CASE only' = [only EXCEPT ![y] = IsOnly] /\ UNCHANGED boundVars
    BY <2>1, CountedUntouched DEF IInv, ReconcileTyped, IsOnly
  <2>2. CASE CallFails /\ UNCHANGED only
    BY <2>2, FaultCounted DEF IInv, ReconcileTyped, Counted, CallFails
  <2>3. QED
    BY <2>1, <2>2 DEF ListOthers
<1>3. ReconcileTyped'
  BY <1>1, <1>2 DEF IInv, ReconcileTyped
<1>4. QED
  BY <1>1, <1>2, <1>3, IngsUntouched, DepUntouched, NsUntouched DEF IInv

LEMMA DeleteCommonStep ==
    ASSUME IInv, NEW y \in Ings, DeleteCommon(y)
    PROVE  IInv'
<1> DEFINE object == Unshared[todo[y].n + 1]
<1>1. /\ pc[y] \in {"retire", "cleanup"}
      /\ UNCHANGED ings /\ UNCHANGED depVars /\ UNCHANGED <<ns, nsCache>>
      /\ common' \in {common, common \ {object}}
      /\ \/ /\ todo' = [todo EXCEPT ![y] = Calling(todo[y], Absent)]
            /\ UNCHANGED <<pc, inst, only, queued, fresh>> /\ UNCHANGED boundVars
         \/ FailsHalfway(y)
  BY DEF DeleteCommon, DeletingCommon
<1>2. NsTyped'
  BY <1>1 DEF IInv, NsTyped
<1>3. ReconcileTyped' /\ Counted' /\ fresh' = fresh
  <2>1. CASE /\ todo' = [todo EXCEPT ![y] = Calling(todo[y], Absent)]
             /\ UNCHANGED <<pc, inst, only, queued, fresh>> /\ UNCHANGED boundVars
    BY <1>1, <2>1, Held, CommonTyped, WorkTyped, CountedUntouched
  <2>2. QED
    BY <1>1, <2>1, FailsHalfwayTyped
<1>4. QED
  BY <1>1, <1>2, <1>3, IngsUntouched, DepUntouched DEF IInv

LEMMA DeleteNamespaceStep ==
    ASSUME IInv, NEW y \in Ings, DeleteNamespace(y)
    PROVE  IInv'
<1>1. /\ pc[y] \in {"retire", "cleanup"}
      /\ UNCHANGED ings /\ UNCHANGED depVars /\ nsCache' = nsCache /\ common' = common
      /\ ns' \in {ns, NamespaceDeleted}
      /\ \/ /\ fresh' = fresh /\ UNCHANGED boundVars
            /\ pc' = [pc EXCEPT ![y] = "status"]
            /\ todo' = [todo EXCEPT ![y] = Finished(todo[y])]
            /\ UNCHANGED <<inst, only, queued>>
         \/ fresh' = fresh /\ UNCHANGED boundVars /\ Return(y, FALSE, {})
         \/ FailsHalfway(y)
  BY DEF DeleteNamespace, DeletingCommon
<1>2. NsTyped'
  BY <1>1 DEF IInv, NsTyped, NamespaceDeleted
<1>3. ReconcileTyped' /\ Counted' /\ fresh' = fresh
  <2>1. CASE /\ fresh' = fresh /\ UNCHANGED boundVars
             /\ pc' = [pc EXCEPT ![y] = "status"]
             /\ todo' = [todo EXCEPT ![y] = Finished(todo[y])]
             /\ UNCHANGED <<inst, only, queued>>
    <3>1. Finished(todo[y]) \in Todo /\ InProgress(Finished(todo[y]))
      BY <1>1, Held, CommonTyped
    <3>2. ReconcileTyped'
      BY <1>1, <2>1, <3>1 DEF IInv, ReconcileTyped
    <3>3. QED
      BY <2>1, <3>2, CountedUntouched
  <2>2. CASE UNCHANGED boundVars /\ fresh' = fresh /\ Return(y, FALSE, {})
    BY <2>2, EndTyped, CountedUntouched
  <2>3. QED
    BY <1>1, <2>1, <2>2, FailsHalfwayTyped
<1>4. QED
  BY <1>1, <1>2, <1>3, IngsUntouched, DepUntouched DEF IInv

\* The write takes the Deployment of the cache, which is the one there is.
LEMMA RescaleTyped ==
    ASSUME IInv, NEW y \in Ings, pc[y] # "idle", NEW p \in Pools, Rescale(y, p),
           UNCHANGED <<depCache, rest, hook, lost>>
    PROVE  DepTyped'
<1>1. CASE depCache[p] = Absent
  BY <1>1 DEF Rescale, IInv, DepTyped, RestTyped
<1>2. CASE depCache[p] # Absent
  <2> DEFINE value == [dep[p] EXCEPT !.replicas = inst[y].spec.replicas]
  <2>1. dep[p] \in Deployment
    BY <1>2 DEF Rescale, IInv, DepTyped
  <2>2. inst[y].spec.replicas \in Replicas
    BY Held, IngressParts, SpecParts
  <2>3. value \in Deployment
    BY <2>1, <2>2 DEF Deployment
  <2>4. WriteDep(p, value) /\ RestTyped'
    BY <1>2 DEF Rescale, IInv, DepTyped, RestTyped
  <2> HIDE DEF value
  <2>5. QED
    BY <2>3, <2>4, WriteDepTyped
<1>3. QED
  BY <1>1, <1>2

LEMMA UpdateDeploymentStep ==
    ASSUME IInv, NEW y \in Ings, NEW p \in Pools, UpdateDeployment(y, p)
    PROVE  IInv'
<1>1. /\ pc[y] = "apply" /\ ings' = ings /\ UNCHANGED nsVars /\ UNCHANGED <<depCache, rest, hook, lost>>
      /\ \/ /\ Rescale(y, p)
            /\ todo' = [todo EXCEPT ![y].updated = @ \ {p}]
            /\ UNCHANGED <<pc, inst, only, queued, fresh>> /\ UNCHANGED boundVars
         \/ /\ Return(y, TRUE, {})
            /\ UNCHANGED <<dep, lagging, fresh>> /\ UNCHANGED boundVars
         \/ Fails(y) /\ (UNCHANGED <<dep, lagging>> \/ Rescale(y, p))
  BY DEF UpdateDeployment
<1>2. DepTyped'
  BY <1>1, RescaleTyped, DepUntouched DEF depVars
<1>3. ReconcileTyped' /\ Counted' /\ fresh' = fresh
  <2>1. CASE todo' = [todo EXCEPT ![y].updated = @ \ {p}] /\ UNCHANGED <<pc, inst, only, queued, fresh>>
             /\ UNCHANGED boundVars
    <3>1. /\ [todo[y] EXCEPT !.updated = @ \ {p}] \in Todo
          /\ InProgress([todo[y] EXCEPT !.updated = @ \ {p}])
      BY <1>1, Held DEF Todo, InProgress
    <3>2. QED
      BY <2>1, <3>1, WorkTyped, CountedUntouched
  <2>2. CASE Return(y, TRUE, {}) /\ UNCHANGED fresh /\ UNCHANGED boundVars
    BY <2>2, EndTyped, CountedUntouched
  <2>3. CASE Fails(y)
    BY <2>3, FailsTyped
  <2>4. QED
    BY <1>1, <2>1, <2>2, <2>3
<1>4. QED
  BY <1>1, <1>2, <1>3, IngsUntouched, NsUntouched DEF IInv

LEMMA RecreateJobStep ==
    ASSUME IInv, NEW y \in Ings, NEW p \in Pools, RecreateJob(y, p)
    PROVE  IInv'
<1>1. /\ pc[y] = "apply" /\ ings' = ings /\ UNCHANGED nsVars /\ UNCHANGED <<dep, depCache, lagging, hook, lost>>
      /\ UpdatedAll(y) /\ InHand(y, p)
      /\ \/ /\ \/ todo' = [todo EXCEPT ![y] = Calling(todo[y], p)]
               \/ todo' = [todo EXCEPT ![y] = Recreated(todo[y], p)]
            /\ UNCHANGED <<pc, inst, only, queued, fresh>> /\ UNCHANGED boundVars
         \/ Return(y, TRUE, {}) /\ fresh' = fresh /\ UNCHANGED boundVars
         \/ Fails(y)
  BY DEF RecreateJob
<1>2. \/ rest' = rest
      \/ rest' = [rest EXCEPT ![p] = rest[p] \ {"jobs"}]
      \/ rest' = [rest EXCEPT ![p] = rest[p] \cup {"jobs"}]
  BY DEF RecreateJob
<1>3. DepTyped'
  <2>1. rest' \in [Pools -> SUBSET (PartNames \ {"configuration"})]
    BY <1>2 DEF IInv, DepTyped, RestTyped, PartNames
  <2>2. QED
    BY <1>1, <2>1 DEF IInv, DepTyped, RestTyped
<1>4. ReconcileTyped' /\ Counted' /\ fresh' = fresh
  <2>1. CASE todo' = [todo EXCEPT ![y] = Calling(todo[y], p)] /\ UNCHANGED <<pc, inst, only, queued, fresh>>
             /\ UNCHANGED boundVars
    <3>1. todo[y].added = {} /\ todo[y].removed = {}
      BY <1>1 DEF UpdatedAll, RemovedAll, AddedAll
    <3>2. Calling(todo[y], p) \in Todo /\ InProgress(Calling(todo[y], p))
      BY <1>1, <3>1, Held, CallingParts DEF InProgress
    <3>3. QED
      BY <2>1, <3>2, WorkTyped, CountedUntouched
  <2>2. CASE /\ todo' = [todo EXCEPT ![y] = Recreated(todo[y], p)]
             /\ UNCHANGED <<pc, inst, only, queued, fresh>> /\ UNCHANGED boundVars
    <3>1. /\ Recreated(todo[y], p) \in Todo
          /\ InProgress(Recreated(todo[y], p))
      BY <1>1, Held, FinishedTyped
    <3>2. QED
      BY <2>2, <3>1, WorkTyped, CountedUntouched
  <2>3. CASE Return(y, TRUE, {}) /\ fresh' = fresh /\ UNCHANGED boundVars
    BY <2>3, EndTyped, CountedUntouched
  <2>4. QED
    BY <1>1, <2>1, <2>2, <2>3, FailsTyped
<1>5. QED
  BY <1>1, <1>3, <1>4, IngsUntouched, NsUntouched DEF IInv

LEMMA UpdateServiceStep ==
    ASSUME IInv, NEW y \in Ings, NEW p \in Pools, UpdateService(y, p)
    PROVE  IInv'
<1>1. /\ pc[y] = "apply" /\ ings' = ings /\ UNCHANGED nsVars /\ UNCHANGED depVars
      /\ \/ /\ todo' = [todo EXCEPT ![y].ips = @ \ {p}]
            /\ UNCHANGED <<pc, inst, only, queued, fresh>> /\ UNCHANGED boundVars
         \/ Fails(y)
  BY DEF UpdateService
<1>2. ReconcileTyped' /\ Counted' /\ fresh' = fresh
  <2>1. CASE todo' = [todo EXCEPT ![y].ips = @ \ {p}] /\ UNCHANGED <<pc, inst, only, queued, fresh>>
             /\ UNCHANGED boundVars
    <3>1. /\ [todo[y] EXCEPT !.ips = @ \ {p}] \in Todo
          /\ InProgress([todo[y] EXCEPT !.ips = @ \ {p}])
      BY <1>1, Held DEF Todo, InProgress
    <3>2. QED
      BY <2>1, <3>1, WorkTyped, CountedUntouched
  <2>2. CASE Fails(y)
    BY <2>2, FailsTyped
  <2>3. QED
    BY <1>1, <2>1, <2>2
<1>3. QED
  BY <1>1, <1>2, IngsUntouched, DepUntouched, NsUntouched DEF IInv

\* Whoever does not panic writes a status of the right type.
LEMMA WrittenStatusTyped ==
    ASSUME IInv, NEW y \in Ings, pc[y] # "idle", ~Panics(y)
    PROVE  WrittenStatus(y) \in Status
<1> DEFINE status == IF Changed(inst[y]) THEN ChangedStatus(inst[y], only[y])
                     ELSE ObservedStatus(y, inst[y])
<1>1. inst[y] \in Ingress /\ only[y] \in BOOLEAN
  BY Held DEF IInv, ReconcileTyped
<1>2. ChangedStatus(inst[y], only[y]) \in Status
  BY <1>1, ChangedStatusTyped
<1>3. ~Changed(inst[y]) => ObservedStatus(y, inst[y]) \in Status
  BY <1>1, ObservedStatusTyped DEF Panics
<1>4. status \in Status
  BY <1>2, <1>3
<1>5. /\ inst[y].spec.replicas \in Replicas /\ inst[y].spec.image \in Images
      /\ inst[y].spec.certgen \in CertGens
  BY <1>1, IngressParts, SpecParts
<1>6. WrittenStatus(y) = [status EXCEPT !.replicas = inst[y].spec.replicas,
                                        !.image = inst[y].spec.image,
                                        !.certgen = inst[y].spec.certgen]
  BY DEF WrittenStatus
<1> HIDE DEF status
<1>7. QED
  BY <1>4, <1>5, <1>6 DEF Status

LEMMA UpdateStatusStep ==
    ASSUME IInv, NEW y \in Ings, UpdateStatus(y)
    PROVE  IInv'
<1> DEFINE value == [ings[y] EXCEPT !.status = WrittenStatus(y)]
<1>1. /\ pc[y] # "idle" /\ ~Panics(y) /\ UNCHANGED depVars /\ UNCHANGED nsVars
      /\ \/ /\ y \in fresh /\ WriteIngress(y, value)
            /\ Return(y, FALSE, Notify(y, ings'[y])) /\ UNCHANGED boundVars
         \/ Return(y, FALSE, {}) /\ UNCHANGED <<ings, fresh>> /\ UNCHANGED boundVars
         \/ /\ Fault("error") /\ dropped' = TRUE /\ cut' = cut
            /\ Return(y, FALSE, {}) /\ UNCHANGED <<ings, fresh>>
  BY DEF UpdateStatus
<1>2. IngsTyped' /\ ReconcileTyped' /\ Counted'
  <2>1. CASE /\ y \in fresh /\ WriteIngress(y, value)
             /\ Return(y, FALSE, Notify(y, ings'[y])) /\ UNCHANGED boundVars
    <3>1. ings[y] \in Ingress
      BY <2>1, ExistingTyped DEF IInv, IngsTyped
    <3>2. value \in Ingress
      BY <1>1, <3>1, WrittenStatusTyped DEF Ingress
    <3>3. Notify(y, ings'[y]) \subseteq Ings
      BY DEF Notify
    <3> HIDE DEF value
    <3>4. QED
      BY <2>1, <3>2, <3>3, WriteIngressTyped, ReturnTyped, CountedUntouched
  <2>2. CASE Return(y, FALSE, {}) /\ UNCHANGED <<ings, fresh>> /\ UNCHANGED boundVars
    BY <2>2, IngsUntouched, EndTyped, CountedUntouched
  <2>3. CASE /\ Fault("error") /\ dropped' = TRUE /\ cut' = cut
             /\ Return(y, FALSE, {}) /\ UNCHANGED <<ings, fresh>>
    BY <2>3, IngsUntouched, EndTyped, FaultCounted DEF IInv, Counted
  <2>4. QED
    BY <1>1, <2>1, <2>2, <2>3
<1>3. QED
  BY <1>1, <1>2, DepUntouched, NsUntouched DEF IInv

LEMMA RemoveFinalizerStep ==
    ASSUME IInv, NEW y \in Ings, RemoveFinalizer(y)
    PROVE  IInv'
<1>1. /\ pc[y] = "finalize" /\ UNCHANGED depVars /\ UNCHANGED nsVars
      /\ \/ /\ WriteIngress(y, Absent) /\ pc' = [pc EXCEPT ![y] = "cleanup"]
            /\ UNCHANGED <<inst, todo, only, queued>> /\ UNCHANGED boundVars
         \/ Return(y, TRUE, {}) /\ UNCHANGED <<ings, fresh>> /\ UNCHANGED boundVars
         \/ Fails(y) /\ ings' = ings
  BY DEF RemoveFinalizer
<1>2. IngsTyped' /\ ReconcileTyped' /\ Counted'
  <2>1. CASE /\ WriteIngress(y, Absent) /\ pc' = [pc EXCEPT ![y] = "cleanup"]
             /\ UNCHANGED <<inst, todo, only, queued>> /\ UNCHANGED boundVars
    <3>1. ReconcileTyped'
      BY <1>1, <2>1 DEF IInv, ReconcileTyped
    <3>2. QED
      BY <2>1, <3>1, WriteIngressTyped, CountedUntouched
  <2>2. CASE Return(y, TRUE, {}) /\ UNCHANGED <<ings, fresh>> /\ UNCHANGED boundVars
    BY <2>2, IngsUntouched, EndTyped, CountedUntouched
  <2>3. CASE Fails(y) /\ ings' = ings
    BY <2>3, IngsUntouched, FailsTyped
  <2>4. QED
    BY <1>1, <2>1, <2>2, <2>3
<1>3. QED
  BY <1>1, <1>2, DepUntouched, NsUntouched DEF IInv

LEMMA EndCleanupStep ==
    ASSUME IInv, NEW y \in Ings, EndCleanup(y)
    PROVE  IInv'
<1>1. /\ UNCHANGED <<ings, fresh>> /\ UNCHANGED depVars /\ UNCHANGED nsVars
      /\ UNCHANGED boundVars /\ Return(y, FALSE, {})
  BY DEF EndCleanup
<1>2. QED
  BY <1>1, IngsUntouched, DepUntouched, NsUntouched, EndTyped, CountedUntouched DEF IInv

LEMMA ReconcileStep ==
    ASSUME IInv, NEW y \in Ings, Reconcile(y)
    PROVE  IInv'
BY SkipMissingStep, GetStep, GetDeletedStep, CreateNamespaceStep, CreateCommonStep, ListOthersStep,
   DeleteCommonStep, DeleteNamespaceStep, CreateSpecificStep, DeleteSpecificStep, UpdateDeploymentStep, RecreateJobStep,
   UpdateServiceStep, UpdateStatusStep, RemoveFinalizerStep, EndCleanupStep DEF Reconcile

-----------------------------------------------------------------------------
(* The informers, the manager process, and what runs beside it.             *)

\* What is an owner is a YurtIngress.
LEMMA OwnersTyped ==
    ASSUME NEW d \in Deployment \cup {Absent}
    PROVE  OwnerOf(d) \subseteq Ings
BY DEF OwnerOf, Deployment

LEMMA SyncDeploymentStep ==
    ASSUME IInv, NEW p \in Pools, SyncDeployment(p)
    PROVE  IInv'
<1>1. /\ UNCHANGED <<ings, fresh>> /\ UNCHANGED nsVars /\ UNCHANGED reconcileVars
      /\ UNCHANGED boundVars /\ UNCHANGED <<dep, rest, hook, lost>>
      /\ depCache' = [depCache EXCEPT ![p] = dep[p]] /\ lagging' = lagging \ {p}
      /\ queued' = queued \cup OwnerOf(dep[p]) \cup OwnerOf(depCache[p])
  BY DEF SyncDeployment
<1>2. DepTyped'
  BY <1>1 DEF IInv, DepTyped, RestTyped
<1>3. queued' \subseteq Ings
  BY <1>1, OwnersTyped DEF IInv, DepTyped, ReconcileTyped
<1>4. QED
  BY <1>1, <1>2, <1>3, IngsUntouched, NsUntouched, ReconcileUntouched, CountedUntouched DEF IInv

LEMMA SyncNamespaceStep ==
    ASSUME IInv, SyncNamespace
    PROVE  IInv'
<1>1. /\ UNCHANGED <<ings, fresh>> /\ UNCHANGED depVars /\ UNCHANGED reconcileVars
      /\ UNCHANGED boundVars /\ UNCHANGED <<queued, ns, common>> /\ nsCache' = ns
  BY DEF SyncNamespace
<1>2. NsTyped' /\ queued' \subseteq Ings
  BY <1>1 DEF IInv, NsTyped, ReconcileTyped
<1>3. QED
  BY <1>1, <1>2, IngsUntouched, DepUntouched, ReconcileUntouched, CountedUntouched DEF IInv

LEMMA ResyncStep ==
    ASSUME IInv, Resync
    PROVE  IInv'
<1>1. /\ UNCHANGED <<ings, fresh>> /\ UNCHANGED depVars /\ UNCHANGED nsVars
      /\ UNCHANGED reconcileVars /\ UNCHANGED boundVars /\ queued' \subseteq Ings
  BY DEF Resync, Existing
<1>2. QED
  BY <1>1, IngsUntouched, DepUntouched, NsUntouched, ReconcileUntouched, CountedUntouched DEF IInv

LEMMA RestartTyped ==
    ASSUME IInv, Restart
    PROVE  /\ IngsTyped' /\ DepTyped' /\ NsTyped' /\ ReconcileTyped'
           /\ dropped' = dropped /\ cut' \in BOOLEAN
<1>1. IngsTyped' /\ DepTyped' /\ NsTyped'
  BY DEF IInv, Restart, IngsTyped, DepTyped, RestTyped, NsTyped
<1>2. ReconcileTyped'
  BY NothingIsTodo DEF Restart, ReconcileTyped, Existing
<1>3. dropped' = dropped /\ cut' \in BOOLEAN
  <2>1. cut' = (cut \/ \E y \in Ings : todo[y].pool = Absent /\ todo[y].n > 0)
    BY DEF Restart
  <2>2. cut \in BOOLEAN /\ (\E y \in Ings : todo[y].pool = Absent /\ todo[y].n > 0) \in BOOLEAN
    BY DEF IInv, Counted
  <2>3. QED
    BY <2>1, <2>2, Zenon DEF Restart
<1>4. QED
  BY <1>1, <1>2, <1>3

LEMMA CrashStep ==
    ASSUME IInv, Crash
    PROVE  IInv'
<1>1. Counted'
  BY FaultCounted, RestartTyped DEF Crash, IInv, Counted
<1>2. QED
  BY <1>1, RestartTyped DEF Crash, IInv

LEMMA PanicStep ==
    ASSUME IInv, NEW y \in Ings, Panic(y)
    PROVE  IInv'
BY RestartTyped DEF Panic, IInv, Counted

\* A write of a Deployment, beside the reconciles.
LEMMA DepOnlyStep ==
    ASSUME IInv, NEW p \in Pools, NEW value \in Deployment \cup {Absent}, WriteDep(p, value),
           UNCHANGED <<ings, depCache, rest, hook, lost, queued, fresh>>, UNCHANGED nsVars,
           UNCHANGED reconcileVars, Counted'
    PROVE  IInv'
<1>1. RestTyped' /\ queued' \subseteq Ings
  BY DEF IInv, DepTyped, RestTyped, ReconcileTyped
<1>2. DepTyped'
  BY <1>1, WriteDepTyped
<1>3. QED
  BY <1>1, <1>2, IngsUntouched, NsUntouched, ReconcileUntouched DEF IInv

LEMMA ProgressStep ==
    ASSUME IInv, NEW p \in Pools, Progress(p)
    PROVE  IInv'
<1> DEFINE value == IF ~dep[p].conds THEN [dep[p] EXCEPT !.conds = TRUE]
                    ELSE [dep[p] EXCEPT !.up = dep[p].replicas]
<1>1. dep[p] \in Deployment
  BY DEF Progress, IInv, DepTyped
<1>2. value \in Deployment
  BY <1>1 DEF Deployment
<1>3. /\ WriteDep(p, value) /\ UNCHANGED <<ings, depCache, rest, hook, lost, queued, fresh>> /\ UNCHANGED nsVars
      /\ UNCHANGED reconcileVars /\ UNCHANGED boundVars
  BY DEF Progress
<1> HIDE DEF value
<1>4. QED
  BY <1>2, <1>3, DepOnlyStep, CountedUntouched

LEMMA FinishNamespaceStep ==
    ASSUME IInv, FinishNamespace
    PROVE  IInv'
<1>1. /\ UNCHANGED <<ings, fresh>> /\ UNCHANGED reconcileVars /\ UNCHANGED boundVars
      /\ queued' = queued
  BY DEF FinishNamespace
<1>2. NsTyped' /\ queued' \subseteq Ings
  BY <1>1 DEF FinishNamespace, IInv, NsTyped, ReconcileTyped
<1>3. DepTyped'
  BY DEF FinishNamespace, IInv, DepTyped, RestTyped
<1>4. QED
  BY <1>1, <1>2, <1>3, IngsUntouched, ReconcileUntouched, CountedUntouched DEF IInv

LEMMA CollectGarbageStep ==
    ASSUME IInv, NEW p \in Pools, CollectGarbage(p)
    PROVE  IInv'
<1>1. /\ WriteDep(p, Absent) /\ UNCHANGED <<ings, depCache, rest, hook, lost, queued, fresh>>
      /\ UNCHANGED nsVars /\ UNCHANGED reconcileVars /\ UNCHANGED boundVars
  BY DEF CollectGarbage
<1>2. QED
  BY <1>1, DepOnlyStep, CountedUntouched

LEMMA CollectConfigurationStep ==
    ASSUME IInv, NEW p \in Pools, CollectConfiguration(p)
    PROVE  IInv'
<1>1. /\ UNCHANGED <<ings, fresh>> /\ UNCHANGED <<dep, depCache, lagging, rest>>
      /\ UNCHANGED nsVars /\ UNCHANGED reconcileVars /\ UNCHANGED boundVars /\ queued' \subseteq Ings
      /\ hook' = [hook EXCEPT ![p] = Absent] /\ Takes(hook[p], p, "configuration")
  BY DEF CollectConfiguration, IInv, ReconcileTyped
<1>2. hook' \in [Pools -> Ings \cup {Absent}]
  BY <1>1 DEF IInv, DepTyped, RestTyped
<1>3. DepTyped'
  BY <1>1, <1>2, TakesTyped DEF IInv, DepTyped, RestTyped
<1>4. QED
  BY <1>1, <1>3, IngsUntouched, NsUntouched, ReconcileUntouched, CountedUntouched DEF IInv

-----------------------------------------------------------------------------
(* Users.                                                                   *)

LEMMA UserCounted ==
    ASSUME IInv, NEW kind, UserAction(kind)
    PROVE  Counted' /\ UNCHANGED nsVars /\ UNCHANGED reconcileVars
BY ConstantAssumption DEF IInv, Counted, UserAction

\* A write of a YurtIngress, beside the reconciles.
LEMMA IngressOnlyStep ==
    ASSUME IInv, NEW y \in Ings, NEW value \in Ingress \cup {Absent}, WriteIngress(y, value),
           UNCHANGED depVars, UNCHANGED nsVars, UNCHANGED reconcileVars,
           queued' = queued \cup {y}, Counted'
    PROVE  IInv'
<1>1. queued' \subseteq Ings
  BY DEF IInv, ReconcileTyped
<1>2. QED
  BY <1>1, WriteIngressTyped, DepUntouched, NsUntouched, ReconcileUntouched DEF IInv

LEMMA CreateIngressStep ==
    ASSUME IInv, NEW y \in Ings, NEW spec \in Specs[y], CreateIngress(y, spec)
    PROVE  IInv'
<1>1. NewIngress(spec) \in Ingress
  BY ConstantAssumption, NewIngressTyped
<1>2. QED
  BY <1>1, UserCounted, IngressOnlyStep DEF CreateIngress

LEMMA EditIngressStep ==
    ASSUME IInv, NEW y \in Ings, NEW spec \in Specs[y], EditIngress(y, spec)
    PROVE  IInv'
<1>1. spec \in IngressSpec /\ ings[y] \in Ingress
  BY ConstantAssumption, ExistingTyped DEF EditIngress
<1>2. [ings[y] EXCEPT !.spec = spec] \in Ingress
  BY <1>1 DEF Ingress
<1>3. QED
  BY <1>2, UserCounted, IngressOnlyStep DEF EditIngress

LEMMA WrittenTyped ==
    ASSUME IInv, NEW y \in Ings, NEW spec \in Specs[y], ings[y] # Absent
    PROVE  Written(y, spec) \in Ingress
<1>1. spec \in IngressSpec
  BY ConstantAssumption
<1>2. CASE ings[y] = Unborn
  BY <1>1, <1>2, NewIngressTyped DEF Written
<1>3. CASE ings[y] # Unborn
  <2>1. ings[y] \in Ingress
    BY <1>3 DEF IInv, IngsTyped
  <2>2. QED
    BY <1>1, <1>3, <2>1 DEF Written, Ingress
<1>4. QED
  BY <1>2, <1>3

LEMMA OverlapStep ==
    ASSUME IInv, NEW y \in Ings, NEW spec \in Specs[y], NEW z \in Ings, NEW other \in Specs[z],
           Overlap(y, spec, z, other)
    PROVE  IInv'
<1>1. /\ UserAction("overlap") /\ y # z /\ UNCHANGED depVars
      /\ ings' = [ings EXCEPT ![y] = Written(y, spec), ![z] = Written(z, other)]
      /\ fresh' = fresh \ {y, z} /\ queued' = queued \cup {y, z}
      /\ ings[y] # Absent /\ ings[z] # Absent
  BY DEF Overlap
<1>2. Written(y, spec) \in Ingress /\ Written(z, other) \in Ingress
  BY <1>1, WrittenTyped
<1>3. IngsTyped'
  BY <1>1, <1>2 DEF IInv, IngsTyped, Exists
<1>4. queued' \subseteq Ings
  BY <1>1 DEF IInv, ReconcileTyped
<1>5. QED
  BY <1>1, <1>3, <1>4, UserCounted, DepUntouched, NsUntouched, ReconcileUntouched DEF IInv

LEMMA DeleteIngressStep ==
    ASSUME IInv, NEW y \in Ings, DeleteIngress(y)
    PROVE  IInv'
<1> DEFINE value == IF ings[y].finalizer THEN [ings[y] EXCEPT !.deleted = TRUE] ELSE Absent
<1>1. ings[y] \in Ingress
  BY ExistingTyped DEF DeleteIngress
<1>2. value \in Ingress \cup {Absent}
  BY <1>1 DEF Ingress
<1>3. /\ WriteIngress(y, value) /\ queued' = queued \cup {y} /\ UNCHANGED depVars
      /\ UserAction("delete")
  BY DEF DeleteIngress
<1> HIDE DEF value
<1>4. QED
  BY <1>2, <1>3, UserCounted, IngressOnlyStep

LEMMA RemoveDeploymentStep ==
    ASSUME IInv, NEW p \in Pools, RemoveDeployment(p)
    PROVE  IInv'
<1>1. /\ WriteDep(p, Absent) /\ UNCHANGED <<ings, depCache, rest, hook, lost, queued, fresh>>
      /\ UserAction("remove")
  BY DEF RemoveDeployment
<1>2. QED
  BY <1>1, UserCounted, DepOnlyStep

-----------------------------------------------------------------------------
(* The theorems.                                                            *)

LEMMA Start == Init => IInv
<1> SUFFICES ASSUME Init PROVE IInv
  OBVIOUS
<1>1. NewIngress(InitialSpec) \in Ingress
  BY ConstantAssumption, NewIngressTyped
<1>2. IngsTyped
  BY <1>1 DEF Init, IngsTyped
<1>3. DepTyped /\ NsTyped
  BY DEF Init, DepTyped, RestTyped, NsTyped
<1>4. ReconcileTyped
  BY NothingIsTodo, ConstantAssumption DEF Init, ReconcileTyped
<1>5. Counted
  <2>1. MaxEvents \in Nat
    BY ConstantAssumption
  <2>2. faults \in 0 .. MaxEvents /\ edits \in 0 .. MaxEvents
    BY <2>1 DEF Init
  <2>3. dropped \in BOOLEAN /\ cut \in BOOLEAN
    BY Zenon DEF Init
  <2>4. QED
    BY <2>2, <2>3, Zenon DEF Counted
<1>6. QED
  BY <1>2, <1>3, <1>4, <1>5 DEF IInv

LEMMA Inductive == IInv /\ [Next]_vars => IInv'
<1> SUFFICES ASSUME IInv, [Next]_vars
             PROVE  IInv'
  OBVIOUS
<1>1. ASSUME Work
      PROVE  IInv'
  BY <1>1, ReconcileStep, PanicStep DEF Work
<1>2. ASSUME Sync
      PROVE  IInv'
  BY <1>2, SyncDeploymentStep, SyncNamespaceStep DEF Sync
<1>3. ASSUME Cluster
      PROVE  IInv'
  BY <1>3, FinishNamespaceStep, ProgressStep, CollectGarbageStep, CollectConfigurationStep
  DEF Cluster
<1>4. ASSUME User
      PROVE  IInv'
  BY <1>4, DeleteIngressStep, CreateIngressStep, EditIngressStep, OverlapStep, RemoveDeploymentStep
  DEF User
<1>5. ASSUME UNCHANGED vars
      PROVE  IInv'
  <2>1. /\ UNCHANGED <<ings, fresh>> /\ UNCHANGED depVars /\ UNCHANGED nsVars
        /\ UNCHANGED reconcileVars /\ UNCHANGED boundVars /\ queued' \subseteq Ings
    BY <1>5 DEF vars, IInv, ReconcileTyped
  <2>2. QED
    BY <2>1, IngsUntouched, DepUntouched, NsUntouched, ReconcileUntouched, CountedUntouched DEF IInv
<1>6. QED
  BY <1>1, <1>2, <1>3, <1>4, <1>5, ResyncStep, CrashStep DEF Next

\* The controller keeps IInv, whatever fails or panics: a reconcile under way
\* holds what it read, and a Deployment not written since is cached as it is.
THEOREM Invariance == Spec => []IInv
<1>1. QED
  BY Start, Inductive, PTL DEF Spec

\* TypeOK holds: in particular no counter of a status, guessed from
\* what was changed or counted from the cache, runs below zero, and
\* no write by a reconcile is of an object that is gone.
THEOREM TypeCorrect == Spec => []TypeOK
<1>1. QED
  BY Invariance, Typed, PTL

-----------------------------------------------------------------------------
(* At rest.  A YurtIngress that nothing is on its way to, no event and no   *)
(* error, was served by a reconcile whose last write changed nothing: what  *)
(* it copied from the cache is what the status said already.                *)

\* The phases in which instance is to be, or not to be, written back.
Reading == {"apply", "retire", "status"}

\* What goes with p's Deployment is there, or was taken by somebody else.
Kept(p) == Has(p) \cup lost[p]
Full(p) == Serving \subseteq Kept(p)

\* A Deployment that lacks what goes with it is one of a pool its owner does
\* not list, and has not made in the reconcile that is under way; of the pool
\* in hand, what is made already is there.  A pool whose deletion has begun
\* has no Deployment of its own any more.
Complete(y) ==
    /\ Exists(y) =>
         /\ \A p \in Listed(ings[y]) : Owns(y, p) => Full(p)
         /\ pc[y] \in Reading =>
              /\ \A p \in Added(inst[y]) \ todo[y].added : Owns(y, p) => Full(p)
              /\ \A p \in todo[y].added : todo[y].pool = p /\ Owns(y, p) =>
                    \A i \in 1 .. todo[y].n - 1 : {Object(i)} \cap Serving \subseteq Kept(p)
    /\ \A p \in todo[y].removed : todo[y].pool = p => ~Owns(y, p)

\* Nobody else writes a status.
Reads(y) ==
    /\ ings[y] = Unborn => pc[y] = "idle"
    /\ pc[y] \in Reading /\ Exists(y) => inst[y].status = ings[y].status
    /\ pc[y] \in Reading => todo[y].added \subseteq Added(inst[y])
    /\ pc[y] \in {"retire", "status"} => todo[y].added = {}
    /\ todo[y].added \cap todo[y].removed = {}
    /\ pc[y] = "idle" => ~only[y]
    /\ pc[y] \in Reading /\ only[y] => Asked(inst[y]) = {}
    /\ pc[y] \in {"finalize", "cleanup"} => y \notin Live

Settled(y) ==
    LET seen == ObservedStatus(y, ings[y])
    IN /\ Listed(ings[y]) = Asked(ings[y])
       /\ ings[y].status.conditions = seen.conditions
       /\ ings[y].status.readyNum = seen.readyNum
       /\ ings[y].status.unreadyNum = seen.unreadyNum

Calm(y) == y \notin queued /\ y \in Live /\ ~dropped

Owes(y) ==
    Calm(y) => IF pc[y] = "idle" THEN Asked(ings[y]) # {} => Settled(y)
               ELSE inst[y] = ings[y] /\ y \in fresh

\* A reconcile is amid what is shared: it makes it, or deletes it.
Amid(y) ==
    /\ todo[y].pool = Absent /\ todo[y].n > 0
    /\ (pc[y] = "apply" /\ todo[y].common) \/ DeletingCommon(y)

ToMake(y) == {Shared[i] : i \in {j \in DOMAIN Shared : todo[y].n <= j}}

\* No Deployment outlives the namespace, and what is shared and missing in an
\* active one is about to be made, or the namespace to be deleted.
Standing ==
    /\ ns = "gone" => \A p \in Pools : dep[p] = Absent
    /\ ns = "active" /\ ~cut =>
         \A object \in Sharable \ common :
            \E y \in Ings : Amid(y) /\ (DeletingCommon(y) \/ object \in ToMake(y))

IRest == IInv /\ Standing /\ \A y \in Ings : Complete(y) /\ Reads(y) /\ Owes(y)

-----------------------------------------------------------------------------
(* What a step leaves as it is.                                             *)

\* y and its reconcile are left alone, ...
Aside(y) ==
    /\ ings'[y] = ings[y] /\ pc'[y] = pc[y] /\ inst'[y] = inst[y]
    /\ todo'[y] = todo[y] /\ only'[y] = only[y]
    /\ y \in fresh => y \in fresh'
    /\ y \in queued => y \in queued'

\* ... the others' reconciles, ...
Alone(y) ==
    \A z \in Ings \ {y} : /\ pc'[z] = pc[z] /\ inst'[z] = inst[z]
                          /\ todo'[z] = todo[z] /\ only'[z] = only[z]

\* ... what a Deployment of y had.
Safe(y) == \A p \in Pools : Owns(y, p)' => Owns(y, p) /\ Kept(p) \subseteq Kept(p)'

\* An error that was dropped, or what was left half made, stays so.
Minded == (dropped => dropped') /\ (cut => cut')

LEMMA BoundsMinded ==
    ASSUME UNCHANGED boundVars
    PROVE  Minded
BY DEF boundVars, Minded

LEMMA CallMinded ==
    ASSUME CallFails
    PROVE  Minded
BY DEF CallFails, Minded

LEMMA AsideKeeps ==
    ASSUME IRest, NEW y \in Ings, Aside(y), Minded, depCache' = depCache
    PROVE  Reads(y)' /\ Owes(y)'
<1>1. Reads(y) /\ Owes(y)
  BY DEF IRest
<1>2. (y \in Live' <=> y \in Live) /\ (Exists(y)' <=> Exists(y))
  BY DEF Aside, Live, Existing, Exists
<1>3. Reads(y)'
  BY <1>1, <1>2 DEF Reads, Aside, Added, Asked, Listed
<1>4. Calm(y)' => Calm(y)
  BY <1>2 DEF Calm, Aside, Minded
<1>5. Settled(y)' <=> Settled(y)
  BY DEF Aside, Settled, ObservedStatus, Reported, Owned, Listed, Asked
<1>6. Owes(y)'
  BY <1>1, <1>4, <1>5 DEF Owes, Aside, Asked
<1>7. QED
  BY <1>3, <1>6

\* Nothing is made for a pool, nothing taken from y, and no pool taken in hand.
LEMMA CompleteKept ==
    ASSUME IRest, NEW y \in Ings, ings'[y] = ings[y], Safe(y),
           pc'[y] \in Reading => /\ pc[y] \in Reading /\ inst'[y] = inst[y]
                                 /\ todo'[y].added = todo[y].added,
           todo'[y].removed \subseteq todo[y].removed,
           \/ todo'[y].pool = Absent
           \/ todo'[y].pool = todo[y].pool /\ todo'[y].n = todo[y].n
           \/ todo'[y].added \cup todo'[y].removed = {}
    PROVE  Complete(y)'
<1>1. Complete(y) /\ IInv
  BY DEF IRest
<1>2. todo[y].added \subseteq Pools /\ todo[y].removed \subseteq Pools /\ Absent \notin Pools
  BY <1>1, ConstantAssumption DEF IInv, ReconcileTyped, Todo
<1>3. ASSUME Exists(y)', NEW p \in Listed(ings[y]), Owns(y, p)'
      PROVE  Full(p)'
  <2>1. Exists(y)
    BY <1>3 DEF Exists
  <2>2. p \in Pools
    BY <1>1, <1>3, <2>1, ExistingTyped, IngressParts
  <2>3. Owns(y, p) /\ Full(p) /\ Kept(p) \subseteq Kept(p)'
    BY <1>1, <1>3, <2>1, <2>2 DEF Complete, Safe
  <2>4. QED
    BY <2>3 DEF Full
<1>4. ASSUME Exists(y)', pc'[y] \in Reading, NEW p \in Added(inst[y]) \ todo[y].added, Owns(y, p)'
      PROVE  Full(p)'
  <2>1. Exists(y) /\ pc[y] \in Reading /\ pc[y] # "idle"
    BY <1>4 DEF Exists, Reading
  <2>2. p \in Pools
    BY <1>1, <1>4, <2>1, Held, IngressParts DEF Added
  <2>3. Owns(y, p) /\ Full(p) /\ Kept(p) \subseteq Kept(p)'
    BY <1>1, <1>4, <2>1, <2>2 DEF Complete, Safe
  <2>4. QED
    BY <2>3 DEF Full
<1>5. ASSUME Exists(y)', pc'[y] \in Reading, NEW p \in todo'[y].added,
             todo'[y].pool = p, Owns(y, p)', NEW i \in 1 .. todo'[y].n - 1
      PROVE  {Object(i)} \cap Serving \subseteq Kept(p)'
  <2>1. Exists(y) /\ pc[y] \in Reading /\ p \in todo[y].added /\ p \in Pools
    BY <1>2, <1>5 DEF Exists, Reading
  <2>2. todo'[y].pool = todo[y].pool /\ todo'[y].n = todo[y].n
    BY <1>2, <1>5, <2>1
  <2>3. Owns(y, p) /\ Kept(p) \subseteq Kept(p)'
    BY <1>5, <2>1 DEF Safe
  <2>4. {Object(i)} \cap Serving \subseteq Kept(p)
    BY <1>1, <1>5, <2>1, <2>2, <2>3 DEF Complete
  <2>5. QED
    BY <2>3, <2>4
<1>6. ASSUME NEW p \in todo'[y].removed, todo'[y].pool = p
      PROVE  ~Owns(y, p)'
  <2>1. p \in todo[y].removed /\ p \in Pools
    BY <1>2, <1>6
  <2>2. todo[y].pool = p
    BY <1>2, <1>6, <2>1
  <2>3. ~Owns(y, p)
    BY <1>1, <2>1, <2>2 DEF Complete
  <2>4. QED
    BY <2>1, <2>3 DEF Safe
<1>7. Exists(y)' => \A p \in Listed(ings'[y]) : Owns(y, p)' => Full(p)'
  BY <1>3
<1>8. Exists(y)' /\ pc'[y] \in Reading =>
        \A p \in Added(inst'[y]) \ todo'[y].added : Owns(y, p)' => Full(p)'
  BY <1>4
<1>9. QED
  BY <1>5, <1>6, <1>7, <1>8 DEF Complete, Listed, Exists, Added, Asked

LEMMA CompleteAside ==
    ASSUME IRest, NEW y \in Ings, Aside(y), Safe(y)
    PROVE  Complete(y)'
BY CompleteKept DEF Aside

\* The reconcile of y is over.
Over(y) == pc'[y] = "idle" /\ only'[y] = FALSE /\ todo'[y] = Nothing

LEMMA CompleteOver ==
    ASSUME IRest, NEW y \in Ings, ings'[y] = ings[y], Safe(y), Over(y)
    PROVE  Complete(y)'
BY CompleteKept DEF Over, Nothing, Reading

\* It is, and y is queued or not to be served.
LEMMA EndedKeeps ==
    ASSUME NEW y \in Ings, Over(y), y \in queued' \/ y \notin Live' \/ dropped'
    PROVE  Reads(y)' /\ Owes(y)'
BY DEF Reads, Owes, Calm, Reading, Over, Nothing

\* The reconcile of y goes on.
LEMMA GoingOn ==
    ASSUME IRest, NEW y \in Ings, pc[y] # "idle", inst'[y] = inst[y], ings'[y] = ings[y], Minded,
           y \in fresh => y \in fresh', y \in queued => y \in queued',
           pc'[y] = pc[y] \/ (pc[y] \in Reading /\ pc'[y] \in Reading),
           todo'[y].added \subseteq todo[y].added, todo'[y].removed \subseteq todo[y].removed,
           pc'[y] \in {"retire", "status"} => todo'[y].added = {},
           only'[y] => only[y] \/ Asked(inst[y]) = {}
    PROVE  Reads(y)' /\ Owes(y)'
<1>1. Reads(y) /\ Owes(y)
  BY DEF IRest
<1>2. (y \in Live' <=> y \in Live) /\ (Exists(y)' <=> Exists(y))
  BY DEF Live, Existing, Exists
<1>3. pc'[y] # "idle"
  BY DEF Reading
<1>4. Reads(y)'
  BY <1>1, <1>2, <1>3 DEF Reads, Reading, Added, Asked, Listed
<1>5. Owes(y)'
  BY <1>1, <1>2, <1>3 DEF Owes, Calm, Minded
<1>6. QED
  BY <1>4, <1>5

\* Nobody but y, which is not amid what is shared, has moved.
LEMMA StandingKept ==
    ASSUME IRest, NEW y \in Ings, Alone(y), ~Amid(y), ns' = ns, common' = common, Minded,
           \A p \in Pools : dep'[p] # Absent => dep[p] # Absent \/ ns = "active"
    PROVE  Standing'
<1>1. Standing
  BY DEF IRest
<1>2. ns' = "gone" => \A p \in Pools : dep'[p] = Absent
  BY <1>1 DEF Standing
<1>3. ASSUME ns' = "active", ~cut', NEW object \in Sharable \ common'
      PROVE  \E z \in Ings : Amid(z)' /\ (DeletingCommon(z)' \/ object \in ToMake(z)')
  <2>1. PICK z \in Ings : Amid(z) /\ (DeletingCommon(z) \/ object \in ToMake(z))
    BY <1>1, <1>3 DEF Standing, Minded
  <2>2. Amid(z)' /\ (DeletingCommon(z)' \/ object \in ToMake(z)')
    BY <2>1 DEF Alone, Amid, DeletingCommon, ToMake, Asked
  <2>3. QED
    BY <2>2
<1>4. QED
  BY <1>2, <1>3 DEF Standing, Sharable, Shared

\* Everybody's reconcile is left alone.
LEMMA StandingBeside ==
    ASSUME IRest, UNCHANGED reconcileVars, ns' = ns, common' = common, Minded,
           \A p \in Pools : dep'[p] # Absent => dep[p] # Absent
    PROVE  Standing'
<1>1. Standing
  BY DEF IRest
<1>2. ns' = "gone" => \A p \in Pools : dep'[p] = Absent
  BY <1>1 DEF Standing
<1>3. ASSUME ns' = "active", ~cut', NEW object \in Sharable \ common'
      PROVE  \E z \in Ings : Amid(z)' /\ (DeletingCommon(z)' \/ object \in ToMake(z)')
  <2>1. PICK z \in Ings : Amid(z) /\ (DeletingCommon(z) \/ object \in ToMake(z))
    BY <1>1, <1>3 DEF Standing, Minded
  <2>2. Amid(z)' /\ (DeletingCommon(z)' \/ object \in ToMake(z)')
    BY <2>1 DEF reconcileVars, Amid, DeletingCommon, ToMake, Asked
  <2>3. QED
    BY <2>2
<1>4. QED
  BY <1>2, <1>3 DEF Standing, Sharable, Shared

\* What is shared was left half made.
LEMMA StandingCut ==
    ASSUME IRest, cut', UNCHANGED depVars, ns' = ns \/ ns' # "gone"
    PROVE  Standing'
BY DEF IRest, Standing, depVars

\* A step of the reconcile of y.
LEMMA StepOf ==
    ASSUME IRest, IInv', NEW y \in Ings, Alone(y), Minded, depCache' = depCache,
           \A z \in Ings \ {y} : /\ ings'[z] = ings[z] /\ (z \in fresh => z \in fresh')
                                 /\ (z \in queued => z \in queued') /\ Safe(z),
           Standing', Complete(y)', Reads(y)', Owes(y)'
    PROVE  IRest'
<1>1. \A z \in Ings \ {y} : Aside(z)
  BY DEF Alone, Aside
<1>2. \A z \in Ings \ {y} : Reads(z)' /\ Owes(z)'
  BY <1>1, AsideKeeps
<1>3. \A z \in Ings \ {y} : Complete(z)'
  BY <1>1, CompleteAside
<1>4. QED
  BY <1>2, <1>3 DEF IRest

\* A step beside the reconciles, of a Deployment or a cache of the namespace.
LEMMA StepBeside ==
    ASSUME IRest, IInv', UNCHANGED <<ings, fresh>>, UNCHANGED reconcileVars, depCache' = depCache,
           queued \subseteq queued', Minded, \A z \in Ings : Safe(z), Standing'
    PROVE  IRest'
<1>1. \A z \in Ings : Aside(z)
  BY DEF reconcileVars, Aside
<1>2. \A z \in Ings : Reads(z)' /\ Owes(z)' /\ Complete(z)'
  BY <1>1, AsideKeeps, CompleteAside
<1>3. QED
  BY <1>2 DEF IRest

LEMMA ReturnParts ==
    ASSUME IRest, NEW y \in Ings, NEW err, NEW news, Return(y, err, news)
    PROVE  /\ Over(y) /\ Alone(y)
           /\ queued \subseteq queued' /\ (err => y \in queued') /\ news \subseteq queued'
BY DEF IRest, IInv, ReconcileTyped, Return, Alone, Over

LEMMA AloneInWork ==
    ASSUME IRest, NEW y \in Ings, NEW work, todo' = [todo EXCEPT ![y] = work],
           UNCHANGED <<pc, inst, only>>
    PROVE  Alone(y) /\ todo'[y] = work
BY DEF IRest, IInv, ReconcileTyped, Alone

\* Whose reconcile is idle or at work for a pool is not amid what is shared.
LEMMA NotAmid ==
    ASSUME IRest, NEW y \in Ings,
           \/ pc[y] \in {"idle", "status", "finalize"}
           \/ pc[y] = "apply" /\ ~todo[y].common
           \/ todo[y].n = 0
           \/ pc[y] = "cleanup" /\ (todo[y].removed # {} \/ ~only[y] \/ Asked(inst[y]) = {})
    PROVE  ~Amid(y)
BY DEF Amid, DeletingCommon

-----------------------------------------------------------------------------
(* Deployments that are written, and what goes with them.                   *)

LEMMA DepUnchanged ==
    ASSUME NEW y \in Ings, UNCHANGED depVars
    PROVE  Safe(y)
BY DEF Safe, Owns, Kept, Has, depVars

\* What goes with it is what it was.
LEMMA KeptUntouched ==
    ASSUME UNCHANGED <<rest, hook, lost>>
    PROVE  \A p : Kept(p)' = Kept(p)
BY DEF Kept, Has

\* A Deployment goes, or stays its owner's.
LEMMA DepWritten ==
    ASSUME IRest, NEW p \in Pools, NEW value, WriteDep(p, value), UNCHANGED <<rest, hook, lost>>,
           value = Absent \/ (dep[p] # Absent /\ value.owner = dep[p].owner)
    PROVE  /\ \A z \in Ings : Safe(z)
           /\ \A q \in Pools : dep'[q] # Absent => dep[q] # Absent
<1>1. \A q \in Pools : dep'[q] = IF q = p THEN value ELSE dep[q]
  BY DEF IRest, IInv, DepTyped, WriteDep
<1>2. QED
  BY <1>1, KeptUntouched DEF Safe, Owns

\* What y or its owner has deleted is lost to the owner of the Deployment.
LEMMA KeptTaken ==
    ASSUME IRest, NEW y, NEW p \in Pools, NEW object, Takes(y, p, object),
           \A q \in Pools \ {p} : rest'[q] = rest[q] /\ hook'[q] = hook[q],
           Has(p) \ {object} \subseteq Has(p)'
    PROVE  /\ \A q \in Pools \ {p} : Kept(q)' = Kept(q)
           /\ dep[p] # Absent /\ dep[p].owner # y => Kept(p) \subseteq Kept(p)'
<1>1. lost \in [Pools -> SUBSET Serving]
  BY DEF IRest, IInv, DepTyped, RestTyped
<1>2. \A q \in Pools \ {p} : lost'[q] = lost[q]
  BY <1>1 DEF Takes
<1>3. \A q \in Pools \ {p} : Kept(q)' = Kept(q)
  BY <1>2 DEF Kept, Has
<1>4. ASSUME dep[p] # Absent, dep[p].owner # y
      PROVE  Kept(p) \subseteq Kept(p)'
  <2>1. lost'[p] = lost[p] \cup ({object} \cap Has(p))
    BY <1>1, <1>4 DEF Takes
  <2>2. QED
    BY <2>1 DEF Kept
<1>5. QED
  BY <1>3, <1>4

LEMMA DepUnmade ==
    ASSUME IRest, NEW y \in Ings, NEW p \in Pools, NEW object, Unmake(y, p, object)
    PROVE  /\ depCache' = depCache
           /\ \A q \in Pools : dep'[q] # Absent => dep[q] # Absent
           /\ \A z \in Ings \ {y} : Safe(z)
           /\ object = "deployment" => dep'[p] = Absent
           /\ object = "deployment" \/ ~Owns(y, p) => Safe(y) /\ ~Owns(y, p)'
<1>1. /\ dep \in [Pools -> Deployment \cup {Absent}] /\ DOMAIN rest = Pools /\ DOMAIN hook = Pools
      /\ depCache' = depCache /\ Takes(y, p, object)
      /\ IF object = "deployment" THEN WriteDep(p, Absent) ELSE UNCHANGED <<dep, lagging>>
      /\ hook' = IF object = "configuration" THEN [hook EXCEPT ![p] = Absent] ELSE hook
      /\ rest' = [rest EXCEPT ![p] = rest[p] \ {object}]
  BY DEF IRest, IInv, DepTyped, RestTyped, Unmake
<1>2. \A q \in Pools : dep'[q] = IF q = p /\ object = "deployment" THEN Absent ELSE dep[q]
  BY <1>1 DEF WriteDep
<1>3. /\ \A q \in Pools \ {p} : rest'[q] = rest[q] /\ hook'[q] = hook[q]
      /\ rest'[p] = rest[p] \ {object}
      /\ object # "configuration" => hook' = hook
  BY <1>1
<1>4. Has(p) \ {object} \subseteq Has(p)'
  BY <1>3 DEF Has
<1>5. /\ \A q \in Pools \ {p} : Kept(q)' = Kept(q)
      /\ dep[p] # Absent /\ dep[p].owner # y => Kept(p) \subseteq Kept(p)'
  BY <1>1, <1>3, <1>4, KeptTaken
<1>6. ASSUME NEW z \in Ings, z # y \/ object = "deployment" \/ ~Owns(y, p)
      PROVE  Safe(z)
  BY <1>2, <1>5, <1>6 DEF Safe, Owns
<1>7. QED
  BY <1>1, <1>2, <1>6 DEF Owns

\* Whoever makes what a pool is to have takes nothing from it, but for a
\* Deployment that is new.
LEMMA DepMade ==
    ASSUME IRest, NEW y \in Ings, NEW p \in Pools, NEW object, Make(y, p, object)
    PROVE  /\ depCache' = depCache /\ Accepts(object)
           /\ \A q \in Pools : dep'[q] # Absent => dep[q] # Absent \/ ns = "active"
           /\ \A z \in Ings \ {y} : Safe(z)
           /\ \A q \in Pools \ {p} : Owns(y, q)' => Owns(y, q) /\ Kept(q) \subseteq Kept(q)'
           /\ object # "deployment" =>
                 dep' = dep /\ Kept(p) \cup ({object} \cap Serving) \subseteq Kept(p)'
<1>1. /\ dep \in [Pools -> Deployment \cup {Absent}] /\ DOMAIN rest = Pools /\ DOMAIN hook = Pools
      /\ lost \in [Pools -> SUBSET Serving]
      /\ depCache' = depCache /\ Accepts(object)
      /\ \/ /\ object = "deployment" /\ dep[p] = Absent
            /\ WriteDep(p, NewDeployment(y)) /\ lost' = [lost EXCEPT ![p] = {}]
         \/ dep' = dep /\ lost' = [lost EXCEPT ![p] = lost[p] \ {object}]
      /\ object # "deployment" => dep' = dep
      /\ hook' = IF object = "configuration" /\ hook[p] = Absent
                 THEN [hook EXCEPT ![p] = y] ELSE hook
      /\ rest' = IF object \in {"deployment", "configuration"} THEN rest
                 ELSE [rest EXCEPT ![p] = rest[p] \cup {object}]
  BY DEF IRest, IInv, DepTyped, RestTyped, Make
<1>2. NewDeployment(y).owner = y
  BY DEF NewDeployment
<1>3. "deployment" \notin Serving /\ y # Absent
  BY ObjectNames, ConstantAssumption
<1>4. \A q \in Pools : /\ q # p => rest'[q] = rest[q] /\ hook'[q] = hook[q] /\ lost'[q] = lost[q]
                       /\ q # p => dep'[q] = dep[q]
  BY <1>1 DEF WriteDep
<1>5. \A q \in Pools \ {p} : Kept(q)' = Kept(q)
  BY <1>4 DEF Kept, Has
<1>6. Has(p) \cup ({object} \cap Serving) \subseteq Has(p)'
  BY <1>1, <1>3 DEF Has
<1>7. ASSUME dep' = dep, lost' = [lost EXCEPT ![p] = lost[p] \ {object}]
      PROVE  Kept(p) \cup ({object} \cap Serving) \subseteq Kept(p)'
  <2>1. lost'[p] = lost[p] \ {object} /\ lost[p] \subseteq Serving
    BY <1>1, <1>7
  <2>2. QED
    BY <1>6, <2>1 DEF Kept
<1>8. dep' # dep => object = "deployment" /\ dep'[p] = NewDeployment(y) /\ ns = "active"
  BY <1>1 DEF WriteDep, Accepts
<1>9. ASSUME NEW z \in Ings \ {y}
      PROVE  Safe(z)
  <2> SUFFICES ASSUME NEW q \in Pools, Owns(z, q)'
               PROVE  Owns(z, q) /\ Kept(q) \subseteq Kept(q)'
    BY DEF Safe
  <2>1. CASE q # p
    BY <1>4, <1>5, <2>1 DEF Owns
  <2>2. CASE q = p
    <3>1. dep'[p] # NewDeployment(y)
      BY <1>2, <2>2 DEF Owns
    <3>2. dep' = dep /\ lost' = [lost EXCEPT ![p] = lost[p] \ {object}]
      BY <1>1, <3>1 DEF WriteDep
    <3>3. QED
      BY <1>7, <2>2, <3>2 DEF Owns
  <2>3. QED
    BY <2>1, <2>2
<1>10. \A q \in Pools \ {p} : Owns(y, q)' => Owns(y, q) /\ Kept(q) \subseteq Kept(q)'
  BY <1>4, <1>5 DEF Owns
<1>11. \A q \in Pools : dep'[q] # Absent => dep[q] # Absent \/ ns = "active"
  BY <1>8
<1>12. object # "deployment" => dep' = dep /\ Kept(p) \cup ({object} \cap Serving) \subseteq Kept(p)'
  BY <1>1, <1>7
<1>13. QED
  BY <1>1, <1>9, <1>10, <1>11, <1>12

-----------------------------------------------------------------------------
(* Reconcile, step by step.                                                 *)

LEMMA FailsParts ==
    ASSUME IRest, NEW y \in Ings, Fails(y) \/ FailsHalfway(y)
    PROVE  /\ Over(y) /\ Alone(y) /\ queued \subseteq queued' /\ y \in queued'
           /\ fresh' = fresh /\ Minded /\ (FailsHalfway(y) => cut')
<1>1. Return(y, TRUE, {}) /\ fresh' = fresh
  BY DEF Fails, FailsHalfway
<1>2. Fails(y) => Minded
  BY CallMinded DEF Fails
<1>3. FailsHalfway(y) => cut' /\ Minded
  BY DEF FailsHalfway, Minded
<1>4. QED
  BY <1>1, <1>2, <1>3, ReturnParts

\* The reconcile of y ends, and y comes back or is not owed anything.
LEMMA EndedRest ==
    ASSUME IRest, IInv', NEW y \in Ings, Over(y), Alone(y), Minded,
           ings' = ings, fresh' = fresh, depCache' = depCache, queued \subseteq queued',
           y \in queued' \/ y \notin Live' \/ dropped', \A z \in Ings \ {y} : Safe(z),
           Standing', Complete(y)'
    PROVE  IRest'
<1>1. Reads(y)' /\ Owes(y)'
  BY EndedKeeps
<1>2. QED
  BY <1>1, StepOf

\* Some of the work is done, and the reconcile of y goes on.
LEMMA WorkRest ==
    ASSUME IRest, IInv', NEW y \in Ings, pc[y] # "idle",
           NEW work, todo' = [todo EXCEPT ![y] = work],
           work.added \subseteq todo[y].added, work.removed \subseteq todo[y].removed,
           UNCHANGED <<pc, inst, only, queued, fresh>>, ings' = ings, UNCHANGED boundVars,
           depCache' = depCache, \A z \in Ings \ {y} : Safe(z), Standing', Complete(y)'
    PROVE  IRest'
<1>1. Alone(y) /\ todo'[y] = work
  BY AloneInWork
<1>2. Minded
  BY BoundsMinded
<1>3. pc[y] \in {"retire", "status"} => todo[y].added = {}
  BY DEF IRest, Reads
<1>4. Reads(y)' /\ Owes(y)'
  BY <1>1, <1>2, <1>3, GoingOn
<1>5. QED
  BY <1>1, <1>2, <1>4, StepOf

\* A call for a pool or a YurtIngress fails, or is refused, and the key comes
\* back.
LEMMA RefusedRest ==
    ASSUME IRest, IInv', NEW y \in Ings, Over(y), Alone(y), Minded, ~Amid(y),
           queued \subseteq queued', y \in queued', ings' = ings, fresh' = fresh,
           depCache' = depCache, UNCHANGED nsVars,
           \A q \in Pools : dep'[q] # Absent => dep[q] # Absent \/ ns = "active",
           \A z \in Ings \ {y} : Safe(z), Complete(y)'
    PROVE  IRest'
<1>1. Standing'
  BY StandingKept DEF nsVars
<1>2. QED
  BY <1>1, EndedRest

\* It takes nothing from y.
LEMMA ErrorRest ==
    ASSUME IRest, IInv', NEW y \in Ings, ~Amid(y),
           Fails(y) \/ (Return(y, TRUE, {}) /\ fresh' = fresh /\ UNCHANGED boundVars),
           ings' = ings, depCache' = depCache, UNCHANGED nsVars,
           \A q \in Pools : dep'[q] # Absent => dep[q] # Absent, \A z \in Ings : Safe(z)
    PROVE  IRest'
<1>1. /\ Over(y) /\ Alone(y) /\ queued \subseteq queued' /\ y \in queued'
      /\ fresh' = fresh /\ Minded
  BY FailsParts, ReturnParts, BoundsMinded
<1>2. Complete(y)'
  BY <1>1, CompleteOver
<1>3. QED
  BY <1>1, <1>2, RefusedRest

LEMMA SkipMissingRest ==
    ASSUME IRest, NEW y \in Ings, SkipMissing(y)
    PROVE  IRest'
<1>1. /\ pc[y] = "idle" /\ ~Exists(y) /\ UNCHANGED ings /\ UNCHANGED depVars /\ UNCHANGED nsVars
      /\ UNCHANGED reconcileVars /\ fresh' = fresh /\ UNCHANGED boundVars
      /\ queued' = queued \ {y}
  BY DEF SkipMissing
<1>2. IInv' /\ Minded
  BY <1>1, SkipMissingStep, BoundsMinded DEF IRest
<1>3. Alone(y) /\ \A z \in Ings : Safe(z)
  BY <1>1, DepUnchanged DEF Alone, reconcileVars
<1>4. Standing'
  BY <1>1, <1>2, StandingBeside DEF depVars, nsVars
<1>5. Complete(y)'
  BY <1>1, <1>3, CompleteKept DEF reconcileVars
<1>6. y \notin Live'
  BY <1>1 DEF Live, Existing, Exists
<1>7. Reads(y)' /\ Owes(y)'
  <2>1. Reads(y)
    BY DEF IRest
  <2>2. QED
    BY <1>1, <1>6, <2>1 DEF Reads, Owes, Calm, Exists, reconcileVars, Added, Asked, Listed
<1>8. QED
  BY <1>1, <1>2, <1>3, <1>4, <1>5, <1>7, StepOf DEF depVars

LEMMA GetRest ==
    ASSUME IRest, NEW y \in Ings, Get(y)
    PROVE  IRest'
<1> DEFINE ing == [ings[y] EXCEPT !.finalizer = TRUE]
<1>1. /\ pc[y] = "idle" /\ Exists(y) /\ ings' = [ings EXCEPT ![y] = ing]
      /\ fresh' = fresh \cup {y} /\ queued \ {y} \subseteq queued'
      /\ UNCHANGED depVars /\ UNCHANGED nsVars /\ UNCHANGED boundVars /\ UNCHANGED only
      /\ pc' = [pc EXCEPT ![y] = "apply"]
      /\ inst' = [inst EXCEPT ![y] = ings'[y]] /\ todo' = [todo EXCEPT ![y] = Plan(ings'[y])]
  BY DEF Get
<1>2. IInv' /\ Minded /\ IInv
  BY <1>1, GetStep, BoundsMinded DEF IRest
<1>3. ing \in Ingress /\ ing.status = ings[y].status
  BY <1>1, <1>2, ExistingTyped DEF Ingress
<1>4. /\ ings'[y] = ing /\ inst'[y] = ing /\ pc'[y] = "apply" /\ todo'[y] = Plan(ing)
      /\ only'[y] = FALSE /\ Alone(y)
  BY <1>1, <1>2 DEF IInv, IngsTyped, ReconcileTyped, IRest, Reads, Alone
<1>5. /\ todo'[y].added = Added(ing) /\ todo'[y].removed = Removed(ing)
      /\ todo'[y].pool = Absent
  BY <1>4 DEF Plan
<1> HIDE DEF ing
<1>6. \A z \in Ings : Safe(z)
  BY <1>1, DepUnchanged
<1>7. Standing'
  BY <1>1, <1>2, <1>4, NotAmid, StandingKept DEF depVars, nsVars
<1>8. Complete(y)'
  <2>1. Complete(y)
    BY DEF IRest
  <2>2. Listed(ings'[y]) = Listed(ings[y])
    BY <1>3, <1>4 DEF Listed
  <2>3. Added(ing) \subseteq Pools /\ Removed(ing) \subseteq Pools /\ Absent \notin Pools
    BY <1>3, IngressParts, ConstantAssumption DEF Added, Removed
  <2>4. \A p \in Listed(ings'[y]) : Owns(y, p)' => Full(p)'
    BY <1>1, <2>1, <2>2 DEF Complete, depVars, Owns, Full, Kept, Has
  <2>5. QED
    BY <1>4, <1>5, <2>3, <2>4 DEF Complete
<1>9. Reads(y)'
  <2>1. Added(ing) \cap Removed(ing) = {}
    BY DEF Added, Removed
  <2>2. QED
    BY <1>3, <1>4, <1>5, <2>1, AbsentIsNoObject DEF Reads, Reading
<1>10. Owes(y)'
  BY <1>1, <1>4 DEF Owes
<1>11. \A z \in Ings \ {y} : ings'[z] = ings[z]
  BY <1>1, <1>2 DEF IInv, IngsTyped
<1>12. QED
  BY <1>1, <1>2, <1>4, <1>6, <1>7, <1>8, <1>9, <1>10, <1>11, StepOf DEF depVars

LEMMA GetDeletedRest ==
    ASSUME IRest, NEW y \in Ings, GetDeleted(y)
    PROVE  IRest'
<1>1. /\ pc[y] = "idle" /\ Exists(y) /\ ings[y].deleted /\ ings' = ings /\ fresh' = fresh \cup {y}
      /\ UNCHANGED depVars /\ UNCHANGED nsVars
      /\ queued' = queued \ {y} /\ pc' = [pc EXCEPT ![y] = "finalize"]
      /\ inst' = [inst EXCEPT ![y] = ings[y]]
      /\ todo' = [todo EXCEPT ![y] = [Nothing EXCEPT !.removed = Asked(ings[y])]]
      /\ \A z \in Ings \ {y} : only'[z] = only[z]
      /\ UNCHANGED boundVars \/ CallFails
  BY DEF GetDeleted, IRest, IInv, ReconcileTyped
<1>2. IInv' /\ Minded /\ IInv
  BY <1>1, GetDeletedStep, BoundsMinded, CallMinded DEF IRest
<1>3. /\ pc'[y] = "finalize" /\ Alone(y)
      /\ todo'[y] = [Nothing EXCEPT !.removed = Asked(ings[y])]
  BY <1>1, <1>2 DEF IInv, ReconcileTyped, Alone
<1>4. todo'[y].added = {} /\ todo'[y].removed = Asked(ings[y]) /\ todo'[y].pool = Absent
  BY <1>3 DEF Nothing
<1>5. Standing'
  BY <1>1, <1>2, <1>3, NotAmid, StandingKept DEF depVars, nsVars
<1>6. Complete(y)'
  <2>1. Asked(ings[y]) \subseteq Pools /\ Absent \notin Pools
    BY <1>1, <1>2, ExistingTyped, IngressParts, ConstantAssumption
  <2>2. Complete(y)
    BY DEF IRest
  <2>3. \A p \in Listed(ings'[y]) : Owns(y, p)' => Full(p)'
    BY <1>1, <2>2 DEF Complete, depVars, Owns, Full, Kept, Has
  <2>4. QED
    BY <1>3, <1>4, <2>1, <2>3 DEF Complete, Reading
<1>7. y \notin Live'
  BY <1>1 DEF Live
<1>8. Reads(y)' /\ Owes(y)'
  BY <1>1, <1>3, <1>4, <1>7 DEF Reads, Owes, Calm, Reading, Exists
<1>9. \A z \in Ings : Safe(z)
  BY <1>1, DepUnchanged
<1>10. QED
  BY <1>1, <1>2, <1>3, <1>5, <1>6, <1>8, <1>9, StepOf DEF depVars

\* One call for what is shared is made, or fails.
LEMMA CommonRest ==
    ASSUME IRest, IInv', NEW y \in Ings, pc[y] # "idle", UNCHANGED <<ings, fresh>>, UNCHANGED depVars,
           Standing',
           \/ /\ UNCHANGED boundVars /\ UNCHANGED <<pc, inst, only, queued>>
              /\ \E work : /\ todo' = [todo EXCEPT ![y] = work] /\ work.pool = Absent
                           /\ work.added = todo[y].added /\ work.removed = todo[y].removed
           \/ Return(y, TRUE, {}) /\ UNCHANGED boundVars
           \/ Fails(y) \/ FailsHalfway(y)
    PROVE  IRest'
<1>1. \A z \in Ings : Safe(z)
  BY DepUnchanged
<1>2. ASSUME NEW work, todo' = [todo EXCEPT ![y] = work], work.pool = Absent,
             work.added = todo[y].added, work.removed = todo[y].removed,
             UNCHANGED boundVars, UNCHANGED <<pc, inst, only, queued>>
      PROVE  IRest'
  <2>1. todo'[y] = work
    BY <1>2, AloneInWork
  <2>2. Complete(y)'
    BY <1>1, <1>2, <2>1, CompleteKept
  <2>3. QED
    BY <1>1, <1>2, <2>2, WorkRest DEF depVars
<1>3. CASE (Return(y, TRUE, {}) /\ UNCHANGED boundVars) \/ Fails(y) \/ FailsHalfway(y)
  <2>1. /\ Over(y) /\ Alone(y) /\ Minded /\ queued \subseteq queued' /\ y \in queued'
    BY <1>3, ReturnParts, FailsParts, BoundsMinded
  <2>2. Complete(y)'
    BY <1>1, <2>1, CompleteOver
  <2>3. QED
    BY <1>1, <2>1, <2>2, EndedRest DEF depVars
<1>4. QED
  BY <1>2, <1>3

LEMMA CreateNamespaceRest ==
    ASSUME IRest, NEW y \in Ings, CreateNamespace(y)
    PROVE  IRest'
<1>1. /\ pc[y] = "apply" /\ todo[y].common /\ todo[y].n = 0 /\ ings' = ings /\ UNCHANGED depVars
      /\ common' = common
      /\ \/ /\ ns' = "active" /\ todo' = [todo EXCEPT ![y] = Calling(todo[y], Absent)]
            /\ UNCHANGED <<pc, inst, only, queued, fresh>> /\ UNCHANGED boundVars
         \/ Return(y, TRUE, {}) /\ UNCHANGED <<ns, fresh>> /\ UNCHANGED boundVars
         \/ Fails(y) /\ ns' = ns
         \/ FailsHalfway(y) /\ ns' = "active"
  BY DEF CreateNamespace
<1>2. IInv' /\ IInv /\ Standing
  BY CreateNamespaceStep DEF IRest
<1>3. todo[y] \in Todo /\ ~Amid(y)
  BY <1>1, <1>2, Held, NotAmid
<1>4. CASE /\ ns' = "active" /\ todo' = [todo EXCEPT ![y] = Calling(todo[y], Absent)]
           /\ UNCHANGED <<pc, inst, only, queued, fresh>> /\ UNCHANGED boundVars
  <2>1. /\ Calling(todo[y], Absent).pool = Absent /\ Calling(todo[y], Absent).n = 1
        /\ Calling(todo[y], Absent).added = todo[y].added
        /\ Calling(todo[y], Absent).removed = todo[y].removed
        /\ Calling(todo[y], Absent).common
    BY <1>1, <1>3, CallingParts
  <2>2. todo'[y] = Calling(todo[y], Absent)
    BY <1>4, AloneInWork
  <2>3. Amid(y)' /\ \A object \in Sharable : object \in ToMake(y)'
    <3>1. Amid(y)'
      BY <1>1, <1>4, <2>1, <2>2 DEF Amid
    <3>2. ToMake(y)' = {Shared[i] : i \in {j \in DOMAIN Shared : 1 <= j}}
      BY <2>1, <2>2 DEF ToMake, Shared
    <3>3. \A i \in DOMAIN Shared : 1 <= i
      BY DEF Shared
    <3>4. QED
      BY <3>1, <3>2, <3>3 DEF Sharable
  <2>4. Standing'
    BY <1>4, <2>3 DEF Standing, Sharable, Shared
  <2>5. QED
    BY <1>1, <1>2, <1>4, <2>1, <2>4, CommonRest
<1>5. CASE (Return(y, TRUE, {}) /\ UNCHANGED <<ns, fresh>> /\ UNCHANGED boundVars) \/ (Fails(y) /\ ns' = ns)
  <2>1. Alone(y) /\ Minded /\ fresh' = fresh
    BY <1>5, ReturnParts, FailsParts, BoundsMinded
  <2>2. Standing'
    BY <1>1, <1>3, <1>5, <2>1, StandingKept DEF depVars
  <2>3. QED
    BY <1>1, <1>2, <1>5, <2>1, <2>2, CommonRest
<1>6. CASE FailsHalfway(y) /\ ns' = "active"
  <2>1. cut' /\ fresh' = fresh
    BY <1>6, FailsParts
  <2>2. Standing'
    BY <1>1, <1>6, <2>1, StandingCut
  <2>3. QED
    BY <1>1, <1>2, <1>6, <2>1, <2>2, CommonRest
<1>7. QED
  BY <1>1, <1>4, <1>5, <1>6

LEMMA CreateCommonRest ==
    ASSUME IRest, NEW y \in Ings, CreateCommon(y)
    PROVE  IRest'
<1> DEFINE n == todo[y].n
           work == IF n < Len(Shared) THEN Calling(todo[y], Absent)
                   ELSE [Finished(todo[y]) EXCEPT !.common = FALSE]
<1>1. /\ pc[y] = "apply" /\ todo[y].common /\ n \in DOMAIN Shared /\ ings' = ings /\ UNCHANGED depVars
      /\ ns' = ns
      /\ \/ /\ common' = common \cup {Shared[n]}
            /\ todo' = [todo EXCEPT ![y] = work]
            /\ UNCHANGED <<pc, inst, only, queued, fresh>> /\ UNCHANGED boundVars
         \/ /\ ~Accepts(Shared[n]) /\ Return(y, TRUE, {})
            /\ UNCHANGED <<common, fresh>> /\ UNCHANGED boundVars
         \/ FailsHalfway(y)
  BY DEF CreateCommon
<1>2. IInv' /\ IInv /\ Standing
  BY CreateCommonStep DEF IRest
<1>3. todo[y] \in Todo
  BY <1>1, <1>2, Held
<1>4. DOMAIN Shared = 1 .. 4 /\ Len(Shared) = 4
  BY DEF Shared
<1>5. CASE /\ common' = common \cup {Shared[n]}
           /\ todo' = [todo EXCEPT ![y] = work]
           /\ UNCHANGED <<pc, inst, only, queued, fresh>> /\ UNCHANGED boundVars
  <2>1. Finished(todo[y]) \in Todo
    BY <1>3, CommonTyped
  <2>2. /\ [Finished(todo[y]) EXCEPT !.common = FALSE].pool = Finished(todo[y]).pool
        /\ [Finished(todo[y]) EXCEPT !.common = FALSE].added = Finished(todo[y]).added
        /\ [Finished(todo[y]) EXCEPT !.common = FALSE].removed = Finished(todo[y]).removed
    BY <2>1 DEF Todo
  <2>3. /\ work.pool = Absent /\ work.added = todo[y].added /\ work.removed = todo[y].removed
        /\ n < 4 => work.n = n + 1 /\ work.common
    BY <1>1, <1>3, <1>4, <2>2, CallingParts, FinishedParts
  <2> HIDE DEF work
  <2>4. todo'[y] = work /\ Alone(y)
    BY <1>5, AloneInWork
  <2>5. Standing'
    <3>1. ns' = "gone" => \A p \in Pools : dep'[p] = Absent
      BY <1>1, <1>2 DEF Standing, depVars
    <3>2. ASSUME ns' = "active", ~cut', NEW object \in Sharable \ common'
          PROVE  \E z \in Ings : Amid(z)' /\ (DeletingCommon(z)' \/ object \in ToMake(z)')
      <4>1. object # Shared[n] /\ object \in Sharable \ common
        BY <1>5, <3>2 DEF Sharable, Shared
      <4>2. PICK z \in Ings : Amid(z) /\ (DeletingCommon(z) \/ object \in ToMake(z))
        BY <1>1, <1>2, <1>5, <3>2, <4>1 DEF Standing, boundVars
      <4>3. CASE z # y
        BY <2>4, <4>2, <4>3 DEF Alone, Amid, DeletingCommon, ToMake, Asked
      <4>4. CASE z = y
        <5>1. object \in ToMake(y)
          BY <1>1, <4>2, <4>4 DEF DeletingCommon
        <5>2. PICK j \in DOMAIN Shared : n <= j /\ object = Shared[j]
          BY <5>1 DEF ToMake
        <5>3. n + 1 <= j /\ n < 4
          BY <1>1, <1>4, <4>1, <5>2
        <5>4. object \in ToMake(y)' /\ Amid(y)'
          BY <1>1, <1>4, <1>5, <2>3, <2>4, <5>2, <5>3 DEF ToMake, Amid, Shared
        <5>5. QED
          BY <5>4
      <4>5. QED
        BY <4>3, <4>4
    <3>3. QED
      BY <3>1, <3>2 DEF Standing, Sharable, Shared
  <2>6. QED
    BY <1>1, <1>2, <1>5, <2>3, <2>5, CommonRest
<1>6. CASE /\ ~Accepts(Shared[n]) /\ Return(y, TRUE, {})
           /\ UNCHANGED <<common, fresh>> /\ UNCHANGED boundVars
  <2>1. ns # "active"
    BY <1>6 DEF Accepts
  <2>2. Standing'
    BY <1>1, <1>2, <2>1 DEF Standing, depVars
  <2>3. QED
    BY <1>1, <1>2, <1>6, <2>2, CommonRest
<1>7. CASE FailsHalfway(y)
  <2>1. cut' /\ fresh' = fresh
    BY <1>7, FailsParts
  <2>2. Standing'
    BY <1>1, <2>1, StandingCut
  <2>3. QED
    BY <1>1, <1>2, <1>7, <2>1, <2>2, CommonRest
<1>8. QED
  BY <1>1, <1>5, <1>6, <1>7

\* What a pool is to have is added only to a pool that is not listed yet, one
\* object after the other, the Deployment first.
LEMMA MadeComplete ==
    ASSUME IRest, NEW y \in Ings, pc[y] = "apply", NEW p \in Pools, p \in todo[y].added,
           InHand(y, p), Make(y, p, Object(todo[y].n)), ings' = ings,
           \/ Over(y)
           \/ /\ pc'[y] = pc[y] /\ inst'[y] = inst[y]
              /\ todo'[y].removed \subseteq todo[y].removed
              /\ \/ /\ todo'[y].added = todo[y].added
                    /\ todo'[y].pool = p /\ todo'[y].n = todo[y].n + 1
                 \/ /\ todo'[y].added = todo[y].added \ {p}
                    /\ todo'[y].pool = Absent /\ todo[y].n >= Len(Parts)
    PROVE  Complete(y)'
<1> DEFINE n == todo[y].n
           object == Object(n)
<1>1. IInv /\ Complete(y) /\ Reads(y)
  BY DEF IRest
<1>2. /\ \A q \in Pools \ {p} : Owns(y, q)' => Owns(y, q) /\ Kept(q) \subseteq Kept(q)'
      /\ object # "deployment" =>
            dep' = dep /\ Kept(p) \cup ({object} \cap Serving) \subseteq Kept(p)'
  BY DepMade
<1>3. Exists(y) => p \notin Listed(ings[y])
  BY <1>1 DEF Reads, Reading, Added, Listed
<1>4. /\ inst[y] \in Ingress /\ todo[y] \in Todo /\ (Exists(y) => ings[y] \in Ingress)
      /\ n = 0 \/ n \in DOMAIN Parts
  BY <1>1, Held, ExistingTyped DEF InHand, InProgress
<1>5. /\ Added(inst[y]) \subseteq Pools /\ (Exists(y) => Listed(ings[y]) \subseteq Pools)
      /\ todo[y].added \subseteq Pools /\ todo[y].removed \subseteq Pools /\ n \in Nat
      /\ todo[y].added \cap todo[y].removed = {} /\ Absent \notin Pools
  BY <1>1, <1>4, IngressParts, ConstantAssumption DEF Added, Todo, Reads
<1>6. DOMAIN Parts = 1 .. Len(Parts) /\ Len(Parts) \in Nat
  BY PartsAssumption
\* What was made for p, and the object that is made now, is there.
<1>7. ASSUME Exists(y), Owns(y, p)', NEW i \in 1 .. n
      PROVE  {Object(i)} \cap Serving \subseteq Kept(p)'
  <2>1. n # 0 /\ n \in DOMAIN Parts /\ todo[y].pool = p
    BY <1>4, <1>5, <1>7 DEF InHand
  <2>2. object # "deployment"
    BY <2>1, ObjectNames
  <2>3. Owns(y, p) /\ Kept(p) \cup ({object} \cap Serving) \subseteq Kept(p)'
    BY <1>2, <1>7, <2>2 DEF Owns
  <2>4. CASE i = n
    BY <2>3, <2>4
  <2>5. CASE i # n
    <3>1. i \in 1 .. n - 1
      BY <1>5, <1>7, <2>5
    <3>2. {Object(i)} \cap Serving \subseteq Kept(p)
      BY <1>1, <1>7, <2>1, <2>3, <3>1 DEF Complete, Reading
    <3>3. QED
      BY <2>3, <3>2
  <2>6. QED
    BY <2>4, <2>5
<1>8. ASSUME Exists(y)', NEW q \in Listed(ings[y]), Owns(y, q)'
      PROVE  Full(q)'
  <2>1. Exists(y) /\ q \in Pools \ {p}
    BY <1>3, <1>5, <1>8 DEF Exists
  <2>2. Owns(y, q) /\ Full(q) /\ Kept(q) \subseteq Kept(q)'
    BY <1>1, <1>2, <1>8, <2>1 DEF Complete
  <2>3. QED
    BY <2>2 DEF Full
<1>9. Exists(y)' => \A q \in Listed(ings'[y]) : Owns(y, q)' => Full(q)'
  BY <1>8
<1>10. CASE Over(y)
  BY <1>9, <1>10 DEF Complete, Over, Nothing, Reading, Listed, Exists
<1>11. CASE /\ pc'[y] = pc[y] /\ inst'[y] = inst[y]
            /\ todo'[y].removed \subseteq todo[y].removed
            /\ \/ /\ todo'[y].added = todo[y].added
                  /\ todo'[y].pool = p /\ todo'[y].n = n + 1
               \/ /\ todo'[y].added = todo[y].added \ {p}
                  /\ todo'[y].pool = Absent /\ n >= Len(Parts)
  <2>1. ASSUME Exists(y)', NEW q \in Added(inst[y]) \ todo'[y].added, Owns(y, q)'
        PROVE  Full(q)'
    <3>1. Exists(y)
      BY <2>1 DEF Exists
    <3>2. CASE q = p
      <4>1. n >= Len(Parts)
        BY <1>11, <2>1, <3>2
      <4>2. \A i \in DOMAIN Parts : i \in 1 .. n /\ Object(i) = Parts[i]
        BY <1>5, <1>6, <4>1, ObjectNames
      <4>3. \A i \in DOMAIN Parts : {Parts[i]} \cap Serving \subseteq Kept(p)'
        BY <1>7, <2>1, <3>1, <3>2, <4>2
      <4>4. Serving \subseteq Kept(p)'
        BY <4>3 DEF Serving
      <4>5. QED
        BY <3>2, <4>4 DEF Full
    <3>3. CASE q # p
      <4>1. q \in Pools \ {p} /\ q \notin todo[y].added
        BY <1>5, <1>11, <2>1, <3>3
      <4>2. Owns(y, q) /\ Full(q) /\ Kept(q) \subseteq Kept(q)'
        BY <1>1, <1>2, <2>1, <3>1, <4>1 DEF Complete, Reading
      <4>3. QED
        BY <4>2 DEF Full
    <3>4. QED
      BY <3>2, <3>3
  <2>2. ASSUME Exists(y)', NEW q \in todo'[y].added, todo'[y].pool = q, Owns(y, q)',
               NEW i \in 1 .. todo'[y].n - 1
        PROVE  {Object(i)} \cap Serving \subseteq Kept(q)'
    <3>1. Exists(y) /\ q = p /\ todo'[y].n = n + 1
      BY <1>5, <1>11, <2>2 DEF Exists
    <3>2. i \in 1 .. n
      BY <1>5, <2>2, <3>1
    <3>3. QED
      BY <1>7, <2>2, <3>1, <3>2
  <2>3. \A q \in todo'[y].removed : todo'[y].pool # q
    BY <1>5, <1>11
  <2>4. Exists(y)' => \A q \in Added(inst'[y]) \ todo'[y].added : Owns(y, q)' => Full(q)'
    BY <1>11, <2>1
  <2>5. QED
    BY <1>9, <2>2, <2>3, <2>4 DEF Complete, Listed, Exists, Added, Asked
<1>12. QED
  BY <1>10, <1>11

LEMMA CreateSpecificRest ==
    ASSUME IRest, NEW y \in Ings, NEW p \in Pools, CreateSpecific(y, p)
    PROVE  IRest'
<1> DEFINE n == todo[y].n
           work == IF n < Len(Parts) THEN Calling(todo[y], p) ELSE Created(todo[y], p)
<1>1. /\ pc[y] = "apply" /\ ~todo[y].common /\ p \in todo[y].added /\ InHand(y, p)
      /\ ings' = ings /\ UNCHANGED nsVars
      /\ \/ /\ Make(y, p, Object(n)) /\ todo' = [todo EXCEPT ![y] = work]
            /\ UNCHANGED <<pc, inst, only, queued, fresh>> /\ UNCHANGED boundVars
         \/ /\ Return(y, TRUE, {})
            /\ UNCHANGED depVars /\ UNCHANGED fresh /\ UNCHANGED boundVars
         \/ /\ UNCHANGED depVars \/ Make(y, p, Object(n))
            /\ Fails(y)
  BY DEF CreateSpecific
<1>2. IInv' /\ IInv /\ ~Amid(y)
  BY <1>1, CreateSpecificStep, NotAmid DEF IRest
<1>3. todo[y] \in Todo /\ n \in Nat /\ Len(Parts) \in Nat
  BY <1>1, <1>2, Held, PartsAssumption DEF Todo
<1>4. Make(y, p, Object(n)) =>
        /\ depCache' = depCache
        /\ \A q \in Pools : dep'[q] # Absent => dep[q] # Absent \/ ns = "active"
        /\ \A z \in Ings \ {y} : Safe(z)
  BY DepMade
<1>5. CASE /\ Make(y, p, Object(n)) /\ todo' = [todo EXCEPT ![y] = work]
           /\ UNCHANGED <<pc, inst, only, queued, fresh>> /\ UNCHANGED boundVars
  <2>1. /\ Finished(todo[y]) \in Todo /\ Finished(todo[y]).pool = Absent
        /\ Finished(todo[y]).removed = todo[y].removed
    BY <1>3, FinishedParts
  <2>2. /\ Created(todo[y], p).added = todo[y].added \ {p}
        /\ Created(todo[y], p).removed = todo[y].removed
        /\ Created(todo[y], p).pool = Absent
    BY <2>1 DEF Created, Todo
  <2>3. /\ Calling(todo[y], p).pool = p /\ Calling(todo[y], p).n = n + 1
        /\ Calling(todo[y], p).added = todo[y].added
        /\ Calling(todo[y], p).removed = todo[y].removed
    BY <1>3, CallingParts
  <2>4. /\ work.removed = todo[y].removed /\ work.added \subseteq todo[y].added
        /\ \/ work.added = todo[y].added /\ work.pool = p /\ work.n = n + 1
           \/ work.added = todo[y].added \ {p} /\ work.pool = Absent /\ n >= Len(Parts)
    BY <1>3, <2>2, <2>3
  <2> HIDE DEF work
  <2>5. todo'[y] = work /\ Alone(y) /\ Minded
    BY <1>5, AloneInWork, BoundsMinded
  <2>6. Standing'
    BY <1>1, <1>2, <1>4, <1>5, <2>5, StandingKept DEF nsVars
  <2>7. Complete(y)'
    BY <1>1, <1>5, <2>4, <2>5, MadeComplete
  <2>8. QED
    BY <1>1, <1>2, <1>4, <1>5, <2>4, <2>6, <2>7, WorkRest
<1>6. CASE UNCHANGED depVars /\ (Fails(y) \/ (Return(y, TRUE, {}) /\ UNCHANGED fresh /\ UNCHANGED boundVars))
  BY <1>1, <1>2, <1>6, DepUnchanged, ErrorRest DEF depVars
<1>7. CASE Make(y, p, Object(n)) /\ Fails(y)
  <2>1. /\ Over(y) /\ Alone(y) /\ queued \subseteq queued' /\ y \in queued'
        /\ fresh' = fresh /\ Minded
    BY <1>7, FailsParts
  <2>2. Complete(y)'
    BY <1>1, <1>7, <2>1, MadeComplete
  <2>3. QED
    BY <1>1, <1>2, <1>4, <1>7, <2>1, <2>2, RefusedRest
<1>8. QED
  BY <1>1, <1>5, <1>6, <1>7

\* The Deployment of a pool that y deletes goes first.
LEMMA DeleteSpecificRest ==
    ASSUME IRest, NEW y \in Ings, NEW p \in Pools, DeleteSpecific(y, p)
    PROVE  IRest'
<1> DEFINE n == todo[y].n
           work == IF n < Len(Parts) THEN Calling(todo[y], p) ELSE Deleted(todo[y], p)
<1>1. /\ (pc[y] = "apply" /\ ~todo[y].common) \/ pc[y] = "cleanup"
      /\ p \in todo[y].removed /\ InHand(y, p) /\ ings' = ings /\ UNCHANGED nsVars
      /\ \/ /\ Unmake(y, p, Object(n)) /\ todo' = [todo EXCEPT ![y] = work]
            /\ UNCHANGED <<pc, inst, only, queued, fresh>> /\ UNCHANGED boundVars
         \/ /\ UNCHANGED depVars \/ Unmake(y, p, Object(n))
            /\ Fails(y)
  BY DEF DeleteSpecific, AddedAll
<1>2. IInv' /\ IInv /\ ~Amid(y) /\ Complete(y)
  BY <1>1, DeleteSpecificStep, NotAmid DEF IRest
<1>3. todo[y] \in Todo /\ n \in Nat /\ Len(Parts) \in Nat /\ (n = 0 \/ n \in DOMAIN Parts)
  BY <1>1, <1>2, Held, PartsAssumption DEF Todo, InHand, InProgress
<1>4. Object(n) = "deployment" \/ ~Owns(y, p)
  <2>1. CASE n = 0
    BY <2>1, ObjectNames
  <2>2. CASE n # 0
    BY <1>1, <1>2, <2>2 DEF InHand, Complete
  <2>3. QED
    BY <2>1, <2>2
<1>5. Unmake(y, p, Object(n)) =>
        /\ depCache' = depCache
        /\ \A q \in Pools : dep'[q] # Absent => dep[q] # Absent
        /\ \A z \in Ings : Safe(z)
        /\ ~Owns(y, p)'
  BY <1>4, DepUnmade
<1>6. CASE /\ Unmake(y, p, Object(n)) /\ todo' = [todo EXCEPT ![y] = work]
           /\ UNCHANGED <<pc, inst, only, queued, fresh>> /\ UNCHANGED boundVars
  <2>1. /\ Finished(todo[y]) \in Todo /\ Finished(todo[y]).pool = Absent
        /\ Finished(todo[y]).added = todo[y].added
    BY <1>3, FinishedParts
  <2>2. /\ Deleted(todo[y], p).removed = todo[y].removed \ {p}
        /\ Deleted(todo[y], p).added = todo[y].added
        /\ Deleted(todo[y], p).pool = Absent
    BY <2>1 DEF Deleted, Todo
  <2>3. /\ Calling(todo[y], p).pool = p
        /\ Calling(todo[y], p).added = todo[y].added
        /\ Calling(todo[y], p).removed = todo[y].removed
    BY <1>3, CallingParts
  <2>4. /\ work.added = todo[y].added /\ work.removed \subseteq todo[y].removed
        /\ work.pool = p \/ work.pool = Absent
    BY <2>2, <2>3
  <2> HIDE DEF work
  <2>5. todo'[y] = work /\ Alone(y) /\ Minded
    BY <1>6, AloneInWork, BoundsMinded
  <2>6. Standing'
    BY <1>1, <1>2, <1>5, <1>6, <2>5, StandingKept DEF nsVars
  <2>7. Complete(y)'
    <3>1. CASE work.pool = Absent
      BY <1>1, <1>5, <1>6, <2>4, <2>5, <3>1, CompleteKept
    <3>2. CASE work.pool = p
      <4>1. /\ todo[y].added \cap todo[y].removed = {}
        BY DEF IRest, Reads
      <4>2. \A q \in todo'[y].added : todo'[y].pool # q
        BY <1>1, <2>4, <2>5, <3>2, <4>1
      <4>3. \A q \in todo'[y].removed : todo'[y].pool = q => ~Owns(y, q)'
        BY <1>5, <1>6, <2>5, <3>2
      <4>4. inst[y] \in Ingress /\ (Exists(y) => ings[y] \in Ingress)
        BY <1>1, <1>2, Held, ExistingTyped
      <4>5. Added(inst[y]) \subseteq Pools /\ (Exists(y) => Listed(ings[y]) \subseteq Pools)
        BY <4>4, IngressParts DEF Added
      <4>6. \A q \in Pools : Owns(y, q)' => Owns(y, q) /\ (Full(q) => Full(q)')
        BY <1>5, <1>6 DEF Safe, Full
      <4>7. Exists(y)' => \A q \in Listed(ings'[y]) : Owns(y, q)' => Full(q)'
        BY <1>1, <1>2, <4>5, <4>6 DEF Complete, Exists
      <4>8. Exists(y)' /\ pc'[y] \in Reading =>
              \A q \in Added(inst'[y]) \ todo'[y].added : Owns(y, q)' => Full(q)'
        BY <1>1, <1>2, <1>6, <2>4, <2>5, <4>5, <4>6 DEF Complete, Exists
      <4>9. QED
        BY <4>2, <4>3, <4>7, <4>8 DEF Complete, Listed, Exists, Added, Asked
    <3>3. QED
      BY <2>4, <3>1, <3>2
  <2>8. QED
    BY <1>1, <1>2, <1>5, <1>6, <2>4, <2>6, <2>7, WorkRest
<1>7. CASE Fails(y) /\ (UNCHANGED depVars \/ Unmake(y, p, Object(n)))
  <2>1. UNCHANGED depVars =>
          /\ depCache' = depCache /\ \A q \in Pools : dep'[q] # Absent => dep[q] # Absent
          /\ \A z \in Ings : Safe(z)
    BY DepUnchanged DEF depVars
  <2>2. QED
    BY <1>1, <1>2, <1>5, <1>7, <2>1, ErrorRest
<1>8. QED
  BY <1>1, <1>6, <1>7

\* Some of the work is done that makes nothing for a pool.
LEMMA PieceRest ==
    ASSUME IRest, IInv', NEW y \in Ings, pc[y] = "apply", ~todo[y].common, todo[y].added = {},
           todo[y].removed = {}, NEW work, todo' = [todo EXCEPT ![y] = work],
           work.added = {}, work.removed = {},
           UNCHANGED <<pc, inst, only, queued, fresh>>, ings' = ings, UNCHANGED boundVars,
           depCache' = depCache, UNCHANGED nsVars,
           \A q \in Pools : dep'[q] # Absent => dep[q] # Absent, \A z \in Ings : Safe(z)
    PROVE  IRest'
<1>1. todo'[y] = work /\ Alone(y) /\ Minded
  BY AloneInWork, BoundsMinded
<1>2. Standing'
  BY <1>1, NotAmid, StandingKept DEF nsVars
<1>3. Complete(y)'
  BY <1>1, CompleteKept
<1>4. QED
  BY <1>2, <1>3, WorkRest

LEMMA ListOthersRest ==
    ASSUME IRest, NEW y \in Ings, ListOthers(y)
    PROVE  IRest'
<1>1. /\ pc[y] = "apply" /\ ~todo[y].common /\ todo[y].added = {} /\ Asked(inst[y]) = {}
      /\ UNCHANGED <<ings, fresh>> /\ UNCHANGED depVars /\ UNCHANGED nsVars
      /\ UNCHANGED <<inst, todo, queued>>
      /\ pc' = [pc EXCEPT ![y] = IF only'[y] THEN "retire" ELSE "status"]
      /\ \A z \in Ings \ {y} : only'[z] = only[z]
      /\ UNCHANGED boundVars \/ CallFails
  BY DEF ListOthers, AddedAll, IRest, IInv, ReconcileTyped
<1>2. IInv' /\ Minded /\ IInv /\ ~Amid(y)
  BY <1>1, ListOthersStep, BoundsMinded, CallMinded, NotAmid DEF IRest
<1>3. pc'[y] \in {"retire", "status"} /\ Alone(y)
  BY <1>1, <1>2 DEF IInv, ReconcileTyped, Alone
<1>4. \A z \in Ings : Safe(z)
  BY <1>1, DepUnchanged
<1>5. Standing'
  BY <1>1, <1>2, <1>3, StandingKept DEF depVars, nsVars
<1>6. Complete(y)'
  BY <1>1, <1>3, <1>4, CompleteKept DEF Reading
<1>7. Reads(y)' /\ Owes(y)'
  BY <1>1, <1>2, <1>3, GoingOn DEF Reading
<1>8. QED
  BY <1>1, <1>2, <1>3, <1>4, <1>5, <1>6, <1>7, StepOf DEF depVars

LEMMA DeleteCommonRest ==
    ASSUME IRest, NEW y \in Ings, DeleteCommon(y)
    PROVE  IRest'
<1>1. /\ DeletingCommon(y) /\ ings' = ings /\ UNCHANGED depVars /\ ns' = ns
      /\ \/ /\ todo' = [todo EXCEPT ![y] = Calling(todo[y], Absent)]
            /\ UNCHANGED <<pc, inst, only, queued, fresh>> /\ UNCHANGED boundVars
         \/ FailsHalfway(y)
  BY DEF DeleteCommon
<1>2. IInv' /\ IInv /\ Standing /\ pc[y] # "idle"
  BY <1>1, DeleteCommonStep DEF IRest, DeletingCommon
<1>3. CASE /\ todo' = [todo EXCEPT ![y] = Calling(todo[y], Absent)]
           /\ UNCHANGED <<pc, inst, only, queued, fresh>> /\ UNCHANGED boundVars
  <2>1. /\ Calling(todo[y], Absent).pool = Absent /\ Calling(todo[y], Absent).n = todo[y].n + 1
        /\ Calling(todo[y], Absent).added = todo[y].added
        /\ Calling(todo[y], Absent).removed = todo[y].removed
        /\ todo[y].n \in Nat
    BY <1>2, Held, CallingParts DEF Todo
  <2>2. todo'[y] = Calling(todo[y], Absent)
    BY <1>3, AloneInWork
  <2>3. DeletingCommon(y)' /\ Amid(y)'
    BY <1>1, <1>3, <2>1, <2>2 DEF DeletingCommon, Amid, Asked
  <2>4. Standing'
    BY <1>1, <1>2, <2>3 DEF Standing, depVars
  <2>5. QED
    BY <1>1, <1>2, <1>3, <2>1, <2>4, CommonRest
<1>4. CASE FailsHalfway(y)
  <2>1. cut' /\ fresh' = fresh
    BY <1>4, FailsParts
  <2>2. Standing'
    BY <1>1, <2>1, StandingCut
  <2>3. QED
    BY <1>1, <1>2, <1>4, <2>1, <2>2, CommonRest
<1>5. QED
  BY <1>1, <1>3, <1>4

LEMMA DeleteNamespaceRest ==
    ASSUME IRest, NEW y \in Ings, DeleteNamespace(y)
    PROVE  IRest'
<1>1. /\ DeletingCommon(y) /\ ings' = ings /\ UNCHANGED depVars
      /\ \/ /\ ns' = NamespaceDeleted /\ fresh' = fresh /\ UNCHANGED boundVars
            /\ \/ /\ pc[y] = "retire" /\ pc' = [pc EXCEPT ![y] = "status"]
                  /\ todo' = [todo EXCEPT ![y] = Finished(todo[y])]
                  /\ UNCHANGED <<inst, only, queued>>
               \/ pc[y] = "cleanup" /\ Return(y, FALSE, {})
         \/ FailsHalfway(y) /\ (ns' = ns \/ ns' = NamespaceDeleted)
  BY DEF DeleteNamespace, DeletingCommon
<1>2. IInv' /\ IInv /\ Standing /\ Reads(y) /\ pc[y] # "idle"
  BY <1>1, DeleteNamespaceStep DEF IRest, DeletingCommon
<1>3. \A z \in Ings : Safe(z)
  BY <1>1, DepUnchanged
<1>4. CASE ns' = NamespaceDeleted /\ fresh' = fresh /\ UNCHANGED boundVars
  <2>1. Standing' /\ Minded
    BY <1>1, <1>2, <1>4, BoundsMinded DEF Standing, depVars, boundVars, NamespaceDeleted
  <2>2. CASE /\ pc[y] = "retire" /\ pc' = [pc EXCEPT ![y] = "status"]
             /\ todo' = [todo EXCEPT ![y] = Finished(todo[y])]
             /\ UNCHANGED <<inst, only, queued>>
    <3>1. /\ Finished(todo[y]).pool = Absent /\ Finished(todo[y]).added = todo[y].added
          /\ Finished(todo[y]).removed = todo[y].removed
      BY <1>2, Held, FinishedParts
    <3>2. pc'[y] = "status" /\ Alone(y) /\ todo'[y] = Finished(todo[y])
      BY <1>2, <2>2 DEF IInv, ReconcileTyped, Alone
    <3>3. Complete(y)'
      BY <1>1, <1>3, <2>2, <3>1, <3>2, CompleteKept DEF Reading
    <3>4. todo[y].added = {}
      BY <1>2, <2>2 DEF Reads
    <3>5. Reads(y)' /\ Owes(y)'
      BY <1>1, <1>4, <2>1, <2>2, <3>1, <3>2, <3>4, GoingOn DEF Reading
    <3>6. QED
      BY <1>1, <1>2, <1>3, <1>4, <2>1, <2>2, <3>2, <3>3, <3>5, StepOf DEF depVars
  <2>3. CASE pc[y] = "cleanup" /\ Return(y, FALSE, {})
    <3>1. Over(y) /\ Alone(y) /\ queued \subseteq queued'
      BY <2>3, ReturnParts
    <3>2. Complete(y)'
      BY <1>1, <1>3, <3>1, CompleteOver
    <3>3. y \notin Live'
      BY <1>1, <1>2, <2>3 DEF Reads, Live, Existing, Exists
    <3>4. QED
      BY <1>1, <1>2, <1>3, <1>4, <2>1, <3>1, <3>2, <3>3, EndedRest DEF depVars
  <2>4. CASE FailsHalfway(y)
    <3>1. fresh' = fresh
      BY <2>4, FailsParts
    <3>2. QED
      BY <1>1, <1>2, <2>1, <2>4, <3>1, CommonRest
  <2>5. QED
    BY <1>1, <2>2, <2>3, <2>4
<1>5. CASE FailsHalfway(y) /\ (ns' = ns \/ ns' = NamespaceDeleted)
  <2>1. cut' /\ fresh' = fresh
    BY <1>5, FailsParts
  <2>2. ns' = ns \/ ns' # "gone"
    BY <1>5 DEF NamespaceDeleted
  <2>3. Standing'
    BY <1>1, <2>1, <2>2, StandingCut
  <2>4. QED
    BY <1>1, <1>2, <1>5, <2>1, <2>3, CommonRest
<1>6. QED
  BY <1>1, <1>4, <1>5

\* A Deployment that is rescaled is there, and its owner's.
LEMMA RescaleSafe ==
    ASSUME IRest, NEW y \in Ings, NEW p \in Pools, Rescale(y, p) \/ UNCHANGED <<dep, lagging>>,
           UNCHANGED <<rest, hook, lost>>
    PROVE  /\ \A z \in Ings : Safe(z)
           /\ \A q \in Pools : dep'[q] # Absent => dep[q] # Absent
<1>1. CASE UNCHANGED <<dep, lagging>>
  BY <1>1, KeptUntouched DEF Safe, Owns
<1>2. CASE Rescale(y, p) /\ depCache[p] # Absent
  <2> DEFINE value == [dep[p] EXCEPT !.replicas = inst[y].spec.replicas]
  <2>1. dep[p] \in Deployment /\ dep[p] # Absent
    BY <1>2, AbsentIsNoObject DEF Rescale, IRest, IInv, DepTyped
  <2>2. value.owner = dep[p].owner
    BY <2>1 DEF Deployment
  <2>3. WriteDep(p, value)
    BY <1>2 DEF Rescale
  <2> HIDE DEF value
  <2>4. QED
    BY <2>1, <2>2, <2>3, DepWritten
<1>3. QED
  BY <1>1, <1>2 DEF Rescale

LEMMA UpdateDeploymentRest ==
    ASSUME IRest, NEW y \in Ings, NEW p \in Pools, UpdateDeployment(y, p)
    PROVE  IRest'
<1>1. /\ pc[y] = "apply" /\ ~todo[y].common /\ todo[y].added = {} /\ todo[y].removed = {}
      /\ ings' = ings /\ UNCHANGED nsVars /\ UNCHANGED <<depCache, rest, hook, lost>>
      /\ Rescale(y, p) \/ UNCHANGED <<dep, lagging>>
      /\ \/ /\ todo' = [todo EXCEPT ![y].updated = @ \ {p}]
            /\ UNCHANGED <<pc, inst, only, queued, fresh>> /\ UNCHANGED boundVars
         \/ Return(y, TRUE, {}) /\ fresh' = fresh /\ UNCHANGED boundVars
         \/ Fails(y)
  BY DEF UpdateDeployment, RemovedAll, AddedAll
<1>2. IInv' /\ IInv /\ ~Amid(y)
  BY <1>1, UpdateDeploymentStep, NotAmid DEF IRest
<1>3. /\ \A z \in Ings : Safe(z)
      /\ \A q \in Pools : dep'[q] # Absent => dep[q] # Absent
  BY <1>1, RescaleSafe
<1>4. CASE /\ todo' = [todo EXCEPT ![y].updated = @ \ {p}]
           /\ UNCHANGED <<pc, inst, only, queued, fresh>> /\ UNCHANGED boundVars
  <2> DEFINE work == [todo[y] EXCEPT !.updated = @ \ {p}]
  <2>1. work.added = todo[y].added /\ work.removed = todo[y].removed
    BY <1>1, <1>2, Held DEF Todo
  <2>2. todo' = [todo EXCEPT ![y] = work]
    BY <1>2, <1>4 DEF IInv, ReconcileTyped
  <2> HIDE DEF work
  <2>3. QED
    BY <1>1, <1>2, <1>3, <1>4, <2>1, <2>2, PieceRest
<1>5. CASE Fails(y) \/ (Return(y, TRUE, {}) /\ fresh' = fresh /\ UNCHANGED boundVars)
  BY <1>1, <1>2, <1>3, <1>5, ErrorRest
<1>6. QED
  BY <1>1, <1>4, <1>5

\* The jobs serve no pool.
LEMMA RecreateJobRest ==
    ASSUME IRest, NEW y \in Ings, NEW p \in Pools, RecreateJob(y, p)
    PROVE  IRest'
<1>1. /\ pc[y] = "apply" /\ ~todo[y].common /\ todo[y].added = {} /\ todo[y].removed = {}
      /\ ings' = ings /\ UNCHANGED nsVars /\ UNCHANGED <<dep, depCache, lagging, hook, lost>>
      /\ \/ /\ \/ todo' = [todo EXCEPT ![y] = Calling(todo[y], p)]
               \/ todo' = [todo EXCEPT ![y] = Recreated(todo[y], p)]
            /\ UNCHANGED <<pc, inst, only, queued, fresh>> /\ UNCHANGED boundVars
         \/ Return(y, TRUE, {}) /\ fresh' = fresh /\ UNCHANGED boundVars
         \/ Fails(y)
      /\ \/ rest' = rest
         \/ rest' = [rest EXCEPT ![p] = rest[p] \ {"jobs"}]
         \/ rest' = [rest EXCEPT ![p] = rest[p] \cup {"jobs"}]
  BY DEF RecreateJob, UpdatedAll, RemovedAll, AddedAll
<1>2. IInv' /\ IInv /\ ~Amid(y)
  BY <1>1, RecreateJobStep, NotAmid DEF IRest
<1>3. \A z \in Ings : Safe(z)
  <2>1. \A q \in Pools : Has(q)' = Has(q)
    BY <1>1, <1>2 DEF Has, Serving, IInv, DepTyped, RestTyped
  <2>2. QED
    BY <1>1, <2>1 DEF Safe, Owns, Kept
<1>4. CASE /\ \/ todo' = [todo EXCEPT ![y] = Calling(todo[y], p)]
              \/ todo' = [todo EXCEPT ![y] = Recreated(todo[y], p)]
           /\ UNCHANGED <<pc, inst, only, queued, fresh>> /\ UNCHANGED boundVars
  <2>1. todo[y] \in Todo /\ Finished(todo[y]) \in Todo
    BY <1>1, <1>2, Held, FinishedParts
  <2>2. /\ Calling(todo[y], p).added = {} /\ Calling(todo[y], p).removed = {}
        /\ Finished(todo[y]).added = {} /\ Finished(todo[y]).removed = {}
    BY <1>1, <2>1, CallingParts, FinishedParts
  <2>3. Recreated(todo[y], p).added = {} /\ Recreated(todo[y], p).removed = {}
    BY <2>1, <2>2 DEF Recreated, Todo
  <2>4. QED
    BY <1>1, <1>2, <1>3, <1>4, <2>2, <2>3, PieceRest
<1>5. CASE Fails(y) \/ (Return(y, TRUE, {}) /\ fresh' = fresh /\ UNCHANGED boundVars)
  BY <1>1, <1>2, <1>3, <1>5, ErrorRest
<1>6. QED
  BY <1>1, <1>4, <1>5

LEMMA UpdateServiceRest ==
    ASSUME IRest, NEW y \in Ings, NEW p \in Pools, UpdateService(y, p)
    PROVE  IRest'
<1>1. /\ pc[y] = "apply" /\ ~todo[y].common /\ todo[y].added = {} /\ todo[y].removed = {}
      /\ ings' = ings /\ UNCHANGED nsVars /\ UNCHANGED depVars
      /\ \/ /\ todo' = [todo EXCEPT ![y].ips = @ \ {p}]
            /\ UNCHANGED <<pc, inst, only, queued, fresh>> /\ UNCHANGED boundVars
         \/ Fails(y)
  BY DEF UpdateService, UpdatedAll, RemovedAll, AddedAll
<1>2. IInv' /\ IInv /\ ~Amid(y)
  BY <1>1, UpdateServiceStep, NotAmid DEF IRest
<1>3. \A z \in Ings : Safe(z)
  BY <1>1, DepUnchanged
<1>4. CASE /\ todo' = [todo EXCEPT ![y].ips = @ \ {p}]
           /\ UNCHANGED <<pc, inst, only, queued, fresh>> /\ UNCHANGED boundVars
  <2> DEFINE work == [todo[y] EXCEPT !.ips = @ \ {p}]
  <2>1. work.added = todo[y].added /\ work.removed = todo[y].removed
    BY <1>1, <1>2, Held DEF Todo
  <2>2. todo' = [todo EXCEPT ![y] = work]
    BY <1>2, <1>4 DEF IInv, ReconcileTyped
  <2> HIDE DEF work
  <2>3. QED
    BY <1>1, <1>2, <1>3, <1>4, <2>1, <2>2, PieceRest DEF depVars
<1>5. CASE Fails(y)
  BY <1>1, <1>2, <1>3, <1>5, ErrorRest DEF depVars
<1>6. QED
  BY <1>1, <1>4, <1>5

LEMMA EndCleanupRest ==
    ASSUME IRest, NEW y \in Ings, EndCleanup(y)
    PROVE  IRest'
<1>1. /\ pc[y] = "cleanup" /\ UNCHANGED <<ings, fresh>> /\ UNCHANGED depVars /\ UNCHANGED nsVars
      /\ ~only[y] \/ Asked(inst[y]) = {}
      /\ UNCHANGED boundVars /\ Return(y, FALSE, {})
  BY DEF EndCleanup
<1>2. IInv' /\ Minded /\ ~Amid(y)
  BY <1>1, EndCleanupStep, BoundsMinded, NotAmid DEF IRest
<1>3. Over(y) /\ Alone(y) /\ queued \subseteq queued'
  BY <1>1, ReturnParts
<1>4. \A z \in Ings : Safe(z)
  BY <1>1, DepUnchanged
<1>5. Standing' /\ Complete(y)'
  BY <1>1, <1>2, <1>3, <1>4, StandingKept, CompleteOver DEF depVars, nsVars
<1>6. y \notin Live'
  BY <1>1 DEF IRest, Reads, Live, Existing, Exists
<1>7. QED
  BY <1>1, <1>2, <1>3, <1>4, <1>5, <1>6, EndedRest DEF depVars

LEMMA RemoveFinalizerRest ==
    ASSUME IRest, NEW y \in Ings, RemoveFinalizer(y)
    PROVE  IRest'
<1>1. /\ pc[y] = "finalize" /\ UNCHANGED depVars /\ UNCHANGED nsVars
      /\ \/ /\ WriteIngress(y, Absent) /\ pc' = [pc EXCEPT ![y] = "cleanup"]
            /\ UNCHANGED <<inst, todo, only, queued>> /\ UNCHANGED boundVars
         \/ Return(y, TRUE, {}) /\ UNCHANGED <<ings, fresh>> /\ UNCHANGED boundVars
         \/ Fails(y) /\ ings' = ings
  BY DEF RemoveFinalizer
<1>2. IInv' /\ IInv /\ ~Amid(y) /\ Complete(y) /\ Reads(y)
  BY <1>1, RemoveFinalizerStep, NotAmid DEF IRest
<1>3. \A z \in Ings : Safe(z)
  BY <1>1, DepUnchanged
<1>4. CASE /\ WriteIngress(y, Absent) /\ pc' = [pc EXCEPT ![y] = "cleanup"]
           /\ UNCHANGED <<inst, todo, only, queued>> /\ UNCHANGED boundVars
  <2>1. /\ ings'[y] = Absent /\ pc'[y] = "cleanup" /\ Alone(y)
        /\ \A z \in Ings \ {y} : ings'[z] = ings[z] /\ (z \in fresh => z \in fresh')
    BY <1>2, <1>4 DEF IInv, IngsTyped, ReconcileTyped, WriteIngress, Alone
  <2>2. ~Exists(y)' /\ y \notin Live'
    BY <2>1 DEF Exists, Live, Existing
  <2>3. Minded
    BY <1>4, BoundsMinded
  <2>4. Standing'
    BY <1>1, <1>2, <2>1, <2>3, StandingKept DEF depVars, nsVars
  <2>5. Complete(y)'
    BY <1>1, <1>2, <1>4, <2>2 DEF Complete, Owns, depVars
  <2>6. Reads(y)' /\ Owes(y)'
    BY <1>2, <1>4, <2>1, <2>2, AbsentIsNoObject DEF Reads, Owes, Calm, Reading
  <2>7. QED
    BY <1>1, <1>2, <1>3, <1>4, <2>1, <2>3, <2>4, <2>5, <2>6, StepOf DEF depVars
<1>5. CASE /\ Fails(y) \/ (Return(y, TRUE, {}) /\ fresh' = fresh /\ UNCHANGED boundVars)
           /\ ings' = ings
  BY <1>1, <1>2, <1>3, <1>5, ErrorRest DEF depVars
<1>6. QED
  BY <1>1, <1>4, <1>5

-----------------------------------------------------------------------------
(* What a status lists when it is written.                                  *)

LEMMA ChangedLists ==
    ASSUME NEW ing \in Ingress, NEW retired
    PROVE  /\ DOMAIN ChangedStatus(ing, retired).conditions \subseteq Listed(ing) \cup Asked(ing)
           /\ ~retired /\ Asked(ing) # {} =>
                  DOMAIN ChangedStatus(ing, retired).conditions = Asked(ing)
<1> DEFINE old == ing.status
           removed == IF Asked(ing) = {} THEN {} ELSE Removed(ing)
           kept == IF retired THEN {} ELSE (Listed(ing) \ removed) \cup Added(ing)
           ready == Less(old.readyNum, Cardinality(ReadyIn(old.conditions) \cap removed))
           unready == Less(old.unreadyNum + Cardinality(Added(ing)),
                           Cardinality(removed \ ReadyIn(old.conditions)))
           reset == Unchanged(ing) # {} /\ ing.spec.image # old.image
           conditions == [p \in kept |-> IF p \in Listed(ing) THEN old.conditions[p]
                                         ELSE [ready |-> FALSE, ips |-> ing.spec.pools[p]]]
           readyNum == IF retired \/ reset THEN 0 ELSE ready
           unreadyNum == IF retired THEN 0 ELSE IF reset THEN Cardinality(Asked(ing)) ELSE unready
<1>1. ChangedStatus(ing, retired) =
        [old EXCEPT !.conditions = conditions, !.readyNum = readyNum, !.unreadyNum = unreadyNum]
  BY DEF ChangedStatus
<1>2. DOMAIN conditions = kept
  OBVIOUS
<1>3. /\ kept \subseteq Listed(ing) \cup Asked(ing)
      /\ ~retired /\ Asked(ing) # {} => kept = Asked(ing)
  BY DEF Removed, Added
<1>4. old \in Status
  BY IngressParts
<1> HIDE DEF conditions, kept, readyNum, unreadyNum, old
<1>5. ChangedStatus(ing, retired).conditions = conditions
  BY <1>1, <1>4 DEF Status
<1>6. QED
  BY <1>2, <1>3, <1>5

\* The status that was observed, by its fields.
LEMMA ObservedFields ==
    ASSUME NEW y \in Ings, NEW ing \in Ingress
    PROVE  LET ready == {p \in Reported(y, ing) : depCache[p].up = ing.spec.replicas}
           IN /\ ObservedStatus(y, ing).conditions =
                    [p \in Reported(y, ing) |-> [ready |-> p \in ready, ips |-> ing.spec.pools[p]]]
              /\ ObservedStatus(y, ing).readyNum = Cardinality(ready)
              /\ ObservedStatus(y, ing).unreadyNum = Cardinality(Asked(ing)) - Cardinality(ready)
<1> DEFINE ready == {p \in Reported(y, ing) : depCache[p].up = ing.spec.replicas}
           conditions == [p \in Reported(y, ing) |->
                              [ready |-> p \in ready, ips |-> ing.spec.pools[p]]]
           readyNum == Cardinality(ready)
           unreadyNum == Cardinality(Asked(ing)) - Cardinality(ready)
<1>1. ObservedStatus(y, ing) = [ing.status EXCEPT !.conditions = conditions, !.readyNum = readyNum,
                                                  !.unreadyNum = unreadyNum]
  BY DEF ObservedStatus
<1>2. ing.status \in Status
  BY IngressParts
<1> HIDE DEF conditions, readyNum, unreadyNum
<1>3. /\ ObservedStatus(y, ing).conditions = conditions
      /\ ObservedStatus(y, ing).readyNum = readyNum
      /\ ObservedStatus(y, ing).unreadyNum = unreadyNum
  BY <1>1, <1>2 DEF Status
<1>4. QED
  BY <1>3 DEF conditions, readyNum, unreadyNum

LEMMA ObservedLists ==
    ASSUME NEW y \in Ings, NEW ing \in Ingress
    PROVE  DOMAIN ObservedStatus(y, ing).conditions = Reported(y, ing)
<1> DEFINE ready == {p \in Reported(y, ing) : depCache[p].up = ing.spec.replicas}
<1>1. ObservedStatus(y, ing).conditions =
        [p \in Reported(y, ing) |-> [ready |-> p \in ready, ips |-> ing.spec.pools[p]]]
  BY ObservedFields, Zenon
<1> HIDE DEF ready
<1>2. QED
  BY <1>1

LEMMA WrittenParts ==
    ASSUME IInv, NEW y \in Ings, pc[y] # "idle", ~Panics(y)
    PROVE  LET status == IF Changed(inst[y]) THEN ChangedStatus(inst[y], only[y])
                         ELSE ObservedStatus(y, inst[y])
           IN /\ WrittenStatus(y).conditions = status.conditions
              /\ WrittenStatus(y).readyNum = status.readyNum
              /\ WrittenStatus(y).unreadyNum = status.unreadyNum
              /\ WrittenStatus(y).replicas = inst[y].spec.replicas
              /\ WrittenStatus(y).image = inst[y].spec.image
              /\ WrittenStatus(y).certgen = inst[y].spec.certgen
              /\ DOMAIN WrittenStatus(y).conditions \subseteq Listed(inst[y]) \cup Asked(inst[y])
<1> DEFINE status == IF Changed(inst[y]) THEN ChangedStatus(inst[y], only[y])
                     ELSE ObservedStatus(y, inst[y])
<1>1. inst[y] \in Ingress /\ only[y] \in BOOLEAN
  BY Held DEF IInv, ReconcileTyped
<1>2. status \in Status
  BY <1>1, ChangedStatusTyped, ObservedStatusTyped DEF Panics
<1>3. DOMAIN status.conditions \subseteq Listed(inst[y]) \cup Asked(inst[y])
  BY <1>1, ChangedLists, ObservedLists DEF Panics
<1>4. WrittenStatus(y) = [status EXCEPT !.replicas = inst[y].spec.replicas,
                                        !.image = inst[y].spec.image,
                                        !.certgen = inst[y].spec.certgen]
  BY DEF WrittenStatus
<1> HIDE DEF status
<1>5. /\ WrittenStatus(y).conditions = status.conditions
      /\ WrittenStatus(y).readyNum = status.readyNum
      /\ WrittenStatus(y).unreadyNum = status.unreadyNum
      /\ WrittenStatus(y).replicas = inst[y].spec.replicas
      /\ WrittenStatus(y).image = inst[y].spec.image
      /\ WrittenStatus(y).certgen = inst[y].spec.certgen
  BY <1>2, <1>4 DEF Status
<1>6. QED
  BY <1>3, <1>5 DEF status

\* A status that was written and is the old one had been copied from the
\* cache: one guessed from what was changed differs from the old one.
LEMMA WrittenSettles ==
    ASSUME IInv, NEW y \in Ings, pc[y] # "idle", ~Panics(y), ~only[y], inst[y] = ings[y],
           WrittenStatus(y) = ings[y].status, Asked(ings[y]) # {}
    PROVE  Settled(y)
<1>1. ings[y] \in Ingress
  BY Held
<1>2. ~Changed(ings[y])
  <2> SUFFICES ASSUME Changed(ings[y])
               PROVE  FALSE
    OBVIOUS
  <2>1. /\ ings[y].status.conditions = ChangedStatus(ings[y], only[y]).conditions
        /\ ings[y].status.replicas = ings[y].spec.replicas
        /\ ings[y].status.image = ings[y].spec.image
        /\ ings[y].status.certgen = ings[y].spec.certgen
    BY WrittenParts
  <2>2. Listed(ings[y]) = Asked(ings[y])
    BY <1>1, <2>1, ChangedLists DEF Listed
  <2>3. QED
    BY <2>1, <2>2 DEF Changed, Added, Removed
<1>3. Listed(ings[y]) = Asked(ings[y])
  BY <1>2 DEF Changed, Added, Removed
<1>4. /\ ings[y].status.conditions = ObservedStatus(y, ings[y]).conditions
      /\ ings[y].status.readyNum = ObservedStatus(y, ings[y]).readyNum
      /\ ings[y].status.unreadyNum = ObservedStatus(y, ings[y]).unreadyNum
  BY <1>2, WrittenParts
<1>5. QED
  BY <1>3, <1>4 DEF Settled

LEMMA UpdateStatusRest ==
    ASSUME IRest, NEW y \in Ings, UpdateStatus(y)
    PROVE  IRest'
<1> DEFINE value == [ings[y] EXCEPT !.status = WrittenStatus(y)]
<1>1. /\ pc[y] \in Reading /\ ~Panics(y) /\ UNCHANGED depVars /\ UNCHANGED nsVars
      /\ pc[y] = "status" \/ (pc[y] = "apply" /\ ~todo[y].common /\ todo[y].added = {})
      /\ \/ /\ y \in fresh /\ WriteIngress(y, value)
            /\ Return(y, FALSE, Notify(y, ings'[y])) /\ UNCHANGED boundVars
         \/ /\ y \notin fresh
            /\ Return(y, FALSE, {}) /\ UNCHANGED <<ings, fresh>> /\ UNCHANGED boundVars
         \/ /\ dropped' = TRUE /\ cut' = cut
            /\ Return(y, FALSE, {}) /\ UNCHANGED <<ings, fresh>>
  BY DEF UpdateStatus, Reading, Applied, UpdatedAll, RemovedAll, AddedAll
<1>2. IInv' /\ IInv /\ Complete(y) /\ Reads(y) /\ Owes(y) /\ pc[y] # "idle" /\ ~Amid(y)
  BY <1>1, UpdateStatusStep, NotAmid DEF IRest, Reading
<1>3. \A z \in Ings : Safe(z)
  BY <1>1, DepUnchanged
<1>4. \A news : Return(y, FALSE, news) =>
        /\ Over(y) /\ Alone(y)
        /\ queued \subseteq queued' /\ news \subseteq queued'
  BY ReturnParts
<1>5. Minded
  <2>1. CASE UNCHANGED boundVars
    BY <2>1, BoundsMinded
  <2>2. CASE dropped' = TRUE /\ cut' = cut
    BY <2>2 DEF Minded
  <2>3. QED
    BY <1>1, <2>1, <2>2
<1>6. Alone(y)
  BY <1>1, <1>4
<1>7. Standing'
  BY <1>1, <1>2, <1>5, <1>6, StandingKept DEF depVars, nsVars
<1>8. CASE /\ y \in fresh /\ WriteIngress(y, value)
           /\ Return(y, FALSE, Notify(y, ings'[y])) /\ UNCHANGED boundVars
  <2>1. Exists(y) /\ ings[y] \in Ingress
    BY <1>2, <1>8, ExistingTyped DEF IInv, IngsTyped
  <2>2. inst[y].status = ings[y].status /\ todo[y].added = {} /\ Listed(inst[y]) = Listed(ings[y])
    BY <1>1, <1>2, <2>1 DEF Reads, Listed
  <2>3. ings'[y] = value /\ value.status = WrittenStatus(y)
    BY <1>2, <1>8, <2>1 DEF IInv, IngsTyped, WriteIngress, Ingress
  <2>4. \A z \in Ings \ {y} : ings'[z] = ings[z] /\ (z \in fresh => z \in fresh')
    BY <1>2, <1>8 DEF IInv, IngsTyped, WriteIngress
  <2>5. /\ Over(y) /\ queued \subseteq queued' /\ Notify(y, ings'[y]) \subseteq queued'
    BY <1>4, <1>8
  <2>6. Complete(y)'
    <3>1. Listed(value) \subseteq Listed(ings[y]) \cup Added(inst[y])
      BY <1>1, <1>2, <2>2, <2>3, WrittenParts DEF Listed, Added
    <3>2. \A p \in Listed(value) : Owns(y, p) => Full(p)
      BY <1>1, <1>2, <2>1, <2>2, <3>1 DEF Complete
    <3>3. \A p \in Listed(ings'[y]) : Owns(y, p)' => Full(p)'
      BY <1>1, <2>3, <3>2 DEF Owns, Full, Kept, Has, depVars
    <3>4. QED
      BY <2>5, <3>3 DEF Complete, Reading, Over, Nothing
  <2>7. Reads(y)'
    BY <2>5 DEF Reads, Reading, Over, Nothing
  <2>8. Owes(y)'
    <3> SUFFICES ASSUME Calm(y)', Asked(ings'[y]) # {}
                 PROVE  Settled(y)'
      BY <2>5 DEF Owes, Over
    <3>1. ings'[y] = ings[y] /\ Calm(y)
      BY <1>5, <2>5 DEF Calm, Notify, Live, Existing, Exists, Minded
    <3>2. inst[y] = ings[y] /\ WrittenStatus(y) = ings[y].status /\ ~only[y]
      BY <1>1, <1>2, <2>3, <3>1 DEF Owes, Reads
    <3>3. Settled(y)
      BY <1>1, <1>2, <3>1, <3>2, WrittenSettles
    <3>4. QED
      BY <1>1, <3>1, <3>3 DEF Settled, ObservedStatus, Reported, Owned, Asked, Listed, depVars
  <2>9. QED
    BY <1>1, <1>2, <1>3, <1>5, <1>6, <1>7, <2>4, <2>5, <2>6, <2>7, <2>8, StepOf DEF depVars
<1>9. CASE /\ y \notin fresh
           /\ Return(y, FALSE, {}) /\ UNCHANGED <<ings, fresh>> /\ UNCHANGED boundVars
  <2>1. Over(y) /\ queued \subseteq queued'
    BY <1>4, <1>9
  <2>2. Complete(y)'
    BY <1>3, <1>9, <2>1, CompleteOver
  <2>3. y \in queued' \/ y \notin Live' \/ dropped'
    BY <1>2, <1>5, <1>9, <2>1 DEF Owes, Calm, Live, Existing, Exists, Minded
  <2>4. QED
    BY <1>1, <1>2, <1>3, <1>5, <1>6, <1>7, <1>9, <2>1, <2>2, <2>3, EndedRest DEF depVars
<1>10. CASE dropped' = TRUE /\ Return(y, FALSE, {}) /\ UNCHANGED <<ings, fresh>>
  <2>1. Over(y) /\ queued \subseteq queued'
    BY <1>4, <1>10
  <2>2. Complete(y)'
    BY <1>3, <1>10, <2>1, CompleteOver
  <2>3. QED
    BY <1>1, <1>2, <1>3, <1>5, <1>6, <1>7, <1>10, <2>1, <2>2, EndedRest DEF depVars
<1>11. QED
  BY <1>1, <1>8, <1>9, <1>10

LEMMA ReconcileRest ==
    ASSUME IRest, NEW y \in Ings, Reconcile(y)
    PROVE  IRest'
BY SkipMissingRest, GetRest, GetDeletedRest, CreateNamespaceRest, CreateCommonRest,
   ListOthersRest, DeleteCommonRest, DeleteNamespaceRest,
   CreateSpecificRest, DeleteSpecificRest, UpdateDeploymentRest, RecreateJobRest,
   UpdateServiceRest, UpdateStatusRest, RemoveFinalizerRest, EndCleanupRest DEF Reconcile

-----------------------------------------------------------------------------
(* The informers, the manager process, and what runs beside it.             *)

\* What is cached of other owners' Deployments is nothing to y.
LEMMA SettledBeside ==
    ASSUME NEW y \in Ings, ings'[y] = ings[y], Settled(y), Owned(y)' = Owned(y),
           \A q \in Owned(y) : depCache'[q] = depCache[q]
    PROVE  Settled(y)'
<1>1. Reported(y, ings[y])' = Reported(y, ings[y])
  BY DEF Reported
<1> DEFINE ready == {q \in Reported(y, ings[y]) : depCache[q].up = ings[y].spec.replicas}
<1>2. ready' = ready
  BY <1>1 DEF Reported
<1> HIDE DEF ready
<1>3. ObservedStatus(y, ings[y])' = ObservedStatus(y, ings[y])
  BY <1>1, <1>2 DEF ObservedStatus, Asked, ready
<1>4. QED
  BY <1>3 DEF Settled, Listed, Asked

LEMMA SyncDeploymentRest ==
    ASSUME IRest, NEW p \in Pools, SyncDeployment(p)
    PROVE  IRest'
<1>1. /\ UNCHANGED <<ings, fresh>> /\ UNCHANGED nsVars /\ UNCHANGED reconcileVars
      /\ UNCHANGED boundVars /\ UNCHANGED <<dep, rest, hook, lost>>
      /\ depCache' = [depCache EXCEPT ![p] = dep[p]]
      /\ queued' = queued \cup OwnerOf(dep[p]) \cup OwnerOf(depCache[p])
  BY DEF SyncDeployment
<1>2. IInv' /\ IInv /\ Minded
  BY <1>1, SyncDeploymentStep, BoundsMinded DEF IRest
<1>3. Standing'
  BY <1>1, <1>2, StandingBeside DEF nsVars
<1>4. ASSUME NEW y \in Ings
      PROVE  Complete(y)' /\ Reads(y)' /\ Owes(y)'
  <2>1. Complete(y)'
    <3>1. Safe(y)
      BY <1>1, KeptUntouched DEF Safe, Owns
    <3>2. QED
      BY <1>1, <3>1, CompleteKept DEF reconcileVars
  <2>2. Reads(y)'
    BY <1>1 DEF IRest, Reads, reconcileVars, Live, Existing, Exists, Added, Asked, Listed
  <2>3. ASSUME Calm(y)', pc[y] = "idle", Asked(ings[y]) # {}
        PROVE  Settled(y)'
    <3>1. Settled(y)
      BY <1>1, <2>3 DEF IRest, Owes, Calm, Live, Existing, Exists, boundVars
    <3>2. y \notin OwnerOf(dep[p]) /\ y \notin OwnerOf(depCache[p])
      BY <1>1, <2>3 DEF Calm
    <3>3. \A q \in Pools : depCache'[q] = IF q = p THEN dep[p] ELSE depCache[q]
      BY <1>1, <1>2 DEF IInv, DepTyped
    <3>4. p \notin Owned(y) /\ p \notin Owned(y)'
      BY <3>2, <3>3 DEF Owned, OwnerOf
    <3>5. Owned(y)' = Owned(y) /\ \A q \in Owned(y) : depCache'[q] = depCache[q]
      BY <3>3, <3>4 DEF Owned
    <3>6. QED
      BY <1>1, <3>1, <3>5, SettledBeside
  <2>4. Owes(y)'
    BY <1>1, <2>3 DEF IRest, Owes, Calm, Live, Existing, Exists, Asked, reconcileVars, boundVars
  <2>5. QED
    BY <2>1, <2>2, <2>4
<1>5. QED
  BY <1>2, <1>3, <1>4 DEF IRest

LEMMA SyncNamespaceRest ==
    ASSUME IRest, SyncNamespace
    PROVE  IRest'
<1>1. /\ UNCHANGED <<ings, fresh>> /\ UNCHANGED depVars /\ UNCHANGED reconcileVars
      /\ UNCHANGED boundVars /\ UNCHANGED <<queued, ns, common>>
  BY DEF SyncNamespace
<1>2. IInv' /\ Minded /\ \A z \in Ings : Safe(z)
  BY <1>1, SyncNamespaceStep, BoundsMinded, DepUnchanged DEF IRest
<1>3. Standing'
  BY <1>1, <1>2, StandingBeside DEF depVars
<1>4. QED
  BY <1>1, <1>2, <1>3, StepBeside DEF depVars

LEMMA ResyncRest ==
    ASSUME IRest, Resync
    PROVE  IRest'
<1>1. /\ UNCHANGED <<ings, fresh>> /\ UNCHANGED depVars /\ UNCHANGED nsVars
      /\ UNCHANGED reconcileVars /\ UNCHANGED boundVars /\ queued \subseteq queued'
  BY DEF Resync
<1>2. IInv' /\ Minded /\ \A z \in Ings : Safe(z)
  BY <1>1, ResyncStep, BoundsMinded, DepUnchanged DEF IRest
<1>3. Standing'
  BY <1>1, <1>2, StandingBeside DEF depVars, nsVars
<1>4. QED
  BY <1>1, <1>2, <1>3, StepBeside DEF depVars

\* A manager that starts anew has all that are there in its queue; what one
\* was amid is cut short.
LEMMA RestartRest ==
    ASSUME IRest, IInv', Restart, dropped => dropped'
    PROVE  IRest'
<1>1. /\ \A y \in Ings : Over(y)
      /\ UNCHANGED <<ings, dep, rest, hook, lost, ns, common>> /\ queued' = Existing
      /\ cut' = (cut \/ \E y \in Ings : todo[y].pool = Absent /\ todo[y].n > 0)
  BY DEF Restart, Over
<1>2. Standing'
  <2>1. ~cut' => ~cut /\ \A y \in Ings : ~Amid(y)
    BY <1>1 DEF Amid
  <2>2. Standing
    BY DEF IRest
  <2>3. QED
    BY <1>1, <2>1, <2>2 DEF Standing, Sharable, Shared
<1>3. ASSUME NEW y \in Ings
      PROVE  Complete(y)' /\ Reads(y)' /\ Owes(y)'
  <2>1. Complete(y)'
    <3>1. Safe(y)
      BY <1>1, KeptUntouched DEF Safe, Owns
    <3>2. QED
      BY <1>1, <3>1, CompleteOver
  <2>2. y \in queued' \/ y \notin Live'
    BY <1>1 DEF Live, Existing, Exists
  <2>3. QED
    BY <1>1, <2>1, <2>2, EndedKeeps
<1>4. QED
  BY <1>2, <1>3 DEF IRest

LEMMA CrashRest ==
    ASSUME IRest, Crash
    PROVE  IRest'
<1>1. IInv'
  BY CrashStep DEF IRest
<1>2. Restart /\ dropped' = dropped
  BY DEF Crash, Restart
<1>3. QED
  BY <1>1, <1>2, RestartRest

LEMMA PanicRest ==
    ASSUME IRest, NEW y \in Ings, Panic(y)
    PROVE  IRest'
<1>1. IInv'
  BY PanicStep DEF IRest
<1>2. Restart /\ dropped' = dropped
  BY DEF Panic, Restart
<1>3. QED
  BY <1>1, <1>2, RestartRest

\* A Deployment goes or changes, beside the reconciles.
LEMMA DepOnlyRest ==
    ASSUME IRest, IInv', NEW p \in Pools, NEW value, WriteDep(p, value),
           value = Absent \/ (dep[p] # Absent /\ value.owner = dep[p].owner),
           UNCHANGED <<ings, depCache, rest, hook, lost, queued, fresh>>, UNCHANGED nsVars,
           UNCHANGED reconcileVars, Minded
    PROVE  IRest'
<1>1. /\ \A z \in Ings : Safe(z)
      /\ \A q \in Pools : dep'[q] # Absent => dep[q] # Absent
  BY DepWritten
<1>2. Standing'
  BY <1>1, StandingBeside DEF nsVars
<1>3. QED
  BY <1>1, <1>2, StepBeside

LEMMA ProgressRest ==
    ASSUME IRest, NEW p \in Pools, Progress(p)
    PROVE  IRest'
<1> DEFINE value == IF ~dep[p].conds THEN [dep[p] EXCEPT !.conds = TRUE]
                    ELSE [dep[p] EXCEPT !.up = dep[p].replicas]
<1>1. dep[p] \in Deployment /\ dep[p] # Absent
  BY DEF Progress, IRest, IInv, DepTyped
<1>2. value.owner = dep[p].owner
  BY <1>1 DEF Deployment
<1>3. /\ WriteDep(p, value) /\ UNCHANGED <<ings, depCache, rest, hook, lost, queued, fresh>> /\ UNCHANGED nsVars
      /\ UNCHANGED reconcileVars /\ UNCHANGED boundVars
  BY DEF Progress
<1> HIDE DEF value
<1>4. IInv' /\ Minded
  BY <1>3, ProgressStep, BoundsMinded DEF IRest
<1>5. QED
  BY <1>1, <1>2, <1>3, <1>4, DepOnlyRest

LEMMA CollectGarbageRest ==
    ASSUME IRest, NEW p \in Pools, CollectGarbage(p)
    PROVE  IRest'
<1>1. /\ WriteDep(p, Absent) /\ UNCHANGED <<ings, depCache, rest, hook, lost, queued, fresh>>
      /\ UNCHANGED nsVars /\ UNCHANGED reconcileVars /\ UNCHANGED boundVars
  BY DEF CollectGarbage
<1>2. IInv' /\ Minded
  BY <1>1, CollectGarbageStep, BoundsMinded DEF IRest
<1>3. QED
  BY <1>1, <1>2, DepOnlyRest

\* A configuration that goes with its owner is lost to whoever has the pool.
LEMMA CollectConfigurationRest ==
    ASSUME IRest, NEW p \in Pools, CollectConfiguration(p)
    PROVE  IRest'
<1>1. /\ hook[p] # Absent /\ ~Exists(hook[p]) /\ hook' = [hook EXCEPT ![p] = Absent]
      /\ Takes(hook[p], p, "configuration")
      /\ UNCHANGED <<ings, dep, depCache, lagging, rest, queued, fresh>>
      /\ UNCHANGED nsVars /\ UNCHANGED reconcileVars /\ UNCHANGED boundVars
  BY DEF CollectConfiguration
<1>2. IInv' /\ IInv /\ Minded
  BY <1>1, CollectConfigurationStep, BoundsMinded DEF IRest
<1>3. \A q \in Pools \ {p} : hook'[q] = hook[q] /\ rest'[q] = rest[q]
  BY <1>1, <1>2 DEF IInv, DepTyped, RestTyped
<1>4. Has(p) \ {"configuration"} \subseteq Has(p)'
  BY <1>1 DEF Has
<1>5. /\ \A q \in Pools \ {p} : Kept(q)' = Kept(q)
      /\ dep[p] # Absent /\ dep[p].owner # hook[p] => Kept(p) \subseteq Kept(p)'
  BY <1>1, <1>3, <1>4, KeptTaken
<1>6. Standing'
  BY <1>1, <1>2, StandingBeside DEF nsVars
<1>7. ASSUME NEW y \in Ings
      PROVE  Complete(y)' /\ Reads(y)' /\ Owes(y)'
  <2>1. Aside(y)
    BY <1>1 DEF Aside, reconcileVars
  <2>2. Reads(y)' /\ Owes(y)'
    BY <1>1, <1>2, <2>1, AsideKeeps
  <2>3. CASE y = hook[p]
    <3>1. ~Exists(y) /\ Complete(y)
      BY <1>1, <2>3 DEF IRest
    <3>2. ~Exists(y)' /\ todo' = todo /\ dep' = dep
      BY <1>1, <3>1 DEF Exists, reconcileVars
    <3>3. \A q \in todo'[y].removed : todo'[y].pool = q => ~Owns(y, q)'
      BY <3>1, <3>2 DEF Complete, Owns
    <3>4. QED
      BY <2>2, <3>2, <3>3 DEF Complete
  <2>4. CASE y # hook[p]
    <3>1. Safe(y)
      BY <1>1, <1>5, <2>4 DEF Safe, Owns
    <3>2. QED
      BY <2>1, <2>2, <3>1, CompleteAside
  <2>5. QED
    BY <2>2, <2>3, <2>4
<1>8. QED
  BY <1>2, <1>6, <1>7 DEF IRest

LEMMA FinishNamespaceRest ==
    ASSUME IRest, FinishNamespace
    PROVE  IRest'
<1>1. /\ UNCHANGED <<ings, fresh>> /\ UNCHANGED reconcileVars /\ UNCHANGED boundVars
      /\ queued' = queued /\ depCache' = depCache /\ ns' = "gone" /\ \A p \in Pools : dep'[p] = Absent
  BY DEF FinishNamespace
<1>2. IInv' /\ Minded
  BY <1>1, FinishNamespaceStep, BoundsMinded DEF IRest
<1>3. \A z \in Ings : Safe(z)
  BY <1>1 DEF Safe, Owns
<1>4. Standing'
  BY <1>1 DEF Standing
<1>5. QED
  BY <1>1, <1>2, <1>3, <1>4, StepBeside

-----------------------------------------------------------------------------
(* Users, at rest.                                                          *)

LEMMA UserMinded ==
    ASSUME NEW kind, UserAction(kind)
    PROVE  Minded
BY DEF UserAction, Minded

\* A user writes y: its status is new or left alone, and y is queued.
LEMMA IngressOnlyRest ==
    ASSUME IRest, IInv', NEW y \in Ings, NEW value, WriteIngress(y, value), value # Unborn,
           UNCHANGED depVars, UNCHANGED nsVars, UNCHANGED reconcileVars, Minded,
           queued' = queued \cup {y},
           \/ ings[y] = Unborn /\ Listed(value) = {}
           \/ value = Absent
           \/ Exists(y) /\ value.status = ings[y].status /\ (ings[y].deleted => value.deleted)
    PROVE  IRest'
<1>1. /\ ings'[y] = value
      /\ \A z \in Ings \ {y} : ings'[z] = ings[z] /\ (z \in fresh => z \in fresh')
  BY DEF IRest, IInv, IngsTyped, WriteIngress
<1>2. Alone(y) /\ (\A z \in Ings : Safe(z))
  BY DepUnchanged DEF Alone, reconcileVars
<1>3. Standing'
  BY StandingBeside DEF depVars, nsVars
<1>4. Complete(y) /\ Reads(y)
  BY DEF IRest
<1>5. UNCHANGED <<dep, rest, hook, lost, pc, inst, todo, only>>
  BY DEF depVars, reconcileVars
<1>6. Exists(y)' => Listed(value) = {} \/ (Exists(y) /\ Listed(value) = Listed(ings[y]))
  BY <1>1 DEF Exists, Listed
<1>7. Complete(y)'
  <2>1. \A p : (Owns(y, p)' <=> Owns(y, p)) /\ (Full(p)' <=> Full(p)) /\ Kept(p)' = Kept(p)
    BY <1>5 DEF Owns, Full, Kept, Has
  <2>2. Exists(y)' => \A p \in Listed(ings'[y]) : Owns(y, p)' => Full(p)'
    BY <1>1, <1>4, <1>6, <2>1 DEF Complete
  <2>3. Exists(y)' /\ pc[y] \in Reading => Exists(y)
    BY <1>1, <1>4 DEF Reads, Reading, Exists
  <2>4. QED
    BY <1>4, <1>5, <2>1, <2>2, <2>3 DEF Complete, Listed, Exists, Added, Asked
<1>8. y \in Live' => y \in Live \/ ings[y] = Unborn
  BY <1>1 DEF Live, Existing, Exists
<1>9. pc[y] \in Reading /\ Exists(y)' => inst[y].status = value.status
  BY <1>1, <1>4 DEF Reads, Exists, Reading
<1>10. Reads(y)'
  BY <1>1, <1>4, <1>5, <1>8, <1>9 DEF Reads, Added, Asked, Listed
<1>11. Owes(y)'
  BY DEF Owes, Calm
<1>12. QED
  BY <1>1, <1>2, <1>3, <1>7, <1>10, <1>11, StepOf DEF depVars

LEMMA CreateIngressRest ==
    ASSUME IRest, NEW y \in Ings, NEW spec \in Specs[y], CreateIngress(y, spec)
    PROVE  IRest'
<1> DEFINE value == NewIngress(spec)
<1>1. value \in Ingress
  BY ConstantAssumption, NewIngressTyped
<1>2. value # Unborn /\ Listed(value) = {}
  BY <1>1, AbsentIsNoObject DEF Listed, NewIngress, NewStatus
<1>3. /\ WriteIngress(y, value) /\ ings[y] = Unborn /\ UNCHANGED depVars /\ queued' = queued \cup {y}
      /\ UserAction("create")
  BY DEF CreateIngress
<1> HIDE DEF value
<1>4. IInv' /\ Minded /\ UNCHANGED nsVars /\ UNCHANGED reconcileVars
  BY <1>3, CreateIngressStep, UserMinded, UserCounted DEF IRest
<1>5. QED
  BY <1>2, <1>3, <1>4, IngressOnlyRest

LEMMA EditIngressRest ==
    ASSUME IRest, NEW y \in Ings, NEW spec \in Specs[y], EditIngress(y, spec)
    PROVE  IRest'
<1> DEFINE value == [ings[y] EXCEPT !.spec = spec]
<1>1. spec \in IngressSpec /\ ings[y] \in Ingress
  BY ConstantAssumption, ExistingTyped DEF EditIngress, IRest
<1>2. value \in Ingress /\ value.status = ings[y].status /\ value.deleted = ings[y].deleted
  BY <1>1 DEF Ingress
<1>3. /\ WriteIngress(y, value) /\ Exists(y) /\ UNCHANGED depVars /\ queued' = queued \cup {y}
      /\ UserAction("edit")
  BY DEF EditIngress
<1> HIDE DEF value
<1>4. IInv' /\ Minded /\ UNCHANGED nsVars /\ UNCHANGED reconcileVars
  BY <1>3, EditIngressStep, UserMinded, UserCounted DEF IRest
<1>5. value # Unborn
  BY <1>2, AbsentIsNoObject
<1>6. QED
  BY <1>2, <1>3, <1>4, <1>5, IngressOnlyRest

LEMMA DeleteIngressRest ==
    ASSUME IRest, NEW y \in Ings, DeleteIngress(y)
    PROVE  IRest'
<1> DEFINE value == IF ings[y].finalizer THEN [ings[y] EXCEPT !.deleted = TRUE] ELSE Absent
<1>1. ings[y] \in Ingress
  BY ExistingTyped DEF DeleteIngress, IRest
<1>2. \/ value = Absent
      \/ value \in Ingress /\ value.status = ings[y].status /\ value.deleted
  BY <1>1 DEF Ingress
<1>3. /\ WriteIngress(y, value) /\ Exists(y) /\ UNCHANGED depVars /\ queued' = queued \cup {y}
      /\ UserAction("delete")
  BY DEF DeleteIngress
<1> HIDE DEF value
<1>4. IInv' /\ Minded /\ UNCHANGED nsVars /\ UNCHANGED reconcileVars
  BY <1>3, DeleteIngressStep, UserMinded, UserCounted DEF IRest
<1>5. value # Unborn
  BY <1>2, AbsentIsNoObject
<1>6. QED
  BY <1>2, <1>3, <1>4, <1>5, IngressOnlyRest

LEMMA RemoveDeploymentRest ==
    ASSUME IRest, NEW p \in Pools, RemoveDeployment(p)
    PROVE  IRest'
<1>1. /\ WriteDep(p, Absent) /\ UNCHANGED <<ings, depCache, rest, hook, lost, queued, fresh>>
      /\ UserAction("remove")
  BY DEF RemoveDeployment
<1>2. IInv' /\ Minded /\ UNCHANGED nsVars /\ UNCHANGED reconcileVars
  BY <1>1, RemoveDeploymentStep, UserMinded, UserCounted DEF IRest
<1>3. QED
  BY <1>1, <1>2, DepOnlyRest

\* Two users write at a time.
LEMMA OverlapRest ==
    ASSUME IRest, NEW y \in Ings, NEW z \in Ings, NEW spec \in Specs[y], NEW other \in Specs[z],
           Overlap(y, spec, z, other)
    PROVE  IRest'
<1>1. /\ y # z /\ ings[y] # Absent /\ ings[z] # Absent
      /\ ings' = [ings EXCEPT ![y] = Written(y, spec), ![z] = Written(z, other)]
      /\ fresh' = fresh \ {y, z} /\ queued' = queued \cup {y, z}
      /\ UNCHANGED depVars /\ UserAction("overlap")
  BY DEF Overlap
<1>2. IInv' /\ IInv /\ Minded /\ UNCHANGED nsVars /\ UNCHANGED reconcileVars
  BY <1>1, OverlapStep, UserMinded, UserCounted DEF IRest
<1>3. UNCHANGED <<dep, depCache, rest, hook, lost, pc, inst, todo, only>>
  BY <1>1, <1>2 DEF depVars, reconcileVars
<1>4. Standing'
  BY <1>1, <1>2, <1>3, StandingBeside DEF nsVars
<1>5. ASSUME NEW x \in Ings \ {y, z}
      PROVE  Complete(x)' /\ Reads(x)' /\ Owes(x)'
  <2>1. Aside(x)
    BY <1>1, <1>2, <1>3 DEF Aside, IInv, IngsTyped
  <2>2. QED
    BY <1>1, <1>2, <1>3, <2>1, DepUnchanged, AsideKeeps, CompleteAside
<1>6. ASSUME NEW x \in {y, z}, NEW value, ings'[x] = value, value # Absent, value # Unborn,
             \/ ings[x] = Unborn /\ Listed(value) = {}
             \/ /\ Exists(x) /\ value.status = ings[x].status
                /\ value.deleted = ings[x].deleted
      PROVE  Complete(x)' /\ Reads(x)' /\ Owes(x)'
  <2>1. Complete(x) /\ Reads(x) /\ x \in queued'
    BY <1>1 DEF IRest
  <2>2. \A p : (Owns(x, p)' <=> Owns(x, p)) /\ (Full(p)' <=> Full(p)) /\ Kept(p)' = Kept(p)
    BY <1>3 DEF Owns, Full, Kept, Has
  <2>3. \A p \in Listed(ings'[x]) : Owns(x, p)' => Full(p)'
    BY <1>6, <2>1, <2>2 DEF Complete, Listed
  <2>4. pc[x] \in Reading => Exists(x)
    BY <1>6, <2>1 DEF Reads, Reading
  <2>5. Complete(x)'
    BY <1>3, <2>1, <2>2, <2>3, <2>4 DEF Complete, Listed, Exists, Added, Asked
  <2>6. x \in Live' => x \in Live \/ ings[x] = Unborn
    BY <1>6 DEF Live, Existing, Exists
  <2>7. pc[x] \in Reading => inst'[x].status = ings'[x].status
    BY <1>3, <1>6, <2>1, <2>4 DEF Reads, Reading
  <2>8. Reads(x)'
    BY <1>3, <1>6, <2>1, <2>6, <2>7 DEF Reads, Added, Asked, Listed
  <2>9. QED
    BY <2>1, <2>5, <2>8 DEF Owes, Calm
<1>7. ASSUME NEW x \in {y, z}, NEW s \in Specs[x], ings'[x] = Written(x, s)
      PROVE  Complete(x)' /\ Reads(x)' /\ Owes(x)'
  <2>1. s \in IngressSpec /\ ings[x] # Absent
    BY <1>1, <1>7, ConstantAssumption
  <2>2. CASE ings[x] = Unborn
    <3>1. Written(x, s) = NewIngress(s) /\ NewIngress(s) \in Ingress
      BY <2>1, <2>2, NewIngressTyped DEF Written
    <3>2. Listed(NewIngress(s)) = {}
      BY DEF Listed, NewIngress, NewStatus
    <3>3. QED
      BY <1>6, <1>7, <2>2, <3>1, <3>2, AbsentIsNoObject
  <2>3. CASE ings[x] # Unborn
    <3>1. Exists(x) /\ ings[x] \in Ingress
      BY <1>2, <2>1, <2>3, ExistingTyped DEF Exists
    <3>2. Written(x, s) = [ings[x] EXCEPT !.spec = s]
      BY <2>3 DEF Written
    <3>3. /\ Written(x, s) \in Ingress /\ Written(x, s).status = ings[x].status
          /\ Written(x, s).deleted = ings[x].deleted
      BY <2>1, <3>1, <3>2 DEF Ingress
    <3>4. QED
      BY <1>6, <1>7, <3>1, <3>3, AbsentIsNoObject
  <2>4. QED
    BY <2>2, <2>3
<1>8. ings'[y] = Written(y, spec) /\ ings'[z] = Written(z, other)
  BY <1>1, <1>2 DEF IInv, IngsTyped
<1>9. \A x \in Ings : Complete(x)' /\ Reads(x)' /\ Owes(x)'
  BY <1>5, <1>7, <1>8
<1>10. QED
  BY <1>2, <1>4, <1>9 DEF IRest

-----------------------------------------------------------------------------
(* The theorems about rest.                                                 *)

LEMMA StartsAtRest == Init => IRest
<1> SUFFICES ASSUME Init PROVE IRest
  OBVIOUS
<1>1. IInv
  BY Start
<1>2. Standing
  BY Zenon DEF Init, Standing
<1>3. ASSUME NEW y \in Ings
      PROVE  Complete(y) /\ Reads(y) /\ Owes(y)
  <2>1. pc[y] = "idle" /\ ~only[y] /\ todo[y].added = {} /\ todo[y].removed = {}
    BY DEF Init, Nothing
  <2>2. CASE y = InitialIng
    <3>1. Listed(ings[y]) = {}
      BY <2>2 DEF Init, NewIngress, NewStatus, Listed
    <3>2. y \in queued
      BY <2>2 DEF Init
    <3>3. QED
      BY <2>1, <3>1, <3>2 DEF Complete, Reads, Owes, Calm, Reading
  <2>3. CASE y # InitialIng
    <3>1. ings[y] = Unborn
      BY <2>3 DEF Init
    <3>2. QED
      BY <2>1, <3>1 DEF Complete, Reads, Owes, Calm, Reading, Live, Existing, Exists
  <2>4. QED
    BY <2>2, <2>3
<1>4. QED
  BY <1>1, <1>2, <1>3 DEF IRest

LEMMA InductiveRest == IRest /\ [Next]_vars => IRest'
<1> SUFFICES ASSUME IRest, [Next]_vars
             PROVE  IRest'
  OBVIOUS
<1>1. ASSUME Work
      PROVE  IRest'
  BY <1>1, ReconcileRest, PanicRest DEF Work
<1>2. ASSUME Sync
      PROVE  IRest'
  BY <1>2, SyncDeploymentRest, SyncNamespaceRest DEF Sync
<1>3. ASSUME Cluster
      PROVE  IRest'
  BY <1>3, FinishNamespaceRest, ProgressRest, CollectGarbageRest, CollectConfigurationRest
     DEF Cluster
<1>4. ASSUME User
      PROVE  IRest'
  BY <1>4, DeleteIngressRest, CreateIngressRest, EditIngressRest, RemoveDeploymentRest,
     OverlapRest DEF User
<1>5. ASSUME UNCHANGED vars
      PROVE  IRest'
  <2>1. /\ UNCHANGED <<ings, fresh>> /\ UNCHANGED depVars /\ UNCHANGED nsVars
        /\ UNCHANGED reconcileVars /\ UNCHANGED boundVars /\ queued' = queued
    BY <1>5 DEF vars
  <2>2. IInv' /\ Minded /\ \A z \in Ings : Safe(z)
    BY <1>5, <2>1, Inductive, BoundsMinded, DepUnchanged DEF IRest
  <2>3. Standing'
    BY <2>1, <2>2, StandingBeside DEF depVars, nsVars
  <2>4. QED
    BY <2>1, <2>2, <2>3, StepBeside DEF depVars
<1>6. QED
  BY <1>1, <1>2, <1>3, <1>4, <1>5, ResyncRest, CrashRest DEF Next

\* The controller keeps IRest: a YurtIngress that no event, no error and no
\* reconcile will come back to, and whose status was never lost, has the
\* status that its Deployments in the cache give; call by call, all that its
\* listed pools are to have is there before they are listed, or was taken by
\* another YurtIngress's calls in between; and what pools share is there,
\* unless a reconcile is amid it or was stopped there.
THEOREM RestInvariance == Spec => []IRest
<1>1. QED
  BY StartsAtRest, InductiveRest, PTL DEF Spec

\* What a YurtIngress at rest has.
LEMMA AtRest ==
    ASSUME IRest, Quiescent, ~dropped, NEW y \in Live, Asked(ings[y]) # {}
    PROVE  /\ y \in Ings /\ ings[y] \in Ingress /\ Settled(y)
           /\ depCache = dep /\ Reported(y, ings[y]) = Asked(ings[y])
           /\ Listed(ings[y]) = Asked(ings[y])
           /\ \A p \in Asked(ings[y]) : p \in Pools /\ Owns(y, p) /\ Full(p)
<1>1. y \in Ings /\ Exists(y) /\ IInv /\ Complete(y) /\ Owes(y)
  BY DEF Live, Existing, IRest
<1>2. ings[y] \in Ingress
  BY <1>1, ExistingTyped
<1>3. Settled(y)
  BY <1>1 DEF Quiescent, Owes, Calm
<1>4. depCache = dep
  BY <1>1 DEF IInv, DepTyped, Quiescent
<1>5. Reported(y, ings[y]) = Asked(ings[y]) /\ Listed(ings[y]) = Asked(ings[y])
  BY <1>1, <1>2, <1>3, ObservedLists DEF Settled, Listed
<1>6. \A p \in Asked(ings[y]) : p \in Pools /\ Owns(y, p)
  BY <1>4, <1>5 DEF Reported, Owned, Owns
<1>7. QED
  BY <1>1, <1>2, <1>3, <1>4, <1>5, <1>6 DEF Complete

\* Served holds: a create that stopped half way left the pool out of the
\* status and the key in the queue, so that it was taken up again; a pool
\* whose Deployment went since was found missing in the cache, and the calls
\* were all made again.  What lacks then was there when its call returned,
\* and a call of another YurtIngress took it.
THEOREM RestServes == Spec => []Served
<1>1. IRest => Served
  <2> SUFFICES ASSUME IRest, Quiescent, ~dropped, NEW y \in Live, NEW p \in Asked(ings[y])
               PROVE  Owns(y, p) /\ Serving \subseteq Has(p) \cup lost[p]
    BY DEF Served
  <2>1. Asked(ings[y]) # {}
    OBVIOUS
  <2>2. Owns(y, p) /\ Full(p)
    BY <2>1, AtRest
  <2>3. QED
    BY <2>2 DEF Full, Kept
<1>2. QED
  BY <1>1, RestInvariance, PTL

\* StatusAtRest holds: the conditions and the counters that were guessed from
\* what changed are replaced by those of the Deployments, since a write that
\* changes the status brings its YurtIngress back once more.
THEOREM StatusTrue == Spec => []StatusAtRest
<1>1. IRest => StatusAtRest
  <2> SUFFICES ASSUME IRest, Quiescent, ~dropped, NEW y \in Live, Asked(ings[y]) # {}
               PROVE  LET status == ings[y].status
                          ready == {p \in Asked(ings[y]) : dep[p].up = ings[y].spec.replicas}
                      IN /\ Listed(ings[y]) = Asked(ings[y])
                         /\ ReadyIn(status.conditions) = ready
                         /\ status.readyNum = Cardinality(ready)
                         /\ status.readyNum + status.unreadyNum = Cardinality(Asked(ings[y]))
    BY DEF StatusAtRest
  <2> DEFINE ready == {p \in Asked(ings[y]) : dep[p].up = ings[y].spec.replicas}
  <2>1. /\ y \in Ings /\ ings[y] \in Ingress /\ Settled(y) /\ depCache = dep
        /\ Reported(y, ings[y]) = Asked(ings[y]) /\ Listed(ings[y]) = Asked(ings[y])
    BY AtRest
  <2>2. /\ ings[y].status.conditions =
             [p \in Asked(ings[y]) |-> [ready |-> p \in ready, ips |-> ings[y].spec.pools[p]]]
        /\ ings[y].status.readyNum = Cardinality(ready)
        /\ ings[y].status.unreadyNum = Cardinality(Asked(ings[y])) - Cardinality(ready)
    <3> DEFINE seen == {p \in Reported(y, ings[y]) : depCache[p].up = ings[y].spec.replicas}
    <3>1. seen = ready
      BY <2>1
    <3>2. /\ ObservedStatus(y, ings[y]).conditions =
               [p \in Reported(y, ings[y]) |-> [ready |-> p \in seen, ips |-> ings[y].spec.pools[p]]]
          /\ ObservedStatus(y, ings[y]).readyNum = Cardinality(seen)
          /\ ObservedStatus(y, ings[y]).unreadyNum = Cardinality(Asked(ings[y])) - Cardinality(seen)
      BY <2>1, ObservedFields, Zenon
    <3>3. /\ ings[y].status.conditions = ObservedStatus(y, ings[y]).conditions
          /\ ings[y].status.readyNum = ObservedStatus(y, ings[y]).readyNum
          /\ ings[y].status.unreadyNum = ObservedStatus(y, ings[y]).unreadyNum
      BY <2>1 DEF Settled
    <3> HIDE DEF seen, ready
    <3>4. QED
      BY <2>1, <3>1, <3>2, <3>3, Zenon
  <2>3. ready \subseteq Asked(ings[y])
    OBVIOUS
  <2> HIDE DEF ready
  <2>4. ReadyIn(ings[y].status.conditions) = ready
    <3>1. ASSUME NEW p \in Asked(ings[y])
          PROVE  ings[y].status.conditions[p].ready <=> p \in ready
      <4>1. ings[y].status.conditions[p] = [ready |-> p \in ready, ips |-> ings[y].spec.pools[p]]
        BY <2>2, Zenon
      <4>2. [ready |-> p \in ready, ips |-> ings[y].spec.pools[p]].ready = (p \in ready)
        BY Zenon
      <4>3. QED
        BY <4>1, <4>2, Zenon
    <3>2. DOMAIN ings[y].status.conditions = Asked(ings[y])
      BY <2>2
    <3>3. QED
      BY <2>3, <3>1, <3>2 DEF ReadyIn
  <2>5. Cardinality(ready) \in Nat /\ Cardinality(Asked(ings[y])) \in Nat
    BY <2>1, <2>3, IngressParts, PoolsCounted
  <2>6. ings[y].status.readyNum + ings[y].status.unreadyNum = Cardinality(Asked(ings[y]))
    BY <2>2, <2>5
  <2>7. QED
    BY <2>1, <2>2, <2>4, <2>6 DEF ready
<1>2. QED
  BY <1>1, RestInvariance, PTL

\* SharedAtRest holds: a namespace that a deletion takes away takes the
\* Deployments with it, so that the YurtIngress that has a pool at rest had it
\* made anew, with what is shared, after that; and nobody is amid what is
\* shared when all are at rest.
THEOREM SharedStands == Spec => []SharedAtRest
<1>1. IRest => SharedAtRest
  <2> SUFFICES ASSUME IRest, Quiescent, ~dropped, ~cut, NEW y \in Live, Asked(ings[y]) # {}
               PROVE  ns = "active" /\ common = Sharable
    BY DEF SharedAtRest
  <2>1. Standing /\ NsTyped
    BY DEF IRest, IInv
  <2>2. PICK p \in Pools : dep[p] # Absent
    BY AtRest DEF Owns
  <2>3. ns = "active"
    BY <2>1, <2>2 DEF Standing, NsTyped, Quiescent
  <2>4. \A z \in Ings : ~Amid(z)
    BY NotAmid DEF Quiescent
  <2>5. Sharable \ common = {}
    BY <2>1, <2>3, <2>4 DEF Standing
  <2>6. QED
    BY <2>1, <2>3, <2>5 DEF NsTyped
<1>2. QED
  BY <1>1, RestInvariance, PTL

=============================================================================
