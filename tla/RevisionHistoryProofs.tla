------------------------ MODULE RevisionHistoryProofs ------------------------
(***************************************************************************)
(* A reconcile that started from caches that had seen everything names a   *)
(* revision of the template, and cleaning up never takes the revision the  *)
(* status names; the history stays within its limit, and a revision that   *)
(* is in use is kept and moved to its end.  For every set of templates,    *)
(* names and limits, however the names collide, and any number of faults   *)
(* and edits.                                                              *)
(***************************************************************************)
EXTENDS RevisionHistory, SequenceTheorems, FiniteSetTheorems, TLAPS

\* A name some count hashes from the template, or one in use by others.
NamedAfter(n, data) ==
    IF data = Foreign THEN n \in ForeignNames
    ELSE \E k \in 0 .. MaxCount : n = Hash[<<data, k>>]

Named(copy) == \A n \in Names : copy[n] # Absent => NamedAfter(n, copy[n].data)

\* TypeOK by its parts, with what the names of revisions say of their data.
ObjectTyped ==
    /\ yas \in Object /\ yasCache \in Object /\ yasSynced \in BOOLEAN
    /\ yasSynced => yasCache = yas

RevisionsTyped ==
    /\ revisions \in [Names -> Revision \cup {Absent}]
    /\ cache \in [Names -> Revision \cup {Absent}]
    /\ stale \in SUBSET Names
    /\ Named(revisions) /\ Named(cache)
    /\ \A n \in Names \ stale : cache[n] = revisions[n]

ListTyped ==
    /\ list \in Seq(Entry)
    /\ \A i \in 1 .. Len(list) : NamedAfter(list[i].name, list[i].rev.data)
    /\ doomed \in Seq(Names)

ReconcileTyped ==
    /\ queued \in BOOLEAN
    /\ pc \in {"idle", "clean", "create", "status"}
    /\ inst \in Object
    /\ ListTyped
    /\ count \in 0 .. MaxCount
    /\ expected \in Names \cup {NoName}
    /\ outcome \in {"none", "ok", "requeued", "unlisted"}

Counted == faults \in 0 .. MaxFaults /\ edits \in 0 .. MaxEdits /\ staleReads \in 0 .. MaxStaleReads

Bound == ExceedNum(list, inst.limit)

\* What was read still holds, but for what the reconcile itself deleted: of
\* the status, of the names, of the revisions within the limit, which are not
\* to be deleted; and what it named is there.
Known ==
    /\ pc # "idle" => inst.status = yas.status
    /\ pc \in {"clean", "create"} => \A n \in Names : revisions[n] \in {Absent, cache[n]}
    /\ pc = "clean" =>
           \A i \in 1 .. Len(list) : i > Bound =>
               /\ revisions[list[i].name] = list[i].rev
               /\ \A j \in 1 .. Len(doomed) : doomed[j] # list[i].name
    /\ pc = "status" => /\ expected \in Names /\ revisions[expected] # Absent
                        /\ revisions[expected].data = inst.template

IInv ==
    /\ ObjectTyped /\ RevisionsTyped /\ ReconcileTyped /\ Counted
    /\ staleReads = 0 => Known

LEMMA Typed == IInv => TypeOK
BY DEF IInv, TypeOK, ObjectTyped, RevisionsTyped, ReconcileTyped, ListTyped, Counted

-----------------------------------------------------------------------------
(* What a step leaves alone.                                                *)

LEMMA ObjectUntouched == IInv /\ UNCHANGED yasVars => ObjectTyped'
BY DEF IInv, yasVars, ObjectTyped

LEMMA RevisionsUntouched == IInv /\ UNCHANGED revisionVars => RevisionsTyped'
BY DEF IInv, revisionVars, RevisionsTyped, Named, NamedAfter

LEMMA ReconcileUntouched == IInv /\ UNCHANGED reconcileVars /\ queued' \in BOOLEAN => ReconcileTyped'
BY DEF IInv, reconcileVars, ReconcileTyped, ListTyped, NamedAfter

\* A cache that catches up, or an edit of the specification, takes nothing
\* from what a reconcile knows.
LEMMA KnownKept ==
    ASSUME IInv, UNCHANGED <<reconcileVars, revisions, staleReads>>, yas'.status = yas.status,
           cache' \in {cache, revisions}
    PROVE  staleReads' = 0 => Known'
<1> SUFFICES ASSUME staleReads = 0
             PROVE  Known'
  OBVIOUS
<1>1. Known
  BY DEF IInv
<1>2. UNCHANGED <<pc, inst, list, doomed, expected, revisions>> /\ Bound' = Bound
  BY DEF reconcileVars, Bound, ExceedNum
<1>3. pc \in {"clean", "create"} => \A n \in Names : revisions'[n] \in {Absent, cache'[n]}
  BY <1>1, <1>2 DEF Known
<1>4. QED
  BY <1>1, <1>2, <1>3 DEF Known

LEMMA KnownDropped == pc' = "idle" => Known'
BY DEF Known

LEMMA InitialTyped == InitialObject \in Object
<1>1. 0 \in 0 .. MaxCount
  BY HashAssumption
<1>2. QED
  BY <1>1, ConstantAssumption DEF InitialObject, Object, Status

LEMMA ReturnTyped ==
    ASSUME IInv, NEW result \in {"none", "ok", "requeued", "unlisted"}, Return(result)
    PROVE  ReconcileTyped' /\ (staleReads' = 0 => Known')
<1>1. queued' \in BOOLEAN /\ 0 \in 0 .. MaxCount
  BY HashAssumption DEF IInv, ReconcileTyped, Return
<1>2. ListTyped'
  BY DEF Return, ListTyped
<1>3. QED
  BY <1>1, <1>2, InitialTyped, KnownDropped DEF Return, ReconcileTyped

LEMMA FaultCounted ==
    ASSUME IInv, NEW kind, Fault(kind)
    PROVE  faults' \in 0 .. MaxFaults
BY ConstantAssumption DEF IInv, Counted, Fault

-----------------------------------------------------------------------------
(* Writes, names and lists.                                                 *)

LEMMA WriteTyped ==
    ASSUME IInv, NEW n \in Names, NEW value \in Revision \cup {Absent}, NEW acceptable, NEW err,
           value # Absent => NamedAfter(n, value.data), Write(n, value, acceptable, err)
    PROVE  /\ RevisionsTyped' /\ faults' \in 0 .. MaxFaults /\ cache' = cache
           /\ \/ revisions' = [revisions EXCEPT ![n] = value]
              \/ err /\ revisions' = revisions
<1>1. faults' \in 0 .. MaxFaults
  BY FaultCounted DEF Write, IInv, Counted
<1>2. CASE WriteRevision(n, value)
  <2>1. /\ revisions' = [revisions EXCEPT ![n] = value] /\ cache' = cache
        /\ stale' \in SUBSET Names /\ stale \subseteq stale'
        /\ revisions[n] # value => n \in stale'
    BY <1>2 DEF WriteRevision, IInv, RevisionsTyped
  <2>2. RevisionsTyped'
    BY <2>1 DEF IInv, RevisionsTyped, Named, NamedAfter
  <2>3. QED
    BY <1>1, <2>1, <2>2
<1>3. CASE err /\ UNCHANGED revisionVars
  BY <1>1, <1>3, RevisionsUntouched DEF revisionVars
<1>4. QED
  BY <1>2, <1>3 DEF Write

\* The largest count names nothing of another template or owner.
LEMMA CollisionsEnd ==
    ASSUME NEW t \in Templates, NEW k \in 0 .. MaxCount, NEW data \in Templates \cup {Foreign},
           data # t, NamedAfter(Hash[<<t, k>>], data)
    PROVE  k + 1 \in 0 .. MaxCount
<1>1. MaxCount \in Nat /\ Foreign \notin Templates
  BY HashAssumption, ConstantAssumption
<1>2. k # MaxCount
  BY <1>1, HashAssumption DEF NamedAfter
<1>3. QED
  BY <1>1, <1>2

LEMMA HashIsName ==
    ASSUME NEW t \in Templates, NEW k \in 0 .. MaxCount
    PROVE  Hash[<<t, k>>] \in Names /\ NamedAfter(Hash[<<t, k>>], t)
BY HashAssumption, ConstantAssumption DEF NamedAfter

\* What is kept of a list is its end.
LEMMA KeptIsEnd ==
    ASSUME IInv
    PROVE  /\ Kept \in Seq(Entry)
           /\ Bound \in 0 .. Len(list)
           /\ Len(Kept) = Len(list) - Bound
           /\ \A i \in 1 .. Len(Kept) : i + Bound \in 1 .. Len(list) /\ Kept[i] = list[i + Bound]
           /\ \A i \in 1 .. Len(Kept) : NamedAfter(Kept[i].name, Kept[i].rev.data)
<1>1. list \in Seq(Entry) /\ Len(list) \in Nat /\ inst.limit \in Nat
  BY ConstantAssumption, LenProperties DEF IInv, ReconcileTyped, ListTyped, Object
<1>2. Bound \in 0 .. Len(list)
  BY <1>1 DEF Bound, ExceedNum
<1> HIDE DEF Bound
<1> DEFINE b == Bound
<1>3. Kept = SubSeq(list, b + 1, Len(list)) /\ b \in 0 .. Len(list)
  BY <1>2 DEF Kept, Bound
<1> HIDE DEF b
<1>4. /\ Kept \in Seq(Entry) /\ Len(Kept) = Len(list) - b
      /\ \A i \in 1 .. Len(Kept) : i + b \in 1 .. Len(list) /\ Kept[i] = list[i + b]
  BY <1>1, <1>3
<1>5. \A i \in 1 .. Len(Kept) : NamedAfter(Kept[i].name, Kept[i].rev.data)
  BY <1>4 DEF IInv, ReconcileTyped, ListTyped
<1>6. QED
  BY <1>2, <1>4, <1>5 DEF b

LEMMA NextRevisionTyped ==
    ASSUME IInv
    PROVE  NextRevision \in Nat
<1>1. Kept \in Seq(Entry)
  BY KeptIsEnd
<1>2. CASE Kept # << >>
  <2>1. Len(Kept) \in 1 .. Len(Kept)
    BY <1>1, <1>2, EmptySeq
  <2>2. Last(Kept) \in Entry
    BY <1>1, <2>1, LenProperties DEF Last
  <2>3. QED
    BY <1>2, <2>2 DEF NextRevision, Entry, Revision
<1>3. QED
  BY <1>2 DEF NextRevision

\* Nothing is deleted but an expired name that the status does not.
Deletes == pc = "clean" /\ \E n \in Names \ {inst.status.current} :
               revisions' \in {revisions, [revisions EXCEPT ![n] = Absent]}

\* What is there stays there.
Keeps == \A n \in Names : revisions[n] # Absent => revisions'[n] # Absent

-----------------------------------------------------------------------------
(* Reconcile.                                                               *)

\* The list, by name, is what the cache holds.
LEMMA SortedTyped ==
    ASSUME IInv, NEW names \in SortedRevisions
    PROVE  /\ names \in Seq(Names)
           /\ \A i \in 1 .. Len(names) : names[i] \in Owned(cache)
           /\ \A i, j \in 1 .. Len(names) : i # j => names[i] # names[j]
<1>1. IsFiniteSet(Owned(cache)) /\ Owned(cache) \subseteq Names
  BY ConstantAssumption, FS_Subset DEF Owned
<1>2. Cardinality(Owned(cache)) \in Nat
  BY <1>1, FS_CardinalityType
<1>3. /\ names \in [1 .. Cardinality(Owned(cache)) -> Owned(cache)]
      /\ \A i, j \in 1 .. Cardinality(Owned(cache)) : i # j => names[i] # names[j]
  BY DEF SortedRevisions, SetToSeqs
<1>4. names \in Seq(Names) /\ Len(names) = Cardinality(Owned(cache))
  BY <1>1, <1>2, <1>3
<1>5. QED
  BY <1>3, <1>4

LEMMA ListRevisionsStep ==
    ASSUME IInv, ListRevisions
    PROVE  IInv' /\ Keeps
<1>1. PICK names \in SortedRevisions :
         /\ list' = [i \in 1 .. Len(names) |->
                        [name |-> names[i], rev |-> cache[names[i]], old |-> names[i] \in stale]]
         /\ doomed' = Expired(names, yasCache.limit)
  BY DEF ListRevisions
<1>2. /\ pc' = "clean" /\ inst' = yasCache /\ count' = yasCache.status.collisions
      /\ queued' = FALSE /\ outcome' = "none"
      /\ UNCHANGED <<expected, faults, edits>> /\ UNCHANGED yasVars /\ UNCHANGED revisionVars
      /\ \/ yasSynced /\ stale = {} /\ staleReads' = staleReads
         \/ staleReads < MaxStaleReads /\ staleReads' = staleReads + 1
  BY DEF ListRevisions
<1>3. ObjectTyped /\ RevisionsTyped /\ ReconcileTyped /\ Counted
  BY DEF IInv
<1>4. /\ names \in Seq(Names) /\ Len(names) \in Nat /\ yasCache.limit \in Nat
      /\ \A i \in 1 .. Len(names) : names[i] \in Owned(cache)
      /\ \A i, j \in 1 .. Len(names) : i # j => names[i] # names[j]
  BY <1>3, SortedTyped, LenProperties, ConstantAssumption DEF ObjectTyped, Object
<1>5. /\ ExceedNum(names, yasCache.limit) \in 0 .. Len(names)
      /\ doomed' = SubSeq(names, 1, ExceedNum(names, yasCache.limit))
  BY <1>1, <1>4 DEF ExceedNum, Expired
<1> DEFINE b == ExceedNum(names, yasCache.limit)
<1>6. b \in 0 .. Len(names) /\ doomed' = SubSeq(names, 1, b)
  BY <1>5
<1>7. Bound' = b /\ Len(list') = Len(names)
  BY <1>1, <1>2, <1>4 DEF Bound, ExceedNum
<1> HIDE DEF b
<1>8. /\ doomed' \in Seq(Names) /\ Len(doomed') = b
      /\ \A j \in 1 .. Len(doomed') : doomed'[j] = names[j]
  BY <1>4, <1>6
<1>9. \A i \in 1 .. Len(names) :
          /\ names[i] \in Names /\ cache[names[i]] \in Revision
          /\ NamedAfter(names[i], cache[names[i]].data)
          /\ list'[i].name = names[i] /\ list'[i].rev = cache[names[i]]
          /\ list'[i] \in Entry
  <2> SUFFICES ASSUME NEW i \in 1 .. Len(names)
               PROVE  /\ names[i] \in Names /\ cache[names[i]] \in Revision
                      /\ NamedAfter(names[i], cache[names[i]].data)
                      /\ list'[i].name = names[i] /\ list'[i].rev = cache[names[i]]
                      /\ list'[i] \in Entry
    OBVIOUS
  <2>1. /\ names[i] \in Names /\ cache[names[i]] \in Revision
        /\ NamedAfter(names[i], cache[names[i]].data)
    BY <1>3, <1>4 DEF Owned, RevisionsTyped, Named
  <2>2. list'[i] = [name |-> names[i], rev |-> cache[names[i]], old |-> names[i] \in stale]
    BY <1>1
  <2>3. QED
    BY <2>1, <2>2 DEF Entry
<1>10. ListTyped'
  <2>1. list' \in Seq(Entry)
    BY <1>1, <1>4, <1>9
  <2>2. ASSUME NEW i \in 1 .. Len(list')
        PROVE  NamedAfter(list'[i].name, list'[i].rev.data)
    <3>1. i \in 1 .. Len(names)
      BY <1>7
    <3>2. list'[i].name = names[i] /\ list'[i].rev = cache[names[i]]
      BY <1>9, <3>1
    <3>3. QED
      BY <1>9, <3>1, <3>2
  <2>3. QED
    BY <1>8, <2>1, <2>2 DEF ListTyped
<1>11. ReconcileTyped'
  BY <1>2, <1>3, <1>10 DEF ObjectTyped, ReconcileTyped, Object, Status
<1>12. Counted'
  <2>1. staleReads' \in 0 .. MaxStaleReads
    BY <1>2, <1>3, ConstantAssumption DEF Counted
  <2>2. QED
    BY <1>2, <1>3, <2>1 DEF Counted
<1>13. staleReads' = 0 => Known'
  <2> SUFFICES ASSUME staleReads' = 0
               PROVE  Known'
    OBVIOUS
  <2>1. yasSynced /\ stale = {}
    BY <1>2, <1>3 DEF Counted
  <2>2. yas' = yas /\ inst' = yas /\ revisions' = revisions /\ cache' = cache
    BY <1>2, <1>3, <2>1 DEF ObjectTyped, yasVars, revisionVars
  <2>3. \A n \in Names : revisions[n] = cache[n]
    BY <1>3, <2>1 DEF RevisionsTyped
  <2>4. ASSUME NEW i \in 1 .. Len(list'), i > Bound'
        PROVE  /\ revisions'[list'[i].name] = list'[i].rev
               /\ \A j \in 1 .. Len(doomed') : doomed'[j] # list'[i].name
    <3>1. i \in 1 .. Len(names) /\ i > b
      BY <1>7, <2>4
    <3>2. list'[i].name = names[i] /\ list'[i].rev = cache[names[i]] /\ names[i] \in Names
      BY <1>9, <3>1
    <3>3. ASSUME NEW j \in 1 .. Len(doomed')
          PROVE  doomed'[j] # names[i]
      <4>1. j \in 1 .. b /\ doomed'[j] = names[j]
        BY <1>8
      <4>2. j \in 1 .. Len(names) /\ j # i
        BY <1>4, <1>6, <3>1, <4>1
      <4>3. QED
        BY <1>4, <3>1, <4>1, <4>2
    <3>4. QED
      BY <2>2, <2>3, <3>2, <3>3
  <2>5. QED
    BY <1>2, <2>2, <2>3, <2>4 DEF Known
<1>14. Keeps
  BY <1>2 DEF Keeps, revisionVars
<1>15. QED
  BY <1>2, <1>11, <1>12, <1>13, <1>14, ObjectUntouched, RevisionsUntouched DEF IInv

LEMMA ListFailsStep ==
    ASSUME IInv, ListFails
    PROVE  IInv' /\ Keeps
<1>1. ReconcileTyped' /\ (staleReads' = 0 => Known') /\ faults' \in 0 .. MaxFaults
  BY ReturnTyped, FaultCounted DEF ListFails
<1>2. UNCHANGED <<edits, staleReads>> /\ UNCHANGED yasVars /\ UNCHANGED revisionVars
  BY DEF ListFails
<1>3. Counted' /\ Keeps
  BY <1>1, <1>2 DEF IInv, Counted, Keeps, revisionVars
<1>4. QED
  BY <1>1, <1>2, <1>3, ObjectUntouched, RevisionsUntouched DEF IInv

\* The list of names to go through gets shorter.
LEMMA TailDoomed ==
    ASSUME IInv, doomed # << >>, doomed' = Tail(doomed)
    PROVE  /\ Head(doomed) \in Names /\ Len(doomed) \in Nat \ {0} /\ doomed[1] = Head(doomed)
           /\ doomed' \in Seq(Names)
           /\ \A j \in 1 .. Len(doomed') : j + 1 \in 1 .. Len(doomed) /\ doomed'[j] = doomed[j + 1]
<1>1. doomed \in Seq(Names)
  BY DEF IInv, ReconcileTyped, ListTyped
<1> DEFINE t == Tail(doomed)
<1>2. /\ Head(doomed) \in Names /\ t \in Seq(Names) /\ Len(t) = Len(doomed) - 1
      /\ \A j \in 1 .. Len(t) : t[j] = doomed[j + 1]
  BY <1>1, HeadTailProperties
<1>3. Len(doomed) \in Nat \ {0} /\ Head(doomed) = doomed[1]
  BY <1>1, EmptySeq
<1> HIDE DEF t
<1>4. \A j \in 1 .. Len(t) : j + 1 \in 1 .. Len(doomed)
  BY <1>2, <1>3
<1>5. QED
  BY <1>2, <1>3, <1>4 DEF t

\* One name less to go through; a delete does not touch what is kept.
LEMMA CleanKnown ==
    ASSUME IInv, pc = "clean", doomed # << >>, doomed' = Tail(doomed),
           UNCHANGED <<pc, inst, list, cache, yas, staleReads>>,
           revisions' \in {revisions, [revisions EXCEPT ![Head(doomed)] = Absent]}
    PROVE  staleReads' = 0 => Known'
<1> SUFFICES ASSUME staleReads = 0
             PROVE  Known'
  OBVIOUS
<1>1. Known /\ revisions \in [Names -> Revision \cup {Absent}]
  BY DEF IInv, RevisionsTyped
<1>2. Bound' = Bound
  BY DEF Bound, ExceedNum
<1>3. \A n \in Names : revisions'[n] \in {Absent, cache'[n]}
  BY <1>1 DEF Known
<1>4. ASSUME NEW i \in 1 .. Len(list), i > Bound
      PROVE  /\ revisions'[list[i].name] = list[i].rev
             /\ \A j \in 1 .. Len(doomed') : doomed'[j] # list[i].name
  <2>1. /\ revisions[list[i].name] = list[i].rev
        /\ \A j \in 1 .. Len(doomed) : doomed[j] # list[i].name
    BY <1>1, <1>4 DEF Known
  <2>2. Head(doomed) # list[i].name
    BY <2>1, TailDoomed
  <2>3. list[i].name \in Names
    <3>1. list \in Seq(Entry)
      BY DEF IInv, ReconcileTyped, ListTyped
    <3>2. list[i] \in Entry
      BY <3>1, ElementOfSeq
    <3>3. QED
      BY <3>2 DEF Entry
  <2>4. revisions'[list[i].name] = list[i].rev
    BY <1>1, <2>1, <2>2, <2>3
  <2>5. \A j \in 1 .. Len(doomed') : doomed'[j] # list[i].name
    BY <2>1, TailDoomed
  <2>6. QED
    BY <2>4, <2>5
<1>5. QED
  BY <1>1, <1>2, <1>3, <1>4 DEF Known

LEMMA SkipLiveStep ==
    ASSUME IInv, SkipLive
    PROVE  IInv' /\ Keeps
<1>1. /\ pc = "clean" /\ doomed # << >> /\ doomed' = Tail(doomed)
      /\ UNCHANGED <<queued, pc, inst, list, count, expected, outcome, boundVars>>
      /\ UNCHANGED yasVars /\ UNCHANGED revisionVars
  BY DEF SkipLive
<1>2. ReconcileTyped'
  BY <1>1, TailDoomed DEF IInv, ReconcileTyped, ListTyped, NamedAfter
<1>3. Counted' /\ Keeps /\ UNCHANGED <<cache, yas, staleReads, revisions>>
  BY <1>1 DEF IInv, Counted, Keeps, revisionVars, yasVars, boundVars
<1>4. staleReads' = 0 => Known'
  BY <1>1, <1>3, CleanKnown
<1>5. QED
  BY <1>1, <1>2, <1>3, <1>4, ObjectUntouched, RevisionsUntouched DEF IInv

LEMMA DeleteExpiredStep ==
    ASSUME IInv, DeleteExpired
    PROVE  IInv' /\ Deletes
<1> DEFINE n == Head(doomed)
<1>1. PICK err \in BOOLEAN :
         /\ Write(n, Absent, revisions[n] # Absent, err)
         /\ IF err THEN Return("requeued")
            ELSE /\ doomed' = Tail(doomed)
                 /\ UNCHANGED <<queued, pc, inst, list, count, expected, outcome>>
  BY DEF DeleteExpired
<1>2. /\ pc = "clean" /\ doomed # << >> /\ n # inst.status.current
      /\ UNCHANGED <<edits, staleReads>> /\ UNCHANGED yasVars
  BY DEF DeleteExpired, Spared
<1>3. n \in Names
  <2>1. doomed \in Seq(Names)
    BY DEF IInv, ReconcileTyped, ListTyped
  <2>2. QED
    BY <1>2, <2>1, HeadTailProperties
<1> HIDE DEF n
<1>4. /\ RevisionsTyped' /\ faults' \in 0 .. MaxFaults /\ cache' = cache
      /\ revisions' \in {revisions, [revisions EXCEPT ![n] = Absent]}
  BY <1>1, <1>3, WriteTyped
<1>5. Counted' /\ Deletes /\ yas' = yas
  BY <1>2, <1>3, <1>4 DEF IInv, Counted, Deletes, yasVars
<1>6. ReconcileTyped' /\ (staleReads' = 0 => Known')
  <2>1. CASE err
    BY <1>1, <2>1, ReturnTyped
  <2>2. CASE ~err
    <3>1. ReconcileTyped'
      BY <1>1, <1>2, <2>2, TailDoomed DEF IInv, ReconcileTyped, ListTyped, NamedAfter
    <3>2. staleReads' = 0 => Known'
      BY <1>1, <1>2, <1>4, <1>5, <2>2, CleanKnown DEF n
    <3>3. QED
      BY <3>1, <3>2
  <2>3. QED
    BY <2>1, <2>2
<1>7. QED
  BY <1>2, <1>4, <1>5, <1>6, ObjectUntouched DEF IInv

\* The reconcile has named a revision and kept the end of the list.
LEMMA NameTyped ==
    ASSUME IInv, NEW n \in Names, expected' = n, list' = Kept, pc' = "status",
           UNCHANGED <<queued, inst, doomed, count, outcome>>
    PROVE  ReconcileTyped'
<1>1. ListTyped'
  BY KeptIsEnd DEF IInv, ReconcileTyped, ListTyped, NamedAfter
<1>2. QED
  BY <1>1 DEF IInv, ReconcileTyped

LEMMA KeepRevisionStep ==
    ASSUME IInv, KeepRevision
    PROVE  IInv' /\ Keeps
<1> DEFINE last == Kept[Len(Kept)]
<1>1. /\ pc = "clean" /\ Len(Kept) \in EqualRevisions /\ expected' = last.name
      /\ list' = Kept /\ pc' = "status"
      /\ UNCHANGED <<queued, inst, doomed, count, outcome, boundVars>>
      /\ UNCHANGED yasVars /\ UNCHANGED revisionVars
  BY DEF KeepRevision, Cleaned, Last
<1>2. /\ Len(Kept) \in 1 .. Len(Kept) /\ last.rev.data = inst.template
      /\ last = list[Len(Kept) + Bound] /\ Len(Kept) + Bound \in 1 .. Len(list)
      /\ Len(Kept) + Bound > Bound /\ last \in Entry
  BY <1>1, KeptIsEnd DEF EqualRevisions
<1> HIDE DEF last
<1>3. last.name \in Names /\ last.rev \in Revision
  BY <1>2 DEF Entry
<1>4. ReconcileTyped'
  BY <1>1, <1>3, NameTyped
<1>5. ASSUME staleReads = 0
      PROVE  Known'
  <2>1. inst.status = yas.status /\ revisions[last.name] = last.rev
    BY <1>1, <1>2, <1>5 DEF IInv, Known
  <2>2. QED
    BY <1>1, <1>2, <1>3, <2>1, ConstantAssumption DEF Known, yasVars, revisionVars
<1>6. Counted' /\ Keeps /\ staleReads' = staleReads
  BY <1>1 DEF IInv, Counted, Keeps, revisionVars, boundVars
<1>7. QED
  BY <1>1, <1>4, <1>5, <1>6, ObjectUntouched, RevisionsUntouched DEF IInv

\* A write of a revision of the template under the name then given out.
LEMMA NamingStep ==
    ASSUME IInv, pc \in {"clean", "create"}, NEW n \in Names, NEW value \in Revision,
           NamedAfter(n, value.data), value.data = inst.template,
           NEW acceptable, NEW err \in BOOLEAN, Write(n, value, acceptable, err),
           IF err THEN Return("requeued")
           ELSE /\ expected' = n
                /\ list' = Kept
                /\ pc' = "status"
                /\ UNCHANGED <<queued, inst, doomed, count, outcome>>,
           UNCHANGED <<edits, staleReads>>, UNCHANGED yasVars
    PROVE  IInv' /\ Keeps
<1>1. value # Absent
  BY ConstantAssumption
<1>2. /\ RevisionsTyped' /\ faults' \in 0 .. MaxFaults
      /\ \/ revisions' = [revisions EXCEPT ![n] = value]
         \/ err /\ revisions' = revisions
  BY WriteTyped
<1>3. ReconcileTyped' /\ (staleReads' = 0 => Known')
  <2>1. CASE err
    BY <2>1, ReturnTyped
  <2>2. CASE ~err
    <3>1. ReconcileTyped'
      BY <2>2, NameTyped
    <3>2. ASSUME staleReads = 0
          PROVE  Known'
      <4>1. inst'.status = yas'.status /\ pc' = "status" /\ expected' = n /\ inst' = inst
        BY <2>2, <3>2 DEF IInv, Known, yasVars
      <4>2. revisions'[n] = value
        BY <1>2, <2>2 DEF IInv, RevisionsTyped
      <4>3. QED
        BY <1>1, <4>1, <4>2 DEF Known
    <3>3. QED
      BY <3>1, <3>2
  <2>3. QED
    BY <2>1, <2>2
<1>4. Counted'
  BY <1>2 DEF IInv, Counted
<1>5. Keeps
  BY <1>1, <1>2 DEF Keeps, IInv, RevisionsTyped
<1>6. QED
  BY <1>2, <1>3, <1>4, <1>5, ObjectUntouched DEF IInv

LEMMA RollBackStep ==
    ASSUME IInv, RollBack
    PROVE  IInv' /\ Keeps
<1>1. PICK i \in EqualRevisions, err \in BOOLEAN :
         /\ Write(Kept[i].name, [Kept[i].rev EXCEPT !.number = NextRevision], ~Kept[i].old, err)
         /\ IF err THEN Return("requeued")
            ELSE /\ expected' = Kept[i].name
                 /\ list' = Kept
                 /\ pc' = "status"
                 /\ UNCHANGED <<queued, inst, doomed, count, outcome>>
  BY DEF RollBack
<1>2. pc = "clean" /\ UNCHANGED <<edits, staleReads>> /\ UNCHANGED yasVars
  BY DEF RollBack, Cleaned
<1>3. /\ Kept[i] \in Entry /\ Kept[i].rev.data = inst.template
      /\ NamedAfter(Kept[i].name, Kept[i].rev.data)
  BY KeptIsEnd DEF EqualRevisions
<1> DEFINE n == Kept[i].name
           value == [Kept[i].rev EXCEPT !.number = NextRevision]
<1>4. n \in Names /\ value \in Revision /\ value.data = inst.template
  BY <1>3, NextRevisionTyped DEF Entry, Revision
<1>5. NamedAfter(n, value.data)
  BY <1>3, <1>4
<1> DEFINE acceptable == ~Kept[i].old
<1>6. /\ Write(n, value, acceptable, err)
      /\ IF err THEN Return("requeued")
         ELSE /\ expected' = n
              /\ list' = Kept
              /\ pc' = "status"
              /\ UNCHANGED <<queued, inst, doomed, count, outcome>>
  BY <1>1
<1> HIDE DEF n, value, acceptable
<1>7. QED
  BY <1>2, <1>4, <1>5, <1>6, NamingStep

LEMMA StartCreateStep ==
    ASSUME IInv, StartCreate
    PROVE  IInv' /\ Keeps
<1>1. /\ pc = "clean" /\ pc' = "create"
      /\ UNCHANGED <<queued, inst, list, doomed, count, expected, outcome, boundVars>>
      /\ UNCHANGED yasVars /\ UNCHANGED revisionVars
  BY DEF StartCreate, Cleaned
<1>2. ReconcileTyped'
  BY <1>1 DEF IInv, ReconcileTyped, ListTyped, NamedAfter
<1>3. Counted' /\ Keeps /\ UNCHANGED <<yas, revisions, cache, staleReads>>
  BY <1>1 DEF IInv, Counted, Keeps, revisionVars, boundVars, yasVars
<1>4. staleReads' = 0 => Known'
  BY <1>1, <1>3 DEF IInv, Known
<1>5. QED
  BY <1>1, <1>2, <1>3, <1>4, ObjectUntouched, RevisionsUntouched DEF IInv

LEMMA NewNameTyped ==
    ASSUME IInv
    PROVE  /\ inst.template \in Templates /\ count \in 0 .. MaxCount
           /\ NewName \in Names /\ NamedAfter(NewName, inst.template)
<1>1. inst.template \in Templates /\ count \in 0 .. MaxCount
  BY DEF IInv, ReconcileTyped, Object
<1>2. QED
  BY <1>1, HashIsName DEF NewName

LEMMA CreateRevisionStep ==
    ASSUME IInv, CreateRevision
    PROVE  IInv' /\ Keeps
<1> DEFINE value == [data |-> inst.template, number |-> NextRevision]
           n == NewName
<1>1. PICK err \in BOOLEAN :
         /\ Write(n, value, TRUE, err)
         /\ IF err THEN Return("requeued")
            ELSE /\ expected' = n
                 /\ list' = Kept
                 /\ pc' = "status"
                 /\ UNCHANGED <<queued, inst, doomed, count, outcome>>
  BY DEF CreateRevision
<1>2. pc = "create" /\ UNCHANGED <<edits, staleReads>> /\ UNCHANGED yasVars
  BY DEF CreateRevision
<1>3. /\ n \in Names /\ NamedAfter(n, value.data)
      /\ value \in Revision /\ value.data = inst.template
  BY NewNameTyped, NextRevisionTyped DEF Revision
<1> HIDE DEF n, value
<1>4. QED
  BY <1>1, <1>2, <1>3, NamingStep

LEMMA FindExistingStep ==
    ASSUME IInv, FindExisting
    PROVE  IInv' /\ Keeps
<1> DEFINE n == NewName
           found == cache[n]
<1>1. /\ pc = "create" /\ revisions[n] # Absent
      /\ UNCHANGED <<edits, staleReads>> /\ UNCHANGED yasVars /\ UNCHANGED revisionVars
  BY DEF FindExisting
<1>2. \/ /\ found # Absent /\ found.data = inst.template
         /\ expected' = n /\ list' = Kept /\ pc' = "status"
         /\ UNCHANGED <<queued, inst, doomed, count, outcome, faults>>
      \/ /\ found # Absent /\ found.data # inst.template
         /\ count' = count + 1
         /\ UNCHANGED <<queued, pc, inst, list, doomed, expected, outcome, faults>>
      \/ Return("requeued") /\ (UNCHANGED faults \/ Fault("error"))
  BY DEF FindExisting
<1>3. n \in Names /\ inst.template \in Templates /\ count \in 0 .. MaxCount
  BY NewNameTyped
<1>4. Counted' /\ Keeps
  BY <1>1, <1>2, FaultCounted DEF IInv, Counted, Keeps, revisionVars
<1>5. ReconcileTyped' /\ (staleReads' = 0 => Known')
  <2>1. CASE /\ found # Absent /\ found.data = inst.template
             /\ expected' = n /\ list' = Kept /\ pc' = "status"
             /\ UNCHANGED <<queued, inst, doomed, count, outcome, faults>>
    <3> HIDE DEF n
    <3>1. ReconcileTyped'
      BY <1>3, <2>1, NameTyped
    <3>2. ASSUME staleReads = 0
          PROVE  Known'
      <4>1. inst.status = yas.status /\ revisions[n] = found
        BY <1>1, <1>3, <3>2 DEF IInv, Known
      <4>2. QED
        BY <1>1, <1>3, <2>1, <4>1 DEF Known, yasVars, revisionVars
    <3>3. QED
      BY <1>1, <3>1, <3>2
  <2>2. CASE /\ found # Absent /\ found.data # inst.template
             /\ count' = count + 1
             /\ UNCHANGED <<queued, pc, inst, list, doomed, expected, outcome, faults>>
    <3>1. /\ found.data \in Templates \cup {Foreign}
          /\ NamedAfter(n, found.data)
      BY <1>3, <2>2 DEF IInv, RevisionsTyped, Named, Revision
    <3>2. count' \in 0 .. MaxCount
      BY <1>3, <2>2, <3>1, CollisionsEnd DEF NewName
    <3> HIDE DEF n, found
    <3>3. ReconcileTyped'
      BY <2>2, <3>2 DEF IInv, ReconcileTyped, ListTyped, NamedAfter
    <3>4. staleReads' = 0 => Known'
      BY <1>1, <2>2 DEF IInv, Known, yasVars, revisionVars
    <3>5. QED
      BY <3>3, <3>4
  <2>3. CASE Return("requeued")
    BY <2>3, ReturnTyped
  <2>4. QED
    BY <1>2, <2>1, <2>2, <2>3
<1>6. QED
  BY <1>1, <1>4, <1>5, ObjectUntouched, RevisionsUntouched DEF IInv

LEMMA PoolsUnlistedStep ==
    ASSUME IInv, PoolsUnlisted
    PROVE  IInv' /\ Keeps
<1>1. ReconcileTyped' /\ (staleReads' = 0 => Known') /\ faults' \in 0 .. MaxFaults
  BY ReturnTyped, FaultCounted DEF PoolsUnlisted
<1>2. UNCHANGED <<edits, staleReads>> /\ UNCHANGED yasVars /\ UNCHANGED revisionVars
  BY DEF PoolsUnlisted
<1>3. Counted' /\ Keeps
  BY <1>1, <1>2 DEF IInv, Counted, Keeps, revisionVars
<1>4. QED
  BY <1>1, <1>2, <1>3, ObjectUntouched, RevisionsUntouched DEF IInv

LEMMA UpdateStatusStep ==
    ASSUME IInv, UpdateStatus
    PROVE  IInv' /\ Keeps
<1>1. ReconcileTyped' /\ (staleReads' = 0 => Known') /\ faults' \in 0 .. MaxFaults
  BY ReturnTyped, FaultCounted DEF UpdateStatus, IInv, Counted
<1>2. /\ UNCHANGED <<edits, staleReads, yasCache>> /\ UNCHANGED revisionVars
      /\ \/ yas' = yas /\ yasSynced' = yasSynced
         \/ /\ yasSynced /\ yas' = [yas EXCEPT !.status = CalculatedStatus]
            /\ yasSynced' = (yas' = yas)
  BY DEF UpdateStatus
<1>3. Counted' /\ Keeps
  BY <1>1, <1>2 DEF IInv, Counted, Keeps, revisionVars
<1>4. CalculatedStatus \in Status
  BY DEF IInv, ReconcileTyped, Object, Status, CalculatedStatus
<1>5. ObjectTyped'
  <2>1. CASE yas' = yas /\ yasSynced' = yasSynced
    BY <1>2, <2>1 DEF IInv, ObjectTyped
  <2>2. CASE /\ yasSynced /\ yas' = [yas EXCEPT !.status = CalculatedStatus]
             /\ yasSynced' = (yas' = yas)
    <3>1. yas' \in Object
      BY <1>4, <2>2 DEF IInv, ObjectTyped, Object
    <3>2. yasCache' \in Object /\ yasCache' = yas
      BY <1>2, <2>2 DEF IInv, ObjectTyped
    <3>3. QED
      BY <2>2, <3>1, <3>2 DEF ObjectTyped
  <2>3. QED
    BY <1>2, <2>1, <2>2
<1>6. QED
  BY <1>1, <1>2, <1>3, <1>5, RevisionsUntouched DEF IInv

-----------------------------------------------------------------------------
(* The rest of the system.                                                  *)

LEMMA SyncYurtAppSetStep ==
    ASSUME IInv, SyncYurtAppSet
    PROVE  IInv' /\ Keeps
<1>1. /\ yasCache' = yas /\ yasSynced' = TRUE /\ queued' = TRUE /\ yas' = yas
      /\ UNCHANGED revisionVars /\ UNCHANGED reconcileVars /\ UNCHANGED boundVars
  BY DEF SyncYurtAppSet
<1>2. ObjectTyped'
  BY <1>1 DEF IInv, ObjectTyped
<1>3. Counted' /\ Keeps /\ UNCHANGED <<revisions, cache, staleReads>>
  BY <1>1 DEF IInv, Counted, Keeps, revisionVars, boundVars
<1>4. staleReads' = 0 => Known'
  BY <1>1, <1>3, KnownKept
<1>5. QED
  BY <1>1, <1>2, <1>3, <1>4, RevisionsUntouched, ReconcileUntouched DEF IInv

\* The cache holds what the server holds.
LEMMA CaughtUp ==
    ASSUME IInv, cache' = revisions, stale' = {}, revisions' = revisions
    PROVE  RevisionsTyped'
BY DEF IInv, RevisionsTyped, Named, NamedAfter

LEMMA SyncRevisionsStep ==
    ASSUME IInv, SyncRevisions
    PROVE  IInv' /\ Keeps
<1>1. /\ cache' = revisions /\ stale' = {} /\ UNCHANGED <<revisions, queued>>
      /\ UNCHANGED yasVars /\ UNCHANGED reconcileVars /\ UNCHANGED boundVars
  BY DEF SyncRevisions
<1>2. Counted' /\ Keeps /\ UNCHANGED <<yas, staleReads>>
  BY <1>1 DEF IInv, Counted, Keeps, boundVars, yasVars
<1>3. staleReads' = 0 => Known'
  BY <1>1, <1>2, KnownKept
<1>4. queued' \in BOOLEAN
  BY <1>1 DEF IInv, ReconcileTyped
<1>5. QED
  BY <1>1, <1>2, <1>3, <1>4, CaughtUp, ObjectUntouched, ReconcileUntouched DEF IInv

LEMMA ResyncStep ==
    ASSUME IInv, Resync
    PROVE  IInv' /\ Keeps
<1>1. /\ queued' = TRUE /\ UNCHANGED yasVars /\ UNCHANGED revisionVars
      /\ UNCHANGED reconcileVars /\ UNCHANGED boundVars
  BY DEF Resync
<1>2. Counted' /\ Keeps /\ UNCHANGED <<yas, revisions, cache, staleReads>>
  BY <1>1 DEF IInv, Counted, Keeps, boundVars, yasVars, revisionVars
<1>3. staleReads' = 0 => Known'
  BY <1>1, <1>2, KnownKept
<1>4. QED
  BY <1>1, <1>2, <1>3, ObjectUntouched, RevisionsUntouched, ReconcileUntouched DEF IInv

LEMMA CrashStep ==
    ASSUME IInv, Crash
    PROVE  IInv' /\ Keeps
<1>1. /\ yasCache' = yas /\ yasSynced' = TRUE /\ yas' = yas
      /\ cache' = revisions /\ stale' = {} /\ UNCHANGED <<revisions, edits, staleReads>>
  BY DEF Crash
<1>2. ReconcileTyped' /\ (staleReads' = 0 => Known') /\ faults' \in 0 .. MaxFaults
  BY ReturnTyped, FaultCounted DEF Crash
<1>3. ObjectTyped' /\ Counted' /\ Keeps
  BY <1>1, <1>2 DEF IInv, ObjectTyped, Counted, Keeps
<1>4. QED
  BY <1>1, <1>2, <1>3, CaughtUp DEF IInv

LEMMA EditSpecStep ==
    ASSUME IInv, NEW t \in Templates, NEW limit \in Limits, EditSpec(t, limit)
    PROVE  IInv' /\ Keeps
<1>1. /\ edits < MaxEdits /\ edits' = edits + 1
      /\ yas' = [yas EXCEPT !.template = t, !.limit = limit, !.gen = @ + 1]
      /\ yasSynced' = FALSE
      /\ UNCHANGED <<yasCache, queued, faults, staleReads>>
      /\ UNCHANGED revisionVars /\ UNCHANGED reconcileVars
  BY DEF EditSpec
<1>2. yas \in Object /\ yasCache \in Object
  BY DEF IInv, ObjectTyped
<1>3. yas.gen + 1 \in Nat
  BY <1>2 DEF Object
<1>4. ObjectTyped' /\ yas'.status = yas.status
  BY <1>1, <1>2, <1>3 DEF ObjectTyped, Object
<1>5. Counted' /\ Keeps /\ UNCHANGED <<revisions, cache>>
  BY <1>1, ConstantAssumption DEF IInv, Counted, Keeps, revisionVars
<1>6. staleReads' = 0 => Known'
  BY <1>1, <1>4, <1>5, KnownKept
<1>7. queued' \in BOOLEAN
  BY <1>1 DEF IInv, ReconcileTyped
<1>8. QED
  BY <1>1, <1>4, <1>5, <1>6, <1>7, RevisionsUntouched, ReconcileUntouched DEF IInv

-----------------------------------------------------------------------------

\* It holds at the start.
LEMMA Start == Init => IInv
<1> SUFFICES ASSUME Init
             PROVE  IInv
  OBVIOUS
<1>1. /\ yas = InitialObject /\ yasCache = InitialObject /\ yasSynced = TRUE
      /\ revisions = [n \in Names |-> IF n \in ForeignNames THEN [data |-> Foreign, number |-> 1]
                                      ELSE Absent]
      /\ cache = revisions /\ stale = {} /\ queued = TRUE
      /\ pc = "idle" /\ inst = InitialObject /\ list = <<>> /\ doomed = <<>>
      /\ count = 0 /\ expected = NoName /\ outcome = "none"
      /\ faults = 0 /\ edits = 0 /\ staleReads = 0
  BY DEF Init
<1>2. ObjectTyped
  BY <1>1, InitialTyped DEF ObjectTyped
<1>3. RevisionsTyped
  <2>1. [data |-> Foreign, number |-> 1] \in Revision
    BY DEF Revision
  <2>2. revisions \in [Names -> Revision \cup {Absent}]
    BY <1>1, <2>1
  <2>3. Named(revisions)
    BY <1>1 DEF Named, NamedAfter
  <2>4. QED
    BY <1>1, <2>2, <2>3 DEF RevisionsTyped
<1>4. ReconcileTyped
  <2>1. 0 \in 0 .. MaxCount
    BY HashAssumption
  <2>2. QED
    BY <1>1, <2>1, InitialTyped DEF ReconcileTyped, ListTyped
<1>5. Counted /\ Known
  BY <1>1, ConstantAssumption DEF Counted, Known
<1>6. QED
  BY <1>2, <1>3, <1>4, <1>5 DEF IInv

\* Every step keeps it, and what a step takes from the history.
LEMMA Inductive ==
    ASSUME IInv, [Next]_vars
    PROVE  IInv' /\ (Keeps \/ (DeleteExpired /\ Deletes))
<1>1. CASE ListRevisions
  BY <1>1, ListRevisionsStep
<1>2. CASE ListFails
  BY <1>2, ListFailsStep
<1>3. CASE SkipLive
  BY <1>3, SkipLiveStep
<1>4. CASE DeleteExpired
  BY <1>4, DeleteExpiredStep
<1>5. CASE KeepRevision
  BY <1>5, KeepRevisionStep
<1>6. CASE RollBack
  BY <1>6, RollBackStep
<1>7. CASE StartCreate
  BY <1>7, StartCreateStep
<1>8. CASE CreateRevision
  BY <1>8, CreateRevisionStep
<1>9. CASE FindExisting
  BY <1>9, FindExistingStep
<1>10. CASE PoolsUnlisted
  BY <1>10, PoolsUnlistedStep
<1>11. CASE UpdateStatus
  BY <1>11, UpdateStatusStep
<1>12. CASE SyncYurtAppSet
  BY <1>12, SyncYurtAppSetStep
<1>13. CASE SyncRevisions
  BY <1>13, SyncRevisionsStep
<1>14. CASE Resync
  BY <1>14, ResyncStep
<1>15. CASE Crash
  BY <1>15, CrashStep
<1>16. ASSUME NEW t \in Templates, NEW limit \in Limits, EditSpec(t, limit)
       PROVE  IInv' /\ Keeps
  BY <1>16, EditSpecStep
<1>17. CASE UNCHANGED vars
  <2>1. /\ UNCHANGED yasVars /\ UNCHANGED revisionVars /\ UNCHANGED reconcileVars
        /\ UNCHANGED boundVars /\ queued' = queued
    BY <1>17 DEF vars
  <2>2. Counted' /\ Keeps /\ queued' \in BOOLEAN /\ UNCHANGED <<yas, revisions, cache, staleReads>>
    BY <2>1 DEF IInv, Counted, ReconcileTyped, Keeps, boundVars, yasVars, revisionVars
  <2>3. staleReads' = 0 => Known'
    BY <2>1, <2>2, KnownKept
  <2>4. QED
    BY <2>1, <2>2, <2>3, ObjectUntouched, RevisionsUntouched, ReconcileUntouched DEF IInv
<1>18. QED
  BY <1>1, <1>2, <1>3, <1>4, <1>5, <1>6, <1>7, <1>8, <1>9, <1>10, <1>11, <1>12, <1>13, <1>14,
     <1>15, <1>16, <1>17 DEF Next, Reconcile

\* The inductive invariant holds of every behaviour.
THEOREM Invariance == Spec => []IInv
BY Start, Inductive, PTL DEF Spec

\* Every variable keeps its type; the collision count never passes MaxCount,
\* since the name of the largest count collides with nothing.
THEOREM TypeCorrect == Spec => []TypeOK
BY Invariance, Typed, PTL

\* Unless a stale list was read, the name handed to the pools is that of a
\* revision of the template, however the names collide, whatever fails, and
\* for any number of templates, names and edits.
THEOREM NamesTheTemplate == Spec => []ExpectedIsTemplate
<1>1. IInv => ExpectedIsTemplate
  BY DEF IInv, Known, ExpectedIsTemplate
<1>2. QED
  BY <1>1, Invariance, PTL

\* Unless a stale list was read, cleaning up never deletes the revision that
\* the status names, nor does anything else.
THEOREM CurrentKept == Spec => CurrentRevisionKept
<1>1. ASSUME IInv, [Next]_vars
      PROVE  [\A n \in Owned(revisions) :
                staleReads = 0 /\ n = yas.status.current => revisions'[n] # Absent]_vars
  <2> SUFFICES ASSUME NEW n \in Owned(revisions), staleReads = 0, n = yas.status.current
               PROVE  revisions'[n] # Absent
    OBVIOUS
  <2>1. n \in Names /\ revisions[n] # Absent
    BY DEF Owned
  <2>2. CASE Keeps
    BY <2>1, <2>2 DEF Keeps
  <2>3. CASE Deletes
    <3>1. inst.status.current = n
      BY <1>1, <2>3 DEF IInv, Known, Deletes
    <3>2. QED
      BY <1>1, <2>1, <2>3, <3>1 DEF Deletes, IInv, RevisionsTyped
  <2>4. QED
    BY <1>1, <2>2, <2>3, Inductive
<1>2. QED
  BY <1>1, Invariance, PTL DEF Spec, CurrentRevisionKept

-----------------------------------------------------------------------------
(* The history, as long as no stale list was read.  With a limit of zero    *)
(* everything but the live revision expires at once, and numbers repeat.    *)

KeepsSome == 0 \notin Limits

Highest(copy, n) == \A m \in Owned(copy) \ {n} : copy[m].number < copy[n].number
OfTemplate(copy, t) == {n \in Owned(copy) : copy[n].data = t}

\* The revision numbered last is one of the template.
Top(copy, t) == \E n \in OfTemplate(copy, t) : Highest(copy, n)

\* The only revision of the template is the live one, under its hashed name.
OnlyLive(copy, t, n, k) == OfTemplate(copy, t) = {n} /\ n = Hash[<<t, k>>]

\* The generation that the status says was observed has its revision: at the
\* end, or where no cleaning takes it.
InUse(copy, object) ==
    object.status.observed = object.gen =>
        \/ Top(copy, object.template)
        \/ OnlyLive(copy, object.template, object.status.current, object.status.collisions)

\* No two revisions have the same number, and of those of a template only the
\* last is not the live one.
Ordered ==
    \A m, n \in Owned(revisions) : m # n =>
        /\ revisions[m].number # revisions[n].number
        /\ /\ revisions[m].data = revisions[n].data
           /\ revisions[m].number < revisions[n].number
           => m = yas.status.current

\* An edit makes a new generation, which is not observed before it is read.
Generations ==
    /\ yas.status.observed <= yas.gen
    /\ pc # "idle" =>
           /\ inst.status.observed <= inst.gen /\ inst.gen <= yas.gen
           /\ inst.gen = yas.gen => inst.template = yas.template /\ inst.limit = yas.limit
           /\ yasSynced /\ ~queued => inst = yas

\* The list holds every revision there is, by number; of those over the limit
\* only the live one stays.
Listed ==
    /\ \A i, j \in 1 .. Len(list) : i < j => list[i].rev.number < list[j].rev.number
    /\ \A i \in 1 .. Len(list) :
           /\ list[i].rev.data # Foreign
           /\ revisions[list[i].name] \in {Absent, list[i].rev}
           /\ i > Bound => revisions[list[i].name] = list[i].rev
           /\ i <= Bound /\ revisions[list[i].name] # Absent =>
                  \/ list[i].name = inst.status.current
                  \/ pc = "clean" /\ \E j \in 1 .. Len(doomed) : doomed[j] = list[i].name
    /\ \A n \in Owned(revisions) : \E i \in 1 .. Len(list) : n = list[i].name

\* The name of a revision that is in use is found with the count there was.
SameCount == inst.status.observed = inst.gen => count = inst.status.collisions

\* The revision that was named is the last one, or the live one, which was cut
\* off the list; none was created for a generation that was observed.
Recorded ==
    /\ \/ Top(revisions, inst.template)
       \/ /\ OnlyLive(revisions, inst.template, expected, count)
          /\ expected = inst.status.current
          /\ Cardinality(Owned(revisions)) > inst.limit
    /\ inst.status.observed = inst.gen => Cardinality(Owned(revisions)) <= inst.limit + 1

\* What is promised at rest, but for the cache of revisions, whose events
\* enqueue nothing.
Rested ==
    pc = "idle" /\ ~queued /\ yasSynced /\ outcome = "ok" =>
        /\ Cardinality(Owned(revisions)) <= yas.limit + 1
        /\ Cardinality(Owned(revisions)) <= yas.limit => Top(revisions, yas.template)

\* What a run of reconciles that never read a stale list leaves behind.
Past ==
    /\ Ordered /\ Generations /\ InUse(revisions, yas) /\ Rested
    /\ pc \in {"clean", "create"} => Listed /\ InUse(revisions, inst) /\ SameCount
    /\ pc = "create" => doomed = << >> /\ EqualRevisions = {}
    /\ pc = "status" => Recorded

IHistory == IInv /\ (staleReads = 0 => Past)

\* What the entries of the list are.
LEMMA ListFacts ==
    ASSUME IInv, Listed
    PROVE  /\ Bound \in 0 .. Len(list) /\ Len(list) \in Nat /\ inst.limit \in Nat
           /\ \A i \in 1 .. Len(list) : /\ list[i].name \in Names /\ list[i].rev \in Revision
                                        /\ list[i].rev.number \in Nat
           /\ \A n \in Owned(revisions) :
                 \E i \in 1 .. Len(list) : n = list[i].name /\ revisions[n] = list[i].rev
           /\ \A i \in 1 .. Len(list) : i > Bound => list[i].name \in Owned(revisions)
<1>1. list \in Seq(Entry) /\ Len(list) \in Nat /\ inst.limit \in Nat /\ Bound \in 0 .. Len(list)
  BY KeptIsEnd, LenProperties, ConstantAssumption DEF IInv, ReconcileTyped, ListTyped, Object
<1>2. ASSUME NEW i \in 1 .. Len(list)
      PROVE  list[i].name \in Names /\ list[i].rev \in Revision /\ list[i].rev.number \in Nat
  <2>1. list[i] \in Entry
    BY <1>1, ElementOfSeq
  <2>2. QED
    BY <2>1 DEF Entry, Revision
<1>3. \A n \in Owned(revisions) :
         \E i \in 1 .. Len(list) : n = list[i].name /\ revisions[n] = list[i].rev
  BY DEF Listed, Owned
<1>4. ASSUME NEW i \in 1 .. Len(list), i > Bound
      PROVE  list[i].name \in Owned(revisions)
  <2>1. revisions[list[i].name] = list[i].rev /\ list[i].rev.data # Foreign
    BY <1>4 DEF Listed
  <2>2. QED
    BY <1>2, <2>1, ConstantAssumption DEF Owned
<1>5. QED
  BY <1>1, <1>2, <1>3, <1>4

\* What is kept of the list is there, by number, within the limit.
LEMMA KeptFacts ==
    ASSUME IInv, Listed
    PROVE  /\ \A i \in 1 .. Len(Kept) : /\ Kept[i].name \in Owned(revisions)
                                        /\ revisions[Kept[i].name] = Kept[i].rev
                                        /\ Kept[i].rev.number \in Nat
           /\ \A i, j \in 1 .. Len(Kept) : i < j => Kept[i].rev.number < Kept[j].rev.number
           /\ Len(Kept) \in Nat /\ Len(Kept) <= inst.limit
           /\ Bound > 0 => Len(Kept) = inst.limit
<1>1. /\ Len(Kept) = Len(list) - Bound
      /\ \A i \in 1 .. Len(Kept) : i + Bound \in 1 .. Len(list) /\ Kept[i] = list[i + Bound]
      /\ Bound \in 0 .. Len(list) /\ Len(list) \in Nat /\ inst.limit \in Nat
  BY KeptIsEnd, ListFacts
<1>2. /\ Len(Kept) \in Nat /\ Len(Kept) <= inst.limit
      /\ Bound > 0 => Len(Kept) = inst.limit
  BY <1>1 DEF Bound, ExceedNum
<1>3. ASSUME NEW i \in 1 .. Len(Kept)
      PROVE  /\ Kept[i].name \in Owned(revisions) /\ revisions[Kept[i].name] = Kept[i].rev
             /\ Kept[i].rev.number \in Nat
  <2>1. i + Bound \in 1 .. Len(list) /\ i + Bound > Bound /\ Kept[i] = list[i + Bound]
    BY <1>1
  <2>2. QED
    BY <2>1, ListFacts DEF Listed
<1>4. ASSUME NEW i \in 1 .. Len(Kept), NEW j \in 1 .. Len(Kept), i < j
      PROVE  Kept[i].rev.number < Kept[j].rev.number
  <2>1. i + Bound < j + Bound
    BY <1>1, <1>4
  <2>2. QED
    BY <1>1, <2>1 DEF Listed
<1>5. QED
  BY <1>2, <1>3, <1>4

\* Once cleaned, nothing is left but what is kept, and the live revision.
LEMMA NothingElse ==
    ASSUME IInv, Listed, doomed = << >>, NEW n \in Owned(revisions),
           \A i \in 1 .. Len(Kept) : Kept[i].name # n
    PROVE  n = inst.status.current /\ Bound > 0
<1>1. PICK i \in 1 .. Len(list) : n = list[i].name
  BY DEF Listed
<1>2. i <= Bound
  <2>1. SUFFICES ASSUME i > Bound PROVE FALSE
    BY <1>1, ListFacts
  <2>2. i - Bound \in 1 .. Len(Kept) /\ (i - Bound) + Bound = i
    BY <1>1, <2>1, KeptIsEnd, ListFacts
  <2>3. Kept[i - Bound] = list[i]
    BY <2>2, KeptIsEnd
  <2>4. QED
    BY <1>1, <2>2, <2>3
<1>3. Bound > 0
  BY <1>1, <1>2, ListFacts
<1>4. Len(doomed) = 0
  OBVIOUS
<1>5. QED
  BY <1>1, <1>2, <1>3, <1>4 DEF Listed, Owned

\* The next number is above all others; the last revision kept has the highest.
LEMMA NextIsHighest ==
    ASSUME KeepsSome, IInv, Listed
    PROVE  /\ NextRevision \in Nat
           /\ \A n \in Owned(revisions) : /\ revisions[n].number \in Nat
                                          /\ revisions[n].number < NextRevision
           /\ Owned(revisions) # {} => Kept # << >>
           /\ Kept # << >> => /\ Len(Kept) \in 1 .. Len(Kept)
                              /\ Highest(revisions, Kept[Len(Kept)].name)
<1>1. inst.limit # 0 /\ inst.limit \in Nat
  BY ListFacts DEF KeepsSome, IInv, ReconcileTyped, Object
<1>2. /\ Len(Kept) = Len(list) - Bound
      /\ \A i \in 1 .. Len(Kept) : i + Bound \in 1 .. Len(list) /\ Kept[i] = list[i + Bound]
      /\ Bound \in 0 .. Len(list) /\ Len(list) \in Nat /\ Kept \in Seq(Entry)
  BY KeptIsEnd, ListFacts
<1>3. Len(list) > 0 => Len(Kept) > 0
  BY <1>1, <1>2 DEF Bound, ExceedNum
<1>4. NextRevision \in Nat
  BY NextRevisionTyped
<1>5. Owned(revisions) # {} => Len(list) > 0
  BY ListFacts, <1>2
<1>6. Kept # << >> <=> Len(Kept) > 0
  BY <1>2, EmptySeq
<1> DEFINE last == Kept[Len(Kept)]
<1>7. Len(Kept) > 0 => /\ Len(Kept) \in 1 .. Len(Kept) /\ last = list[Len(list)]
                       /\ Len(list) \in 1 .. Len(list) /\ last.rev.number \in Nat
                       /\ revisions[last.name] = last.rev /\ last.name \in Owned(revisions)
                       /\ NextRevision = last.rev.number + 1
  <2>1. SUFFICES ASSUME Len(Kept) > 0
                 PROVE  /\ Len(Kept) \in 1 .. Len(Kept) /\ last = list[Len(list)]
                        /\ Len(list) \in 1 .. Len(list) /\ last.rev.number \in Nat
                        /\ revisions[last.name] = last.rev /\ last.name \in Owned(revisions)
                        /\ NextRevision = last.rev.number + 1
    OBVIOUS
  <2>2. Len(Kept) \in 1 .. Len(Kept) /\ Len(Kept) + Bound = Len(list)
    BY <1>2, <2>1
  <2>3. last = list[Len(list)] /\ Len(list) \in 1 .. Len(list)
    BY <1>2, <2>2
  <2>4. NextRevision = last.rev.number + 1
    BY <1>6, <2>1 DEF NextRevision, Last
  <2>5. QED
    BY <2>2, <2>3, <2>4, KeptFacts
<1>8. ASSUME NEW n \in Owned(revisions)
      PROVE  /\ revisions[n].number \in Nat /\ revisions[n].number < NextRevision
             /\ n # last.name => revisions[n].number < last.rev.number
  <2>1. PICK i \in 1 .. Len(list) : n = list[i].name /\ revisions[n] = list[i].rev
    BY ListFacts
  <2>2. last = list[Len(list)] /\ Len(list) \in 1 .. Len(list) /\ NextRevision = last.rev.number + 1
    BY <1>3, <1>5, <1>7
  <2>3. list[i].rev.number \in Nat /\ last.rev.number \in Nat
    BY <2>2, ListFacts
  <2>4. CASE i < Len(list)
    <3>1. list[i].rev.number < last.rev.number
      BY <2>2, <2>4 DEF Listed
    <3> HIDE DEF last
    <3>2. QED
      BY <2>1, <2>2, <2>3, <3>1
  <2>5. CASE i = Len(list)
    <3> HIDE DEF last
    <3>1. QED
      BY <2>1, <2>2, <2>3, <2>5
  <2>6. i < Len(list) \/ i = Len(list)
    <3>1. i \in 1 .. Len(list) /\ Len(list) \in Nat
      BY <1>2, <2>1
    <3> HIDE DEF last
    <3>2. QED
      BY <3>1
  <2>7. QED
    BY <2>4, <2>5, <2>6
<1>9. Len(Kept) > 0 => Highest(revisions, last.name)
  <2> HIDE DEF last
  <2>1. QED
    BY <1>7, <1>8 DEF Highest
<1>10. QED
  BY <1>3, <1>4, <1>5, <1>6, <1>7, <1>8, <1>9

-----------------------------------------------------------------------------
(* How many there are, and what a write leaves.                             *)

KeptNames == {Kept[i].name : i \in 1 .. Len(Kept)}

\* The names kept are as many as the entries.
LEMMA KeptCount ==
    ASSUME IInv, Listed
    PROVE  IsFiniteSet(KeptNames) /\ Cardinality(KeptNames) = Len(Kept)
<1> DEFINE f == [i \in 1 .. Len(Kept) |-> Kept[i].name]
<1>1. \A i, j \in 1 .. Len(Kept) : Kept[i].name = Kept[j].name => i = j
  <2>1. SUFFICES ASSUME NEW i \in 1 .. Len(Kept), NEW j \in 1 .. Len(Kept),
                        Kept[i].name = Kept[j].name, i < j
                 PROVE  FALSE
    BY KeptFacts
  <2>2. Kept[i].rev = Kept[j].rev
    BY <2>1, KeptFacts
  <2>3. Kept[i].rev.number < Kept[j].rev.number /\ Kept[i].rev.number \in Nat
    BY <2>1, KeptFacts
  <2>4. QED
    BY <2>2, <2>3
<1>2. f \in Bijection(1 .. Len(Kept), KeptNames)
  BY <1>1 DEF Bijection, Injection, Surjection, KeptNames, IsInjective
<1>3. ExistsBijection(1 .. Len(Kept), KeptNames) /\ Len(Kept) \in Nat
  BY <1>2, KeptFacts DEF ExistsBijection
<1>4. IsFiniteSet(KeptNames)
  BY <1>3, FS_NatBijection
<1>5. QED
  BY <1>3, <1>4, FS_CountingElements

\* There are finitely many of them.
LEMMA OwnedFinite ==
    ASSUME NEW copy
    PROVE  IsFiniteSet(Owned(copy)) /\ Cardinality(Owned(copy)) \in Nat
<1>1. IsFiniteSet(Owned(copy))
  BY ConstantAssumption, FS_Subset DEF Owned
<1>2. QED
  BY <1>1, FS_CardinalityType

\* Once cleaned, the history is within the limit, but for the live revision.
LEMMA WithinLimit ==
    ASSUME IInv, Listed, doomed = << >>
    PROVE  Cardinality(Owned(revisions)) <= inst.limit + 1
<1> DEFINE live == inst.status.current
<1>1. Owned(revisions) \subseteq KeptNames \cup {live}
  BY NothingElse DEF KeptNames
<1>2. /\ IsFiniteSet(KeptNames \cup {live})
      /\ Cardinality(KeptNames \cup {live}) <= Len(Kept) + 1
  <2>1. IsFiniteSet(KeptNames) /\ Cardinality(KeptNames) = Len(Kept) /\ Len(Kept) \in Nat
    BY KeptCount, KeptFacts
  <2> HIDE DEF live
  <2>2. /\ IsFiniteSet(KeptNames \cup {live})
        /\ Cardinality(KeptNames \cup {live}) =
              IF live \in KeptNames THEN Cardinality(KeptNames) ELSE Cardinality(KeptNames) + 1
    BY <2>1, FS_AddElement
  <2>3. QED
    BY <2>1, <2>2
<1>3. Cardinality(Owned(revisions)) <= Cardinality(KeptNames \cup {live})
  <2> HIDE DEF live
  <2>1. QED
    BY <1>1, <1>2, FS_Subset
<1>4. Cardinality(KeptNames \cup {live}) \in Nat
  <2> HIDE DEF live
  <2>1. QED
    BY <1>2, FS_CardinalityType
<1>5. Len(Kept) \in Nat /\ Len(Kept) <= inst.limit /\ inst.limit \in Nat
  BY KeptFacts, ListFacts
<1>6. QED
  BY <1>2, <1>3, <1>4, <1>5, OwnedFinite

\* With a revision that was cut off the list, it is over the limit.
LEMMA OverLimit ==
    ASSUME IInv, Listed, doomed = << >>, NEW n \in Owned(revisions), n \notin KeptNames
    PROVE  Cardinality(Owned(revisions)) > inst.limit
<1>1. Len(Kept) = inst.limit /\ inst.limit \in Nat
  BY NothingElse, KeptFacts, ListFacts DEF KeptNames
<1>2. IsFiniteSet(KeptNames) /\ Cardinality(KeptNames) = Len(Kept)
  BY KeptCount
<1>3. IsFiniteSet(KeptNames \cup {n}) /\ Cardinality(KeptNames \cup {n}) = inst.limit + 1
  BY <1>1, <1>2, FS_AddElement
<1>4. KeptNames \cup {n} \subseteq Owned(revisions)
  BY KeptFacts DEF KeptNames
<1>5. Cardinality(KeptNames \cup {n}) <= Cardinality(Owned(revisions))
  BY <1>4, OwnedFinite, FS_Subset
<1>6. QED
  BY <1>1, <1>3, <1>5, OwnedFinite

\* What is written with the next number is the last of the history.
LEMMA WriteHighest ==
    ASSUME KeepsSome, IInv, Listed, Ordered, inst.status = yas.status,
           NEW n \in Names, NEW value \in Revision,
           value.data = inst.template, value.number = NextRevision,
           \A m \in OfTemplate(revisions, inst.template) \ {n} : m = inst.status.current,
           revisions' = [revisions EXCEPT ![n] = value], yas' = yas
    PROVE  Ordered' /\ Top(revisions', inst.template) /\ Owned(revisions') = Owned(revisions) \cup {n}
<1>1. /\ revisions \in [Names -> Revision \cup {Absent}] /\ inst.template \in Templates
      /\ value # Absent /\ value.data # Foreign
  BY ConstantAssumption DEF IInv, RevisionsTyped, ReconcileTyped, Object
<1>2. revisions'[n] = value /\ \A m \in Names \ {n} : revisions'[m] = revisions[m]
  BY <1>1
<1>3. Owned(revisions') = Owned(revisions) \cup {n}
  BY <1>1, <1>2 DEF Owned
<1>4. /\ NextRevision \in Nat
      /\ \A m \in Owned(revisions) : /\ revisions[m].number \in Nat
                                     /\ revisions[m].number < NextRevision
  BY NextIsHighest
<1>5. Owned(revisions) \subseteq Names
  BY DEF Owned
<1>6. Highest(revisions', n)
  BY <1>2, <1>3, <1>4, <1>5 DEF Highest
<1>7. Top(revisions', inst.template)
  BY <1>2, <1>3, <1>6 DEF Top, OfTemplate
<1>8. ASSUME NEW m1 \in Owned(revisions'), NEW m2 \in Owned(revisions'), m1 # m2
      PROVE  /\ revisions'[m1].number # revisions'[m2].number
             /\ /\ revisions'[m1].data = revisions'[m2].data
                /\ revisions'[m1].number < revisions'[m2].number
                => m1 = yas.status.current
  <2>1. CASE m1 # n /\ m2 # n
    BY <1>2, <1>3, <1>5, <1>8, <2>1 DEF Ordered
  <2>2. ASSUME NEW m \in Owned(revisions'), m # n
        PROVE  /\ m \in Owned(revisions) /\ revisions'[m] = revisions[m]
               /\ revisions'[m].number < revisions'[n].number
               /\ revisions'[m].number \in Nat /\ revisions'[n].number \in Nat
    <3>1. m \in Owned(revisions) /\ revisions'[m] = revisions[m]
      BY <1>2, <1>3, <1>5, <2>2
    <3>2. revisions'[n].number = NextRevision
      BY <1>2
    <3>3. QED
      BY <1>4, <3>1, <3>2
  <2>3. CASE m1 = n
    <3>1. m2 # n
      BY <1>8, <2>3
    <3>2. /\ revisions'[m2].number < revisions'[m1].number
          /\ revisions'[m2].number \in Nat /\ revisions'[m1].number \in Nat
      BY <1>8, <2>2, <2>3, <3>1
    <3>3. revisions'[m1].number # revisions'[m2].number
      BY <3>2
    <3>4. ~(revisions'[m1].number < revisions'[m2].number)
      BY <3>2
    <3>5. QED
      BY <3>3, <3>4
  <2>4. CASE m2 = n
    <3>1. m1 # n
      BY <1>8, <2>4
    <3>2. revisions'[m1].data = revisions'[n].data => m1 \in OfTemplate(revisions, inst.template)
      BY <1>2, <1>8, <2>2, <3>1 DEF OfTemplate
    <3>3. /\ revisions'[m1].number < revisions'[m2].number
          /\ revisions'[m2].number \in Nat /\ revisions'[m1].number \in Nat
      BY <1>8, <2>2, <2>4, <3>1
    <3>4. revisions'[m1].number # revisions'[m2].number
      BY <3>3
    <3>5. revisions'[m1].data = revisions'[m2].data => m1 = inst.status.current
      BY <2>4, <3>1, <3>2
    <3>6. QED
      BY <3>4, <3>5
  <2>5. QED
    BY <2>1, <2>3, <2>4
<1>9. Ordered'
  BY <1>8 DEF Ordered
<1>10. QED
  BY <1>3, <1>7, <1>9

\* What the running reconcile leaves in use is what is in use.
LEMMA StillInUse ==
    ASSUME IInv, Past, staleReads = 0, pc # "idle", InUse(revisions', inst)
    PROVE  InUse(revisions', yas)
<1>1. SUFFICES ASSUME yas.status.observed = yas.gen
               PROVE  InUse(revisions', yas)
  BY DEF InUse
<1>2. /\ inst.status = yas.status /\ inst.status.observed <= inst.gen /\ inst.gen <= yas.gen
      /\ inst.gen \in Nat /\ yas.gen \in Nat
      /\ inst.gen = yas.gen => inst.template = yas.template
  BY DEF IInv, Known, Past, Generations, ReconcileTyped, ObjectTyped, Object
<1>3. inst.gen = yas.gen
  BY <1>1, <1>2
<1>4. QED
  BY <1>1, <1>2, <1>3 DEF InUse

\* A reconcile that ends with an error, whatever it has written, leaves a
\* history of which what is in use is still part.
LEMMA ErrorPast ==
    ASSUME IInv, Past, Ordered', InUse(revisions', yas), yas' = yas,
           NEW result, result # "ok", Return(result)
    PROVE  Past'
<1>1. pc' = "idle" /\ outcome' = result
  BY DEF Return
<1>2. Generations' /\ Rested'
  BY <1>1 DEF Past, Generations, Rested
<1>3. InUse(revisions', yas')
  OBVIOUS
<1>4. QED
  BY <1>1, <1>2, <1>3 DEF Past

-----------------------------------------------------------------------------
(* Each step, as long as no stale list was read.                            *)

\* The list has every revision of the cache.
LEMMA SortedOnto ==
    ASSUME NEW names \in SortedRevisions, NEW n \in Owned(cache)
    PROVE  Cardinality(Owned(cache)) \in Nat /\ \E i \in 1 .. Cardinality(Owned(cache)) : n = names[i]
<1> DEFINE owned == Owned(cache)
           c == Cardinality(owned)
<1>1. IsFiniteSet(owned) /\ c \in Nat
  BY OwnedFinite
<1>2. names \in [1 .. c -> owned] /\ \A i, j \in 1 .. c : i # j => names[i] # names[j]
  BY DEF SortedRevisions, SetToSeqs
<1> HIDE DEF owned
<1>3. names \in Injection(1 .. c, owned)
  BY <1>2 DEF Injection, IsInjective
<1>4. Cardinality(1 .. c) = c
  <2>1. 1 \in Int /\ c \in Int
    BY <1>1
  <2>2. Cardinality(1 .. c) = IF 1 > c THEN 0 ELSE c - 1 + 1
    BY <2>1, FS_Interval, Zenon
  <2>3. QED
    BY <1>1, <2>2
<1>5. names \in Surjection(1 .. c, owned)
  BY <1>1, <1>3, <1>4, FS_Injection
<1>6. QED
  BY <1>1, <1>5 DEF Surjection, owned

\* What a reconcile starts with is what there is.
LEMMA ListRevisionsPast ==
    ASSUME KeepsSome, IInv, Past, staleReads' = 0, ListRevisions
    PROVE  Past'
<1>1. PICK names \in SortedRevisions :
         /\ list' = [i \in 1 .. Len(names) |->
                        [name |-> names[i], rev |-> cache[names[i]], old |-> names[i] \in stale]]
         /\ doomed' = Expired(names, yasCache.limit)
  BY DEF ListRevisions
<1>2. /\ pc' = "clean" /\ inst' = yasCache /\ count' = yasCache.status.collisions
      /\ queued' = FALSE
      /\ UNCHANGED <<yas, yasCache, yasSynced, revisions, cache, stale>>
      /\ yasSynced /\ stale = {}
  BY DEF ListRevisions, yasVars, revisionVars, IInv, Counted
<1>3. yasCache = yas /\ \A n \in Names : cache[n] = revisions[n]
  BY <1>2 DEF IInv, ObjectTyped, RevisionsTyped
<1>4. Owned(cache) = Owned(revisions) /\ Owned(cache) \subseteq Names
  BY <1>3 DEF Owned
<1>5. /\ names \in Seq(Names) /\ Len(names) \in Nat /\ yas.limit \in Nat
      /\ \A i \in 1 .. Len(names) : names[i] \in Owned(cache)
      /\ \A i, j \in 1 .. Len(names) : i # j => names[i] # names[j]
  BY SortedTyped, LenProperties, ConstantAssumption DEF IInv, ObjectTyped, Object
<1> DEFINE b == ExceedNum(names, yas.limit)
<1>6. b \in 0 .. Len(names) /\ doomed' = SubSeq(names, 1, b)
  BY <1>1, <1>3, <1>5 DEF ExceedNum, Expired
<1>7. Bound' = b /\ Len(list') = Len(names)
  BY <1>1, <1>2, <1>3, <1>5 DEF Bound, ExceedNum
<1> HIDE DEF b
<1>8. Len(doomed') = b /\ \A j \in 1 .. b : doomed'[j] = names[j]
  BY <1>5, <1>6
<1>9. ASSUME NEW i \in 1 .. Len(names)
      PROVE  /\ names[i] \in Owned(revisions) /\ list'[i].name = names[i]
             /\ list'[i].rev = revisions[names[i]] /\ list'[i].rev.data # Foreign
             /\ list'[i].rev.number \in Nat
  <2>1. names[i] \in Owned(revisions)
    BY <1>4, <1>5
  <2>2. list'[i] = [name |-> names[i], rev |-> cache[names[i]], old |-> names[i] \in stale]
    BY <1>1
  <2>3. list'[i].name = names[i] /\ list'[i].rev = revisions[names[i]]
    BY <1>3, <1>4, <2>1, <2>2
  <2>4. revisions[names[i]] \in Revision /\ revisions[names[i]].data # Foreign
    BY <2>1 DEF Owned, IInv, RevisionsTyped
  <2>5. QED
    BY <2>1, <2>3, <2>4 DEF Revision
<1>10. ASSUME NEW i \in 1 .. Len(names), NEW j \in 1 .. Len(names), i < j
       PROVE  list'[i].rev.number < list'[j].rev.number
  <2>1. cache[names[i]].number <= cache[names[j]].number
    BY <1>10 DEF SortedRevisions
  <2>2. /\ list'[i].rev = cache[names[i]] /\ list'[j].rev = cache[names[j]]
        /\ list'[i].rev.number \in Nat /\ list'[j].rev.number \in Nat
    BY <1>3, <1>4, <1>9, <1>10
  <2>3. names[i] # names[j]
    BY <1>5, <1>10
  <2>4. list'[i].rev.number # list'[j].rev.number
    BY <1>9, <1>10, <2>3 DEF Past, Ordered
  <2>5. QED
    BY <2>1, <2>2, <2>4
<1>11. \A n \in Owned(revisions) : \E i \in 1 .. Len(names) : n = names[i]
  <2>1. ASSUME NEW n \in Owned(revisions)
        PROVE  \E i \in 1 .. Len(names) : n = names[i]
    <3>1. PICK i \in 1 .. Cardinality(Owned(cache)) : n = names[i]
      BY <1>4, SortedOnto
    <3>2. Len(names) = Cardinality(Owned(cache))
      <4>1. names \in [1 .. Cardinality(Owned(cache)) -> Owned(cache)]
        BY DEF SortedRevisions, SetToSeqs
      <4>2. Cardinality(Owned(cache)) \in Nat
        BY OwnedFinite
      <4>3. QED
        BY <1>5, <4>1, <4>2
    <3>3. QED
      BY <3>1, <3>2
  <2>2. QED
    BY <2>1
<1>12. Listed'
  <2>1. \A i, j \in 1 .. Len(list') : i < j => list'[i].rev.number < list'[j].rev.number
    BY <1>7, <1>10
  <2>2. ASSUME NEW i \in 1 .. Len(list')
        PROVE  /\ list'[i].rev.data # Foreign
               /\ revisions'[list'[i].name] = list'[i].rev
               /\ i <= Bound' => \E j \in 1 .. Len(doomed') : doomed'[j] = list'[i].name
    <3>1. i \in 1 .. Len(names)
      BY <1>7
    <3>2. i <= Bound' => i \in 1 .. Len(doomed') /\ doomed'[i] = names[i]
      BY <1>6, <1>7, <1>8, <3>1
    <3>3. QED
      BY <1>2, <1>9, <3>1, <3>2
  <2>3. \A n \in Owned(revisions') : \E i \in 1 .. Len(list') : n = list'[i].name
    BY <1>2, <1>7, <1>9, <1>11
  <2>4. QED
    BY <1>2, <2>1, <2>2, <2>3 DEF Listed
<1>13. Ordered' /\ Rested' /\ InUse(revisions', yas') /\ InUse(revisions', inst')
  BY <1>2, <1>3 DEF Past, Ordered, Rested
<1>14. Generations' /\ SameCount'
  BY <1>2, <1>3 DEF Past, Generations, IInv, ObjectTyped, Object, SameCount
<1>15. QED
  BY <1>2, <1>12, <1>13, <1>14 DEF Past

\* The revision with the highest number is the last one kept, and is not to be
\* deleted.
LEMMA TopIsLast ==
    ASSUME KeepsSome, IInv, Listed, NEW n \in Owned(revisions), Highest(revisions, n)
    PROVE  /\ Len(Kept) \in 1 .. Len(Kept) /\ n = Kept[Len(Kept)].name
           /\ revisions[n] = Kept[Len(Kept)].rev
<1> DEFINE last == Kept[Len(Kept)].name
<1>1. Len(Kept) \in 1 .. Len(Kept) /\ Highest(revisions, last)
  BY NextIsHighest
<1>2. last \in Owned(revisions) /\ revisions[last] = Kept[Len(Kept)].rev
  BY <1>1, KeptFacts
<1> HIDE DEF last
<1>3. SUFFICES ASSUME n # last PROVE FALSE
  BY <1>1, <1>2 DEF last
<1>4. revisions[last].number < revisions[n].number /\ revisions[n].number < revisions[last].number
  BY <1>1, <1>2, <1>3 DEF Highest
<1>5. revisions[last].number \in Nat /\ revisions[n].number \in Nat
  BY <1>2, NextIsHighest
<1>6. QED
  BY <1>4, <1>5

\* What is to be deleted is not what is kept.
LEMMA DoomedNotKept ==
    ASSUME IInv, staleReads = 0, pc = "clean", doomed # << >>, NEW i \in 1 .. Len(Kept)
    PROVE  Kept[i].name # Head(doomed)
<1>1. i + Bound \in 1 .. Len(list) /\ i + Bound > Bound /\ Kept[i] = list[i + Bound]
  BY KeptIsEnd
<1>2. doomed \in Seq(Names)
  BY DEF IInv, ReconcileTyped, ListTyped
<1>3. 1 \in 1 .. Len(doomed) /\ doomed[1] = Head(doomed)
  BY <1>2, EmptySeq
<1>4. QED
  BY <1>1, <1>3 DEF IInv, Known

\* What is left of the names to go through.
LEMMA TailHasRest ==
    ASSUME IInv, doomed # << >>, doomed' = Tail(doomed), NEW j \in 1 .. Len(doomed)
    PROVE  doomed[j] = Head(doomed) \/ \E k \in 1 .. Len(doomed') : doomed'[k] = doomed[j]
<1> DEFINE t == Tail(doomed)
<1>1. doomed \in Seq(Names)
  BY DEF IInv, ReconcileTyped, ListTyped
<1>2. /\ Len(t) = Len(doomed) - 1 /\ Len(doomed) \in Nat /\ Head(doomed) = doomed[1]
      /\ \A k \in 1 .. Len(t) : t[k] = doomed[k + 1]
  BY <1>1, HeadTailProperties, LenProperties
<1> HIDE DEF t
<1>3. CASE j = 1
  BY <1>2, <1>3
<1>4. CASE j # 1
  <2>1. j - 1 \in 1 .. Len(t) /\ (j - 1) + 1 = j
    BY <1>2, <1>4
  <2>2. t[j - 1] = doomed[j]
    BY <1>2, <2>1
  <2>3. QED
    BY <2>1, <2>2 DEF t
<1>5. QED
  BY <1>3, <1>4

\* A name less to go through: its revision is live, or deleted.
LEMMA CleanListed ==
    ASSUME IInv, Listed, staleReads = 0, pc = "clean", doomed # << >>,
           UNCHANGED <<pc, inst, list>>, doomed' = Tail(doomed),
           \/ revisions' = revisions /\ Head(doomed) = inst.status.current
           \/ revisions' = [revisions EXCEPT ![Head(doomed)] = Absent]
    PROVE  Listed'
<1> DEFINE d == Head(doomed)
<1>1. Bound' = Bound
  BY DEF Bound, ExceedNum
<1>2. d \in Names /\ revisions \in [Names -> Revision \cup {Absent}]
  BY TailDoomed DEF IInv, RevisionsTyped
<1>3. \A j \in 1 .. Len(doomed) : doomed[j] = d \/ \E k \in 1 .. Len(doomed') : doomed'[k] = doomed[j]
  BY TailHasRest
<1> HIDE DEF d
<1>4. \A n \in Names : revisions'[n] \in {Absent, revisions[n]} /\ (n # d => revisions'[n] = revisions[n])
  BY <1>2 DEF d
<1>5. revisions'[d] = Absent \/ (revisions' = revisions /\ d = inst.status.current)
  BY <1>2 DEF d
<1>6. ASSUME NEW i \in 1 .. Len(list)
      PROVE  /\ list'[i].rev.data # Foreign
             /\ revisions'[list[i].name] \in {Absent, list[i].rev}
             /\ i > Bound => revisions'[list[i].name] = list[i].rev
             /\ i <= Bound /\ revisions'[list[i].name] # Absent =>
                    \/ list[i].name = inst.status.current
                    \/ \E j \in 1 .. Len(doomed') : doomed'[j] = list[i].name
  <2>1. list[i].name \in Names
    BY ListFacts
  <2>2. i > Bound => list[i].name # d
    <3>1. 1 \in 1 .. Len(doomed) /\ doomed[1] = d
      BY TailDoomed DEF d
    <3>2. QED
      BY <3>1 DEF IInv, Known
  <2>3. /\ list'[i].rev.data # Foreign
        /\ revisions'[list[i].name] \in {Absent, list[i].rev}
        /\ i > Bound => revisions'[list[i].name] = list[i].rev
    BY <1>4, <2>1, <2>2 DEF Listed
  <2>4. ASSUME i <= Bound, revisions'[list[i].name] # Absent
        PROVE  \/ list[i].name = inst.status.current
               \/ \E j \in 1 .. Len(doomed') : doomed'[j] = list[i].name
    <3>1. revisions[list[i].name] # Absent
      BY <1>4, <2>1, <2>4
    <3>2. \/ list[i].name = inst.status.current
          \/ \E j \in 1 .. Len(doomed) : doomed[j] = list[i].name
      BY <2>4, <3>1 DEF Listed
    <3>3. list[i].name = d => list[i].name = inst.status.current
      BY <1>5, <2>4
    <3>4. QED
      BY <1>3, <3>2, <3>3
  <2>5. QED
    BY <2>3, <2>4
<1>7. \A n \in Owned(revisions') : \E i \in 1 .. Len(list) : n = list[i].name
  <2>1. Owned(revisions') \subseteq Owned(revisions)
    BY <1>4 DEF Owned
  <2>2. QED
    BY <2>1 DEF Listed
<1>8. QED
  BY <1>1, <1>6, <1>7 DEF Listed

\* A delete leaves what is in use.
LEMMA DeleteInUse ==
    ASSUME KeepsSome, IInv, Past, staleReads = 0, pc = "clean", doomed # << >>,
           Head(doomed) # inst.status.current, yas' = yas,
           revisions' \in {revisions, [revisions EXCEPT ![Head(doomed)] = Absent]}
    PROVE  Ordered' /\ InUse(revisions', inst)
<1> DEFINE d == Head(doomed)
<1>1. /\ Listed /\ Ordered /\ InUse(revisions, inst)
      /\ revisions \in [Names -> Revision \cup {Absent}]
  BY DEF Past, IInv, RevisionsTyped
<1>2. \A n \in Owned(revisions) : Highest(revisions, n) => n # d
  BY <1>1, TopIsLast, DoomedNotKept
<1> HIDE DEF d
<1>3. /\ Owned(revisions') \subseteq Owned(revisions)
      /\ \A n \in Owned(revisions) : n # d => n \in Owned(revisions')
      /\ \A n \in Owned(revisions') : revisions'[n] = revisions[n]
  BY <1>1 DEF Owned, d
<1>4. Ordered'
  BY <1>1, <1>3 DEF Ordered
<1>5. ASSUME Top(revisions, inst.template)
      PROVE  Top(revisions', inst.template)
  <2>1. PICK n \in OfTemplate(revisions, inst.template) : Highest(revisions, n)
    BY <1>5 DEF Top
  <2>2. n \in OfTemplate(revisions', inst.template)
    BY <1>2, <1>3, <2>1 DEF OfTemplate
  <2>3. Highest(revisions', n)
    BY <1>3, <2>1, <2>2 DEF Highest, OfTemplate
  <2>4. QED
    BY <2>2, <2>3 DEF Top
<1>6. ASSUME NEW k, OnlyLive(revisions, inst.template, inst.status.current, k)
      PROVE  OnlyLive(revisions', inst.template, inst.status.current, k)
  <2>1. inst.status.current # d
    BY DEF d
  <2>2. QED
    BY <1>3, <1>6, <2>1 DEF OnlyLive, OfTemplate
<1>7. QED
  BY <1>1, <1>4, <1>5, <1>6 DEF InUse

LEMMA SkipLivePast ==
    ASSUME IInv, Past, staleReads = 0, SkipLive
    PROVE  Past'
<1>1. /\ pc = "clean" /\ doomed # << >> /\ doomed' = Tail(doomed)
      /\ Head(doomed) = inst.status.current
      /\ UNCHANGED <<yas, yasSynced, revisions, queued, pc, inst, list, count, outcome>>
  BY DEF SkipLive, Spared, yasVars, revisionVars
<1>2. Listed'
  BY <1>1, CleanListed DEF Past
<1>3. Ordered' /\ Rested' /\ InUse(revisions', yas') /\ InUse(revisions', inst')
  BY <1>1 DEF Past, Ordered, Rested
<1>4. Generations' /\ SameCount'
  BY <1>1 DEF Past, Generations, SameCount
<1>5. QED
  BY <1>1, <1>2, <1>3, <1>4 DEF Past

LEMMA DeleteExpiredPast ==
    ASSUME KeepsSome, IInv, Past, staleReads = 0, DeleteExpired
    PROVE  Past'
<1> DEFINE n == Head(doomed)
<1>1. PICK err \in BOOLEAN :
         /\ Write(n, Absent, revisions[n] # Absent, err)
         /\ IF err THEN Return("requeued")
            ELSE /\ doomed' = Tail(doomed)
                 /\ UNCHANGED <<queued, pc, inst, list, count, expected, outcome>>
  BY DEF DeleteExpired
<1>2. /\ pc = "clean" /\ doomed # << >> /\ n # inst.status.current
      /\ UNCHANGED <<yas, yasSynced>>
  BY DEF DeleteExpired, Spared, yasVars
<1>3. \/ revisions' = [revisions EXCEPT ![n] = Absent]
      \/ err /\ revisions' = revisions
  BY <1>1 DEF Write, WriteRevision, revisionVars
<1>4. Ordered' /\ InUse(revisions', inst)
  BY <1>2, <1>3, DeleteInUse
<1>5. InUse(revisions', yas)
  BY <1>2, <1>4, StillInUse
<1>6. CASE err
  BY <1>1, <1>2, <1>4, <1>5, <1>6, ErrorPast
<1>7. CASE ~err
  <2>1. /\ revisions' = [revisions EXCEPT ![n] = Absent] /\ doomed' = Tail(doomed)
        /\ UNCHANGED <<queued, pc, inst, list, count, expected, outcome>>
    BY <1>1, <1>3, <1>7
  <2>2. Listed'
    BY <1>2, <2>1, CleanListed DEF Past
  <2>3. Generations' /\ Rested' /\ SameCount'
    BY <1>2, <2>1 DEF Past, Generations, Rested, SameCount
  <2>4. QED
    BY <1>2, <1>4, <1>5, <2>1, <2>2, <2>3 DEF Past
<1>8. QED
  BY <1>6, <1>7

\* A reconcile that has named its revision.
LEMMA NamedPast ==
    ASSUME Past, pc # "idle", pc' = "status", UNCHANGED <<yas, yasSynced, queued, inst>>,
           Ordered', InUse(revisions', yas), Recorded'
    PROVE  Past'
<1>1. Generations' /\ Rested'
  BY DEF Past, Generations, Rested
<1>2. QED
  BY <1>1 DEF Past

\* The revisions of the template but one are the live one, if that one is not
\* exceeded.
LEMMA OthersLive ==
    ASSUME IInv, Past, staleReads = 0, NEW n \in OfTemplate(revisions, inst.template),
           pc # "idle",
           \A m \in OfTemplate(revisions, inst.template) \ {n} :
               ~(revisions[n].number < revisions[m].number) \/ m = inst.status.current
    PROVE  \A m \in OfTemplate(revisions, inst.template) \ {n} : m = inst.status.current
<1>1. inst.status = yas.status
  BY DEF IInv, Known
<1>2. SUFFICES ASSUME NEW m \in OfTemplate(revisions, inst.template) \ {n},
                      m # inst.status.current
               PROVE  FALSE
  OBVIOUS
<1>3. /\ revisions[m].number # revisions[n].number
      /\ revisions[m].data = revisions[n].data
      /\ ~(revisions[m].number < revisions[n].number)
      /\ ~(revisions[n].number < revisions[m].number)
  BY <1>1, <1>2 DEF OfTemplate, Past, Ordered
<1>4. revisions[m].number \in Nat /\ revisions[n].number \in Nat
  BY DEF OfTemplate, Owned, IInv, RevisionsTyped, Revision
<1>5. QED
  BY <1>3, <1>4

\* A write at the end of the history, whether its answer gets lost or not.
LEMMA WritePast ==
    ASSUME KeepsSome, IInv, Past, staleReads = 0, pc \in {"clean", "create"},
           NEW n \in Names, NEW value \in Revision, NEW acceptable, NEW err \in BOOLEAN,
           value.data = inst.template, value.number = NextRevision,
           \A m \in OfTemplate(revisions, inst.template) \ {n} : m = inst.status.current,
           Write(n, value, acceptable, err),
           IF err THEN Return("requeued")
           ELSE /\ expected' = n
                /\ list' = Kept
                /\ pc' = "status"
                /\ UNCHANGED <<queued, inst, doomed, count, outcome>>,
           inst.status.observed = inst.gen =>
               Cardinality(Owned(revisions) \cup {n}) <= inst.limit + 1,
           UNCHANGED <<yas, yasSynced>>
    PROVE  Past'
<1>1. \/ revisions' = [revisions EXCEPT ![n] = value]
      \/ err /\ revisions' = revisions
  BY DEF Write, WriteRevision, revisionVars
<1>2. /\ Listed /\ Ordered /\ inst.status = yas.status
      /\ InUse(revisions, yas)
  BY DEF Past, IInv, Known
<1>3. ASSUME revisions' = [revisions EXCEPT ![n] = value]
      PROVE  /\ Ordered' /\ Top(revisions', inst.template)
             /\ Owned(revisions') = Owned(revisions) \cup {n}
             /\ InUse(revisions', yas)
  <2>1. /\ Ordered' /\ Top(revisions', inst.template)
        /\ Owned(revisions') = Owned(revisions) \cup {n}
    BY <1>2, <1>3, WriteHighest
  <2>2. InUse(revisions', inst)
    BY <2>1 DEF InUse
  <2>3. QED
    BY <2>1, <2>2, StillInUse
<1>4. CASE err
  <2>1. Ordered' /\ InUse(revisions', yas)
    <3>1. CASE revisions' = revisions
      BY <1>2, <3>1 DEF Ordered
    <3>2. QED
      BY <1>1, <1>3, <3>1
  <2>2. QED
    BY <1>4, <2>1, ErrorPast
<1>5. CASE ~err
  <2>1. /\ revisions' = [revisions EXCEPT ![n] = value]
        /\ pc' = "status" /\ UNCHANGED <<queued, inst, count>>
    BY <1>1, <1>5
  <2>2. /\ Ordered' /\ Top(revisions', inst.template) /\ InUse(revisions', yas)
        /\ Owned(revisions') = Owned(revisions) \cup {n}
    BY <1>3, <2>1
  <2>3. Recorded'
    BY <2>1, <2>2 DEF Recorded
  <2>4. QED
    BY <2>1, <2>2, <2>3, NamedPast
<1>6. QED
  BY <1>4, <1>5

LEMMA KeepRevisionPast ==
    ASSUME KeepsSome, IInv, Past, staleReads = 0, KeepRevision
    PROVE  Past'
<1>1. /\ pc = "clean" /\ doomed = << >> /\ pc' = "status" /\ Len(Kept) \in EqualRevisions
      /\ UNCHANGED <<yas, yasSynced, revisions, queued, inst>> /\ Listed
  BY DEF KeepRevision, Cleaned, yasVars, revisionVars, Past
<1> DEFINE last == Kept[Len(Kept)].name
<1>2. /\ Len(Kept) \in 1 .. Len(Kept) /\ Kept[Len(Kept)].rev.data = inst.template
  BY <1>1 DEF EqualRevisions
<1>3. last \in Owned(revisions) /\ revisions[last].data = inst.template
  BY <1>1, <1>2, KeptFacts
<1>4. Highest(revisions, last)
  BY <1>1, <1>3, NextIsHighest
<1> HIDE DEF last
<1>5. Top(revisions, inst.template)
  BY <1>3, <1>4 DEF Top, OfTemplate
<1>6. Recorded'
  <2>1. Cardinality(Owned(revisions)) <= inst.limit + 1
    BY <1>1, WithinLimit
  <2>2. QED
    BY <1>1, <1>5, <2>1 DEF Recorded
<1>7. Ordered' /\ InUse(revisions', yas)
  BY <1>1 DEF Past, Ordered
<1>8. QED
  BY <1>1, <1>6, <1>7, NamedPast

LEMMA RollBackPast ==
    ASSUME KeepsSome, IInv, Past, staleReads = 0, RollBack
    PROVE  Past'
<1>1. /\ pc = "clean" /\ doomed = << >> /\ Listed /\ UNCHANGED <<yas, yasSynced>>
  BY DEF RollBack, Cleaned, yasVars, Past
<1>2. PICK i \in EqualRevisions, err \in BOOLEAN :
         /\ \A j \in EqualRevisions : j <= i
         /\ Write(Kept[i].name, [Kept[i].rev EXCEPT !.number = NextRevision], ~Kept[i].old, err)
         /\ IF err THEN Return("requeued")
            ELSE /\ expected' = Kept[i].name
                 /\ list' = Kept
                 /\ pc' = "status"
                 /\ UNCHANGED <<queued, inst, doomed, count, outcome>>
  BY DEF RollBack
<1> DEFINE n == Kept[i].name
           value == [Kept[i].rev EXCEPT !.number = NextRevision]
           acceptable == ~Kept[i].old
<1>3. i \in 1 .. Len(Kept) /\ Kept[i].rev.data = inst.template
  BY DEF EqualRevisions
<1>4. n \in Owned(revisions) /\ revisions[n] = Kept[i].rev
  BY <1>1, <1>3, KeptFacts
<1>5. /\ n \in Names /\ n \in OfTemplate(revisions, inst.template)
      /\ value \in Revision /\ value.data = inst.template /\ value.number = NextRevision
  <2>1. n \in Names /\ revisions[n] \in Revision
    BY <1>4 DEF Owned, IInv, RevisionsTyped
  <2>2. QED
    BY <1>3, <1>4, <2>1, NextRevisionTyped DEF OfTemplate, Revision
<1>6. \A m \in OfTemplate(revisions, inst.template) \ {n} :
          ~(revisions[n].number < revisions[m].number) \/ m = inst.status.current
  <2>1. SUFFICES ASSUME NEW m \in OfTemplate(revisions, inst.template) \ {n},
                        m # inst.status.current
                 PROVE  ~(revisions[n].number < revisions[m].number)
    OBVIOUS
  <2>2. PICK j \in 1 .. Len(Kept) : Kept[j].name = m
    BY <1>1, <2>1, NothingElse DEF OfTemplate
  <2>3. revisions[m] = Kept[j].rev /\ Kept[j].rev.data = inst.template
    BY <1>1, <2>2, KeptFacts DEF OfTemplate
  <2>4. j <= i /\ j # i
    BY <1>2, <2>1, <2>2, <2>3 DEF EqualRevisions
  <2>5. j < i
    BY <1>3, <2>2, <2>4
  <2>6. Kept[j].rev.number < Kept[i].rev.number
    BY <1>1, <1>3, <2>2, <2>5, KeptFacts
  <2>7. Kept[j].rev.number \in Nat /\ Kept[i].rev.number \in Nat
    BY <1>1, <1>3, <2>2, KeptFacts
  <2>8. revisions[m].number < revisions[n].number
    BY <1>4, <2>3, <2>6
  <2>9. revisions[m].number \in Nat /\ revisions[n].number \in Nat
    BY <1>4, <2>3, <2>7
  <2> HIDE DEF n
  <2>10. QED
    BY <2>8, <2>9
<1>7. \A m \in OfTemplate(revisions, inst.template) \ {n} : m = inst.status.current
  <2> HIDE DEF n
  <2>1. QED
    BY <1>1, <1>5, <1>6, OthersLive
<1>8. Cardinality(Owned(revisions) \cup {n}) <= inst.limit + 1
  <2>1. Owned(revisions) \cup {n} = Owned(revisions)
    BY <1>4
  <2>2. QED
    BY <1>1, <2>1, WithinLimit
<1>9. /\ Write(n, value, acceptable, err)
      /\ IF err THEN Return("requeued")
         ELSE /\ expected' = n
              /\ list' = Kept
              /\ pc' = "status"
              /\ UNCHANGED <<queued, inst, doomed, count, outcome>>
  BY <1>2
<1> HIDE DEF n, value, acceptable
<1>10. QED
  BY <1>1, <1>5, <1>7, <1>8, <1>9, WritePast

LEMMA StartCreatePast ==
    ASSUME IInv, Past, staleReads = 0, StartCreate
    PROVE  Past'
<1>1. /\ pc = "clean" /\ pc' = "create" /\ doomed = << >> /\ EqualRevisions = {}
      /\ UNCHANGED <<yas, yasSynced, revisions, queued, inst, list, doomed, count>>
  BY DEF StartCreate, Cleaned, yasVars, revisionVars
<1>2. Bound' = Bound /\ Kept' = Kept /\ Len(doomed) = 0
  BY <1>1 DEF Bound, ExceedNum, Kept
<1>3. Listed'
  BY <1>1, <1>2 DEF Past, Listed, Owned
<1>4. EqualRevisions' = {}
  BY <1>1, <1>2 DEF EqualRevisions
<1>5. Ordered' /\ Generations' /\ Rested' /\ SameCount'
  BY <1>1 DEF Past, Ordered, Generations, Rested, SameCount
<1>6. InUse(revisions', yas') /\ InUse(revisions', inst')
  BY <1>1 DEF Past
<1>7. QED
  BY <1>1, <1>3, <1>4, <1>5, <1>6 DEF Past

\* None of those kept is of the template: one that is, is the live one.
LEMMA OfTemplateLive ==
    ASSUME IInv, Past, pc = "create", NEW m \in OfTemplate(revisions, inst.template)
    PROVE  m = inst.status.current /\ m \notin KeptNames
<1>1. Listed /\ doomed = << >> /\ EqualRevisions = {}
  BY DEF Past
<1>2. ASSUME NEW i \in 1 .. Len(Kept), Kept[i].name = m
      PROVE  FALSE
  <2>1. revisions[m] = Kept[i].rev
    BY <1>1, <1>2, KeptFacts
  <2>2. Kept[i].rev.data = inst.template
    BY <2>1 DEF OfTemplate
  <2>3. QED
    BY <1>1, <2>2 DEF EqualRevisions
<1>3. QED
  BY <1>1, <1>2, NothingElse DEF KeptNames, OfTemplate

\* A revision is only looked for under a new name for a generation that was not
\* observed; the one of an observed generation is found at once.
LEMMA ObservedIsFound ==
    ASSUME KeepsSome, IInv, Past, pc = "create", inst.status.observed = inst.gen
    PROVE  NewName \in OfTemplate(revisions, inst.template)
<1>1. Listed /\ EqualRevisions = {} /\ InUse(revisions, inst) /\ SameCount
  BY DEF Past
<1>2. ~Top(revisions, inst.template)
  <2>1. SUFFICES ASSUME NEW n \in OfTemplate(revisions, inst.template), Highest(revisions, n)
                 PROVE  FALSE
    BY DEF Top
  <2>2. Len(Kept) \in 1 .. Len(Kept) /\ revisions[n] = Kept[Len(Kept)].rev
    BY <1>1, <2>1, TopIsLast DEF OfTemplate
  <2>3. Len(Kept) \in EqualRevisions
    BY <2>2 DEF EqualRevisions, OfTemplate
  <2>4. QED
    BY <1>1, <2>3
<1>3. QED
  BY <1>1, <1>2 DEF InUse, OnlyLive, SameCount, NewName

LEMMA CreateRevisionPast ==
    ASSUME KeepsSome, IInv, Past, staleReads = 0, CreateRevision
    PROVE  Past'
<1> DEFINE n == NewName
           value == [data |-> inst.template, number |-> NextRevision]
<1>1. PICK err \in BOOLEAN :
         /\ Write(n, value, TRUE, err)
         /\ IF err THEN Return("requeued")
            ELSE /\ expected' = n
                 /\ list' = Kept
                 /\ pc' = "status"
                 /\ UNCHANGED <<queued, inst, doomed, count, outcome>>
  BY DEF CreateRevision
<1>2. pc = "create" /\ revisions[n] = Absent /\ UNCHANGED <<yas, yasSynced>>
  BY DEF CreateRevision, yasVars
<1>3. /\ n \in Names /\ value \in Revision
      /\ value.data = inst.template /\ value.number = NextRevision
  BY NewNameTyped, NextRevisionTyped DEF Revision
<1>4. inst.status.observed # inst.gen
  BY <1>2, ObservedIsFound DEF OfTemplate, Owned
<1>5. \A m \in OfTemplate(revisions, inst.template) \ {n} : m = inst.status.current
  BY <1>2, OfTemplateLive
<1> HIDE DEF n, value
<1>6. QED
  BY <1>1, <1>2, <1>3, <1>4, <1>5, WritePast

LEMMA FindExistingPast ==
    ASSUME KeepsSome, IInv, Past, staleReads = 0, FindExisting
    PROVE  Past'
<1> DEFINE n == NewName
           found == cache[n]
<1>1. /\ pc = "create" /\ revisions[n] # Absent
      /\ UNCHANGED <<yas, yasSynced, revisions>>
  BY DEF FindExisting, yasVars, revisionVars
<1>2. \/ /\ found # Absent /\ found.data = inst.template
         /\ expected' = n /\ pc' = "status"
         /\ UNCHANGED <<queued, inst, count>>
      \/ /\ found # Absent /\ found.data # inst.template
         /\ UNCHANGED <<queued, pc, inst, list, doomed, outcome>>
      \/ Return("requeued")
  BY DEF FindExisting
<1>3. /\ n \in Names /\ inst.template \in Templates /\ inst.template # Foreign
      /\ revisions[n] = found
  BY <1>1, NewNameTyped, ConstantAssumption DEF IInv, Known
<1>4. /\ Listed /\ doomed = << >> /\ Ordered /\ InUse(revisions, yas)
      /\ Ordered' /\ InUse(revisions', yas)
  BY <1>1 DEF Past, Ordered
<1>5. CASE /\ found # Absent /\ found.data = inst.template
           /\ expected' = n /\ pc' = "status"
           /\ UNCHANGED <<queued, inst, count>>
  <2>1. n \in OfTemplate(revisions, inst.template)
    BY <1>1, <1>3, <1>5 DEF OfTemplate, Owned
  <2>2. n = inst.status.current /\ n \notin KeptNames
    BY <1>1, <2>1, OfTemplateLive
  <2>3. OnlyLive(revisions, inst.template, n, count)
    BY <1>1, <2>1, <2>2, OfTemplateLive DEF OnlyLive, NewName
  <2>4. Cardinality(Owned(revisions)) > inst.limit
    BY <1>4, <2>1, <2>2, OverLimit DEF OfTemplate
  <2>5. Cardinality(Owned(revisions)) <= inst.limit + 1
    BY <1>4, WithinLimit
  <2> HIDE DEF n
  <2>6. Recorded'
    BY <1>1, <1>5, <2>2, <2>3, <2>4, <2>5 DEF Recorded
  <2>7. QED
    BY <1>1, <1>4, <1>5, <2>6, NamedPast
<1>6. CASE /\ found # Absent /\ found.data # inst.template
           /\ UNCHANGED <<queued, pc, inst, list, doomed, outcome>>
  <2>1. inst.status.observed # inst.gen
    BY <1>1, <1>3, <1>6, ObservedIsFound DEF OfTemplate
  <2> HIDE DEF n, found
  <2>2. Bound' = Bound /\ Kept' = Kept
    BY <1>6 DEF Bound, ExceedNum, Kept
  <2>3. EqualRevisions' = EqualRevisions
    BY <1>6, <2>2 DEF EqualRevisions
  <2>4. Listed'
    BY <1>1, <1>4, <1>6, <2>2 DEF Listed, Owned
  <2>5. Generations' /\ Rested' /\ SameCount'
    BY <1>1, <1>6, <2>1 DEF Past, Generations, Rested, SameCount
  <2>6. QED
    BY <1>1, <1>4, <1>6, <2>3, <2>4, <2>5 DEF Past
<1>7. CASE Return("requeued")
  BY <1>1, <1>4, <1>7, ErrorPast
<1>8. QED
  BY <1>2, <1>5, <1>6, <1>7

\* A reconcile that fails, or is lost, having written nothing.
LEMMA FailurePast ==
    ASSUME IInv, Past, UNCHANGED <<yas, revisions>>,
           NEW result \in {"requeued", "unlisted"}, Return(result)
    PROVE  Past'
<1>1. Ordered' /\ InUse(revisions', yas)
  BY DEF Past, Ordered
<1>2. QED
  BY <1>1, ErrorPast

LEMMA UpdateStatusPast ==
    ASSUME IInv, Past, staleReads = 0, UpdateStatus
    PROVE  Past'
<1>1. pc = "status" /\ revisions' = revisions
  BY DEF UpdateStatus, revisionVars
<1>2. /\ inst.status = yas.status /\ expected \in Names /\ expected # NoName
      /\ Ordered /\ Generations /\ Recorded
      /\ yas \in Object /\ inst \in Object
  BY <1>1, ConstantAssumption DEF IInv, Known, Past, ObjectTyped, ReconcileTyped
<1>3. CASE /\ yasSynced /\ yas' = [yas EXCEPT !.status = CalculatedStatus]
           /\ yasSynced' = (yas' = yas)
           /\ Return("ok") \/ Return("requeued")
  <2>1. /\ yas'.gen = yas.gen /\ yas'.template = yas.template /\ yas'.limit = yas.limit
        /\ yas'.status.observed = inst.gen /\ yas'.status.collisions = count
        /\ yas'.status.current =
              IF inst.status.current = NoName THEN expected ELSE inst.status.current
        /\ pc' = "idle" /\ (~queued' => ~queued)
    <3>1. yas'.status = CalculatedStatus
      BY <1>2, <1>3 DEF Object
    <3>2. pc' = "idle" /\ (~queued' => ~queued)
      BY <1>3 DEF Return
    <3>3. QED
      BY <1>2, <1>3, <3>1, <3>2 DEF CalculatedStatus, Object
  <2>2. Ordered'
    <3>1. \A m \in Owned(revisions) : m = yas.status.current => m = yas'.status.current
      BY <1>2, <2>1, ConstantAssumption DEF Owned
    <3>2. Owned(revisions') = Owned(revisions)
      BY <1>1
    <3>3. QED
      BY <1>1, <1>2, <3>1, <3>2 DEF Ordered
  <2>3. Generations'
    BY <1>1, <1>2, <2>1 DEF Generations
  <2>4. InUse(revisions', yas')
    <3>1. SUFFICES ASSUME inst.gen = yas.gen
                   PROVE  \/ Top(revisions, yas.template)
                          \/ OnlyLive(revisions, yas.template, yas'.status.current, count)
      BY <1>1, <2>1 DEF InUse
    <3>2. inst.template = yas.template
      BY <1>1, <1>2, <3>1 DEF Generations
    <3>3. \/ Top(revisions, inst.template)
          \/ /\ OnlyLive(revisions, inst.template, expected, count)
             /\ expected = inst.status.current
      BY <1>2 DEF Recorded
    <3>4. expected = inst.status.current => expected = yas'.status.current
      BY <1>2, <2>1
    <3>5. QED
      BY <3>2, <3>3, <3>4
  <2>5. Rested'
    <3>1. SUFFICES ASSUME ~queued, yas' = yas
                   PROVE  /\ Cardinality(Owned(revisions)) <= yas.limit + 1
                          /\ Cardinality(Owned(revisions)) <= yas.limit => Top(revisions, yas.template)
      BY <1>1, <1>3, <2>1 DEF Rested
    <3>2. inst = yas
      BY <1>1, <1>2, <1>3, <3>1 DEF Generations
    <3>3. inst.status.observed = inst.gen
      BY <2>1, <3>1, <3>2
    <3>4. Cardinality(Owned(revisions)) \in Nat /\ inst.limit \in Nat
      BY <1>2, OwnedFinite, ConstantAssumption DEF Object
    <3>5. QED
      BY <1>2, <3>2, <3>3, <3>4 DEF Recorded
  <2>6. QED
    BY <2>1, <2>2, <2>3, <2>4, <2>5 DEF Past
<1>4. CASE UNCHANGED <<yas, yasSynced>> /\ Return("requeued")
  BY <1>1, <1>4, FailurePast
<1>5. QED
  BY <1>3, <1>4 DEF UpdateStatus

\* A cache that catches up, or an event, changes nothing of the history.
LEMMA EventPast ==
    ASSUME IInv, Past, UNCHANGED <<yas, revisions, pc, inst, list, doomed, count, expected, outcome>>,
           \/ UNCHANGED <<yasSynced, queued>>
           \/ queued'
    PROVE  Past'
<1>1. Bound' = Bound /\ Kept' = Kept
  BY DEF Bound, ExceedNum, Kept
<1>2. Listed' = Listed /\ EqualRevisions' = EqualRevisions
  BY <1>1 DEF Listed, Owned, EqualRevisions
<1>3. Ordered' /\ Generations' /\ Rested'
  BY DEF Past, Ordered, Generations, Rested
<1>4. SameCount' = SameCount /\ (pc = "status" => Recorded')
  BY DEF Past, SameCount, Recorded
<1>5. QED
  BY <1>2, <1>3, <1>4 DEF Past

\* An edit makes a generation that no one has observed.
LEMMA EditSpecPast ==
    ASSUME IInv, Past, NEW t \in Templates, NEW limit \in Limits, EditSpec(t, limit)
    PROVE  Past'
<1>1. /\ yas' = [yas EXCEPT !.template = t, !.limit = limit, !.gen = @ + 1]
      /\ yasSynced' = FALSE /\ queued' = queued
      /\ UNCHANGED <<revisions, pc, inst, list, doomed, count, expected, outcome>>
  BY DEF EditSpec, revisionVars, reconcileVars
<1>2. yas \in Object /\ inst \in Object
  BY DEF IInv, ObjectTyped, ReconcileTyped
<1>3. yas'.gen = yas.gen + 1 /\ yas'.status = yas.status /\ yas.gen \in Nat /\ inst.gen \in Nat
  BY <1>1, <1>2 DEF Object
<1>4. yas.status.observed \in Nat
  BY <1>2 DEF Object, Status
<1>5. Generations' /\ yas'.status.observed # yas'.gen
  BY <1>1, <1>3, <1>4 DEF Past, Generations
<1>6. Bound' = Bound /\ Kept' = Kept
  BY <1>1 DEF Bound, ExceedNum, Kept
<1>7. Listed' = Listed /\ EqualRevisions' = EqualRevisions
  BY <1>1, <1>6 DEF Listed, Owned, EqualRevisions
<1>8. Ordered' /\ Rested' /\ SameCount' = SameCount
  BY <1>1, <1>3 DEF Past, Ordered, Rested, SameCount
<1>9. Owned(revisions') = Owned(revisions)
  BY <1>1
<1>10. pc = "status" => Recorded'
  BY <1>1, <1>9 DEF Past, Recorded
<1>11. QED
  BY <1>1, <1>5, <1>7, <1>8, <1>10 DEF Past, InUse

-----------------------------------------------------------------------------

\* It holds at the start.
LEMMA StartHistory == Init => IHistory
<1> SUFFICES ASSUME Init
             PROVE  IHistory
  OBVIOUS
<1>1. IInv
  BY Start
<1>2. /\ yas = InitialObject /\ pc = "idle" /\ outcome = "none"
      /\ revisions = [n \in Names |-> IF n \in ForeignNames THEN [data |-> Foreign, number |-> 1]
                                      ELSE Absent]
  BY DEF Init
<1>3. Owned(revisions) = {}
  BY <1>2 DEF Owned
<1>4. Ordered
  BY <1>3 DEF Ordered
<1>5. Generations /\ InUse(revisions, yas) /\ Rested
  BY <1>2 DEF Generations, InUse, Rested, InitialObject
<1>6. QED
  BY <1>1, <1>2, <1>4, <1>5 DEF IHistory, Past

\* Once a stale list was read, one has been read.
LEMMA ReadsCounted ==
    ASSUME IInv, [Next]_vars, staleReads' = 0
    PROVE  staleReads = 0
<1>1. staleReads \in Nat
  BY ConstantAssumption DEF IInv, Counted
<1>2. staleReads' \in {staleReads, staleReads + 1}
  BY DEF Next, Reconcile, ListRevisions, ListFails, SkipLive, DeleteExpired, KeepRevision, RollBack,
         StartCreate, CreateRevision, FindExisting, PoolsUnlisted, UpdateStatus, SyncYurtAppSet,
         SyncRevisions, Resync, Crash, EditSpec, vars, boundVars
<1>3. QED
  BY <1>1, <1>2

\* Every step keeps it.
LEMMA InductiveHistory ==
    ASSUME KeepsSome, IHistory, [Next]_vars
    PROVE  IHistory'
<1>1. IInv /\ IInv'
  BY Inductive DEF IHistory
<1> SUFFICES ASSUME staleReads' = 0
             PROVE  Past'
  BY <1>1 DEF IHistory
<1>2. staleReads = 0 /\ Past
  BY <1>1, ReadsCounted DEF IHistory
<1>3. CASE ListRevisions
  BY <1>1, <1>2, <1>3, ListRevisionsPast
<1>4. CASE ListFails
  BY <1>1, <1>2, <1>4, FailurePast DEF ListFails, yasVars, revisionVars
<1>5. CASE SkipLive
  BY <1>1, <1>2, <1>5, SkipLivePast
<1>6. CASE DeleteExpired
  BY <1>1, <1>2, <1>6, DeleteExpiredPast
<1>7. CASE KeepRevision
  BY <1>1, <1>2, <1>7, KeepRevisionPast
<1>8. CASE RollBack
  BY <1>1, <1>2, <1>8, RollBackPast
<1>9. CASE StartCreate
  BY <1>1, <1>2, <1>9, StartCreatePast
<1>10. CASE CreateRevision
  BY <1>1, <1>2, <1>10, CreateRevisionPast
<1>11. CASE FindExisting
  BY <1>1, <1>2, <1>11, FindExistingPast
<1>12. CASE PoolsUnlisted
  BY <1>1, <1>2, <1>12, FailurePast DEF PoolsUnlisted, yasVars, revisionVars
<1>13. CASE UpdateStatus
  BY <1>1, <1>2, <1>13, UpdateStatusPast
<1>14. CASE SyncYurtAppSet
  BY <1>1, <1>2, <1>14, EventPast DEF SyncYurtAppSet, revisionVars, reconcileVars
<1>15. CASE SyncRevisions
  BY <1>1, <1>2, <1>15, EventPast DEF SyncRevisions, yasVars, reconcileVars
<1>16. CASE Resync
  BY <1>1, <1>2, <1>16, EventPast DEF Resync, yasVars, revisionVars, reconcileVars
<1>17. CASE Crash
  BY <1>1, <1>2, <1>17, FailurePast DEF Crash
<1>18. ASSUME NEW t \in Templates, NEW limit \in Limits, EditSpec(t, limit)
       PROVE  Past'
  BY <1>1, <1>2, <1>18, EditSpecPast
<1>19. CASE UNCHANGED vars
  BY <1>1, <1>2, <1>19, EventPast DEF vars, yasVars, revisionVars, reconcileVars
<1>20. QED
  BY <1>3, <1>4, <1>5, <1>6, <1>7, <1>8, <1>9, <1>10, <1>11, <1>12, <1>13, <1>14, <1>15, <1>16,
     <1>17, <1>18, <1>19 DEF Next, Reconcile

\* The stronger invariant holds of every behaviour, unless a limit is zero.
THEOREM HistoryInvariance == KeepsSome => (Spec => []IHistory)
<1> SUFFICES ASSUME KeepsSome
             PROVE  Spec => []IHistory
  OBVIOUS
<1>1. IHistory /\ [Next]_vars => IHistory'
  BY InductiveHistory
<1>2. QED
  BY <1>1, StartHistory, PTL DEF Spec

\* Unless a stale list was read, a controller at rest after a reconcile without
\* error has brought the history within the limit, but for the live revision:
\* for every limit of one and more, however the names collide, whatever fails.
THEOREM HistoryWithinLimit == KeepsSome => (Spec => []HistoryBounded)
<1> SUFFICES ASSUME KeepsSome
             PROVE  Spec => []HistoryBounded
  OBVIOUS
<1>1. IHistory => HistoryBounded
  BY DEF IHistory, Past, Rested, HistoryBounded, Quiescent
<1>2. QED
  BY <1>1, HistoryInvariance, PTL

\* Unless a stale list was read, the template that a controller at rest has
\* rolled back to, or forward, is the data of the revision with the highest
\* number, as long as nothing is over the limit.
THEOREM RollbackAtEnd == KeepsSome => (Spec => []RollbackMovesToEnd)
<1> SUFFICES ASSUME KeepsSome
             PROVE  Spec => []RollbackMovesToEnd
  OBVIOUS
<1>1. IHistory => RollbackMovesToEnd
  BY DEF IHistory, Past, Rested, RollbackMovesToEnd, Quiescent, Top, Highest, OfTemplate
<1>2. QED
  BY <1>1, HistoryInvariance, PTL

\* What is cleaned is not the revision in use.
LEMMA DoomedNotInUse ==
    ASSUME KeepsSome, IInv, Past, staleReads = 0, DeleteExpired,
           inst.status.observed = inst.gen, NEW n \in OfTemplate(revisions, inst.template)
    PROVE  revisions'[n] # Absent
<1>1. /\ pc = "clean" /\ doomed # << >> /\ Head(doomed) # inst.status.current
      /\ Listed /\ Ordered /\ InUse(revisions, inst) /\ inst.status = yas.status
      /\ revisions \in [Names -> Revision \cup {Absent}]
  BY DEF DeleteExpired, Spared, Past, IInv, Known, RevisionsTyped
<1>2. \/ revisions' = [revisions EXCEPT ![Head(doomed)] = Absent]
      \/ revisions' = revisions
  BY DEF DeleteExpired, Write, WriteRevision, revisionVars
<1>3. n \in Owned(revisions) /\ n \in Names /\ revisions[n] # Absent
  BY DEF OfTemplate, Owned
<1>4. SUFFICES n # Head(doomed)
  BY <1>1, <1>2, <1>3
<1>5. CASE n = inst.status.current
  BY <1>1, <1>5
<1>6. CASE Highest(revisions, n)
  <2>1. Len(Kept) \in 1 .. Len(Kept) /\ n = Kept[Len(Kept)].name
    BY <1>1, <1>3, <1>6, TopIsLast
  <2>2. QED
    BY <1>1, <2>1, DoomedNotKept
<1>7. n = inst.status.current \/ Highest(revisions, n)
  <2>1. CASE Top(revisions, inst.template)
    <3>1. PICK m \in OfTemplate(revisions, inst.template) : Highest(revisions, m)
      BY <2>1 DEF Top
    <3>2. m # n => revisions[n].number < revisions[m].number
      BY <1>3, <3>1 DEF Highest
    <3>3. m # n => n = yas.status.current
      BY <1>1, <1>3, <3>1, <3>2 DEF Ordered, OfTemplate
    <3>4. QED
      BY <1>1, <3>1, <3>3
  <2>2. QED
    BY <1>1, <2>1 DEF InUse, OnlyLive
<1>8. QED
  BY <1>5, <1>6, <1>7

\* Unless a stale list was read, cleaning up never takes the revision of the
\* template whose generation the status says was observed: it is the last one,
\* or the live one.
THEOREM InUseKept == KeepsSome => (Spec => InUseRevisionKept)
<1> SUFFICES ASSUME KeepsSome
             PROVE  Spec => InUseRevisionKept
  OBVIOUS
<1>1. ASSUME IHistory, [Next]_vars
      PROVE  [\A n \in Owned(revisions) :
                /\ staleReads = 0 /\ inst.status.observed = inst.gen
                /\ revisions[n].data = inst.template
                => revisions'[n] # Absent]_vars
  <2> SUFFICES ASSUME NEW n \in Owned(revisions), staleReads = 0,
                      inst.status.observed = inst.gen, revisions[n].data = inst.template
               PROVE  revisions'[n] # Absent
    OBVIOUS
  <2>1. n \in Names /\ revisions[n] # Absent /\ n \in OfTemplate(revisions, inst.template)
    BY DEF Owned, OfTemplate
  <2>2. IInv /\ Past
    BY <1>1 DEF IHistory
  <2>3. CASE DeleteExpired
    BY <2>1, <2>2, <2>3, DoomedNotInUse
  <2>4. CASE ~DeleteExpired
    <3>1. Keeps
      BY <1>1, <2>2, <2>4, Inductive
    <3>2. QED
      BY <2>1, <3>1 DEF Keeps
  <2>5. QED
    BY <2>3, <2>4
<1>2. QED
  BY <1>1, HistoryInvariance, PTL DEF Spec, InUseRevisionKept

=============================================================================
