-------------------------- MODULE RevisionHistory --------------------------
(***************************************************************************)
(* The ControllerRevisions of a YurtAppSet (src/pkg/yurtappmanager/        *)
(* controller/yurtappset/revision.go): the part of Reconcile that names    *)
(* the current workload template, cleans the history and records the       *)
(* outcome in the status.  What Reconcile does with the pools in between   *)
(* is module YurtAppSet.  UnitedDeployment and YurtAppDaemon have the same *)
(* code.                                                                   *)
(***************************************************************************)
EXTENDS Integers, Sequences, FiniteSets, SequencesExt

CONSTANTS
    Templates,        \* workload templates: the data of a revision
    InitialTemplate,
    Names,            \* names of ControllerRevisions
    MaxCount,         \* the largest collision count considered
    Hash,             \* Hash[<<t, k>>]: the name hashed from t and the collision count k
    ForeignNames,     \* names in use by revisions of other owners
    Foreign,          \* the data of those
    Absent, NoName,
    Limits,           \* values of spec.revisionHistoryLimit
    InitialLimit,
    Faults,           \* of "error", "lost", "crash"
    MaxFaults, MaxEdits, MaxStaleReads

Revision == [data : Templates \cup {Foreign}, number : Nat]

ASSUME ConstantAssumption ==
    /\ InitialTemplate \in Templates
    /\ Foreign \notin Templates
    /\ ForeignNames \subseteq Names /\ IsFiniteSet(Names)
    /\ Absent \notin Revision
    /\ NoName \notin Names
    /\ Limits \subseteq Nat /\ InitialLimit \in Limits
    /\ MaxFaults \in Nat /\ MaxEdits \in Nat /\ MaxStaleReads \in Nat

\* Names may collide, but for the largest count they do not.
ASSUME HashAssumption ==
    /\ MaxCount \in Nat
    /\ Hash \in [Templates \X (0 .. MaxCount) -> Names]
    /\ \A t \in Templates :
          /\ Hash[<<t, MaxCount>>] \notin ForeignNames
          /\ \A u \in Templates \ {t}, k \in 0 .. MaxCount : Hash[<<t, MaxCount>>] # Hash[<<u, k>>]

Status == [observed : Nat, current : Names \cup {NoName}, collisions : 0 .. MaxCount]
Object == [gen : Nat, template : Templates, limit : Limits, status : Status]
Entry == [name : Names, rev : Revision, old : BOOLEAN]

VARIABLES
    yas, yasCache, yasSynced,   \* the YurtAppSet, and its informer's copy
    revisions, cache, stale,    \* revisions by name, the informer's copy, and
                                \* the names written since it was last synced
    queued,     \* the key is in the work queue
    pc,         \* the phase of the running reconcile
    inst,       \* the YurtAppSet as it was read
    list,       \* sortedRevisions, then what is left of them
    doomed,     \* the expired names cleanExpiredRevision has still to go through
    count,      \* collisionCount
    expected,   \* updateRevision
    outcome,    \* how the last reconcile ended
    faults, edits, staleReads

yasVars == <<yas, yasCache, yasSynced>>
revisionVars == <<revisions, cache, stale>>
reconcileVars == <<pc, inst, list, doomed, count, expected, outcome>>
boundVars == <<faults, edits, staleReads>>
vars == <<yasVars, revisionVars, queued, reconcileVars, boundVars>>

TypeOK ==
    /\ yas \in Object /\ yasCache \in Object /\ yasSynced \in BOOLEAN
    /\ revisions \in [Names -> Revision \cup {Absent}]
    /\ cache \in [Names -> Revision \cup {Absent}]
    /\ stale \in SUBSET Names
    /\ queued \in BOOLEAN
    /\ pc \in {"idle", "clean", "create", "status"}
    /\ inst \in Object
    /\ list \in Seq(Entry)
    /\ doomed \in Seq(Names)
    /\ count \in 0 .. MaxCount
    /\ expected \in Names \cup {NoName}
    /\ outcome \in {"none", "ok", "requeued", "unlisted"}
    /\ faults \in 0 .. MaxFaults /\ edits \in 0 .. MaxEdits
    /\ staleReads \in 0 .. MaxStaleReads

\* The revisions this YurtAppSet controls, in one copy of the cluster.
Owned(copy) == {n \in Names : copy[n] # Absent /\ copy[n].data # Foreign}

-----------------------------------------------------------------------------

Fault(kind) ==
    /\ kind \in Faults
    /\ faults < MaxFaults
    /\ faults' = faults + 1

WriteRevision(n, value) ==
    /\ revisions' = [revisions EXCEPT ![n] = value]
    /\ stale' = IF revisions[n] = value THEN stale ELSE stale \cup {n}
    /\ UNCHANGED cache

\* A call that writes value under n and that the server accepts if acceptable.
\* A lost answer is an error, though the server has done the work.
Write(n, value, acceptable, err) ==
    \/ /\ acceptable
       /\ WriteRevision(n, value)
       /\ \/ ~err /\ UNCHANGED faults
          \/ err /\ Fault("lost")
    \/ /\ err
       /\ \/ ~acceptable /\ UNCHANGED faults
          \/ Fault("error")
       /\ UNCHANGED revisionVars

InitialObject ==
    [gen |-> 1, template |-> InitialTemplate, limit |-> InitialLimit,
     status |-> [observed |-> 0, current |-> NoName, collisions |-> 0]]

Return(result) ==
    /\ pc' = "idle"
    /\ outcome' = result
    /\ inst' = InitialObject
    /\ list' = <<>> /\ doomed' = <<>>
    /\ count' = 0
    /\ expected' = NoName
    /\ queued' = (queued \/ result = "requeued")

\* controlledHistories and SortControllerRevisions: by number.  The order of
\* equal numbers (creation time, then name) is left open.
SortedRevisions ==
    {s \in SetToSeqs(Owned(cache)) :
        \A i, j \in 1 .. Len(s) : i < j => cache[s[i]].number <= cache[s[j]].number}

\* How many revisions are over the limit; the first ones are.
ExceedNum(names, limit) == IF Len(names) > limit THEN Len(names) - limit ELSE 0

ExpiredByCount(names, limit) ==  \* mutant: a live one does not use up the excess
    LET rest == SelectSeq(names, LAMBDA n : n # yasCache.status.current)
    IN SubSeq(rest, 1, IF ExceedNum(names, limit) < Len(rest) THEN ExceedNum(names, limit) ELSE Len(rest))

ExpiredBeforeLive(names, limit) ==  \* mutant: stops at a live revision
    IF names # <<>> /\ Head(names) = yasCache.status.current THEN <<>>
    ELSE SubSeq(names, 1, ExceedNum(names, limit))

Expired(names, limit) == SubSeq(names, 1, ExceedNum(names, limit))

NotSpared(n) == FALSE  \* mutant: nothing counts as live

\* Live: the revision the status names, as it was read.
Spared(n) == n = inst.status.current

\* constructYurtAppSetRevisions begins: list, sort, and find what to clean.
ListRevisions ==
    /\ pc = "idle" /\ queued
    /\ queued' = FALSE
    /\ IF yasSynced /\ stale = {} THEN UNCHANGED staleReads
       ELSE staleReads < MaxStaleReads /\ staleReads' = staleReads + 1
    /\ inst' = yasCache
    /\ count' = yasCache.status.collisions
    /\ \E names \in SortedRevisions :
          /\ list' = [i \in 1 .. Len(names) |->
                         [name |-> names[i], rev |-> cache[names[i]], old |-> names[i] \in stale]]
          /\ doomed' = Expired(names, yasCache.limit)
    /\ pc' = "clean"
    /\ outcome' = "none"
    /\ UNCHANGED <<yasVars, revisionVars, expected, faults, edits>>

\* A read of the API fails.
ListFails ==
    /\ pc = "idle" /\ queued
    /\ Fault("error")
    /\ Return("requeued")
    /\ UNCHANGED <<yasVars, revisionVars, edits, staleReads>>

\* cleanExpiredRevision passes over a live one ...
SkipLive ==
    /\ pc = "clean" /\ doomed # <<>> /\ Spared(Head(doomed))
    /\ doomed' = Tail(doomed)
    /\ UNCHANGED <<yasVars, revisionVars, queued, pc, inst, list, count, expected, outcome,
                   boundVars>>

\* ... and deletes the others, one by one: NotFound is an error like any other.
DeleteExpired ==
    /\ pc = "clean" /\ doomed # <<>> /\ ~Spared(Head(doomed))
    /\ \E err \in BOOLEAN :
          /\ Write(Head(doomed), Absent, revisions[Head(doomed)] # Absent, err)
          /\ IF err THEN Return("requeued")
             ELSE /\ doomed' = Tail(doomed)
                  /\ UNCHANGED <<queued, pc, inst, list, count, expected, outcome>>
    /\ UNCHANGED <<yasVars, edits, staleReads>>

\* What is over the limit is cut off the list, live revisions as well.
Kept == SubSeq(list, ExceedNum(list, inst.limit) + 1, Len(list))

EqualRevisions == {i \in 1 .. Len(Kept) : Kept[i].rev.data = inst.template}

NextRevision == IF Kept = <<>> THEN 1 ELSE Last(Kept).rev.number + 1

Cleaned == pc = "clean" /\ doomed = <<>>

\* The last revision is that of the template: nothing has changed.
KeepRevision ==
    /\ Cleaned
    /\ Len(Kept) \in EqualRevisions
    /\ expected' = Last(Kept).name
    /\ list' = Kept
    /\ pc' = "status"
    /\ UNCHANGED <<yasVars, revisionVars, queued, inst, doomed, count, outcome, boundVars>>

RollBackSilently ==  \* mutant: an equal revision is used as it is
    /\ Cleaned
    /\ Len(Kept) \notin EqualRevisions
    /\ \E i \in EqualRevisions : expected' = Kept[i].name
    /\ list' = Kept
    /\ pc' = "status"
    /\ UNCHANGED <<yasVars, revisionVars, queued, inst, doomed, count, outcome, boundVars>>

\* An earlier revision is that of the template: it becomes the last one.
RollBack ==
    /\ Cleaned
    /\ EqualRevisions # {} /\ Len(Kept) \notin EqualRevisions
    /\ \E i \in EqualRevisions, err \in BOOLEAN :
          /\ \A j \in EqualRevisions : j <= i
          /\ Write(Kept[i].name, [Kept[i].rev EXCEPT !.number = NextRevision], ~Kept[i].old, err)
          /\ IF err THEN Return("requeued")
             ELSE /\ expected' = Kept[i].name
                  /\ list' = Kept
                  /\ pc' = "status"
                  /\ UNCHANGED <<queued, inst, doomed, count, outcome>>
    /\ UNCHANGED <<yasVars, edits, staleReads>>

\* No revision listed is that of the template: one is created.
StartCreate ==
    /\ Cleaned
    /\ EqualRevisions = {}
    /\ pc' = "create"
    /\ UNCHANGED <<yasVars, revisionVars, queued, inst, list, doomed, count, expected,
                   outcome, boundVars>>

NewName == Hash[<<inst.template, count>>]

\* createControllerRevision, an attempt under the name of the current count.
CreateRevision ==
    /\ pc = "create"
    /\ revisions[NewName] = Absent
    /\ \E err \in BOOLEAN :
          /\ Write(NewName,
                   [data |-> inst.template, number |-> NextRevision], TRUE, err)
          /\ IF err THEN Return("requeued")
             ELSE /\ expected' = NewName
                  /\ list' = Kept
                  /\ pc' = "status"
                  /\ UNCHANGED <<queued, inst, doomed, count, outcome>>
    /\ UNCHANGED <<yasVars, edits, staleReads>>

FindExistingByName ==  \* mutant: the data are not compared
    /\ pc = "create"
    /\ revisions[NewName] # Absent
    /\ expected' = NewName
    /\ list' = Kept
    /\ pc' = "status"
    /\ UNCHANGED <<yasVars, revisionVars, queued, inst, doomed, count, outcome, boundVars>>

FindExistingOrNext ==  \* mutant: what is not found in the cache is a collision
    /\ pc = "create"
    /\ revisions[NewName] # Absent
    /\ IF cache[NewName] # Absent
             /\ cache[NewName].data = inst.template
       THEN /\ expected' = NewName
            /\ list' = Kept
            /\ pc' = "status"
            /\ UNCHANGED count
       ELSE count' = count + 1 /\ UNCHANGED <<expected, list, pc>>
    /\ UNCHANGED <<yasVars, revisionVars, queued, inst, doomed, outcome, boundVars>>

\* AlreadyExists: what the cache holds under that name is taken if it is the
\* same template, otherwise the names collide; a cache that knows nothing of
\* it is an error.
FindExisting ==
    LET found == cache[NewName]
    IN /\ pc = "create"
       /\ revisions[NewName] # Absent
       /\ \/ /\ found # Absent /\ found.data = inst.template
             /\ expected' = NewName
             /\ list' = Kept
             /\ pc' = "status"
             /\ UNCHANGED <<queued, inst, doomed, count, outcome, faults>>
          \/ /\ found # Absent /\ found.data # inst.template
             /\ count' = count + 1
             /\ UNCHANGED <<queued, pc, inst, list, doomed, expected, outcome, faults>>
          \/ /\ found = Absent
             /\ Return("requeued")
             /\ UNCHANGED faults
          \/ /\ Fault("error")
             /\ Return("requeued")
       /\ UNCHANGED <<yasVars, revisionVars, edits, staleReads>>

\* The pools cannot be listed: Reconcile returns nil and writes no status.
PoolsUnlisted ==
    /\ pc = "status"
    /\ Fault("error")
    /\ Return("unlisted")
    /\ UNCHANGED <<yasVars, revisionVars, edits, staleReads>>

\* calculateStatus: the current revision is only ever set when there is none.
\* (It is then the update revision: currentRevision is found by its name.)
CalculatedStatus ==
    [observed |-> inst.gen,
     current |-> IF inst.status.current = NoName THEN expected ELSE inst.status.current,
     collisions |-> count]

UpdateStatus ==
    /\ pc = "status"
    /\ \/ /\ yasSynced
          /\ yas' = [yas EXCEPT !.status = CalculatedStatus]
          /\ yasSynced' = (yas' = yas)
          /\ \/ Return("ok") /\ UNCHANGED faults
             \/ Return("requeued") /\ Fault("lost")
       \/ /\ Return("requeued")
          /\ \/ ~yasSynced /\ UNCHANGED faults
             \/ Fault("error")
          /\ UNCHANGED <<yas, yasSynced>>
    /\ UNCHANGED <<yasCache, revisionVars, edits, staleReads>>

Reconcile ==
    \/ ListRevisions \/ ListFails \/ SkipLive \/ DeleteExpired
    \/ KeepRevision \/ RollBack \/ StartCreate \/ CreateRevision \/ FindExisting
    \/ PoolsUnlisted \/ UpdateStatus

-----------------------------------------------------------------------------

SyncYurtAppSet ==
    /\ ~yasSynced
    /\ yasCache' = yas
    /\ yasSynced' = TRUE
    /\ queued' = TRUE
    /\ UNCHANGED <<yas, revisionVars, reconcileVars, boundVars>>

\* The controller does not watch revisions: their events enqueue nothing.
SyncRevisions ==
    /\ stale # {}
    /\ cache' = revisions
    /\ stale' = {}
    /\ UNCHANGED <<yasVars, revisions, queued, reconcileVars, boundVars>>

\* A workload's event, or the resync period.
Resync ==
    /\ ~queued
    /\ queued' = TRUE
    /\ UNCHANGED <<yasVars, revisionVars, reconcileVars, boundVars>>

Crash ==
    /\ Fault("crash")
    /\ Return("requeued")
    /\ yasCache' = yas /\ yasSynced' = TRUE
    /\ cache' = revisions /\ stale' = {}
    /\ UNCHANGED <<yas, revisions, edits, staleReads>>

EditSpec(t, limit) ==
    /\ edits < MaxEdits
    /\ edits' = edits + 1
    /\ <<t, limit>> # <<yas.template, yas.limit>>
    /\ yas' = [yas EXCEPT !.template = t, !.limit = limit, !.gen = @ + 1]
    /\ yasSynced' = FALSE
    /\ UNCHANGED <<yasCache, revisionVars, queued, reconcileVars, faults, staleReads>>

Init ==
    /\ yas = InitialObject /\ yasCache = InitialObject /\ yasSynced = TRUE
    /\ revisions = [n \in Names |-> IF n \in ForeignNames THEN [data |-> Foreign, number |-> 1]
                                    ELSE Absent]
    /\ cache = revisions
    /\ stale = {}
    /\ queued = TRUE
    /\ pc = "idle" /\ inst = InitialObject /\ list = <<>> /\ doomed = <<>>
    /\ count = 0 /\ expected = NoName /\ outcome = "none"
    /\ faults = 0 /\ edits = 0 /\ staleReads = 0

Next ==
    \/ Reconcile
    \/ SyncYurtAppSet \/ SyncRevisions \/ Resync \/ Crash
    \/ \E t \in Templates, limit \in Limits : EditSpec(t, limit)

Spec == Init /\ [][Next]_vars

\* The worker, the informers and the resync timer keep running.
FairSpec ==
    /\ Spec
    /\ WF_vars(Reconcile)
    /\ WF_vars(SyncYurtAppSet) /\ WF_vars(SyncRevisions)
    /\ WF_vars(Resync)

-----------------------------------------------------------------------------

\* Unless a stale list was read, the name handed to the pools is that of a
\* revision of the template, not of another template's or another owner's,
\* however the names collide and whatever the cache missed since the list.
\* (A stale list may hold a revision that was deleted and whose name another
\* template has since.)
ExpectedIsTemplate ==
    pc = "status" /\ staleReads = 0 =>
        /\ revisions[expected] # Absent
        /\ revisions[expected].data = inst.template

\* Nothing is queued, running or on its way to a cache.
Quiescent == pc = "idle" /\ ~queued /\ yasSynced /\ stale = {}

\* As long as no stale list was read, a controller at rest after a reconcile
\* without error has brought the history within the limit, but for the live
\* revision: the status written when a revision is created makes for one more
\* reconcile, which cleans up.
HistoryBounded ==
    staleReads = 0 /\ Quiescent /\ outcome = "ok" => Cardinality(Owned(revisions)) <= yas.limit + 1

\* As long as no reconcile started from stale caches, lost answers and crashes
\* notwithstanding: cleaning up never takes the revision that the pools run,
\* that of the template whose generation the status says was observed, ...
InUseRevisionKept ==
    [][\A n \in Owned(revisions) :
         /\ staleReads = 0 /\ inst.status.observed = inst.gen
         /\ revisions[n].data = inst.template
         => revisions'[n] # Absent]_vars

\* ... nor the revision that the status names.  (A stale list may order two
\* revisions of the same number, a stale status may name none.)
CurrentRevisionKept ==
    [][\A n \in Owned(revisions) :
         staleReads = 0 /\ n = yas.status.current => revisions'[n] # Absent]_vars

\* As long as nothing expires and no stale list was read, a rollback moves the
\* revision to the end of the history, alone with the highest number.
RollbackMovesToEnd ==
    (staleReads = 0 /\ Quiescent /\ outcome = "ok" /\ Cardinality(Owned(revisions)) <= yas.limit) =>
        \E n \in Owned(revisions) :
            /\ revisions[n].data = yas.template
            /\ \A m \in Owned(revisions) \ {n} : revisions[m].number < revisions[n].number

\* Once nobody edits the template any more, it has a revision for good, and
\* the status says that it was observed.  (It may have two: a live revision cut
\* off the list is not found equal, and a collision since gives it a new name.)
Settles ==
    <>[](/\ yas.status.observed = yas.gen
         /\ \E n \in Owned(revisions) : revisions[n].data = yas.template)
=============================================================================
