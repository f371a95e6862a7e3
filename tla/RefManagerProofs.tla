-------------------------- MODULE RefManagerProofs --------------------------
(***************************************************************************)
(* Claims keep their types and never take an object from another owner:    *)
(* for every set of owners, names, objects and selectors, and any number   *)
(* of faults and user actions.                                             *)
(***************************************************************************)
EXTENDS RefManager, TLAPS

\* What the informers have seen is what the server has.
Seen == \A o \in Objects \ stale : cache[o] = objs[o]

\* An object nobody wrote since it was listed is still what the claim took it
\* for: an orphan to adopt, or one of the owner's to release.
Fresh ==
    \A n \in Names, o \in Objects :
        o \in fresh[n] =>
            /\ o \in adoptees[n] => objs[o] # Absent /\ objs[o].ctrl = None
            /\ o \in releasees[n] => objs[o] # Absent /\ objs[o].ctrl = inst[n]

IInv == TypeOK /\ Seen /\ Fresh

\* TypeOK by its parts: the owners, the objects, the claims.
OwnersTyped ==
    /\ owners \in [Uids -> Phases] /\ ownerCache \in [Uids -> Phases]
    /\ orphaning \subseteq Uids

ObjectsTyped ==
    /\ objs \in [Objects -> Object \cup {Absent}]
    /\ cache \in [Objects -> Object \cup {Absent}]
    /\ stale \subseteq Objects
    /\ fresh \in [Names -> SUBSET Objects]

ClaimsTyped ==
    /\ pc \in [Names -> {"idle", "claim"}]
    /\ inst \in [Names -> Uids \cup {None}]
    /\ \A n \in Names : pc[n] = "claim" => inst[n] \in Uids /\ NameOf[inst[n]] = n
    /\ adoptees \in [Names -> SUBSET Objects]
    /\ releasees \in [Names -> SUBSET Objects]
    /\ canAdopt \in [Names -> {"unknown", "yes", "no"}]
    /\ failed \in [Names -> BOOLEAN]

Counted == queued \subseteq Names /\ events \in 0 .. MaxEvents

LEMMA TypeParts == OwnersTyped' /\ ObjectsTyped' /\ ClaimsTyped' /\ Counted' => TypeOK'
BY DEF TypeOK, OwnersTyped, ObjectsTyped, ClaimsTyped, Counted

\* The step takes no object from its owner.
NoneTaken ==
    \A o \in Objects :
        objs[o] # Absent /\ objs'[o] # Absent /\ objs[o].ctrl # None
        => objs'[o].ctrl \in {objs[o].ctrl, None}

-----------------------------------------------------------------------------
(* Writes.                                                                  *)

\* A write keeps the objects' types, and what is not fresh any more is known.
LEMMA WriteKeeps ==
    ASSUME IInv, NEW o \in Objects, NEW value \in Object \cup {Absent}, WriteObject(o, value)
    PROVE  /\ ObjectsTyped' /\ Seen'
           /\ \A q \in Objects : q # o => objs'[q] = objs[q]
           /\ objs'[o] = value
           /\ \A n \in Names : fresh'[n] \subseteq fresh[n]
           /\ \A n \in Names : o \in fresh'[n] => objs'[o] = objs[o]
<1>1. TypeOK /\ Seen
  BY DEF IInv
<1>2. /\ objs' \in [Objects -> Object \cup {Absent}]
      /\ \A q \in Objects : q # o => objs'[q] = objs[q]
      /\ objs'[o] = value
  BY <1>1 DEF TypeOK, WriteObject
<1>3. /\ stale' \subseteq Objects /\ cache' = cache
      /\ fresh' \in [Names -> SUBSET Objects]
      /\ \A n \in Names : fresh'[n] \subseteq fresh[n]
  BY <1>1 DEF TypeOK, WriteObject
<1>4. Seen'
  BY <1>1, <1>2, <1>3 DEF Seen, WriteObject
<1>5. \A n \in Names : o \in fresh'[n] => objs'[o] = objs[o]
  BY <1>1, <1>2 DEF TypeOK, WriteObject
<1>6. QED
  BY <1>1, <1>2, <1>3, <1>4, <1>5 DEF TypeOK, ObjectsTyped

\* A write by anybody leaves what is fresh as the claims take it for.
LEMMA WriteKeepsFresh ==
    ASSUME IInv, NEW o \in Objects, NEW value \in Object \cup {Absent}, WriteObject(o, value),
           \A n \in Names : /\ adoptees'[n] \subseteq adoptees[n]
                            /\ releasees'[n] \subseteq releasees[n]
                            /\ inst'[n] = inst[n]
    PROVE  Fresh'
<1>1. \A n \in Names, q \in Objects : q \in fresh'[n] => q \in fresh[n] /\ objs'[q] = objs[q]
  BY WriteKeeps
<1>2. QED
  BY <1>1 DEF IInv, Fresh

\* A change of the claims that adds nothing to them.
LEMMA ClaimsOnly ==
    ASSUME IInv, UNCHANGED <<objs, cache, stale>>,
           \A n \in Names : /\ fresh'[n] \subseteq fresh[n]
                            /\ adoptees'[n] \subseteq adoptees[n]
                            /\ releasees'[n] \subseteq releasees[n]
                            /\ inst'[n] = inst[n] \/ releasees'[n] = {}
    PROVE  Seen' /\ Fresh' /\ NoneTaken
BY DEF IInv, TypeOK, Seen, Fresh, NoneTaken

-----------------------------------------------------------------------------
(* Claims.                                                                  *)

\* The objects are listed and sorted by what the cache says of them.
LEMMA ListStep ==
    ASSUME IInv, NEW n \in Names, ListObjects(n)
    PROVE  IInv' /\ NoneTaken
<1>1. TypeOK /\ Seen /\ Fresh
  BY DEF IInv
<1>2. PICK u \in Standing(ownerCache, n) :
         /\ inst' = [inst EXCEPT ![n] = u]
         /\ adoptees' = [adoptees EXCEPT ![n] = {o \in Listed(u) : Adoptable(u, cache[o])}]
         /\ releasees' = [releasees EXCEPT ![n] = {o \in Listed(u) : Releasable(u, cache[o])}]
  BY DEF ListObjects
<1>3. u \in Uids /\ NameOf[u] = n /\ Listed(u) \subseteq Objects
  BY DEF Standing, Listed
<1>4. /\ fresh' = [fresh EXCEPT ![n] = (adoptees'[n] \cup releasees'[n]) \ stale]
      /\ pc' = [pc EXCEPT ![n] = "claim"]
      /\ queued' = queued \ {n}
      /\ UNCHANGED <<ownerVars, objs, cache, stale, canAdopt, failed, events>>
  BY DEF ListObjects
<1>5. adoptees'[n] \subseteq Objects /\ releasees'[n] \subseteq Objects
  BY <1>1, <1>2, <1>3 DEF TypeOK
<1>6. ClaimsTyped'
  BY <1>1, <1>2, <1>3, <1>4, <1>5 DEF TypeOK, ClaimsTyped
<1>7. OwnersTyped' /\ ObjectsTyped' /\ Counted'
  BY <1>1, <1>4, <1>5 DEF TypeOK, OwnersTyped, ObjectsTyped, Counted, ownerVars
<1>8. Seen' /\ NoneTaken
  BY <1>1, <1>4 DEF Seen, NoneTaken
<1>9. Fresh'
  <2> SUFFICES ASSUME NEW m \in Names, NEW o \in Objects, o \in fresh'[m]
               PROVE  /\ o \in adoptees'[m] => objs[o] # Absent /\ objs[o].ctrl = None
                      /\ o \in releasees'[m] => objs[o] # Absent /\ objs[o].ctrl = inst'[m]
    BY <1>4 DEF Fresh
  <2>1. CASE m = n
    <3>1. o \notin stale /\ cache[o] = objs[o]
      BY <1>1, <1>4, <2>1 DEF TypeOK, Seen
    <3>2. inst'[m] = u
      BY <1>1, <1>2, <2>1 DEF TypeOK
    <3>3. /\ o \in adoptees'[m] => o \in Listed(u) /\ Adoptable(u, cache[o])
          /\ o \in releasees'[m] => o \in Listed(u) /\ Releasable(u, cache[o])
      BY <1>1, <1>2, <2>1 DEF TypeOK
    <3>4. QED
      BY <3>1, <3>2, <3>3 DEF Listed, Adoptable, Releasable
  <2>2. CASE m # n
    BY <1>1, <1>2, <1>4, <2>2 DEF TypeOK, Fresh
  <2>3. QED
    BY <2>1, <2>2
<1>10. QED
  BY <1>6, <1>7, <1>8, <1>9, TypeParts DEF IInv

\* Steps of a claim that write no object: the key is skipped, the owner is
\* read again, the claim ends.
LEMMA ReadStep ==
    ASSUME IInv, NEW n \in Names, SkipDeleted(n) \/ CheckOwner(n) \/ EndClaim(n)
    PROVE  IInv' /\ NoneTaken
<1>1. TypeOK
  BY DEF IInv
<1>2. UNCHANGED <<objs, cache, stale, fresh, ownerVars>>
  BY DEF SkipDeleted, CheckOwner, EndClaim
<1>3. Seen' /\ Fresh' /\ NoneTaken
  <2>1. \A m \in Names : /\ adoptees'[m] \subseteq adoptees[m]
                         /\ releasees'[m] \subseteq releasees[m]
                         /\ inst'[m] = inst[m] \/ releasees'[m] = {}
    BY <1>1 DEF TypeOK, SkipDeleted, CheckOwner, EndClaim, Return, claimVars
  <2>2. QED
    BY <1>2, <2>1, ClaimsOnly
<1>4. ClaimsTyped'
  BY <1>1 DEF TypeOK, ClaimsTyped, SkipDeleted, CheckOwner, EndClaim, Return, claimVars
<1>5. Counted'
  BY <1>1, ConstantAssumption
  DEF TypeOK, Counted, SkipDeleted, CheckOwner, EndClaim, Return, Fault
<1>6. OwnersTyped' /\ ObjectsTyped'
  BY <1>1, <1>2 DEF TypeOK, OwnersTyped, ObjectsTyped, ownerVars
<1>7. QED
  BY <1>3, <1>4, <1>5, <1>6, TypeParts DEF IInv

\* The answer to an update, or its failure: only a fresh object is written,
\* and its controller with it.
LEMMA UpdateOwneeKeeps ==
    ASSUME IInv, NEW n \in Names, NEW o \in Objects, NEW ctrl \in Uids \cup {None},
           NEW err \in BOOLEAN, UpdateOwnee(n, o, ctrl, err),
           o \in fresh[n] => objs[o] # Absent /\ (objs[o].ctrl = None \/ ctrl = None),
           \A m \in Names : /\ adoptees'[m] \subseteq adoptees[m]
                            /\ releasees'[m] \subseteq releasees[m]
                            /\ inst'[m] = inst[m]
    PROVE  /\ ObjectsTyped' /\ Seen' /\ Fresh' /\ NoneTaken
           /\ events' \in 0 .. MaxEvents
<1>1. TypeOK
  BY DEF IInv
<1>2. events' \in 0 .. MaxEvents
  BY <1>1, ConstantAssumption DEF TypeOK, UpdateOwnee, Fault
<1>3. CASE UNCHANGED <<objs, cache, stale, fresh>>
  <2>1. Seen' /\ Fresh' /\ NoneTaken
    BY <1>3, ClaimsOnly
  <2>2. QED
    BY <1>1, <1>2, <1>3, <2>1 DEF TypeOK, ObjectsTyped
<1>4. CASE o \in fresh[n] /\ WriteObject(o, [objs[o] EXCEPT !.ctrl = ctrl])
  <2>1. objs[o] \in Object
    BY <1>1, <1>4 DEF TypeOK
  <2> DEFINE value == [objs[o] EXCEPT !.ctrl = ctrl]
  <2>2. value \in Object /\ value.ctrl = ctrl
    BY <2>1 DEF Object
  <2> HIDE DEF value
  <2>3. WriteObject(o, value)
    BY <1>4 DEF value
  <2>4. ObjectsTyped' /\ Seen' /\ Fresh'
    BY <2>2, <2>3, WriteKeeps, WriteKeepsFresh
  <2>5. NoneTaken
    BY <1>4, <2>2, <2>3, WriteKeeps DEF NoneTaken
  <2>6. QED
    BY <1>2, <2>4, <2>5
<1>5. QED
  BY <1>3, <1>4 DEF UpdateOwnee

\* Only an orphan is adopted.
LEMMA AdoptStep ==
    ASSUME IInv, NEW n \in Names, NEW o \in Objects, AdoptObject(n, o)
    PROVE  IInv' /\ NoneTaken
<1>1. TypeOK /\ inst[n] \in Uids
  BY DEF IInv, TypeOK, AdoptObject
<1>2. PICK err \in BOOLEAN :
         /\ IF canAdopt[n] = "yes" THEN UpdateOwnee(n, o, inst[n], err)
            ELSE err /\ UNCHANGED <<objs, cache, stale, fresh, events>>
         /\ failed' = [failed EXCEPT ![n] = @ \/ err]
  BY DEF AdoptObject
<1>3. /\ adoptees' = [adoptees EXCEPT ![n] = @ \ {o}]
      /\ UNCHANGED <<ownerVars, queued, pc, inst, releasees, canAdopt>>
  BY DEF AdoptObject
<1>4. \A m \in Names : /\ adoptees'[m] \subseteq adoptees[m]
                       /\ releasees'[m] \subseteq releasees[m]
                       /\ inst'[m] = inst[m]
  BY <1>1, <1>3 DEF TypeOK
<1>5. o \in fresh[n] => objs[o] # Absent /\ objs[o].ctrl = None
  BY DEF IInv, Fresh, AdoptObject
<1>6. ObjectsTyped' /\ Seen' /\ Fresh' /\ NoneTaken /\ events' \in 0 .. MaxEvents
  <2>1. CASE canAdopt[n] = "yes"
    BY <1>1, <1>2, <1>4, <1>5, <2>1, UpdateOwneeKeeps
  <2>2. CASE canAdopt[n] # "yes"
    BY <1>1, <1>2, <1>4, <2>2, ClaimsOnly DEF TypeOK, ObjectsTyped
  <2>3. QED
    BY <2>1, <2>2
<1>7. ClaimsTyped' /\ OwnersTyped' /\ queued' \subseteq Names
  BY <1>1, <1>2, <1>3 DEF TypeOK, ClaimsTyped, OwnersTyped, ownerVars
<1>8. QED
  BY <1>6, <1>7, TypeParts DEF IInv, Counted

\* Only what the owner owns is released.
LEMMA ReleaseStep ==
    ASSUME IInv, NEW n \in Names, NEW o \in Objects, ReleaseObject(n, o)
    PROVE  IInv' /\ NoneTaken
<1>1. TypeOK
  BY DEF IInv
<1>2. PICK err \in BOOLEAN :
         /\ UpdateOwnee(n, o, None, err)
         /\ failed' = [failed EXCEPT ![n] = @ \/ err]
  BY DEF ReleaseObject
<1>3. /\ releasees' = [releasees EXCEPT ![n] = @ \ {o}]
      /\ UNCHANGED <<ownerVars, queued, pc, inst, adoptees, canAdopt>>
  BY DEF ReleaseObject
<1>4. \A m \in Names : /\ adoptees'[m] \subseteq adoptees[m]
                       /\ releasees'[m] \subseteq releasees[m]
                       /\ inst'[m] = inst[m]
  BY <1>1, <1>3 DEF TypeOK
<1>5. o \in fresh[n] => objs[o] # Absent
  BY DEF IInv, Fresh, ReleaseObject
<1>6. ObjectsTyped' /\ Seen' /\ Fresh' /\ NoneTaken /\ events' \in 0 .. MaxEvents
  BY <1>2, <1>4, <1>5, UpdateOwneeKeeps
<1>7. ClaimsTyped' /\ OwnersTyped' /\ queued' \subseteq Names
  BY <1>1, <1>2, <1>3 DEF TypeOK, ClaimsTyped, OwnersTyped, ownerVars
<1>8. QED
  BY <1>6, <1>7, TypeParts DEF IInv, Counted

-----------------------------------------------------------------------------
(* Informers, crashes, users and the garbage collector.                     *)

\* The actions of users are bounded.
LEMMA UserCounted ==
    ASSUME TypeOK, NEW kind, UserAction(kind)
    PROVE  events' \in 0 .. MaxEvents
BY ConstantAssumption DEF TypeOK, UserAction

\* Events, the resync timer and the changes of owners write no object.
LEMMA SyncStep ==
    ASSUME IInv,
           \/ SyncOwners \/ SyncObjects \/ Crash
           \/ \E n \in Names : Resync(n)
           \/ \E u \in Uids : \/ CreateOwner(u) \/ FinishDeletion(u)
                              \/ \E phase \in {"terminating", "gone"}, cascade \in BOOLEAN :
                                    DeleteOwner(u, phase, cascade)
    PROVE  IInv' /\ NoneTaken
<1>1. TypeOK /\ Seen /\ Fresh
  BY DEF IInv
<1>2. CASE SyncOwners \/ SyncObjects \/ Crash \/ \E n \in Names : Resync(n)
  <2>1. OwnersTyped'
    BY <1>1, <1>2 DEF TypeOK, OwnersTyped, SyncOwners, SyncObjects, Crash, Resync, ownerVars
  <2>2. ObjectsTyped' /\ objs' = objs
    BY <1>1, <1>2 DEF TypeOK, ObjectsTyped, SyncOwners, SyncObjects, Crash, Resync
  <2>3. ClaimsTyped'
    <3>1. CASE UNCHANGED claimVars
      BY <1>1, <3>1 DEF TypeOK, ClaimsTyped, claimVars
    <3>2. CASE Crash
      BY <3>2 DEF ClaimsTyped, Crash
    <3>3. QED
      BY <1>2, <3>1, <3>2 DEF SyncOwners, SyncObjects, Resync
  <2>4. Counted'
    BY <1>1, <1>2, ConstantAssumption
    DEF TypeOK, Counted, SyncOwners, SyncObjects, Crash, Resync, Fault
  <2>5. Seen' /\ Fresh' /\ NoneTaken
    BY <1>1, <1>2, <2>2
    DEF TypeOK, Seen, Fresh, NoneTaken, SyncOwners, SyncObjects, Crash, Resync, claimVars
  <2>6. QED
    BY <2>1, <2>2, <2>3, <2>4, <2>5, TypeParts DEF IInv
<1>3. ASSUME NEW u \in Uids,
             \/ CreateOwner(u) \/ FinishDeletion(u)
             \/ \E phase \in {"terminating", "gone"}, cascade \in BOOLEAN :
                   DeleteOwner(u, phase, cascade)
      PROVE  IInv' /\ NoneTaken
  <2>1. UNCHANGED <<ownerCache, objs, cache, stale, queued, claimVars, fresh>>
    BY <1>3 DEF CreateOwner, DeleteOwner, FinishDeletion, UserAction
  <2>2. OwnersTyped'
    BY <1>1, <1>3, <2>1
    DEF TypeOK, OwnersTyped, CreateOwner, DeleteOwner, FinishDeletion, Phases
  <2>3. Counted'
    <3>1. events' = events \/ \E kind : UserAction(kind)
      BY <1>3 DEF CreateOwner, DeleteOwner, FinishDeletion
    <3>2. QED
      BY <1>1, <2>1, <3>1, UserCounted DEF TypeOK, Counted
  <2>4. ObjectsTyped' /\ ClaimsTyped'
    BY <1>1, <2>1 DEF TypeOK, ObjectsTyped, ClaimsTyped, claimVars
  <2>5. Seen' /\ Fresh' /\ NoneTaken
    BY <1>1, <2>1 DEF Seen, Fresh, NoneTaken, claimVars
  <2>6. QED
    BY <2>2, <2>3, <2>4, <2>5, TypeParts DEF IInv
<1>4. QED
  BY <1>2, <1>3

\* What others write in an object leaves its controller as it is, or takes it
\* away: only new objects, which have none, come with one of their own.
LEMMA OthersWrite ==
    ASSUME IInv, NEW o \in Objects, NEW value \in Object \cup {Absent}, WriteObject(o, value),
           objs[o] # Absent /\ value # Absent => value.ctrl \in {objs[o].ctrl, None},
           UNCHANGED <<ownerVars, queued, claimVars>>, events' \in 0 .. MaxEvents
    PROVE  IInv' /\ NoneTaken
<1>1. TypeOK
  BY DEF IInv
<1>2. ObjectsTyped' /\ Seen'
  BY WriteKeeps
<1>3. Fresh'
  BY WriteKeepsFresh DEF claimVars
<1>4. OwnersTyped' /\ ClaimsTyped' /\ Counted'
  BY <1>1 DEF TypeOK, OwnersTyped, ClaimsTyped, Counted, ownerVars, claimVars
<1>5. NoneTaken
  BY WriteKeeps DEF NoneTaken
<1>6. QED
  BY <1>2, <1>3, <1>4, <1>5, TypeParts DEF IInv

\* Users and the garbage collector write objects like that.
LEMMA OthersStep ==
    ASSUME IInv, NEW o \in Objects,
           \/ RemoveObject(o) \/ CollectGarbage(o) \/ FinishRemoval(o)
           \/ \E label \in Labels : CreateObject(o, label) \/ Relabel(o, label)
    PROVE  IInv' /\ NoneTaken
<1>1. TypeOK /\ (objs[o] # Absent => objs[o] \in Object)
  BY DEF IInv, TypeOK
<1>2. UNCHANGED <<ownerVars, queued, claimVars>>
  BY DEF RemoveObject, CollectGarbage, FinishRemoval, CreateObject, Relabel, UserAction
<1>3. events' \in 0 .. MaxEvents
  <2>1. events' = events \/ \E kind : UserAction(kind)
    BY DEF RemoveObject, CollectGarbage, FinishRemoval, CreateObject, Relabel
  <2>2. QED
    BY <1>1, <2>1, UserCounted DEF TypeOK
<1>4. ASSUME NEW value \in Object \cup {Absent}, WriteObject(o, value),
             objs[o] # Absent /\ value # Absent => value.ctrl \in {objs[o].ctrl, None}
      PROVE  IInv' /\ NoneTaken
  BY <1>2, <1>3, <1>4, OthersWrite
<1>5. CASE WriteObject(o, Absent)
  BY <1>4, <1>5
<1>6. CASE objs[o] # Absent /\ WriteObject(o, [objs[o] EXCEPT !.deleted = TRUE])
  <2>1. PICK value : value = [objs[o] EXCEPT !.deleted = TRUE]
    OBVIOUS
  <2>2. value \in Object /\ value.ctrl = objs[o].ctrl
    BY <1>1, <1>6, <2>1 DEF Object
  <2>3. QED
    BY <1>4, <1>6, <2>1, <2>2
<1>7. CASE objs[o] # Absent /\ WriteObject(o, [objs[o] EXCEPT !.ctrl = None])
  <2>1. PICK value : value = [objs[o] EXCEPT !.ctrl = None]
    OBVIOUS
  <2>2. value \in Object /\ value.ctrl = None
    BY <1>1, <1>7, <2>1 DEF Object
  <2>3. QED
    BY <1>4, <1>7, <2>1, <2>2
<1>8. ASSUME NEW label \in Labels, CreateObject(o, label)
      PROVE  IInv' /\ NoneTaken
  <2>1. objs[o] = Absent
    BY <1>8 DEF CreateObject
  <2>2. PICK value : value = [ctrl |-> None, label |-> label, deleted |-> FALSE]
    OBVIOUS
  <2>3. value \in Object /\ WriteObject(o, value)
    BY <1>8, <2>2 DEF CreateObject, Object
  <2>4. QED
    BY <1>4, <2>1, <2>3
<1>9. ASSUME NEW label \in Labels, Relabel(o, label)
      PROVE  IInv' /\ NoneTaken
  <2>1. PICK value : value = [objs[o] EXCEPT !.label = label]
    OBVIOUS
  <2>2. value \in Object /\ value.ctrl = objs[o].ctrl
    BY <1>1, <1>9, <2>1 DEF Relabel, Object
  <2>3. WriteObject(o, value)
    BY <1>9, <2>1 DEF Relabel
  <2>4. QED
    BY <1>4, <2>2, <2>3
<1>10. QED
  <2>1. CASE RemoveObject(o)
    BY <1>5, <1>6, <2>1 DEF RemoveObject
  <2>2. CASE CollectGarbage(o)
    BY <1>5, <1>7, <2>2 DEF CollectGarbage
  <2>3. CASE FinishRemoval(o)
    BY <1>5, <2>3 DEF FinishRemoval
  <2>4. QED
    BY <1>8, <1>9, <2>1, <2>2, <2>3

-----------------------------------------------------------------------------
(* Theorems.                                                                *)

\* At first every object is an orphan and no claim runs.
LEMMA InitInvariant == Init => IInv
<1> SUFFICES ASSUME Init PROVE IInv
  OBVIOUS
<1>1. objs \in [Objects -> Object \cup {Absent}]
  BY ConstantAssumption DEF Init, Object
<1>2. TypeOK
  <2>1. OwnersTyped
    BY ConstantAssumption DEF Init, OwnersTyped, Phases
  <2>2. ObjectsTyped
    BY <1>1 DEF Init, ObjectsTyped
  <2>3. ClaimsTyped
    BY DEF Init, ClaimsTyped
  <2>4. queued \subseteq Names /\ events \in 0 .. MaxEvents
    BY ConstantAssumption DEF Init
  <2>5. QED
    BY <2>1, <2>2, <2>3, <2>4 DEF TypeOK, OwnersTyped, ObjectsTyped, ClaimsTyped
<1>3. Seen /\ Fresh
  BY DEF Init, Seen, Fresh
<1>4. QED
  BY <1>2, <1>3 DEF IInv

\* Every step keeps the inductive invariant and takes no object from its owner.
LEMMA Step ==
    ASSUME IInv, [Next]_vars
    PROVE  IInv' /\ (NoneTaken \/ UNCHANGED vars)
<1>1. CASE UNCHANGED vars
  <2>1. TypeOK' /\ Seen' /\ Fresh'
    BY <1>1 DEF IInv, TypeOK, Seen, Fresh, vars, ownerVars, claimVars
  <2>2. QED
    BY <1>1, <2>1 DEF IInv
<1>2. ASSUME NEW n \in Names, Claim(n)
      PROVE  IInv' /\ NoneTaken
  BY <1>2, ReadStep, ListStep, AdoptStep, ReleaseStep DEF Claim
<1>3. CASE User \/ Collector
  BY <1>3, SyncStep, OthersStep DEF User, Collector
<1>4. CASE SyncOwners \/ SyncObjects \/ Crash \/ \E n \in Names : Resync(n)
  BY <1>4, SyncStep
<1>5. QED
  BY <1>1, <1>2, <1>3, <1>4 DEF Next

\* Every reachable state satisfies the inductive invariant.
THEOREM Invariance == Spec => []IInv
BY InitInvariant, Step, PTL DEF Spec

\* All variables keep their types; in particular a claim that runs is one of
\* an owner of the name it was enqueued under.
THEOREM TypeCorrect == Spec => []TypeOK
<1>1. IInv => TypeOK
  BY DEF IInv
<1>2. QED
  BY Invariance, <1>1, PTL

\* No object passes from one controller to another without being released
\* first, whichever caches lag and owners are replaced.
THEOREM NothingStolen == Spec => NeverStolen
<1>1. IInv /\ [Next]_vars =>
        [\A o \in Objects :
           objs[o] # Absent /\ objs'[o] # Absent /\ objs[o].ctrl # None
           => objs'[o].ctrl \in {objs[o].ctrl, None}]_vars
  BY Step DEF NoneTaken
<1>2. QED
  BY Invariance, <1>1, PTL DEF Spec, NeverStolen

=============================================================================
