----------------------------- MODULE RefManager -----------------------------
(***************************************************************************)
(* Claims (src/pkg/yurtappmanager/util/refmanager): before it uses what it *)
(* listed, a controller adopts the orphans its selector matches and        *)
(* releases what it owns and its selector no longer matches.  Owners of    *)
(* different names claim side by side; an owner can be deleted and created *)
(* anew under its name.  Objects are workloads or ControllerRevisions;     *)
(* their events add nothing that the resync does not.                      *)
(***************************************************************************)
EXTENDS Integers, FiniteSets

CONSTANTS
    Uids,           \* the owners that there are in the course of time
    Names,          \* their names
    NameOf,         \* the name of each
    Born,           \* the owners there are at first
    Objects,        \* names of objects
    Labels,         \* what selectors tell objects apart by
    Selects,        \* the labels the selector of each owner matches
    ListsAll,       \* the owners whose controller lists all objects; those of
                    \* this repository list what the selector matches
    InitialLabel,   \* the label of the objects there are at first, all orphans
    Absent,         \* no object of this name
    None,           \* no owner
    Faults,         \* the faults considered, of "error", "lost", "crash"
    UserActions,    \* what users do, of "create", "delete", "relabel", "remove"
    MaxEvents       \* bound on the number of faults and user actions

\* ctrl: the controller among the owner references; deleted: there is a
\* deletion timestamp.
Object == [ctrl : Uids \cup {None}, label : Labels, deleted : BOOLEAN]

ASSUME ConstantAssumption ==
    /\ Absent \notin Object /\ None \notin Uids
    /\ NameOf \in [Uids -> Names]
    /\ Born \subseteq Uids /\ ListsAll \subseteq Uids
    /\ \A u, v \in Born : NameOf[u] = NameOf[v] => u = v
    /\ Selects \in [Uids -> SUBSET Labels]
    /\ InitialLabel \in Labels
    /\ MaxEvents \in Nat

Phases == {"unborn", "live", "terminating", "gone"}

VARIABLES
    \* the API server and its caches
    owners,      \* the phase of each owner
    ownerCache,  \* as the informer last saw it
    orphaning,   \* owners deleted with --cascade=orphan
    objs,        \* objs[o] on the server
    cache,       \* as the informers last saw it
    stale,       \* the objects written since
    \* the controllers: one reconcile per name
    queued,      \* the names in the work queues
    pc,          \* the phase of the reconcile of name n
    inst,        \* mgr.owner
    adoptees,    \* objects still to adopt
    releasees,   \* objects still to release
    fresh,       \* those of both that nobody wrote since they were read
    canAdopt,    \* what canAdoptOnce remembers: "unknown", "yes" or "no"
    failed,      \* errlist is not empty
    \* the bound
    events

ownerVars == <<owners, ownerCache, orphaning>>
claimVars == <<pc, inst, adoptees, releasees, canAdopt, failed>>
vars == <<ownerVars, objs, cache, stale, queued, claimVars, fresh, events>>

TypeOK ==
    /\ owners \in [Uids -> Phases] /\ ownerCache \in [Uids -> Phases]
    /\ orphaning \subseteq Uids
    /\ objs \in [Objects -> Object \cup {Absent}]
    /\ cache \in [Objects -> Object \cup {Absent}]
    /\ stale \subseteq Objects
    /\ queued \subseteq Names
    /\ pc \in [Names -> {"idle", "claim"}]
    /\ inst \in [Names -> Uids \cup {None}]
    /\ \A n \in Names : pc[n] = "claim" => inst[n] \in Uids /\ NameOf[inst[n]] = n
    /\ adoptees \in [Names -> SUBSET Objects]
    /\ releasees \in [Names -> SUBSET Objects]
    /\ fresh \in [Names -> SUBSET Objects]
    /\ canAdopt \in [Names -> {"unknown", "yes", "no"}]
    /\ failed \in [Names -> BOOLEAN]
    /\ events \in 0 .. MaxEvents

-----------------------------------------------------------------------------
(* What a name stands for, and what its controller lists and claims.        *)

StandingOfAnyName(phases, n) ==  \* mutant: whatever its name
    {u \in Uids : phases[u] \in {"live", "terminating"}}

Standing(phases, n) == {u \in Uids : NameOf[u] = n /\ phases[u] \in {"live", "terminating"}}

Matches(u, obj) == obj.label \in Selects[u]

Listed(u) == {o \in Objects : cache[o] # Absent /\ (u \in ListsAll \/ Matches(u, cache[o]))}

AdoptableOrOwned(u, obj) ==  \* mutant: objects of others are claimed
    obj.ctrl # u /\ Matches(u, obj) /\ ~obj.deleted

\* claimObject, on the object as it was listed.
Adoptable(u, obj) == obj.ctrl = None /\ Matches(u, obj) /\ ~obj.deleted
Releasable(u, obj) == obj.ctrl = u /\ ~Matches(u, obj)

-----------------------------------------------------------------------------
(* Writes to the API server, and the faults of a call.                      *)

Fault(kind) ==
    /\ kind \in Faults
    /\ events < MaxEvents
    /\ events' = events + 1

\* A write that changes nothing makes no new version.
WriteObject(o, value) ==
    /\ objs' = [objs EXCEPT ![o] = value]
    /\ stale' = IF objs[o] = value THEN stale ELSE stale \cup {o}
    /\ fresh' = IF objs[o] = value THEN fresh ELSE [n \in Names |-> fresh[n] \ {o}]
    /\ UNCHANGED cache

-----------------------------------------------------------------------------
(* ClaimOwnedObjects.                                                       *)

ReturnKeepingCheck(n) ==  \* mutant: what canAdoptOnce remembers is kept
    /\ pc' = [pc EXCEPT ![n] = "idle"]
    /\ inst' = [inst EXCEPT ![n] = None]
    /\ adoptees' = [adoptees EXCEPT ![n] = {}]
    /\ releasees' = [releasees EXCEPT ![n] = {}]
    /\ failed' = [failed EXCEPT ![n] = FALSE]
    /\ \/ queued' = queued
       \/ failed[n] /\ queued' = queued \cup {n}
    /\ UNCHANGED canAdopt

\* The reconcile goes on with what was claimed, or not.  After an error some
\* callers requeue the key and some do not.
Return(n) ==
    /\ pc' = [pc EXCEPT ![n] = "idle"]
    /\ inst' = [inst EXCEPT ![n] = None]
    /\ adoptees' = [adoptees EXCEPT ![n] = {}]
    /\ releasees' = [releasees EXCEPT ![n] = {}]
    /\ canAdopt' = [canAdopt EXCEPT ![n] = "unknown"]
    /\ failed' = [failed EXCEPT ![n] = FALSE]
    /\ \/ queued' = queued
       \/ failed[n] /\ queued' = queued \cup {n}

\* The owner is gone or has a deletion timestamp.
SkipDeleted(n) ==
    /\ pc[n] = "idle" /\ n \in queued
    /\ \A u \in Standing(ownerCache, n) : ownerCache[u] # "live"
    /\ queued' = queued \ {n}
    /\ UNCHANGED <<ownerVars, objs, cache, stale, claimVars, fresh, events>>

\* The objects are listed; what becomes of each is settled by the copy.
ListObjects(n) ==
    /\ pc[n] = "idle" /\ n \in queued
    /\ queued' = queued \ {n}
    /\ \E u \in Standing(ownerCache, n) :
          /\ ownerCache[u] = "live"
          /\ inst' = [inst EXCEPT ![n] = u]
          /\ adoptees' = [adoptees EXCEPT ![n] = {o \in Listed(u) : Adoptable(u, cache[o])}]
          /\ releasees' = [releasees EXCEPT ![n] = {o \in Listed(u) : Releasable(u, cache[o])}]
    /\ fresh' = [fresh EXCEPT ![n] = (adoptees'[n] \cup releasees'[n]) \ stale]
    /\ pc' = [pc EXCEPT ![n] = "claim"]
    /\ UNCHANGED <<ownerVars, objs, cache, stale, canAdopt, failed, events>>

\* canAdoptOnce, before the first adoption: the owner is read again, from
\* the cache; it has to be the same one and not deleted.
CheckOwner(n) ==
    /\ pc[n] = "claim" /\ adoptees[n] # {} /\ canAdopt[n] = "unknown"
    /\ \/ /\ canAdopt' = [canAdopt EXCEPT ![n] =
                 IF Standing(ownerCache, n) = {inst[n]} /\ ownerCache[inst[n]] = "live"
                 THEN "yes" ELSE "no"]
          /\ UNCHANGED events
       \/ /\ Fault("error")
          /\ canAdopt' = [canAdopt EXCEPT ![n] = "no"]
    /\ UNCHANGED <<ownerVars, objs, cache, stale, queued, pc, inst, adoptees, releasees,
                   failed, fresh>>

\* updateOwnee: refused if anybody wrote or deleted the object since it was
\* read.  As adopt and release wrap the error, claimObject does not see that
\* an object was not found.
UpdateOwnee(n, o, ctrl, err) ==
    \/ /\ o \in fresh[n]
       /\ WriteObject(o, [objs[o] EXCEPT !.ctrl = ctrl])
       /\ \/ ~err /\ UNCHANGED events
          \/ err /\ Fault("lost")
    \/ /\ err
       /\ \/ o \notin fresh[n] /\ UNCHANGED events
          \/ Fault("error")
       /\ UNCHANGED <<objs, cache, stale, fresh>>

\* An error does not stop the loop.
AdoptObject(n, o) ==
    /\ pc[n] = "claim" /\ o \in adoptees[n] /\ canAdopt[n] # "unknown"
    /\ \E err \in BOOLEAN :
          /\ IF canAdopt[n] = "yes" THEN UpdateOwnee(n, o, inst[n], err)
             ELSE err /\ UNCHANGED <<objs, cache, stale, fresh, events>>
          /\ failed' = [failed EXCEPT ![n] = @ \/ err]
    /\ adoptees' = [adoptees EXCEPT ![n] = @ \ {o}]
    /\ UNCHANGED <<ownerVars, queued, pc, inst, releasees, canAdopt>>

ReleaseObject(n, o) ==
    /\ pc[n] = "claim" /\ o \in releasees[n]
    /\ \E err \in BOOLEAN :
          /\ UpdateOwnee(n, o, None, err)
          /\ failed' = [failed EXCEPT ![n] = @ \/ err]
    /\ releasees' = [releasees EXCEPT ![n] = @ \ {o}]
    /\ UNCHANGED <<ownerVars, queued, pc, inst, adoptees, canAdopt>>

EndClaim(n) ==
    /\ pc[n] = "claim" /\ adoptees[n] = {} /\ releasees[n] = {}
    /\ Return(n)
    /\ UNCHANGED <<ownerVars, objs, cache, stale, fresh, events>>

Claim(n) ==
    \/ SkipDeleted(n) \/ ListObjects(n) \/ CheckOwner(n) \/ EndClaim(n)
    \/ \E o \in Objects : AdoptObject(n, o) \/ ReleaseObject(n, o)

-----------------------------------------------------------------------------
(* The informers, the manager process, users and the garbage collector.     *)

SyncOwners ==
    /\ ownerCache # owners
    /\ ownerCache' = owners
    /\ queued' = Names
    /\ UNCHANGED <<owners, orphaning, objs, cache, stale, claimVars, fresh, events>>

SyncObjects ==
    /\ stale # {}
    /\ cache' = objs /\ stale' = {}
    /\ UNCHANGED <<ownerVars, objs, queued, claimVars, fresh, events>>

\* The informers' resync period enqueues every owner again.
Resync(n) ==
    /\ pc[n] = "idle" /\ n \notin queued
    /\ queued' = queued \cup {n}
    /\ UNCHANGED <<ownerVars, objs, cache, stale, claimVars, fresh, events>>

\* The manager dies; the next one lists everything.
Crash ==
    /\ Fault("crash")
    /\ ownerCache' = owners /\ cache' = objs /\ stale' = {}
    /\ queued' = Names
    /\ pc' = [n \in Names |-> "idle"]
    /\ inst' = [n \in Names |-> None]
    /\ adoptees' = [n \in Names |-> {}] /\ releasees' = [n \in Names |-> {}]
    /\ fresh' = [n \in Names |-> {}]
    /\ canAdopt' = [n \in Names |-> "unknown"]
    /\ failed' = [n \in Names |-> FALSE]
    /\ UNCHANGED <<owners, orphaning, objs>>

UserAction(kind) ==
    /\ kind \in UserActions
    /\ events < MaxEvents
    /\ events' = events + 1
    /\ UNCHANGED <<queued, claimVars>>

CreateOwner(u) ==
    /\ UserAction("create")
    /\ owners[u] = "unborn" /\ Standing(owners, NameOf[u]) = {}
    /\ owners' = [owners EXCEPT ![u] = "live"]
    /\ UNCHANGED <<ownerCache, orphaning, objs, cache, stale, fresh>>

\* In the background, or with a deletion timestamp first, for the sake of
\* the dependents that are to go, or to stay.
DeleteOwner(u, phase, cascade) ==
    /\ UserAction("delete")
    /\ owners[u] = "live"
    /\ owners' = [owners EXCEPT ![u] = phase]
    /\ orphaning' = IF cascade THEN orphaning ELSE orphaning \cup {u}
    /\ cascade \/ phase = "terminating"
    /\ UNCHANGED <<ownerCache, objs, cache, stale, fresh>>

CreateObject(o, label) ==
    /\ UserAction("create")
    /\ objs[o] = Absent
    /\ WriteObject(o, [ctrl |-> None, label |-> label, deleted |-> FALSE])
    /\ UNCHANGED ownerVars

Relabel(o, label) ==
    /\ UserAction("relabel")
    /\ objs[o] # Absent /\ objs[o].label # label
    /\ WriteObject(o, [objs[o] EXCEPT !.label = label])
    /\ UNCHANGED ownerVars

\* An object is deleted, at once or when its finalizers are gone.
RemoveObject(o) ==
    /\ UserAction("remove")
    /\ objs[o] # Absent
    /\ \/ WriteObject(o, Absent)
       \/ WriteObject(o, [objs[o] EXCEPT !.deleted = TRUE])
    /\ UNCHANGED ownerVars

FinishRemoval(o) ==
    /\ objs[o] # Absent /\ objs[o].deleted
    /\ WriteObject(o, Absent)
    /\ UNCHANGED <<ownerVars, queued, claimVars, events>>

OwnedBy(u) == {o \in Objects : objs[o] # Absent /\ objs[o].ctrl = u}

\* The garbage collector: what an owner that is deleted owns is orphaned or
\* deleted, before or after the owner goes.
CollectGarbage(o) ==
    /\ objs[o] # Absent /\ objs[o].ctrl # None
    /\ LET u == objs[o].ctrl
       IN /\ owners[u] \in {"terminating", "gone"}
          /\ IF u \in orphaning /\ owners[u] = "terminating"
             THEN WriteObject(o, [objs[o] EXCEPT !.ctrl = None])
             ELSE WriteObject(o, Absent)
    /\ UNCHANGED <<ownerVars, queued, claimVars, events>>

FinishDeletion(u) ==
    /\ owners[u] = "terminating" /\ OwnedBy(u) = {}
    /\ owners' = [owners EXCEPT ![u] = "gone"]
    /\ UNCHANGED <<ownerCache, orphaning, objs, cache, stale, queued, claimVars, fresh, events>>

User ==
    \/ \E u \in Uids :
          \/ CreateOwner(u)
          \/ \E phase \in {"terminating", "gone"}, cascade \in BOOLEAN : DeleteOwner(u, phase, cascade)
    \/ \E o \in Objects :
          \/ RemoveObject(o)
          \/ \E label \in Labels : CreateObject(o, label) \/ Relabel(o, label)

Collector ==
    \/ \E o \in Objects : CollectGarbage(o) \/ FinishRemoval(o)
    \/ \E u \in Uids : FinishDeletion(u)

Init ==
    /\ owners = [u \in Uids |-> IF u \in Born THEN "live" ELSE "unborn"]
    /\ ownerCache = owners /\ orphaning = {}
    /\ objs = [o \in Objects |-> [ctrl |-> None, label |-> InitialLabel, deleted |-> FALSE]]
    /\ cache = objs /\ stale = {}
    /\ queued = Names
    /\ pc = [n \in Names |-> "idle"] /\ inst = [n \in Names |-> None]
    /\ adoptees = [n \in Names |-> {}] /\ releasees = [n \in Names |-> {}]
    /\ fresh = [n \in Names |-> {}]
    /\ canAdopt = [n \in Names |-> "unknown"] /\ failed = [n \in Names |-> FALSE]
    /\ events = 0

Next ==
    \/ \E n \in Names : Claim(n) \/ Resync(n)
    \/ SyncOwners \/ SyncObjects \/ Crash \/ User \/ Collector

Spec == Init /\ [][Next]_vars

\* The workers, the informers' watches, the resync timer and the garbage
\* collector keep running; users and faults owe nothing.
FairSpec ==
    /\ Spec
    /\ \A n \in Names : WF_vars(Claim(n)) /\ WF_vars(Resync(n))
    /\ WF_vars(SyncOwners) /\ WF_vars(SyncObjects) /\ WF_vars(Collector)

-----------------------------------------------------------------------------
(* Properties.                                                              *)

\* An object never passes from one controller to another: whichever caches
\* lag, answers get lost and owners are replaced under their name, somebody
\* has to release it first.
NeverStolen ==
    [][\A o \in Objects :
          objs[o] # Absent /\ objs'[o] # Absent /\ objs[o].ctrl # None
          => objs'[o].ctrl \in {objs[o].ctrl, None}]_vars

Wanted(o) == \E u \in Uids : owners[u] = "live" /\ Matches(u, objs[o])

\* Once users and faults stop, claims settle, though owners compete for an
\* object, adopt it when they are already deleted and remember what canAdopt
\* said: no object that a live owner's selector matches is left an orphan,
\* and none has an owner that is gone.
ClaimsSettle ==
    <>[](\A o \in Objects : objs[o] # Absent =>
            IF objs[o].ctrl = None THEN ~Wanted(o)
            ELSE /\ owners[objs[o].ctrl] = "live"
                 /\ objs[o].ctrl \in ListsAll => Matches(objs[o].ctrl, objs[o]))

=============================================================================
