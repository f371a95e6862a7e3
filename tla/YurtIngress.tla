---------------------------- MODULE YurtIngress ----------------------------
(***************************************************************************)
(* The YurtIngress controller (src/pkg/yurtappmanager/controller/          *)
(* yurtingress), its webhook (webhook/yurtingress) and the helpers it      *)
(* creates and deletes the add-on's objects with (util/kubernetes).        *)
(* YurtIngresses are read from the API server itself; the controller       *)
(* Deployments and the namespace are read through informer caches.  Each   *)
(* call of a helper is a step: three reconciles run at a time, and         *)
(* nothing keeps one from deleting what another creates.  Images and       *)
(* addresses count only as what differs between a specification and the    *)
(* status.                                                                 *)
(***************************************************************************)
EXTENDS Integers, FiniteSets, Sequences

CONSTANTS
    Ings,           \* names of YurtIngresses; a deleted one does not come back
    Pools,          \* node pools; all of them exist
    Replicas,       \* replica counts per pool
    Images,         \* images of the ingress controller
    CertGens,       \* images of the certificate jobs
    IPs,            \* lists of addresses
    Specs,          \* the specifications users write for each YurtIngress
    InitialIng,     \* the YurtIngress just created
    InitialSpec,    \* and its specification
    Unborn,         \* no object of this name yet
    Absent,         \* no object of this name
    Faults,         \* the faults considered, of "error", "crash"
    Parts,          \* what a pool is given besides its Deployment, in order
    UserActions,    \* of "create", "edit", "overlap", "delete", "remove"
    MaxEvents       \* bound on the number of faults and user actions

IngressSpec == UNION {[replicas : Replicas, image : Images, certgen : CertGens,
                       pools : [ps -> IPs]] : ps \in SUBSET Pools}

ASSUME ConstantAssumption ==
    /\ Replicas \subseteq Nat \ {0}
    /\ InitialIng \in Ings /\ InitialSpec \in Specs[InitialIng]
    /\ \A y \in Ings : Specs[y] \subseteq IngressSpec
    /\ IsFiniteSet(Ings) /\ IsFiniteSet(Pools)
    /\ Absent \notin Ings \cup Pools
    /\ MaxEvents \in Nat

\* Conditions: the pools listed, as ready or not, with their addresses.
Conditions == UNION {[ps -> [ready : BOOLEAN, ips : IPs]] : ps \in SUBSET Pools}
Status == [conditions : Conditions, replicas : Replicas \cup {Absent},
           image : Images \cup {Absent}, certgen : CertGens \cup {Absent},
           readyNum : Nat, unreadyNum : Nat]
Ingress == [spec : IngressSpec, status : Status, finalizer : BOOLEAN, deleted : BOOLEAN]

\* conds: the Deployment controller has set conditions; up: ready replicas.
Deployment == [owner : Ings, replicas : Replicas, conds : BOOLEAN, up : Replicas \cup {0}]

\* The parts are objects of the namespace, but for the configuration.  The
\* jobs only serve to make the webhook's certificate.
PartNames == {"webhook", "service", "webhookService", "configuration", "jobs", "jobsPatch"}

ASSUME PartsAssumption == Parts \in Seq(PartNames)

\* What the helper's call number n creates or deletes.
Object(n) == IF n = 0 THEN "deployment" ELSE Parts[n]

\* What admits and exposes a pool's ingresses, besides the Deployment.
Serving == {Parts[i] : i \in DOMAIN Parts} \ {"jobs", "jobsPatch"}

\* What all pools share, in the order it is created in and deleted in: the
\* roles of the cluster with their bindings and, in the namespace, roles with
\* their bindings, accounts and the ConfigMap.
Shared == <<"clusterRoles", "roles", "accounts", "config">>
Unshared == <<"config", "roles", "clusterRoles", "accounts">>
Sharable == {Shared[i] : i \in DOMAIN Shared}

ASSUME AbsentIsNoObject == Absent # Unborn /\ {Absent, Unborn} \cap (Ingress \cup Deployment) = {}

VARIABLES
    \* the API server and the informer caches
    ings,        \* ings[y] on the server
    dep,         \* the ingress controller's Deployment of pool p
    depCache,    \* dep[p] as the informer last saw it
    lagging,     \* the pools whose Deployment was written since
    rest,        \* what pool p has besides, the configuration excepted
    hook,        \* the owner of its ValidatingWebhookConfiguration, or Absent
    lost,        \* history: what others took from p since its Deployment was made
    ns,          \* the namespace: "gone", "active" or "terminating"
    nsCache,     \* its phase as the informer last saw it
    common,      \* the Sharable objects there are
    \* the controller: up to three reconciles, of different YurtIngresses
    queued,      \* the YurtIngresses whose key is in the work queue
    pc,          \* the phase of y's reconcile
    inst,        \* instance, as read
    todo,        \* the work that is left
    only,        \* y was the only YurtIngress when they were listed
    fresh,       \* the YurtIngresses nobody else wrote since inst was read
    \* the bounds
    faults, edits,
    dropped,     \* the error of an updateStatus was dropped
    cut          \* what is shared was left half made or half deleted

depVars == <<dep, depCache, lagging, rest, hook, lost>>
nsVars == <<ns, nsCache, common>>
reconcileVars == <<pc, inst, todo, only>>
boundVars == <<faults, edits, dropped, cut>>
vars == <<ings, depVars, nsVars, queued, reconcileVars, fresh, boundVars>>

NewStatus == [conditions |-> [p \in {} |-> Absent], replicas |-> Absent, image |-> Absent,
              certgen |-> Absent, readyNum |-> 0, unreadyNum |-> 0]
NewIngress(spec) == [spec |-> spec, status |-> NewStatus, finalizer |-> FALSE, deleted |-> FALSE]
Nothing == [common |-> FALSE, added |-> {}, removed |-> {}, updated |-> {}, jobs |-> {},
            ips |-> {}, pool |-> Absent, n |-> 0]

TypeOK ==
    /\ ings \in [Ings -> Ingress \cup {Unborn, Absent}]
    /\ dep \in [Pools -> Deployment \cup {Absent}]
    /\ depCache \in [Pools -> Deployment \cup {Absent}]
    /\ lagging \subseteq Pools
    /\ rest \in [Pools -> SUBSET (PartNames \ {"configuration"})]
    /\ hook \in [Pools -> Ings \cup {Absent}]
    /\ lost \in [Pools -> SUBSET Serving]
    /\ ns \in {"gone", "active", "terminating"}
    /\ nsCache \in {"gone", "active", "terminating"}
    /\ common \subseteq Sharable
    /\ queued \subseteq Ings /\ fresh \subseteq Ings
    /\ pc \in [Ings -> {"idle", "apply", "retire", "status", "finalize", "cleanup"}]
    /\ inst \in [Ings -> Ingress \cup {Absent}]
    /\ todo \in [Ings -> [common : BOOLEAN, added : SUBSET Pools, removed : SUBSET Pools,
                          updated : SUBSET Pools, jobs : SUBSET Pools, ips : SUBSET Pools,
                          pool : Pools \cup {Absent}, n : Nat]]
    /\ only \in [Ings -> BOOLEAN]
    /\ faults \in 0 .. MaxEvents /\ edits \in 0 .. MaxEvents
    /\ dropped \in BOOLEAN /\ cut \in BOOLEAN

Exists(y) == ings[y] \notin {Unborn, Absent}
Asked(ing) == DOMAIN ing.spec.pools
Listed(ing) == DOMAIN ing.status.conditions

-----------------------------------------------------------------------------
(* getPools and the comparisons of Reconcile.                               *)

Added(ing) == Asked(ing) \ Listed(ing)
Removed(ing) == Listed(ing) \ Asked(ing)
Unchanged(ing) == Asked(ing) \cap Listed(ing)

IfDiffers(ing, a, b) == IF a # b THEN Unchanged(ing) ELSE {}

\* What the reconcile of ing has to do; pool is the one in hand, for which n
\* calls returned (of the calls for what is shared while there is none).
Plan(ing) ==
    [common |-> Added(ing) # {} /\ Listed(ing) = {} /\ nsCache # "active",
     added |-> Added(ing),
     removed |-> Removed(ing),
     updated |-> IfDiffers(ing, ing.spec.image, ing.status.image)
                 \cup IfDiffers(ing, ing.spec.replicas, ing.status.replicas),
     jobs |-> IfDiffers(ing, ing.spec.certgen, ing.status.certgen),
     ips |-> {p \in Unchanged(ing) : ing.spec.pools[p] # ing.status.conditions[p].ips},
     pool |-> Absent, n |-> 0]

NeverRecomputed(ing) == TRUE  \* mutant: isYurtIngressCRChanged is always set

\* isYurtIngressCRChanged: addresses do not count.
Changed(ing) ==
    \/ Added(ing) \cup Removed(ing) # {}
    \/ /\ Unchanged(ing) # {}
       /\ \/ ing.spec.image # ing.status.image
          \/ ing.spec.replicas # ing.status.replicas
          \/ ing.spec.certgen # ing.status.certgen

Less(n, k) == IF n > k THEN n - k ELSE 0

ReadyIn(conditions) == {p \in DOMAIN conditions : conditions[p].ready}

\* The status after the changes of Reconcile: added pools are listed as not
\* ready and removed ones dropped, unless no pool is asked for; then all go
\* with the shared objects or stay with them.
ChangedStatus(ing, retired) ==
    LET old == ing.status
        removed == IF Asked(ing) = {} THEN {} ELSE Removed(ing)
        kept == IF retired THEN {} ELSE (Listed(ing) \ removed) \cup Added(ing)
        ready == Less(old.readyNum, Cardinality(ReadyIn(old.conditions) \cap removed))
        unready == Less(old.unreadyNum + Cardinality(Added(ing)),
                        Cardinality(removed \ ReadyIn(old.conditions)))
        reset == Unchanged(ing) # {} /\ ing.spec.image # old.image
    IN [old EXCEPT !.conditions = [p \in kept |-> IF p \in Listed(ing) THEN @[p]
                                                  ELSE [ready |-> FALSE, ips |-> ing.spec.pools[p]]],
                   !.readyNum = IF retired \/ reset THEN 0 ELSE ready,
                   !.unreadyNum = IF retired THEN 0 ELSE IF reset THEN Cardinality(Asked(ing)) ELSE unready]

\* getAllDeployments, in the cache.
Owned(y) == {p \in Pools : depCache[p] # Absent /\ depCache[p].owner = y}

\* A Deployment that is not ready and has no condition yet is not listed.
Reported(y, ing) ==
    {p \in Owned(y) : depCache[p].up = ing.spec.replicas \/ depCache[p].conds}

ObservedSwapped(y, ing) ==  \* mutant: the operands of the difference are swapped
    LET ready == {p \in Reported(y, ing) : depCache[p].up = ing.spec.replicas}
    IN [ing.status EXCEPT !.readyNum = Cardinality(ready),
                          !.unreadyNum = Cardinality(ready) - Cardinality(Asked(ing))]

ObservedStatus(y, ing) ==
    LET ready == {p \in Reported(y, ing) : depCache[p].up = ing.spec.replicas}
    IN [ing.status EXCEPT !.conditions = [p \in Reported(y, ing) |->
                              [ready |-> p \in ready, ips |-> ing.spec.pools[p]]],
                          !.readyNum = Cardinality(ready),
                          !.unreadyNum = Cardinality(Asked(ing)) - Cardinality(ready)]

-----------------------------------------------------------------------------
(* Writes to the API server, and the faults of a call.                      *)

Fault(kind) ==
    /\ kind \in Faults
    /\ faults + edits < MaxEvents
    /\ faults' = faults + 1
    /\ UNCHANGED edits

CallFails == Fault("error") /\ UNCHANGED <<dropped, cut>>

\* An event of a YurtIngress enqueues it.  A write that changes nothing makes
\* no event.
WriteIngress(y, value) ==
    /\ ings' = [ings EXCEPT ![y] = value]
    /\ fresh' = IF value = ings[y] THEN fresh ELSE fresh \ {y}

Notify(y, value) == IF value = ings[y] THEN {} ELSE {y}

WriteDep(p, value) ==
    /\ dep' = [dep EXCEPT ![p] = value]
    /\ lagging' = IF value = dep[p] THEN lagging ELSE lagging \cup {p}

NewDeployment(y) ==
    [owner |-> y, replicas |-> inst[y].spec.replicas, conds |-> FALSE, up |-> 0]

\* The namespace takes new objects while it is active.
Accepts(object) == object \in {"clusterRoles", "configuration"} \/ ns = "active"

Has(p) == {object \in Serving : IF object = "configuration" THEN hook[p] # Absent
                                                             ELSE object \in rest[p]}

\* An object is created unless it is there, whoever made it.
Make(y, p, object) ==
    /\ Accepts(object)
    /\ IF object = "deployment" /\ dep[p] = Absent
       THEN WriteDep(p, NewDeployment(y)) /\ lost' = [lost EXCEPT ![p] = {}]
       ELSE UNCHANGED <<dep, lagging>> /\ lost' = [lost EXCEPT ![p] = @ \ {object}]
    /\ hook' = IF object = "configuration" /\ hook[p] = Absent
               THEN [hook EXCEPT ![p] = y] ELSE hook
    /\ rest' = IF object \in {"deployment", "configuration"} THEN rest
               ELSE [rest EXCEPT ![p] = @ \cup {object}]
    /\ UNCHANGED depCache

\* An object goes, and y or its owner has it deleted: a loss to the owner of
\* the Deployment if that is another YurtIngress.
Takes(y, p, object) ==
    lost' = [lost EXCEPT ![p] = IF dep[p] # Absent /\ dep[p].owner # y
                                THEN @ \cup ({object} \cap Has(p)) ELSE @ \ {object}]

\* It is deleted by its name, whoever made it.
Unmake(y, p, object) ==
    /\ IF object = "deployment" THEN WriteDep(p, Absent) ELSE UNCHANGED <<dep, lagging>>
    /\ Takes(y, p, object)
    /\ hook' = IF object = "configuration" THEN [hook EXCEPT ![p] = Absent] ELSE hook
    /\ rest' = [rest EXCEPT ![p] = @ \ {object}]
    /\ UNCHANGED depCache

\* The calls for a pool are made one after the other, and so are the pools.
InHand(y, p) == todo[y].n = 0 \/ todo[y].pool = p
Calling(work, p) == [work EXCEPT !.pool = p, !.n = @ + 1]
Finished(work) == [work EXCEPT !.pool = Absent, !.n = 0]
Created(work, p) == [Finished(work) EXCEPT !.added = work.added \ {p}]
Deleted(work, p) == [Finished(work) EXCEPT !.removed = work.removed \ {p}]
Recreated(work, p) == [Finished(work) EXCEPT !.jobs = work.jobs \ {p}]

\* A Deployment that is not in the cache is left as it is, without error.
Rescale(y, p) ==
    /\ depCache[p] = Absent \/ p \notin lagging
    /\ IF depCache[p] = Absent THEN UNCHANGED <<dep, lagging>>
       ELSE WriteDep(p, [dep[p] EXCEPT !.replicas = inst[y].spec.replicas])

-----------------------------------------------------------------------------
(* Reconcile.                                                               *)

\* Reconcile returns; what it held is dropped.  An error requeues the key,
\* and so does news, an event of its own last write.
Return(y, err, news) ==
    /\ pc' = [pc EXCEPT ![y] = "idle"]
    /\ inst' = [inst EXCEPT ![y] = Absent]
    /\ todo' = [todo EXCEPT ![y] = Nothing]
    /\ only' = [only EXCEPT ![y] = FALSE]
    /\ queued' = (IF err THEN queued \cup {y} ELSE queued) \cup news

SkipMissing(y) ==
    /\ pc[y] = "idle" /\ y \in queued /\ ~Exists(y)
    /\ queued' = queued \ {y}
    /\ UNCHANGED <<ings, depVars, nsVars, reconcileVars, fresh, boundVars>>

IsOnly == Cardinality({y \in Ings : Exists(y)}) = 1

\* The finalizer is added before anything else; the caches are read for what
\* is left to do.  (A Get or an Update that fails only repeats this.)
Get(y) ==
    /\ pc[y] = "idle" /\ y \in queued /\ Exists(y) /\ ~ings[y].deleted
    /\ ings' = [ings EXCEPT ![y].finalizer = TRUE]
    /\ queued' = (queued \ {y}) \cup Notify(y, ings'[y])
    /\ fresh' = fresh \cup {y}
    /\ inst' = [inst EXCEPT ![y] = ings'[y]]
    /\ todo' = [todo EXCEPT ![y] = Plan(ings'[y])]
    /\ pc' = [pc EXCEPT ![y] = "apply"]
    /\ UNCHANGED <<depVars, nsVars, only, boundVars>>

\* A deletion: the other YurtIngresses are listed before the finalizer goes.
GetDeleted(y) ==
    /\ pc[y] = "idle" /\ y \in queued /\ Exists(y) /\ ings[y].deleted
    /\ queued' = queued \ {y}
    /\ fresh' = fresh \cup {y}
    /\ inst' = [inst EXCEPT ![y] = ings[y]]
    /\ todo' = [todo EXCEPT ![y] = [Nothing EXCEPT !.removed = Asked(ings[y])]]
    /\ pc' = [pc EXCEPT ![y] = "finalize"]
    /\ \/ only' = [only EXCEPT ![y] = IsOnly] /\ UNCHANGED boundVars
       \/ CallFails /\ UNCHANGED only
    /\ UNCHANGED <<ings, depVars, nsVars>>

FailsQuietly(y) ==  \* mutant: the error does not requeue the key
    /\ CallFails
    /\ Return(y, FALSE, {})
    /\ UNCHANGED fresh

\* A call fails, and the reconcile ends with its error.
Fails(y) ==
    /\ CallFails
    /\ Return(y, TRUE, {})
    /\ UNCHANGED fresh

\* A call fails amid those for what is shared.
FailsHalfway(y) ==
    /\ Fault("error")
    /\ Return(y, TRUE, {})
    /\ cut' = TRUE
    /\ UNCHANGED <<fresh, dropped>>

\* CreateNginxIngressCommonResource: the namespace, then the rest.  A
\* namespace that is there already is an error, whatever its phase: the phase
\* looked at is that of the template.
CreateNamespace(y) ==
    /\ pc[y] = "apply" /\ todo[y].common /\ todo[y].n = 0
    /\ \/ /\ ns = "gone" /\ ns' = "active"
          /\ todo' = [todo EXCEPT ![y] = Calling(@, Absent)]
          /\ UNCHANGED <<pc, inst, only, queued, fresh, boundVars>>
       \/ /\ ns # "gone"
          /\ Return(y, TRUE, {})
          /\ UNCHANGED <<ns, fresh, boundVars>>
       \/ Fails(y) /\ UNCHANGED ns
       \/ FailsHalfway(y) /\ ns = "gone" /\ ns' = "active"
    /\ UNCHANGED <<ings, depVars, nsCache, common>>

CreateCommon(y) ==
    /\ pc[y] = "apply" /\ todo[y].common /\ todo[y].n \in DOMAIN Shared
    /\ LET object == Shared[todo[y].n]
       IN \/ /\ Accepts(object)
             /\ common' = common \cup {object}
             /\ todo' = [todo EXCEPT ![y] = IF @.n < Len(Shared) THEN Calling(@, Absent)
                                            ELSE [Finished(@) EXCEPT !.common = FALSE]]
             /\ UNCHANGED <<pc, inst, only, queued, fresh, boundVars>>
          \/ /\ ~Accepts(object)
             /\ Return(y, TRUE, {})
             /\ UNCHANGED <<common, fresh, boundVars>>
          \/ /\ FailsHalfway(y)
             /\ UNCHANGED common \/ (Accepts(object) /\ common' = common \cup {object})
    /\ UNCHANGED <<ings, depVars, ns, nsCache>>

\* CreateNginxIngressSpecificResource.
CreateSpecific(y, p) ==
    /\ pc[y] = "apply" /\ ~todo[y].common /\ p \in todo[y].added /\ InHand(y, p)
    /\ LET object == Object(todo[y].n)
       IN \/ /\ Make(y, p, object)
             /\ todo' = [todo EXCEPT ![y] = IF @.n < Len(Parts) THEN Calling(@, p)
                                            ELSE Created(@, p)]
             /\ UNCHANGED <<pc, inst, only, queued, fresh, boundVars>>
          \/ /\ ~Accepts(object)
             /\ Return(y, TRUE, {})
             /\ UNCHANGED <<depVars, fresh, boundVars>>
          \/ /\ UNCHANGED depVars \/ Make(y, p, object)
             /\ Fails(y)
    /\ UNCHANGED <<ings, nsVars>>

AddedAll(y) == ~todo[y].common /\ todo[y].added = {}

\* DeleteNginxIngressSpecificResource: what is not found is no error.
DeleteSpecific(y, p) ==
    /\ \/ pc[y] = "apply" /\ AddedAll(y)
       \/ pc[y] = "cleanup"
    /\ p \in todo[y].removed /\ InHand(y, p)
    /\ LET object == Object(todo[y].n)
       IN \/ /\ Unmake(y, p, object)
             /\ todo' = [todo EXCEPT ![y] = IF @.n < Len(Parts) THEN Calling(@, p)
                                            ELSE Deleted(@, p)]
             /\ UNCHANGED <<pc, inst, only, queued, fresh, boundVars>>
          \/ /\ UNCHANGED depVars \/ Unmake(y, p, object)
             /\ Fails(y)
    /\ UNCHANGED <<ings, nsVars>>

\* No pool is asked for any more: the other YurtIngresses are listed, after
\* the pools are gone.
ListOthers(y) ==
    /\ pc[y] = "apply" /\ AddedAll(y) /\ todo[y].removed = {}
    /\ Asked(inst[y]) = {} /\ Listed(inst[y]) # {}
    /\ \/ only' = [only EXCEPT ![y] = IsOnly] /\ UNCHANGED boundVars
       \/ CallFails /\ UNCHANGED only
    /\ pc' = [pc EXCEPT ![y] = IF only'[y] THEN "retire" ELSE "status"]
    /\ UNCHANGED <<ings, depVars, nsVars, inst, todo, queued, fresh>>

NamespaceKept == ns  \* mutant: the namespace is not deleted

NamespaceDeleted == IF ns = "active" THEN "terminating" ELSE ns

\* DeleteNginxIngressCommonResource: what pools share, the namespace last.
DeletingCommon(y) ==
    /\ only[y] /\ todo[y].removed = {}
    /\ \/ pc[y] = "retire"
       \/ pc[y] = "cleanup" /\ Asked(inst[y]) # {}

DeleteCommon(y) ==
    /\ DeletingCommon(y) /\ todo[y].n < Len(Unshared)
    /\ LET object == Unshared[todo[y].n + 1]
       IN \/ /\ common' = common \ {object}
             /\ todo' = [todo EXCEPT ![y] = Calling(@, Absent)]
             /\ UNCHANGED <<pc, inst, only, queued, fresh, boundVars>>
          \/ /\ UNCHANGED common \/ common' = common \ {object}
             /\ FailsHalfway(y)
    /\ UNCHANGED <<ings, depVars, ns, nsCache>>

DeleteNamespace(y) ==
    /\ DeletingCommon(y) /\ todo[y].n = Len(Unshared)
    /\ \/ /\ ns' = NamespaceDeleted
          /\ IF pc[y] = "retire"
             THEN /\ pc' = [pc EXCEPT ![y] = "status"]
                  /\ todo' = [todo EXCEPT ![y] = Finished(@)]
                  /\ UNCHANGED <<inst, only, queued>>
             ELSE Return(y, FALSE, {})
          /\ UNCHANGED <<fresh, boundVars>>
       \/ /\ UNCHANGED ns \/ ns' = NamespaceDeleted
          /\ FailsHalfway(y)
    /\ UNCHANGED <<ings, depVars, nsCache, common>>

RemovedAll(y) ==
    AddedAll(y) /\ todo[y].removed = {} /\ (Asked(inst[y]) # {} \/ Listed(inst[y]) = {})

\* A new image or other replicas: a Deployment written since it was last
\* seen refuses the write.
UpdateDeployment(y, p) ==
    /\ pc[y] = "apply" /\ RemovedAll(y) /\ p \in todo[y].updated
    /\ \/ /\ Rescale(y, p)
          /\ todo' = [todo EXCEPT ![y].updated = @ \ {p}]
          /\ UNCHANGED <<pc, inst, only, queued, fresh, boundVars>>
       \/ /\ depCache[p] # Absent /\ p \in lagging
          /\ Return(y, TRUE, {})
          /\ UNCHANGED <<dep, lagging, fresh, boundVars>>
       \/ Fails(y) /\ (UNCHANGED <<dep, lagging>> \/ Rescale(y, p))
    /\ UNCHANGED <<ings, depCache, rest, hook, lost, nsVars>>

UpdatedAll(y) == RemovedAll(y) /\ todo[y].updated = {}

\* RecreateNginxWebhookJob: the jobs are deleted, and created three seconds
\* later; without the namespace they cannot be.
RecreateJob(y, p) ==
    /\ pc[y] = "apply" /\ UpdatedAll(y) /\ p \in todo[y].jobs /\ InHand(y, p)
    /\ LET deleted == todo[y].n = 0 /\ rest' = [rest EXCEPT ![p] = @ \ {"jobs"}]
           created == todo[y].n = 1 /\ Accepts("jobs") /\ rest' = [rest EXCEPT ![p] = @ \cup {"jobs"}]
       IN \/ /\ \/ deleted /\ todo' = [todo EXCEPT ![y] = Calling(@, p)]
                \/ created /\ todo' = [todo EXCEPT ![y] = Recreated(@, p)]
             /\ UNCHANGED <<pc, inst, only, queued, fresh, boundVars>>
          \/ /\ todo[y].n = 1 /\ ~Accepts("jobs")
             /\ Return(y, TRUE, {})
             /\ UNCHANGED <<rest, fresh, boundVars>>
          \/ /\ deleted \/ created \/ UNCHANGED rest
             /\ Fails(y)
    /\ UNCHANGED <<ings, dep, depCache, lagging, hook, lost, nsVars>>

\* UpdateNginxServiceExternalIPs, whose effect is left out.
UpdateService(y, p) ==
    /\ pc[y] = "apply" /\ UpdatedAll(y) /\ todo[y].jobs = {} /\ p \in todo[y].ips
    /\ \/ /\ todo' = [todo EXCEPT ![y].ips = @ \ {p}]
          /\ UNCHANGED <<pc, inst, only, queued, fresh, boundVars>>
       \/ Fails(y)
    /\ UNCHANGED <<ings, depVars, nsVars>>

Applied(y) == UpdatedAll(y) /\ todo[y].jobs \cup todo[y].ips = {}

\* A ready Deployment, or one with a condition, of a pool that is not asked
\* for: a nil pointer is dereferenced, and the manager dies.
Panics(y) == ~Changed(inst[y]) /\ ~(Reported(y, inst[y]) \subseteq Asked(inst[y]))

WrittenStatus(y) ==
    LET status == IF Changed(inst[y]) THEN ChangedStatus(inst[y], only[y])
                  ELSE ObservedStatus(y, inst[y])
    IN [status EXCEPT !.replicas = inst[y].spec.replicas,
                      !.image = inst[y].spec.image,
                      !.certgen = inst[y].spec.certgen]

\* updateStatus: all attempts write the same version; errors are dropped.
UpdateStatus(y) ==
    /\ pc[y] = "status" \/ (pc[y] = "apply" /\ Applied(y))
    /\ ~Panics(y)
    /\ \/ /\ y \in fresh
          /\ WriteIngress(y, [ings[y] EXCEPT !.status = WrittenStatus(y)])
          /\ Return(y, FALSE, Notify(y, ings'[y]))
          /\ UNCHANGED boundVars
       \/ /\ y \notin fresh
          /\ Return(y, FALSE, {})
          /\ UNCHANGED <<ings, fresh, boundVars>>
       \/ /\ Fault("error")
          /\ dropped' = TRUE /\ UNCHANGED cut
          /\ Return(y, FALSE, {})
          /\ UNCHANGED <<ings, fresh>>
    /\ UNCHANGED <<depVars, nsVars>>

\* cleanupIngressResources: the finalizer first, and the YurtIngress is gone.
RemoveFinalizer(y) ==
    /\ pc[y] = "finalize"
    /\ \/ /\ y \in fresh
          /\ WriteIngress(y, Absent)
          /\ pc' = [pc EXCEPT ![y] = "cleanup"]
          /\ UNCHANGED <<inst, todo, only, queued, boundVars>>
       \/ /\ y \notin fresh
          /\ Return(y, TRUE, {})
          /\ UNCHANGED <<ings, fresh, boundVars>>
       \/ Fails(y) /\ UNCHANGED ings
    /\ UNCHANGED <<depVars, nsVars>>

EndCleanup(y) ==
    /\ pc[y] = "cleanup" /\ todo[y].removed = {}
    /\ ~only[y] \/ Asked(inst[y]) = {}
    /\ Return(y, FALSE, {})
    /\ UNCHANGED <<ings, depVars, nsVars, fresh, boundVars>>

Reconcile(y) ==
    \/ SkipMissing(y) \/ Get(y) \/ GetDeleted(y)
    \/ CreateNamespace(y) \/ CreateCommon(y)
    \/ ListOthers(y) \/ DeleteCommon(y) \/ DeleteNamespace(y)
    \/ \E p \in Pools : \/ CreateSpecific(y, p) \/ DeleteSpecific(y, p) \/ UpdateDeployment(y, p)
                        \/ RecreateJob(y, p) \/ UpdateService(y, p)
    \/ UpdateStatus(y) \/ RemoveFinalizer(y) \/ EndCleanup(y)

-----------------------------------------------------------------------------
(* The informers, the manager process, and what runs beside it.             *)

NoOwner(d) == {}  \* mutant: events of Deployments enqueue nobody

OwnerOf(d) == IF d = Absent THEN {} ELSE {d.owner}

\* An event of a Deployment enqueues its owner, the old and the new one.
SyncDeployment(p) ==
    /\ p \in lagging
    /\ depCache' = [depCache EXCEPT ![p] = dep[p]]
    /\ lagging' = lagging \ {p}
    /\ queued' = queued \cup OwnerOf(dep[p]) \cup OwnerOf(depCache[p])
    /\ UNCHANGED <<ings, dep, rest, hook, lost, nsVars, reconcileVars, fresh, boundVars>>

SyncNamespace ==
    /\ nsCache # ns
    /\ nsCache' = ns
    /\ UNCHANGED <<ings, depVars, ns, common, queued, reconcileVars, fresh, boundVars>>

Existing == {y \in Ings : Exists(y)}

\* The informer's resync period enqueues every YurtIngress again; taken at
\* rest, since until then events bring them back.
Resync ==
    /\ queued = {} /\ Existing # {} /\ lagging = {} /\ nsCache = ns
    /\ \A y \in Ings : pc[y] = "idle"
    /\ queued' = Existing
    /\ UNCHANGED <<ings, depVars, nsVars, reconcileVars, fresh, boundVars>>

\* The manager starts anew: it lists everything.
Restart ==
    /\ pc' = [y \in Ings |-> "idle"]
    /\ inst' = [y \in Ings |-> Absent]
    /\ todo' = [y \in Ings |-> Nothing]
    /\ only' = [y \in Ings |-> FALSE]
    /\ fresh' = {}
    /\ depCache' = dep /\ lagging' = {} /\ nsCache' = ns
    /\ queued' = Existing
    /\ cut' = (cut \/ \E y \in Ings : todo[y].pool = Absent /\ todo[y].n > 0)
    /\ UNCHANGED <<ings, dep, rest, hook, lost, ns, common, dropped>>

Crash == Fault("crash") /\ Restart

Panic(y) ==
    /\ pc[y] = "status" \/ (pc[y] = "apply" /\ Applied(y))
    /\ Panics(y)
    /\ Restart
    /\ UNCHANGED <<faults, edits>>

\* The Deployment controller and the kubelets: a condition, then replicas
\* that are ready.
Progress(p) ==
    /\ dep[p] # Absent
    /\ WriteDep(p, IF ~dep[p].conds THEN [dep[p] EXCEPT !.conds = TRUE]
                   ELSE [dep[p] EXCEPT !.up = dep[p].replicas])
    /\ dep' # dep
    /\ UNCHANGED <<ings, depCache, rest, hook, lost, nsVars, queued, reconcileVars, fresh, boundVars>>

\* The namespace is gone once all that lies in it is; no role of the cluster
\* and no configuration does.
FinishNamespace ==
    /\ ns = "terminating"
    /\ ns' = "gone"
    /\ common' = common \cap {"clusterRoles"}
    /\ dep' = [p \in Pools |-> Absent]
    /\ lagging' = lagging \cup {p \in Pools : dep[p] # Absent}
    /\ rest' = [p \in Pools |-> {}] /\ lost' = [p \in Pools |-> {}]
    /\ UNCHANGED <<ings, depCache, hook, nsCache, queued, reconcileVars, fresh, boundVars>>

\* A Deployment goes with its owner.
CollectGarbage(p) ==
    /\ dep[p] # Absent /\ ~Exists(dep[p].owner)
    /\ WriteDep(p, Absent)
    /\ UNCHANGED <<ings, depCache, rest, hook, lost, nsVars, queued, reconcileVars, fresh, boundVars>>

\* So does a ValidatingWebhookConfiguration, whoever has the pool by then.
CollectConfiguration(p) ==
    /\ hook[p] # Absent /\ ~Exists(hook[p])
    /\ hook' = [hook EXCEPT ![p] = Absent]
    /\ Takes(hook[p], p, "configuration")
    /\ UNCHANGED <<ings, dep, depCache, lagging, rest, nsVars, queued, reconcileVars, fresh, boundVars>>

-----------------------------------------------------------------------------
(* Users and the webhook.                                                   *)

UserAction(kind) ==
    /\ kind \in UserActions
    /\ faults + edits < MaxEvents
    /\ edits' = edits + 1
    /\ UNCHANGED <<nsVars, reconcileVars, faults, dropped, cut>>

\* validateYurtIngressSpec: no pool of another YurtIngress in the list.
Admitted(y, spec) ==
    \A other \in Existing \ {y} : Asked(ings[other]) \cap DOMAIN spec.pools = {}

CreateIngress(y, spec) ==
    /\ UserAction("create")
    /\ ings[y] = Unborn /\ Admitted(y, spec)
    /\ WriteIngress(y, NewIngress(spec))
    /\ queued' = queued \cup {y}
    /\ UNCHANGED depVars

EditIngress(y, spec) ==
    /\ UserAction("edit")
    /\ Exists(y) /\ ings[y].spec # spec /\ Admitted(y, spec)
    /\ WriteIngress(y, [ings[y] EXCEPT !.spec = spec])
    /\ queued' = queued \cup {y}
    /\ UNCHANGED depVars

\* Two writes at a time that ask for one pool, each admitted by a list without
\* the other.  (All others come one after the other as well.)
Written(y, spec) ==
    IF ings[y] = Unborn THEN NewIngress(spec) ELSE [ings[y] EXCEPT !.spec = spec]

Overlap(y, spec, z, other) ==
    /\ UserAction("overlap")
    /\ y # z /\ Absent \notin {ings[y], ings[z]}
    /\ DOMAIN spec.pools \cap DOMAIN other.pools # {}
    /\ Admitted(y, spec) /\ Admitted(z, other)
    /\ ings' = [ings EXCEPT ![y] = Written(y, spec), ![z] = Written(z, other)]
    /\ fresh' = fresh \ {y, z}
    /\ queued' = queued \cup {y, z}
    /\ UNCHANGED depVars

\* Without a finalizer it is gone at once.
DeleteIngress(y) ==
    /\ UserAction("delete")
    /\ Exists(y) /\ ~ings[y].deleted
    /\ WriteIngress(y, IF ings[y].finalizer THEN [ings[y] EXCEPT !.deleted = TRUE] ELSE Absent)
    /\ queued' = queued \cup {y}
    /\ UNCHANGED depVars

RemoveDeployment(p) ==
    /\ UserAction("remove")
    /\ dep[p] # Absent
    /\ WriteDep(p, Absent)
    /\ UNCHANGED <<ings, fresh, queued, depCache, rest, hook, lost>>

User ==
    \/ \E y \in Ings : \/ DeleteIngress(y)
                       \/ \E spec \in Specs[y] : CreateIngress(y, spec) \/ EditIngress(y, spec)
    \/ \E p \in Pools : RemoveDeployment(p)
    \/ \E y, z \in Ings : \E spec \in Specs[y], other \in Specs[z] : Overlap(y, spec, z, other)

Init ==
    /\ ings = [y \in Ings |-> IF y = InitialIng THEN NewIngress(InitialSpec) ELSE Unborn]
    /\ dep = [p \in Pools |-> Absent] /\ depCache = dep /\ lagging = {}
    /\ rest = [p \in Pools |-> {}] /\ lost = rest /\ hook = dep
    /\ ns = "gone" /\ nsCache = "gone" /\ common = {}
    /\ queued = {InitialIng} /\ fresh = {}
    /\ pc = [y \in Ings |-> "idle"] /\ inst = [y \in Ings |-> Absent]
    /\ todo = [y \in Ings |-> Nothing] /\ only = [y \in Ings |-> FALSE]
    /\ faults = 0 /\ edits = 0 /\ dropped = FALSE /\ cut = FALSE

Sync == SyncNamespace \/ \E p \in Pools : SyncDeployment(p)
Cluster ==
    \/ FinishNamespace
    \/ \E p \in Pools : Progress(p) \/ CollectGarbage(p) \/ CollectConfiguration(p)

Work == \E y \in Ings : Reconcile(y) \/ Panic(y)

Next ==
    \/ Work \/ Resync \/ Sync \/ Cluster \/ Crash \/ User

Spec == Init /\ [][Next]_vars

\* The workers, the restarts of the manager, the informers, the resync timer,
\* the Deployment controller and the collector go on; users and faults owe
\* nothing.
FairSpec ==
    /\ Spec
    /\ WF_vars(Work) /\ WF_vars(Resync) /\ WF_vars(Sync) /\ WF_vars(Cluster)

-----------------------------------------------------------------------------
(* Properties.                                                              *)

\* Nothing is queued, running or on its way.
Quiescent ==
    /\ queued = {} /\ lagging = {} /\ nsCache = ns /\ ns # "terminating"
    /\ \A y \in Ings : pc[y] = "idle"
    /\ \A p \in Pools :
          /\ dep[p] = Absent \/ (Exists(dep[p].owner) /\ dep[p].conds /\ dep[p].up = dep[p].replicas)
          /\ hook[p] = Absent \/ Exists(hook[p])

Live == {y \in Existing : ~ings[y].deleted}

Owns(y, p) == dep[p] # Absent /\ dep[p].owner = y

HasPool(y, p) == Owns(y, p) /\ Serving \subseteq Has(p)

\* At rest each pool of each YurtIngress has the Deployment and all that goes
\* with it, but for what another YurtIngress's deletion, or the collection of
\* its configuration, took from the pool after this one had made or found it
\* there: a create that stopped half way was taken up again, a Deployment
\* removed by hand came back, and so did what went with a namespace that
\* another YurtIngress's deletion took away.
Served ==
    Quiescent /\ ~dropped =>
        \A y \in Live : \A p \in Asked(ings[y]) :
            Owns(y, p) /\ Serving \subseteq Has(p) \cup lost[p]

\* Unless a status write was given up for good, the status of a YurtIngress at
\* rest lists exactly its pools, ready or not as their Deployments are, and
\* counts them right, though calls fail, the manager dies, and each status is
\* either guessed from what was changed or copied from a cache.
StatusAtRest ==
    Quiescent /\ ~dropped =>
        \A y \in Live : Asked(ings[y]) # {} =>
            LET status == ings[y].status
                ready == {p \in Asked(ings[y]) : dep[p].up = ings[y].spec.replicas}
            IN /\ Listed(ings[y]) = Asked(ings[y])
               /\ ReadyIn(status.conditions) = ready
               /\ status.readyNum = Cardinality(ready)
               /\ status.readyNum + status.unreadyNum = Cardinality(Asked(ings[y]))

\* The namespace and what is shared stand at rest as long as a YurtIngress has
\* a pool, though YurtIngresses come and go at the same time, calls fail and
\* the manager dies between two of them, and each looks for others before it
\* deletes what they share: unless one stopped amid those very objects, for
\* nobody completes them.
SharedAtRest ==
    Quiescent /\ ~dropped /\ ~cut /\ (\E y \in Live : Asked(ings[y]) # {}) =>
        ns = "active" /\ common = Sharable

Healthy ==
    /\ \A y \in Existing : ~ings[y].deleted /\ \A p \in Asked(ings[y]) : HasPool(y, p)
    /\ \A p \in Pools : dep[p] # Absent => dep[p].owner \in Live /\ p \in Asked(ings[dep[p].owner])

\* A YurtIngress owns the Deployment of a pool that it neither asks for nor
\* lists: nothing will ever remove it.
Stranded ==
    \E y \in Live, p \in Pools :
        dep[p] # Absent /\ dep[p].owner = y /\ p \notin Asked(ings[y]) \cup Listed(ings[y])

\* It lists pools, and jobs to make anew for them, and the namespace is gone:
\* each attempt fails before the status is read from what there is.
Locked == \E y \in Live : ns = "gone" /\ Listed(ings[y]) # {}

\* A YurtIngress has a pool's Deployment, and somebody else's deletion took
\* what goes with it: nobody makes it again.
Torn == \E y \in Live : \E p \in Asked(ings[y]) : Owns(y, p) /\ lost[p] # {}

\* Two of them have been admitted with the same pool: the one without the
\* Deployment lists the pool and drops it again for ever.
Contended == \E y, z \in Live : y # z /\ Asked(ings[y]) \cap Asked(ings[z]) # {}

\* A YurtIngress that asks for no pool any more, and was not the only one when
\* it dropped them, lists them for good: each of its reconciles deletes them
\* again, whoever has them by now.
Clinging ==
    \E y, z \in Live : /\ y # z /\ Asked(ings[y]) = {}
                      /\ Listed(ings[y]) \cap Asked(ings[z]) # {}

\* Once users and faults stop, every YurtIngress has its pools for good and no
\* other, and every deleted one is gone, though the manager may panic on the
\* way; the only other ends are those five, which user actions during a
\* reconcile, or during each other, lead to.
SettlesUnlessStuck == <>[]Healthy \/ []<>(Stranded \/ Locked \/ Torn \/ Contended \/ Clinging)

\* Documentation: "the main kubernetes reconciliation loop which aims to move
\* the current state of the cluster closer to the desired state"
\* (yurtingress_controller.go).
Settles == <>[]Healthy

=============================================================================
