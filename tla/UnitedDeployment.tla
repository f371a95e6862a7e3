-------------------------- MODULE UnitedDeployment --------------------------
(***************************************************************************)
(* The UnitedDeployment controller (src/pkg/yurtappmanager/controller/     *)
(* uniteddeployment), which YurtAppSet replaces: the same loop over other  *)
(* types, so every operation is that of module YurtAppSet on the variables *)
(* of a UnitedDeployment.  The two controllers watch the same Deployments  *)
(* and StatefulSets, and each sees those it owns.                          *)
(***************************************************************************)
EXTENDS Integers, FiniteSets

CONSTANTS
    \* as in YurtAppSet
    Ids, Pools, Templates, Replicas, Patches, NoPatch, BadPatches, Absent,
    Specs, InitialSpec, Faults, UserActions, MaxFaults, MaxEdits, MaxStaleReads

VARIABLES
    ud, udCache, udSynced,      \* the UnitedDeployment, and its informer's copy
    workloads, cache, stale, queued, pc, inst, nameToPool, doomed, todo, batch, size,
    failed, acted, newStatus, outcome, faults, edits, staleReads

vars == <<ud, udCache, udSynced, workloads, cache, stale, queued, pc, inst, nameToPool,
          doomed, todo, batch, size, failed, acted, newStatus, outcome, faults, edits, staleReads>>

Set == INSTANCE YurtAppSet WITH yas <- ud, yasCache <- udCache, yasSynced <- udSynced

-----------------------------------------------------------------------------
(* Types, and what is written in a pool's workload.                         *)

UnitedDeploymentSpec == Set!AppSpec
UnitedDeploymentStatus == Set!Status
ApplyPoolTemplate(spec, p) == Set!ApplyPoolTemplate(spec, p)
Patchable(spec, p) == Set!Patchable(spec, p)

ASSUME SpecAssumption == Specs \subseteq UnitedDeploymentSpec

-----------------------------------------------------------------------------
(* Reconcile.                                                               *)

Init == Set!Init

SkipDeleted == Set!SkipDeleted
RevisionsFail == Set!RevisionsFail

\* getNameToPool: list, classify, delete duplicates.
ListFails == Set!ListFails
ListPools == Set!ListPools
DeleteDup(id) == Set!DeleteDup(id)
GetNameToPool == ListFails \/ ListPools \/ \E id \in Ids : DeleteDup(id)

\* managePoolProvision: create what is missing, delete what is not expected,
\* and what is of the other kind of template.
StartCreates == Set!StartCreates
NextBatch == Set!NextBatch
BatchCall(p) == Set!BatchCall(p)
StartDeletes == Set!StartDeletes
StartClean == Set!StartClean
DeleteCall(id) == Set!DeleteCall(id)

\* managePools: the conditions, and the update of what is outdated.
ProvisionFailed == Set!ProvisionFailed
StartUpdates == Set!StartUpdates
FinishUpdates == Set!FinishUpdates

ManagePools ==
    \/ StartCreates \/ NextBatch \/ StartDeletes \/ StartClean
    \/ ProvisionFailed \/ StartUpdates \/ FinishUpdates
    \/ \E p \in Pools : BatchCall(p)
    \/ \E id \in Ids : DeleteCall(id)

UpdateStatus == Set!UpdateStatus
UpdateStatusFails == Set!UpdateStatusFails

Reconcile ==
    \/ SkipDeleted \/ RevisionsFail
    \/ GetNameToPool
    \/ ManagePools
    \/ UpdateStatus \/ UpdateStatusFails

-----------------------------------------------------------------------------
(* Events, the manager process, users and the garbage collector.            *)

SyncUnitedDeployment == Set!SyncYurtAppSet
SyncWorkloads(kind) == Set!SyncWorkloads(kind)
Sync == SyncUnitedDeployment \/ \E kind \in Set!Kinds : SyncWorkloads(kind)
Resync == Set!Resync
Crash == Set!Crash
EditSpec(spec) == Set!EditSpec(spec)

User ==
    \/ \E spec \in Specs : EditSpec(spec)
    \/ \E id \in Ids : Set!ScaleWorkload(id) \/ Set!RemoveWorkload(id)
    \/ \E phase \in {"terminating", "gone"} : Set!DeleteYurtAppSet(phase)

Collector == Set!Collector

Next == Reconcile \/ Sync \/ Resync \/ Crash \/ User \/ Collector

\* As for YurtAppSet, whose FairSpec this is.
FairSpec ==
    /\ Init /\ [][Next]_vars
    /\ WF_vars(Reconcile) /\ WF_vars(Sync) /\ WF_vars(Resync) /\ WF_vars(Collector)

-----------------------------------------------------------------------------

\* Once users and faults stop, the cluster settles: the pools of the
\* UnitedDeployment are all provisioned and up to date for good, or it is
\* gone and so are its workloads (see YurtAppSet).
Settles == Set!Settles

=============================================================================
