----------------------------- MODULE MCControl ------------------------------
(***************************************************************************)
(* The provisioning service for TLC.  The configuration of a tenant, the   *)
(* life of tenants and keys, the renames and the watch streams share no    *)
(* state in these models, so a behaviour is a behaviour of one of them,    *)
(* chosen at the start, with the others at rest: the reachable states are  *)
(* the union of theirs and not the product.                                *)
(***************************************************************************)
EXTENDS TenantConfig

CONSTANTS Tenant, NoTenant, SigningKey, ApiKey, Slug, NoSlug, Reserved, MaxTenants,
          MaxTenantRequests, MaxTenantFaults, MaxRenames, MaxRenameFaults,
          Item, Kind, BufferSize, WireCap, StreamChanges, MaxOthers, StreamFaults

VARIABLES which, tStatus, tDue, tOwner, tActive, tKnown, tGauge, tReq, tSweep, tServed, tFaults,
          tLate, tSpared, rStatus, rSlug, rPrev, rRstate, rHold, rReq, rServed, rFaults, rEpoch,
          rStuck, wKind, wDb, wPublishing, wEvents, wHandler, wLoaded, wWire, wClient, wCache,
          wLost, wTight, wChanges, wOthers, wFaults

lifecycleVars == <<tStatus, tDue, tOwner, tActive, tKnown, tGauge, tReq, tSweep, tServed,
    tFaults, tLate, tSpared>>
renameVars == <<rStatus, rSlug, rPrev, rRstate, rHold, rReq, rServed, rFaults, rEpoch, rStuck>>
watchVars == <<wKind, wDb, wPublishing, wEvents, wHandler, wLoaded, wWire, wClient, wCache,
    wLost, wTight, wChanges, wOthers, wFaults>>

Part == {"config", "lifecycle", "rename", "watch"}

RuleOf(p, n, i, e) == [pattern |-> p, priority |-> n, ingress |-> i, egress |-> e]

\* Two rules that conflict over topic "a", two with one priority.
MCRules == {RuleOf("p", 1, "a", {}), RuleOf("q", 2, "default", {"a"}), RuleOf("s", 3, "default", {}), RuleOf("u", 1, "default", {"a"})}

Lifecycle == INSTANCE TenantLifecycle WITH status <- tStatus, due <- tDue, owner <- tOwner,
    active <- tActive, known <- tKnown, gauge <- tGauge, req <- tReq, sweep <- tSweep,
    served <- tServed, faults <- tFaults, late <- tLate, spared <- tSpared,
    MaxRequests <- MaxTenantRequests, MaxFaults <- MaxTenantFaults

Rename == INSTANCE TenantRename WITH status <- rStatus, slug <- rSlug, prev <- rPrev,
    rstate <- rRstate, hold <- rHold, req <- rReq, served <- rServed, faults <- rFaults,
    epoch <- rEpoch, stuck <- rStuck, MaxRequests <- MaxRenames, MaxFaults <- MaxRenameFaults

Watch == INSTANCE WatchStream WITH kind <- wKind, db <- wDb, publishing <- wPublishing,
    events <- wEvents, handler <- wHandler, loaded <- wLoaded, wire <- wWire, client <- wClient,
    cache <- wCache, lost <- wLost, tight <- wTight, changes <- wChanges, others <- wOthers,
    faults <- wFaults, MaxChanges <- StreamChanges, MaxFaults <- StreamFaults

ASSUME WatchAssumption == Watch!ConstantsAssumption

allVars == <<which, vars, lifecycleVars, renameVars, watchVars>>

\* A component at rest has one initial state; which tenant, slug and item come first
\* makes no difference.
MCInit ==
    /\ which \in Part
    /\ Init /\ Lifecycle!Init /\ Rename!Init /\ Watch!Init
    /\ which # "config" => topics = {}
    /\ wDb \in {{}, {CHOOSE i \in Item : TRUE}, Item}
    /\ which # "watch" => wDb = {} /\ wKind = CHOOSE k \in Kind : TRUE
    /\ tStatus[CHOOSE t \in Tenant : TRUE] = "active"
    /\ rSlug[CHOOSE t \in Tenant : TRUE] = CHOOSE s \in Slug \ Reserved : TRUE

\* One component takes the steps and the others rest.
MCNext ==
    /\ which' = which
    /\ \/ /\ which = "config" /\ Next
          /\ UNCHANGED <<lifecycleVars, renameVars, watchVars>>
       \/ /\ which = "lifecycle" /\ Lifecycle!Next
          /\ UNCHANGED <<vars, renameVars, watchVars>>
       \/ /\ which = "rename" /\ Rename!Next
          /\ UNCHANGED <<vars, lifecycleVars, watchVars>>
       \/ /\ which = "watch" /\ Watch!Next
          /\ UNCHANGED <<vars, lifecycleVars, renameVars>>

\* The components' own fairness, each where it is the one that runs.
MCFairness ==
    /\ WF_lifecycleVars(which = "lifecycle" /\ Lifecycle!GraceOver)
    /\ WF_lifecycleVars(which = "lifecycle" /\ Lifecycle!SweepTick)
    /\ WF_lifecycleVars(which = "lifecycle" /\ Lifecycle!SweepDelete)
    /\ WF_watchVars(which = "watch" /\ Watch!Publish) /\ WF_watchVars(which = "watch" /\ Watch!Handler)
    /\ WF_watchVars(which = "watch" /\ Watch!Client)

MCSpec == MCInit /\ [][MCNext]_allVars /\ MCFairness

-----------------------------------------------------------------------------
\* No key of a tenant under deletion stays active but by a late insert or a
\* failed revocation (Service.DeprovisionTenant).
NoKeyOutlivesTenant == Lifecycle!NoKeyOutlivesTenant

\* No operation brings a tenant back from its deletion
\* (TenantRepository.UpdateStatus).
StatusPath == Lifecycle!StatusPath

\* A tenant whose grace period was set is deleted in the end
\* (LifecycleManager).
DeprovisionCompletes == Lifecycle!DeprovisionCompletes

\* A pending rename has an owner, or was cut off by a failure
\* (RenameTenant).
PendingOwned == Rename!PendingOwned

\* In the end every client's cache reflects the database, or an event was
\* missed (provapi stream clients, eventbus.Bus).
CurrentOrMissed == Watch!CurrentOrMissed
=============================================================================
