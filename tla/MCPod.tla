------------------------------- MODULE MCPod --------------------------------
(***************************************************************************)
(* What a ws-server pod holds on its tenants' behalf, for TLC: the         *)
(* subscriptions and forwarders of a shard, the broadcast bus below them,  *)
(* and the license the pod runs under.  They share no state in these       *)
(* models, so a behaviour is a behaviour of one of them, chosen at the     *)
(* start, with the others at rest: the reachable states are the union of   *)
(* theirs and not the product.                                             *)
(***************************************************************************)
EXTENDS BroadcastBus

CONSTANTS Client, None, BufferSize, BroadcastCap, LicenseKey, NoKey, Iat, EditionOf, Override,
          Request, Env, Perishable, MaxRestarts, MaxBreaks

VARIABLES which, shPhase, shLeaving, shEntry, shSubscribers, shBuffer, shFan, shForwarder,
          shCancelled, shBroadcastChan, shStopping, shListening, liExpired, liEnv, liDb,
          liProv, liReqs, liStream, liEvent, liWire, liService, liRestarts, liBreaks

shardVars == <<shPhase, shLeaving, shEntry, shSubscribers, shBuffer, shFan, shForwarder,
    shCancelled, shBroadcastChan, shStopping, shListening>>
licenseVars == <<liExpired, liEnv, liDb, liProv, liReqs, liStream, liEvent, liWire, liService,
    liRestarts, liBreaks>>

Part == {"bus", "shards", "license"}

\* An old key, a newer one of a lower edition, the newest with a lower limit.
MCIat == [k0 |-> 0, k2 |-> 2, k3 |-> 3]
MCEdition == [k0 |-> "enterprise", k2 |-> "pro", k3 |-> "enterprise"]
MCOverride == [k0 |-> 0, k2 |-> 0, k3 |-> 2]

\* A service ahead of provisioning, behind it, and a provisioning with no key of its own.
MCEnv == {[prov |-> "k2", service |-> "k3"], [prov |-> "k0", service |-> "k2"], [prov |-> "none", service |-> "k0"]}

Shard == INSTANCE ShardTenants WITH phase <- shPhase, leaving <- shLeaving, entry <- shEntry,
    subscribers <- shSubscribers, buffer <- shBuffer, fan <- shFan, forwarder <- shForwarder,
    cancelled <- shCancelled, broadcastChan <- shBroadcastChan, stopping <- shStopping,
    listening <- shListening

Lic == INSTANCE License WITH Key <- LicenseKey, expired <- liExpired, env <- liEnv, db <- liDb,
    prov <- liProv, reqs <- liReqs, stream <- liStream, event <- liEvent, wire <- liWire,
    service <- liService, restarts <- liRestarts, breaks <- liBreaks

ASSUME ShardsAssumption == Shard!ConstantsAssumption
ASSUME LicenseAssumption == Lic!ConstantsAssumption

allVars == <<which, vars, shardVars, licenseVars>>

\* A component at rest has one initial state.
MCInit ==
    /\ which \in Part
    /\ Init /\ Shard!Init /\ Lic!Init
    /\ which # "bus" => pub.key = CHOOSE t \in Tenant : TRUE
    /\ which # "license" => liDb = NoKey /\ liEnv = CHOOSE e \in Env : TRUE

\* One component takes the steps and the others rest.
MCNext ==
    /\ which' = which
    /\ \/ /\ which = "bus" /\ Next
          /\ UNCHANGED <<shardVars, licenseVars>>
       \/ /\ which = "shards" /\ Shard!Next
          /\ UNCHANGED <<vars, licenseVars>>
       \/ /\ which = "license" /\ Lic!Next
          /\ UNCHANGED <<vars, shardVars>>

\* A bus at rest owes no step, so its fairness asks nothing of the other components.
MCSpec == MCInit /\ [][MCNext]_allVars /\ Fairness

-----------------------------------------------------------------------------
\* While a client is connected, the channel of the tenant's entry is subscribed on the bus and
\* forwarded: no other client's rollback or late Unsubscribe takes it away
\* (Shard.OnTenantClientConnect, OnTenantClientDisconnect).
ConnectedIsForwarded == Shard!ConnectedIsForwarded

\* A process that has resolved its license never runs a lower edition or a smaller capacity
\* before it restarts (Manager.ReloadNoDowngrade, ADR-0038).
NeverLowered == Lic!NeverLowered
=============================================================================
