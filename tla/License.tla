------------------------------- MODULE License -------------------------------
(***************************************************************************)
(* The license of the services.  shared/license decides whether a key      *)
(* takes effect (Reload at boot, ReloadNoDowngrade at run time);           *)
(* provisioning boots from the stored or the configured key                *)
(* (cmd/provisioning/license_resolve.go), accepts keys over its API        *)
(* (api/license_handler.go) and streams the current one (WatchLicense) to  *)
(* the other services (provapi/license_stream.go).                         *)
(*                                                                         *)
(* A key is an identifier with the claims the decisions read.  The         *)
(* signature is checked when a key is parsed; only signed keys are pushed  *)
(* here, an unsigned one is refused before any state is read.  One service *)
(* stands for all; a manager's edition and limits follow from its claims,  *)
(* and the stores of applyLocked, made under reloadMu, are one step.       *)
(***************************************************************************)
EXTENDS Integers, Sequences

CONSTANTS
  Key, NoKey,
  Iat,          \* issued-at of a key, 0 for a key that predates the field
  EditionOf,    \* its edition
  Override,     \* its capacity override, 0 when it has none
  Request,      \* administrators' requests
  Env,          \* settings of SUKKO_LICENSE_KEY: provisioning's, the service's
  Perishable,   \* keys whose expiry passes
  MaxRestarts, MaxBreaks

\* Editions are the three there are; an override and an issued-at may be absent, as 0.
ConstantsAssumption ==
  /\ NoKey \notin Key
  /\ EditionOf \in [Key -> {"community", "pro", "enterprise"}]
  /\ Override \in [Key -> Nat] /\ Iat \in [Key -> Nat]
  /\ Env \subseteq [prov : Key \cup {NoKey}, service : Key]

VARIABLES
  expired,    \* keys past their expiry
  env,        \* SUKKO_LICENSE_KEY of provisioning and of the service
  db,         \* license_state
  prov,       \* provisioning: [up, live, current, accepted]
  reqs,       \* requests: [pc, key]
  stream,     \* the WatchLicense handler: "down", "snapshot", "subscribe", "up"
  event,      \* a LicenseChanged event waits in its channel
  wire,       \* keys sent and not received
  service,    \* a service: [up, live, first]
  restarts, breaks

vars == <<expired, env, db, prov, reqs, stream, event, wire, service, restarts, breaks>>

MaybeKey == Key \cup {NoKey}

-----------------------------------------------------------------------------
(* Editions and limits.                                                    *)

editionRank == [community |-> 0, pro |-> 1, enterprise |-> 2]

\* One capacity stands for the five; 0 is unlimited.
DefaultLimits == [community |-> 1, pro |-> 3, enterprise |-> 0]

IsUnlimited(v) == v = 0

\* A claim that is set replaces the edition's default.
resolveLimits(k) == IF Override[k] # 0 THEN Override[k] ELSE DefaultLimits[EditionOf[k]]

IsAtLeast(e, other) == editionRank[e] >= editionRank[other]

\* Mutant: zero is compared as a number.
dimensionCoversNumeric(have, want) == have >= want

dimensionCovers(have, want) == \/ IsUnlimited(have)
                               \/ ~IsUnlimited(want) /\ have >= want

CoversAtLeast(k, other) == dimensionCovers(resolveLimits(k), resolveLimits(other))

-----------------------------------------------------------------------------
(* The manager.                                                            *)

parseAndVerify(k) == k \in Key \ expired

classifyReplay(current, k) ==
  IF current = NoKey THEN "apply"
  ELSE IF Iat[current] = 0 \/ Iat[k] > Iat[current] THEN "apply"
  ELSE IF k = current THEN "unchanged" ELSE "replay"

Accepts(current, k) == parseAndVerify(k) /\ classifyReplay(current, k) = "apply"

\* The key the manager runs after each of its operations.
Reload(current, k) == IF Accepts(current, k) THEN k ELSE current

Applies(current, k) == IsAtLeast(EditionOf[k], EditionOf[current]) /\ CoversAtLeast(k, current)

ReloadNoDowngrade(current, k) == IF Accepts(current, k) /\ Applies(current, k) THEN k ELSE current

NewManager(k) == IF parseAndVerify(k) THEN k ELSE NoKey

-----------------------------------------------------------------------------
(* Types and initial states.                                               *)

Step == {"idle", "check", "reload", "anchor", "store", "publish", "done"}

\* Types; a running process has a key.
TypeOK ==
  /\ expired \subseteq Key /\ db \in MaybeKey /\ env \in Env
  /\ prov \in [up : BOOLEAN, live : MaybeKey, current : MaybeKey, accepted : Nat]
  /\ prov.up => prov.live # NoKey
  /\ reqs \in [Request -> [pc : Step, key : MaybeKey]]
  /\ stream \in {"down", "snapshot", "subscribe", "up"} /\ event \in BOOLEAN
  /\ wire \in Seq(MaybeKey) /\ Len(wire) <= 1
  /\ service \in [up : BOOLEAN, live : MaybeKey, first : BOOLEAN]
  /\ service.up => service.live # NoKey
  /\ restarts \in 0 .. MaxRestarts /\ breaks \in 0 .. MaxBreaks

Down == [up |-> FALSE, live |-> NoKey, current |-> NoKey, accepted |-> 0]

Init ==
  /\ expired = {} /\ db \in MaybeKey /\ env \in Env
  /\ prov = Down /\ reqs = [r \in Request |-> [pc |-> "idle", key |-> NoKey]]
  /\ stream = "down" /\ event = FALSE /\ wire = <<>>
  /\ service = [up |-> FALSE, live |-> NoKey, first |-> FALSE]
  /\ restarts = 0 /\ breaks = 0

-----------------------------------------------------------------------------
(* Provisioning.                                                           *)

\* resolveProvisioningLicense: the stored key goes first unless the manager refuses it.
resolveProvisioningLicense(stored) ==
  LET envMgr == NewManager(env.prov)
  IN IF envMgr # NoKey THEN (IF stored = NoKey THEN envMgr ELSE Reload(envMgr, stored))
     ELSE NewManager(stored)

\* main: a stored key that cannot be loaded is passed over.
Boot ==
  /\ ~prov.up
  /\ \E stored \in {db, NoKey} :
       LET k == resolveProvisioningLicense(stored)
       IN /\ k # NoKey
          /\ prov' = [up |-> TRUE, live |-> k, current |-> k, accepted |-> 0]
  /\ UNCHANGED <<expired, env, db, reqs, stream, event, wire, service, restarts, breaks>>

Goto(r, pc) == reqs' = [reqs EXCEPT ![r].pc = pc]

RequestArrives(r) ==
  /\ prov.up /\ reqs[r].pc = "idle"
  /\ \E k \in Key : reqs' = [reqs EXCEPT ![r] = [pc |-> "check", key |-> k]]
  /\ UNCHANGED <<expired, env, db, prov, stream, event, wire, service, restarts, breaks>>

replayAnchor == IF Iat[prov.live] > prov.accepted THEN Iat[prov.live] ELSE prov.accepted

\* The pre-checks of HandleReload: expiry, then the anchor; a repeated key and a
\* replayed one both end the request.
Check(r) ==
  /\ reqs[r].pc = "check"
  /\ LET k == reqs[r].key
         passes == parseAndVerify(k) /\ (replayAnchor > 0 => Iat[k] > replayAnchor)
     IN Goto(r, IF passes THEN "reload" ELSE "done")
  /\ UNCHANGED <<expired, env, db, prov, stream, event, wire, service, restarts, breaks>>

\* A key that lowers the running one is accepted and not applied.
Apply(r) ==
  /\ reqs[r].pc = "reload"
  /\ LET k == reqs[r].key
     IN /\ prov' = [prov EXCEPT !.live = ReloadNoDowngrade(prov.live, k)]
        /\ Goto(r, IF Accepts(prov.live, k) THEN "anchor" ELSE "done")
  /\ UNCHANGED <<expired, env, db, stream, event, wire, service, restarts, breaks>>

Anchor(r) ==
  /\ reqs[r].pc = "anchor" /\ prov' = [prov EXCEPT !.accepted = Iat[reqs[r].key]]
  /\ Goto(r, "store")
  /\ UNCHANGED <<expired, env, db, stream, event, wire, service, restarts, breaks>>

\* Upsert; its failure is logged.
Store(r) ==
  /\ reqs[r].pc = "store" /\ db' \in {reqs[r].key, db}
  /\ Goto(r, "publish")
  /\ UNCHANGED <<expired, env, prov, stream, event, wire, service, restarts, breaks>>

Announce(r) ==
  /\ reqs[r].pc = "publish" /\ prov' = [prov EXCEPT !.current = reqs[r].key]
  /\ event' = (event \/ stream = "up")
  /\ Goto(r, "done")
  /\ UNCHANGED <<expired, env, db, stream, wire, service, restarts, breaks>>

\* Provisioning stops; its requests and its streams end with it.
ProvStops ==
  /\ prov.up /\ restarts < MaxRestarts /\ restarts' = restarts + 1
  /\ prov' = Down /\ reqs' = [r \in Request |-> [reqs[r] EXCEPT !.pc = IF @ = "idle" THEN @ ELSE "done"]]
  /\ stream' = "down" /\ event' = FALSE /\ wire' = <<>>
  /\ UNCHANGED <<expired, env, db, service, breaks>>

-----------------------------------------------------------------------------
(* WatchLicense and its client.                                            *)

Dial ==
  /\ service.up /\ prov.up /\ stream = "down" /\ stream' = "snapshot"
  /\ UNCHANGED <<expired, env, db, prov, reqs, event, wire, service, restarts, breaks>>

Send(next) ==
  /\ wire = <<>> /\ wire' = <<prov.current>> /\ stream' = next
  /\ UNCHANGED <<expired, env, db, prov, reqs, service, restarts, breaks>>

SendSnapshot == stream = "snapshot" /\ Send("subscribe") /\ event' = event

Subscribe ==
  /\ stream = "subscribe" /\ stream' = "up"
  /\ UNCHANGED <<expired, env, db, prov, reqs, event, wire, service, restarts, breaks>>

SendUpdate == stream = "up" /\ event /\ event' = FALSE /\ Send("up")

\* The stream breaks; firstKeyApplied is kept across connections.
Break ==
  /\ stream # "down" /\ breaks < MaxBreaks /\ breaks' = breaks + 1
  /\ stream' = "down" /\ event' = FALSE /\ wire' = <<>>
  /\ UNCHANGED <<expired, env, db, prov, reqs, service, restarts>>

\* streamLoop: the first key is applied whatever it is, later ones never lower.
Receive ==
  /\ service.up /\ wire # <<>> /\ wire' = Tail(wire)
  /\ LET k == Head(wire)
     IN service' = IF k = NoKey THEN service
                   ELSE IF ~service.first THEN [service EXCEPT !.first = TRUE, !.live = Reload(@, k)]
                   ELSE [service EXCEPT !.live = ReloadNoDowngrade(@, k)]
  /\ UNCHANGED <<expired, env, db, prov, reqs, stream, event, restarts, breaks>>

ServiceBoots ==
  /\ ~service.up /\ NewManager(env.service) # NoKey
  /\ service' = [up |-> TRUE, live |-> env.service, first |-> FALSE]
  /\ UNCHANGED <<expired, env, db, prov, reqs, stream, event, wire, restarts, breaks>>

ServiceStops ==
  /\ service.up /\ restarts < MaxRestarts /\ restarts' = restarts + 1
  /\ service' = [up |-> FALSE, live |-> NoKey, first |-> FALSE]
  /\ stream' = "down" /\ event' = FALSE /\ wire' = <<>>
  /\ UNCHANGED <<expired, env, db, prov, reqs, breaks>>

\* A key passes its expiry; the watcher logs it and changes nothing (runExpiryLoop).
Expires(k) ==
  /\ k \notin expired /\ expired' = expired \cup {k}
  /\ UNCHANGED <<env, db, prov, reqs, stream, event, wire, service, restarts, breaks>>

Next ==
  \/ Boot \/ ProvStops \/ ServiceBoots \/ ServiceStops
  \/ \E r \in Request : RequestArrives(r) \/ Check(r) \/ Apply(r) \/ Anchor(r) \/ Store(r) \/ Announce(r)
  \/ Dial \/ SendSnapshot \/ Subscribe \/ SendUpdate \/ Receive \/ Break
  \/ \E k \in Perishable : Expires(k)

Spec == Init /\ [][Next]_vars

-----------------------------------------------------------------------------

LowersCapacity(old, new) ==
  LET a == resolveLimits(old) b == resolveLimits(new)
  IN b # 0 /\ (a = 0 \/ b < a)

\* A process that has resolved its license never runs a lower edition or a smaller
\* capacity before it restarts (ADR-0038): the first key of the stream is the only one
\* applied unconditionally, whatever breaks, expires or is pushed (ReloadNoDowngrade).
NeverLowered ==
  [][/\ prov.up /\ prov'.up =>
          /\ editionRank[EditionOf[prov'.live]] >= editionRank[EditionOf[prov.live]]
          /\ ~LowersCapacity(prov.live, prov'.live)
     /\ service.up /\ service.first /\ service'.up =>
          /\ editionRank[EditionOf[service'.live]] >= editionRank[EditionOf[service.live]]
          /\ ~LowersCapacity(service.live, service'.live)]_vars

\* The stored key is never replaced by an older one (HandleReload: "otherwise an older
\* key could overwrite the newer persisted one").
StoredNeverOlder == [][db # NoKey => Iat[db'] >= Iat[db]]_vars
=============================================================================
