----------------------------- MODULE PushConfig -----------------------------
(***************************************************************************)
(* The push configuration of one tenant on its way from the provisioning   *)
(* database to the push service: credentials per provider and the channel  *)
(* patterns, written by the HTTP handlers and by StorePushCredentials,     *)
(* streamed by WatchPushConfig, cached by the ConfigClient and read by the *)
(* providers, by GetVAPIDKey and by the refresh of the consumed topics.    *)
(*                                                                         *)
(* An item is a provider's credential or "channels", the pattern row; its  *)
(* content is the number of the write that produced it, 0 when there is    *)
(* none.  A full event buffer drops events: that is in WatchStream.        *)
(***************************************************************************)
EXTENDS Naturals, Sequences

CONSTANTS Call, Managed, Mobile, WireCap, MaxWrites, MaxBreaks

Provider == Mobile \cup {"vapid"}
Item == Provider \cup {"channels"}
Nobody == "nobody"

VARIABLES store,    \* the rows of push_credentials and push_channel_configs
          writes,   \* writes so far
          watch,    \* WatchPushConfig: "down", "loaded" (snapshot sent), "up"
          pending,  \* a PushConfigChanged event waits in the subscription
          breaks,   \* streams broken and reloads failed so far
          wire,     \* responses in transit
          cache,    \* pushConfigSnapshot: content of every item
          enabled,  \* the tenant is in pushEnabledTenants
          consumed, \* the consumer pool holds the tenant's topics
          clients,  \* content from which a cached mobile client was made
          calls,    \* requests that write: uploads and GetVAPIDKey
          vapidMu   \* who holds it

vars == <<store, writes, watch, pending, breaks, wire, cache, enabled, consumed, clients, calls, vapidMu>>

Idle == [pc |-> "idle", item |-> "channels", key |-> 0]
Nothing == [i \in Item |-> 0]
Any(c) == \E i \in Item : c[i] # 0

Init ==
    /\ store = Nothing /\ writes = 0
    /\ watch = "down" /\ pending = FALSE /\ breaks = 0 /\ wire = <<>>
    /\ cache = Nothing /\ enabled = FALSE /\ consumed = FALSE
    /\ clients = [p \in Mobile |-> 0]
    /\ calls = [c \in Call |-> Idle] /\ vapidMu = Nobody

TypeOK ==
    /\ store \in [Item -> 0..MaxWrites] /\ cache \in [Item -> 0..MaxWrites]
    /\ clients \in [Mobile -> 0..MaxWrites]
    /\ watch \in {"down", "loaded", "up"} /\ pending \in BOOLEAN /\ Len(wire) <= WireCap
    /\ calls \in [Call -> [pc : {"idle", "missed", "locked", "create", "update", "done", "failed"},
                           item : Item, key : 0..MaxWrites]]
    /\ vapidMu \in Call \cup {Nobody}

configVars == <<watch, breaks, wire, cache, enabled, consumed, clients>>

(***************************************************************************)
(* The writers in provisioning                                             *)
(***************************************************************************)
\* Publish reaches the stream only once it has subscribed.
Publish == pending' = (pending \/ watch = "up")

\* INSERT; a row for the tenant and provider makes it fail.
Create(i) == store[i] = 0 /\ writes < MaxWrites /\ store' = [store EXCEPT ![i] = writes + 1] /\ writes' = writes + 1

\* UPDATE of an existing row.
Update(i) == store[i] # 0 /\ writes < MaxWrites /\ store' = [store EXCEPT ![i] = writes + 1] /\ writes' = writes + 1

\* DELETE of an existing row; without one the handler answers 404.
Delete(i) == store[i] # 0 /\ store' = [store EXCEPT ![i] = 0]

\* INSERT ... ON CONFLICT DO UPDATE.
Upsert(i) == Create(i) \/ Update(i)

\* The request passes the checks of its body, provider, edition and content.
HandleUploadCredentials(c, p) ==
    /\ calls[c].pc = "idle" /\ p \in Managed
    /\ calls' = [calls EXCEPT ![c] = [pc |-> "create", item |-> p, key |-> 0]]
    /\ UNCHANGED <<store, writes, pending, vapidMu, configVars>>

\* The deferred Unlock of GetVAPIDKey; an upload holds nothing.
Unlock(c) == vapidMu' = IF vapidMu = c THEN Nobody ELSE vapidMu

\* Create, and Update when the row exists; the event follows the write.
StorePushCredentials(c) ==
    LET i == calls[c].item
        written == [calls EXCEPT ![c].pc = "done", ![c].key = writes + 1]
    IN  \/ calls[c].pc = "create" /\ Create(i) /\ calls' = written /\ Unlock(c) /\ Publish
        \/ /\ calls[c].pc = "create" /\ store[i] # 0
           /\ calls' = [calls EXCEPT ![c].pc = "update"] /\ UNCHANGED <<store, writes, pending, vapidMu>>
        \/ calls[c].pc = "update" /\ Update(i) /\ calls' = written /\ Unlock(c) /\ Publish

\* The database or the RPC fails, or the row to update is gone: no event.
StoreFails(c) ==
    /\ calls[c].pc \in {"create", "update"}
    /\ calls' = [calls EXCEPT ![c].pc = "failed"] /\ Unlock(c)
    /\ UNCHANGED <<store, writes, pending, configVars>>

StoreStep(c) == StorePushCredentials(c) /\ UNCHANGED configVars

HandleDeleteCredentials(p) ==
    /\ p \in Managed /\ Delete(p) /\ Publish /\ UNCHANGED <<writes, calls, vapidMu, configVars>>

HandleCreateChannelConfig ==
    /\ "channels" \in Managed /\ Upsert("channels") /\ Publish /\ UNCHANGED <<calls, vapidMu, configVars>>

HandleDeleteChannelConfig ==
    /\ "channels" \in Managed /\ Delete("channels") /\ Publish /\ UNCHANGED <<writes, calls, vapidMu, configVars>>

(***************************************************************************)
(* WatchPushConfig and the client's stream loop                            *)
(***************************************************************************)
\* Everything is loaded for a snapshot and for a delta alike, and the lists of removed items stay empty.
loadPushConfig(snapshot) == [snapshot |-> snapshot, rows |-> store, removed |-> {}]

writeVars == <<store, writes, calls, vapidMu>>

\* The stream starts with a snapshot.
WatchPushConfig ==
    /\ watch = "down" /\ watch' = "loaded" /\ wire' = <<loadPushConfig(TRUE)>>
    /\ UNCHANGED <<writeVars, pending, breaks, cache, enabled, consumed, clients>>

\* Only then does the handler subscribe to the events.
Subscribe ==
    /\ watch = "loaded" /\ watch' = "up"
    /\ UNCHANGED <<writeVars, pending, breaks, wire, cache, enabled, consumed, clients>>

\* An event: a reload is sent as a delta.
SendDelta ==
    /\ watch = "up" /\ pending /\ Len(wire) < WireCap
    /\ pending' = FALSE /\ wire' = Append(wire, loadPushConfig(FALSE))
    /\ UNCHANGED <<writeVars, watch, breaks, cache, enabled, consumed, clients>>

\* The reload fails: the event is consumed and nothing is sent.
ReloadFails ==
    /\ watch = "up" /\ pending /\ breaks < MaxBreaks
    /\ pending' = FALSE /\ breaks' = breaks + 1
    /\ UNCHANGED <<writeVars, watch, wire, cache, enabled, consumed, clients>>

\* The stream breaks: the loop of the client starts another after a delay.
StreamBreaks ==
    /\ watch # "down" /\ breaks < MaxBreaks
    /\ watch' = "down" /\ pending' = FALSE /\ wire' = <<>> /\ breaks' = breaks + 1
    /\ UNCHANGED <<writeVars, cache, enabled, consumed, clients>>

applySnapshot(m) == cache' = m.rows /\ enabled' = Any(m.rows)

\* Removals, then upserts, on a copy of the last snapshot; the removal of the patterns takes the tenant with it.
Merged(m) == [i \in Item |-> IF m.rows[i] # 0 THEN m.rows[i] ELSE IF {i, "channels"} \cap m.removed # {} THEN 0 ELSE cache[i]]

\* Mutant: a tenant configured after the snapshot is not marked.
applyDeltaForgets(m) == cache' = Merged(m) /\ enabled' = enabled

applyDelta(m) == cache' = Merged(m) /\ enabled' = (("channels" \notin m.removed /\ enabled) \/ Any(m.rows))

updatePushConfig ==
    /\ wire # <<>>
    /\ IF Head(wire).snapshot THEN applySnapshot(Head(wire)) ELSE applyDelta(Head(wire))
    /\ wire' = Tail(wire)
    /\ UNCHANGED <<writeVars, watch, pending, breaks, consumed, clients>>

(***************************************************************************)
(* The readers of the cache                                                *)
(***************************************************************************)
\* The topics of the tenant are listed when it is push-enabled.
GetTopics == enabled

\* The ticker of the service: UpdateTopics adds or purges what changed.
refreshTopics ==
    /\ consumed # GetTopics /\ consumed' = GetTopics
    /\ UNCHANGED <<writeVars, watch, pending, breaks, wire, cache, enabled, clients>>

GetCredential(p) == cache[p]

\* A send makes the client of its tenant at the first use and keeps it.
messagingClient(p) ==
    /\ clients[p] = 0 /\ GetCredential(p) # 0
    /\ clients' = [clients EXCEPT ![p] = GetCredential(p)]
    /\ UNCHANGED <<writeVars, watch, pending, breaks, wire, cache, enabled, consumed>>

lookupVAPIDPublicKey == GetCredential("vapid")

readVars == <<store, writes, pending, configVars>>

\* The lock-free look at the cache.
GetVAPIDKey(c) ==
    /\ calls[c].pc = "idle"
    /\ calls' = [calls EXCEPT ![c] = [pc |-> IF lookupVAPIDPublicKey # 0 THEN "done" ELSE "missed",
                                      item |-> "vapid", key |-> lookupVAPIDPublicKey]]
    /\ UNCHANGED <<vapidMu, readVars>>

LockVapid(c) ==
    /\ calls[c].pc = "missed" /\ vapidMu = Nobody
    /\ vapidMu' = c /\ calls' = [calls EXCEPT ![c].pc = "locked"]
    /\ UNCHANGED readVars

\* The second look, at the same cache; without a key one is generated and stored.
DoubleCheck(c) ==
    /\ calls[c].pc = "locked"
    /\ IF lookupVAPIDPublicKey # 0
       THEN calls' = [calls EXCEPT ![c].pc = "done", ![c].key = lookupVAPIDPublicKey] /\ vapidMu' = Nobody
       ELSE calls' = [calls EXCEPT ![c].pc = "create"] /\ UNCHANGED vapidMu
    /\ UNCHANGED readVars

Writers ==
    \/ \E c \in Call, p \in Provider : HandleUploadCredentials(c, p)
    \/ \E c \in Call : StoreStep(c) \/ StoreFails(c)
    \/ \E p \in Provider : HandleDeleteCredentials(p)
    \/ HandleCreateChannelConfig
    \/ HandleDeleteChannelConfig

StreamStep == WatchPushConfig \/ Subscribe \/ SendDelta \/ ReloadFails \/ StreamBreaks \/ updatePushConfig

Readers ==
    \/ refreshTopics
    \/ \E p \in Mobile : messagingClient(p)
    \/ \E c \in Call : GetVAPIDKey(c) \/ LockVapid(c) \/ DoubleCheck(c)

WatchHandler == WatchPushConfig \/ Subscribe \/ SendDelta

Next == Writers \/ StreamStep \/ Readers

\* The stream loop, the handler and the ticker keep running; requests need not come.
Fairness ==
    /\ WF_vars(WatchHandler) /\ WF_vars(updatePushConfig) /\ WF_vars(refreshTopics)

Spec == Init /\ [][Next]_vars /\ Fairness

(***************************************************************************)
(* Properties                                                              *)
(***************************************************************************)
\* A tenant whose patterns have reached the cache has its topics consumed, through the next refresh, unless the
\* patterns are gone again: the flag that GetTopics filters by follows snapshots and deltas alike.
EnabledIsConsumed == cache["channels"] # 0 ~> (consumed \/ cache["channels"] = 0)

\* After a response is applied the cache holds what the server had loaded: an item deleted before the reload is
\* not kept (removed_credential_ids and removed_config_tenant_slugs of the response are there to say so).
AppliedIsLoaded == [][wire # <<>> /\ wire' = Tail(wire) /\ watch' = watch => cache' = Head(wire).rows]_vars

\* While no operator touches the VAPID credential, every key that GetVAPIDKey has returned is the tenant's key: the
\* mutex and the second look at the cache keep a second caller from generating another.
VapidKeyStable ==
    "vapid" \notin Managed =>
        \A c, d \in Call : calls[c].pc = "done" /\ calls[c].item = "vapid" /\ calls[d].pc = "done" /\ calls[d].item = "vapid"
                           => calls[c].key = calls[d].key

\* A rotated mobile credential replaces the cached client in the end (InvalidateClient of the providers).
RotationTakesEffect == \A p \in Mobile : clients[p] # cache[p] ~> (clients[p] = cache[p] \/ cache[p] = 0)
=============================================================================
