----------------------------- MODULE WatchStream -----------------------------
(***************************************************************************)
(* How provisioning state reaches the other services: a Watch RPC of the   *)
(* provisioning server (provisioning/grpcserver/server.go), fed by the     *)
(* in-process event bus (provisioning/eventbus/bus.go), and the client     *)
(* that caches what it streams (shared/provapi).                           *)
(*                                                                         *)
(* The RPCs WatchKeys, WatchTenantConfig, WatchTopics, WatchAPIKeys,       *)
(* WatchPushConfig, WatchLicense and WatchTokenRevocations have one shape: *)
(* load, send a snapshot, subscribe, and reload at every event of their    *)
(* kind.  The clients differ in what they make of a response and in the    *)
(* pause after a broken stream; the kind of stream is chosen at the start. *)
(* The push configuration is in PushConfig, the license in License.        *)
(***************************************************************************)
EXTENDS Integers, Sequences

CONSTANTS
  Item,           \* keys, tenants, topics ...
  Kind,           \* the streams of this instance
  BufferSize,     \* subscriberBufferSize
  WireCap,        \* messages in flight before Send blocks
  MaxChanges, MaxOthers, MaxFaults

ConstantsAssumption ==
  /\ Kind \subseteq {"keys", "apiKeys", "tenantConfig", "topics", "revocations"}
  /\ BufferSize \in Nat \ {0} /\ WireCap \in Nat \ {0}
  /\ MaxChanges \in Nat /\ MaxOthers \in Nat /\ MaxFaults \in Nat

VARIABLES
  kind,       \* which stream this is
  db,         \* the active items of the database
  publishing, \* changes that are committed and whose event is not published yet
  events,     \* the handler's event channel; <<>> while it has none
  handler,    \* where the RPC handler is
  loaded,     \* what it loaded last: [snapshot, items]
  wire,       \* messages of the stream that are not received yet
  client,     \* streamLoop: "dial", "wait", "up"
  cache,      \* the client's cache
  lost,       \* history: the handler missed a change since its last load
  tight,      \* history: dials since the client last waited or received something
  changes, others, faults

serverVars == <<handler, loaded, events, lost>>
boundVars  == <<changes, others, faults>>
vars == <<kind, db, publishing, serverVars, wire, client, cache, tight, boundVars>>

\* The handler has a channel on the bus.
Subscribed == handler \in {"select", "reload", "sendDelta"}

\* Types, with the capacity of the event channel and of the stream.
TypeOK ==
  /\ kind \in Kind /\ db \subseteq Item /\ cache \subseteq Item /\ publishing \in 0 .. MaxChanges
  /\ events \in Seq({"mine", "other"}) /\ Len(events) <= BufferSize
  /\ handler \in {"none", "load", "send", "subscribe", "select", "reload", "sendDelta"}
  /\ loaded \in [snapshot : BOOLEAN, items : SUBSET Item]
  /\ wire \in Seq([snapshot : BOOLEAN, items : SUBSET Item]) /\ Len(wire) <= WireCap
  /\ client \in {"dial", "wait", "up"}
  /\ lost \in BOOLEAN /\ tight \in Nat
  /\ changes \in 0 .. MaxChanges /\ others \in 0 .. MaxOthers /\ faults \in 0 .. MaxFaults

Init ==
  /\ kind \in Kind
  /\ db \in SUBSET Item /\ publishing = 0 /\ cache = {}
  /\ events = <<>> /\ handler = "none" /\ loaded = [snapshot |-> TRUE, items |-> {}]
  /\ wire = <<>> /\ client = "dial" /\ lost = FALSE /\ tight = 0
  /\ changes = 0 /\ others = 0 /\ faults = 0

-----------------------------------------------------------------------------
(* Provisioning operations: commit, then publish an event.                 *)

Change(i) ==
  /\ changes < MaxChanges /\ changes' = changes + 1
  /\ db' = (db \ {i}) \cup ({i} \ db) /\ publishing' = publishing + 1
  /\ UNCHANGED <<kind, serverVars, wire, client, cache, tight, others, faults>>

\* Bus.Publish: a non-blocking send to every subscriber.  An event is lost on a handler
\* that has loaded and not subscribed yet, and on one whose buffer is full.
BusPublish(e) ==
  /\ events' = IF Subscribed /\ Len(events) < BufferSize THEN Append(events, e) ELSE events
  /\ LET missed == \/ handler \in {"send", "subscribe"} /\ loaded.items # db
                   \/ Subscribed /\ Len(events) = BufferSize
     IN lost' = (lost \/ (e = "mine" /\ missed))

Publish ==
  /\ publishing > 0 /\ publishing' = publishing - 1
  /\ BusPublish("mine")
  /\ UNCHANGED <<kind, db, handler, loaded, wire, client, cache, tight, boundVars>>

\* Every subscriber gets the events of every kind.
PublishOther ==
  /\ others < MaxOthers /\ others' = others + 1
  /\ BusPublish("other")
  /\ UNCHANGED <<kind, db, publishing, handler, loaded, wire, client, cache, tight, changes, faults>>

-----------------------------------------------------------------------------
(* The RPC handler.                                                        *)

HandlerLoads ==
  /\ handler = "load" /\ handler' = "send"
  /\ loaded' = [snapshot |-> TRUE, items |-> db] /\ lost' = FALSE
  /\ UNCHANGED <<kind, db, publishing, events, wire, client, cache, tight, boundVars>>

\* An error of the first load ends the RPC.
HandlerLoadFails ==
  /\ handler = "load" /\ handler' = "none"
  /\ faults < MaxFaults /\ faults' = faults + 1
  /\ UNCHANGED <<kind, db, publishing, loaded, events, lost, wire, client, cache, tight, changes, others>>

HandlerSends ==
  /\ handler \in {"send", "sendDelta"} /\ Len(wire) < WireCap
  /\ wire' = Append(wire, loaded)
  /\ handler' = IF handler = "send" THEN "subscribe" ELSE "select"
  /\ UNCHANGED <<kind, db, publishing, loaded, events, lost, client, cache, tight, boundVars>>

HandlerSubscribes ==
  /\ handler = "subscribe" /\ handler' = "select"
  /\ UNCHANGED <<kind, db, publishing, loaded, events, lost, wire, client, cache, tight, boundVars>>

\* Mutant: an event of another kind empties the channel.
HandlerTakesAll ==
  /\ handler = "select" /\ events # <<>>
  /\ events' = <<>>
  /\ handler' = IF Head(events) = "mine" THEN "reload" ELSE "select"
  /\ UNCHANGED <<kind, db, publishing, loaded, lost, wire, client, cache, tight, boundVars>>

HandlerTakes ==
  /\ handler = "select" /\ events # <<>>
  /\ events' = Tail(events)
  /\ handler' = IF Head(events) = "mine" THEN "reload" ELSE "select"
  /\ UNCHANGED <<kind, db, publishing, loaded, lost, wire, client, cache, tight, boundVars>>

HandlerReloads ==
  /\ handler = "reload" /\ handler' = "sendDelta"
  /\ loaded' = [snapshot |-> FALSE, items |-> db] /\ lost' = FALSE
  /\ UNCHANGED <<kind, db, publishing, events, wire, client, cache, tight, boundVars>>

\* An error of a later load is logged and the event forgotten.
HandlerReloadFails ==
  /\ handler = "reload" /\ handler' = "select"
  /\ faults < MaxFaults /\ faults' = faults + 1 /\ lost' = TRUE
  /\ UNCHANGED <<kind, db, publishing, loaded, events, wire, client, cache, tight, changes, others>>

-----------------------------------------------------------------------------
(* streamLoop of the client.                                               *)

Dial ==
  /\ client = "dial" /\ client' = "up" /\ handler' = "load" /\ lost' = FALSE
  /\ tight' = tight + 1
  /\ UNCHANGED <<kind, db, publishing, loaded, events, wire, cache, boundVars>>

DialFails ==
  /\ client = "dial" /\ client' = "wait"
  /\ faults < MaxFaults /\ faults' = faults + 1
  /\ UNCHANGED <<kind, db, publishing, serverVars, wire, cache, tight, changes, others>>

DelayOver ==
  /\ client = "wait" /\ client' = "dial" /\ tight' = 0
  /\ UNCHANGED <<kind, db, publishing, serverVars, wire, cache, boundVars>>

\* What the clients make of a response.  No delta of the server names what was removed, so
\* the ones that merge keep it until the next snapshot.
updateKeys(m) == IF m.snapshot THEN m.items ELSE cache \cup m.items
updateAPIKeys(m) == IF m.snapshot THEN m.items ELSE cache \cup m.items
updateTenantConfigs(m) == IF m.snapshot THEN m.items ELSE cache \cup m.items
applySnapshot(m) == m.items
applyDelta(m) == cache \cup m.items

\* Mutant: the topics of a delta are added as well.
applyTopicUpdateMerges(m) == IF m.snapshot THEN m.items ELSE cache \cup m.items

applyTopicUpdate(m) == m.items

Applied(m) ==
  CASE kind = "keys" -> updateKeys(m)
    [] kind = "apiKeys" -> updateAPIKeys(m)
    [] kind = "tenantConfig" -> updateTenantConfigs(m)
    [] kind = "topics" -> applyTopicUpdate(m)
    [] kind = "revocations" -> IF m.snapshot THEN applySnapshot(m) ELSE applyDelta(m)

Receive ==
  /\ client = "up" /\ wire # <<>>
  /\ wire' = Tail(wire) /\ tight' = 0 /\ cache' = Applied(Head(wire))
  /\ UNCHANGED <<kind, db, publishing, serverVars, client, boundVars>>

\* The revocation client waits after any disconnect, the others dial at once.
AfterBreak == IF kind = "revocations" THEN "wait" ELSE "dial"

\* Recv returns the error with which the handler ended
StreamEnds ==
  /\ client = "up" /\ handler = "none" /\ wire = <<>>
  /\ client' = AfterBreak
  /\ UNCHANGED <<kind, db, publishing, serverVars, wire, cache, tight, boundVars>>

\* ... or the connection breaks: messages in flight are gone and the handler unsubscribes.
StreamBreaks ==
  /\ client = "up" /\ handler # "none"
  /\ faults < MaxFaults /\ faults' = faults + 1
  /\ client' = AfterBreak /\ handler' = "none" /\ events' = <<>> /\ wire' = <<>> /\ lost' = FALSE
  /\ UNCHANGED <<kind, db, publishing, loaded, cache, tight, changes, others>>

-----------------------------------------------------------------------------
Handler ==
  HandlerLoads \/ HandlerSends \/ HandlerSubscribes \/ HandlerTakes \/ HandlerReloads

Fault == HandlerLoadFails \/ HandlerReloadFails \/ DialFails \/ StreamBreaks

Client == Dial \/ DelayOver \/ Receive \/ StreamEnds

Next == (\E i \in Item : Change(i)) \/ Publish \/ PublishOther \/ Handler \/ Client \/ Fault

Spec == Init /\ [][Next]_vars

\* Operations publish what they commit; handler and client goroutines run.  Faults are
\* bounded, so no fairness is assumed of them.
Fairness == WF_vars(Publish) /\ WF_vars(Handler) /\ WF_vars(Client)

FairSpec == Spec /\ Fairness

-----------------------------------------------------------------------------
(* Properties.                                                             *)

\* A subscribed handler that has not loaded the database's present state has an event
\* coming, unless it missed one: published before it subscribed, dropped at a full buffer,
\* or forgotten with a failed reload.  There is no fourth way.
NoOtherLoss ==
  handler = "select" /\ loaded.items # db => publishing > 0 \/ (\E n \in DOMAIN events : events[n] = "mine") \/ lost

\* What the cache owes to the database: the topics are replaced, the others are merged and
\* may hold more.
Reflects == IF kind = "topics" THEN cache = db ELSE db \subseteq cache

\* The revocation client waits between two dials unless a message arrived in between: "A
\* stream that errors immediately on Recv must NOT reconnect in a tight loop."
NoTightLoop == kind = "revocations" => tight <= 1

\* In the end every client's cache reflects the database, or an event was missed.
CurrentOrMissed == <>[](Reflects \/ lost)

\* The Watch RPCs send "a snapshot on connect, then stream deltas when keys change via event
\* bus": in the end the cache is the database.
Current == <>[](cache = db)

=============================================================================
