---------------------------- MODULE ShardTenants ----------------------------
(***************************************************************************)
(* One tenant on one shard: the reference-counted bus subscription, its    *)
(* forwarder goroutine, the shard's broadcast channel and the listener     *)
(* (server/orchestration/shard.go), with the bus's fan-out of received     *)
(* messages into subscriber channels (server/broadcast/valkey.go).         *)
(*                                                                         *)
(* Clients connect and disconnect concurrently.  The bus is called outside *)
(* tenantMu, so Subscribe and Unsubscribe interleave with other clients'   *)
(* critical sections and with a fan-out that is walking its snapshot.      *)
(* A channel is named after the client whose slow path made it; messages   *)
(* are counted, since nothing here depends on which one it is.             *)
(***************************************************************************)
EXTENDS Integers, FiniteSets

CONSTANTS
  Client,       \* clients of the tenant; each connects at most once
  None,
  BufferSize,   \* capacity of a subscriber channel
  BroadcastCap  \* capacity of broadcastChan

ConstantsAssumption ==
  /\ None \notin Client
  /\ BufferSize \in Nat \ {0} /\ BroadcastCap \in Nat \ {0}

VARIABLES
  phase,       \* [Client -> where its connect or disconnect is]
  leaving,     \* [Client -> the channel its disconnect will unsubscribe]
  entry,       \* tenantEntries[tenant]: [ch, refCount]; ch = None if there is none
  subscribers, \* channels in the bus's tenantSubscribers
  buffer,      \* [Client -> messages in its subscriber channel]
  fan,         \* fan-out: the rest of the snapshot
  forwarder,   \* [Client -> "off" | "recv" | "hold" | "done"]
  cancelled,   \* channels whose tenantCtx is cancelled
  broadcastChan, \* messages in it
  stopping,    \* Shutdown has cancelled the shard's context
  listening    \* runBroadcastListener runs

connVars == <<phase, leaving, entry>>
busVars  == <<subscribers, fan>>
fwdVars  == <<forwarder, broadcastChan>>
stopVars == <<stopping, listening>>
vars == <<connVars, busVars, buffer, fwdVars, cancelled, stopVars>>

NoEntry == [ch |-> None, refCount |-> 0]

\* Clients whose connect has counted them and whose disconnect has not uncounted them.
Counted == {k \in Client : phase[k] \in {"rollback", "on"}}

\* The reference count never exceeds the clients, the buffers never their capacity.
TypeOK ==
  /\ phase \in [Client -> {"off", "slow", "subscribed", "rollback", "on", "leaving", "gone"}]
  /\ leaving \in [Client -> Client \cup {None}]
  /\ entry \in [ch : Client \cup {None}, refCount : 0 .. Cardinality(Client)]
  /\ subscribers \subseteq Client /\ cancelled \subseteq Client
  /\ buffer \in [Client -> 0 .. BufferSize] /\ fan \subseteq Client
  /\ forwarder \in [Client -> {"off", "recv", "hold", "done"}]
  /\ broadcastChan \in 0 .. BroadcastCap
  /\ stopping \in BOOLEAN /\ listening \in BOOLEAN

Init ==
  /\ phase = [k \in Client |-> "off"] /\ leaving = [k \in Client |-> None]
  /\ entry = NoEntry
  /\ subscribers = {} /\ fan = {}
  /\ buffer = [k \in Client |-> 0]
  /\ forwarder = [k \in Client |-> "off"]
  /\ cancelled = {} /\ broadcastChan = 0
  /\ stopping = FALSE /\ listening = TRUE

Goto(k, p) == phase' = [phase EXCEPT ![k] = p]

-----------------------------------------------------------------------------
(* OnTenantClientConnect.                                                  *)

\* Fast path: the entry exists.
ConnectFast(k) ==
  /\ phase[k] = "off" /\ entry.ch # None
  /\ entry' = [entry EXCEPT !.refCount = @ + 1]
  /\ Goto(k, "on")
  /\ UNCHANGED <<leaving, busVars, buffer, fwdVars, cancelled, stopVars>>

\* No entry: the lock is released before the bus is called.
ConnectSlow(k) ==
  /\ phase[k] = "off" /\ entry.ch = None
  /\ Goto(k, "slow")
  /\ UNCHANGED <<leaving, entry, busVars, buffer, fwdVars, cancelled, stopVars>>

\* valkeyBus.Subscribe: a channel of its own.
BusSubscribe(k) ==
  /\ phase[k] = "slow"
  /\ subscribers' = subscribers \cup {k}
  /\ Goto(k, "subscribed")
  /\ UNCHANGED <<leaving, entry, fan, buffer, fwdVars, cancelled, stopVars>>

\* Mutant: the second look at the map is missing.
InstallUnchecked(k) ==
  /\ phase[k] = "subscribed"
  /\ entry' = [ch |-> k, refCount |-> 1]
  /\ forwarder' = [forwarder EXCEPT ![k] = "recv"]
  /\ cancelled' = IF stopping THEN cancelled \cup {k} ELSE cancelled
  /\ Goto(k, "on")
  /\ UNCHANGED <<leaving, busVars, buffer, broadcastChan, stopVars>>

\* Second critical section: install the entry and start the forwarder.
Install(k) ==
  /\ phase[k] = "subscribed" /\ entry.ch = None
  /\ entry' = [ch |-> k, refCount |-> 1]
  /\ forwarder' = [forwarder EXCEPT ![k] = "recv"]
  /\ cancelled' = IF stopping THEN cancelled \cup {k} ELSE cancelled
  /\ Goto(k, "on")
  /\ UNCHANGED <<leaving, busVars, buffer, broadcastChan, stopVars>>

\* ... or find that another client has installed one, join it
Join(k) ==
  /\ phase[k] = "subscribed" /\ entry.ch # None
  /\ entry' = [entry EXCEPT !.refCount = @ + 1]
  /\ cancelled' = cancelled \cup {k}
  /\ Goto(k, "rollback")
  /\ UNCHANGED <<leaving, busVars, buffer, fwdVars, stopVars>>

\* Mutant: the rollback unsubscribes the channel of the entry.
RollbackEntry(k) ==
  /\ phase[k] = "rollback"
  /\ subscribers' = subscribers \ {entry.ch}
  /\ Goto(k, "on")
  /\ UNCHANGED <<leaving, entry, fan, buffer, fwdVars, cancelled, stopVars>>

\* ... and roll the own subscription back outside the lock.
Rollback(k) ==
  /\ phase[k] = "rollback"
  /\ subscribers' = subscribers \ {k}
  /\ Goto(k, "on")
  /\ UNCHANGED <<leaving, entry, fan, buffer, fwdVars, cancelled, stopVars>>

-----------------------------------------------------------------------------
(* OnTenantClientDisconnect.                                               *)

\* Other clients of the tenant remain.
Disconnect(k) ==
  /\ phase[k] = "on" /\ entry.refCount > 1
  /\ entry' = [entry EXCEPT !.refCount = @ - 1]
  /\ Goto(k, "gone")
  /\ UNCHANGED <<leaving, busVars, buffer, fwdVars, cancelled, stopVars>>

\* Mutant: the forwarder is not cancelled.
DisconnectLastNoCancel(k) ==
  /\ phase[k] = "on" /\ entry.refCount = 1
  /\ leaving' = [leaving EXCEPT ![k] = entry.ch]
  /\ entry' = NoEntry
  /\ Goto(k, "leaving")
  /\ UNCHANGED <<busVars, buffer, fwdVars, cancelled, stopVars>>

\* The last client cancels the forwarder and deletes the entry
DisconnectLast(k) ==
  /\ phase[k] = "on" /\ entry.refCount = 1
  /\ cancelled' = cancelled \cup {entry.ch}
  /\ leaving' = [leaving EXCEPT ![k] = entry.ch]
  /\ entry' = NoEntry
  /\ Goto(k, "leaving")
  /\ UNCHANGED <<busVars, buffer, fwdVars, stopVars>>

\* Mutant: the bus is not told.
BusUnsubscribeForgets(k) ==
  /\ phase[k] = "leaving"
  /\ leaving' = [leaving EXCEPT ![k] = None]
  /\ Goto(k, "gone")
  /\ UNCHANGED <<entry, busVars, buffer, fwdVars, cancelled, stopVars>>

\* ... and unsubscribes outside the lock.
BusUnsubscribe(k) ==
  /\ phase[k] = "leaving"
  /\ subscribers' = subscribers \ {leaving[k]}
  /\ leaving' = [leaving EXCEPT ![k] = None]
  /\ Goto(k, "gone")
  /\ UNCHANGED <<entry, fan, buffer, fwdVars, cancelled, stopVars>>

-----------------------------------------------------------------------------
(* fanOutTenant: snapshot under the lock, then one non-blocking send each. *)

FanOut ==
  /\ fan = {} /\ fan' = subscribers
  /\ UNCHANGED <<connVars, subscribers, buffer, fwdVars, cancelled, stopVars>>

FanOutSend(k) ==
  /\ k \in fan /\ fan' = fan \ {k}
  /\ buffer' = IF buffer[k] < BufferSize THEN [buffer EXCEPT ![k] = @ + 1] ELSE buffer
  /\ UNCHANGED <<connVars, subscribers, fwdVars, cancelled, stopVars>>

-----------------------------------------------------------------------------
(* runTenantForwarder for channel k.  Both selects choose freely among the *)
(* ready arms, also when the context is cancelled.                         *)

ForwarderTakes(k) ==
  /\ forwarder[k] = "recv" /\ buffer[k] > 0
  /\ buffer' = [buffer EXCEPT ![k] = @ - 1]
  /\ forwarder' = [forwarder EXCEPT ![k] = "hold"]
  /\ UNCHANGED <<connVars, busVars, broadcastChan, cancelled, stopVars>>

ForwarderPuts(k) ==
  /\ forwarder[k] = "hold" /\ broadcastChan < BroadcastCap
  /\ broadcastChan' = broadcastChan + 1
  /\ forwarder' = [forwarder EXCEPT ![k] = "recv"]
  /\ UNCHANGED <<connVars, busVars, buffer, cancelled, stopVars>>

\* Mutant: the inner select has no ctx.Done arm.
ForwarderEndsOuter(k) ==
  /\ forwarder[k] = "recv" /\ k \in cancelled
  /\ buffer' = [buffer EXCEPT ![k] = 0]
  /\ forwarder' = [forwarder EXCEPT ![k] = "done"]
  /\ UNCHANGED <<connVars, busVars, broadcastChan, cancelled, stopVars>>

\* ctx.Done in either select: drain and return.
ForwarderEnds(k) ==
  /\ forwarder[k] \in {"recv", "hold"} /\ k \in cancelled
  /\ buffer' = [buffer EXCEPT ![k] = 0]
  /\ forwarder' = [forwarder EXCEPT ![k] = "done"]
  /\ UNCHANGED <<connVars, busVars, broadcastChan, cancelled, stopVars>>

\* runBroadcastListener hands a message to Server.Broadcast
Listen ==
  /\ listening /\ broadcastChan > 0
  /\ broadcastChan' = broadcastChan - 1
  /\ UNCHANGED <<connVars, busVars, buffer, forwarder, cancelled, stopVars>>

\* ... until the shard's context is cancelled.
ListenerStops ==
  /\ listening /\ stopping /\ listening' = FALSE
  /\ UNCHANGED <<connVars, busVars, buffer, fwdVars, cancelled, stopping>>

\* Shutdown cancels the shard's context and with it every tenant's.
Shutdown ==
  /\ ~stopping /\ stopping' = TRUE
  /\ cancelled' = cancelled \cup {k \in Client : forwarder[k] # "off"}
  /\ UNCHANGED <<connVars, busVars, buffer, fwdVars, listening>>

-----------------------------------------------------------------------------
Connect(k) ==
  ConnectFast(k) \/ ConnectSlow(k) \/ BusSubscribe(k) \/ Install(k) \/ Join(k) \/ Rollback(k)

Leave(k) == Disconnect(k) \/ DisconnectLast(k) \/ BusUnsubscribe(k)

Forwarder(k) == ForwarderTakes(k) \/ ForwarderPuts(k) \/ ForwarderEnds(k)

Next ==
  \/ \E k \in Client : Connect(k) \/ Leave(k) \/ FanOutSend(k) \/ Forwarder(k)
  \/ FanOut \/ Listen \/ ListenerStops \/ Shutdown

Spec == Init /\ [][Next]_vars

\* A cancelled forwarder runs: ForwarderEnds stays enabled once it is, and a select that
\* is entered again and again with a ready arm takes it.  Nothing is owed by the bus, by
\* the listener or by clients.
Fairness == \A k \in Client : WF_vars(ForwarderEnds(k))

FairSpec == Spec /\ Fairness

-----------------------------------------------------------------------------
(* Properties.                                                             *)

\* The reference count is exactly the clients that are connected, whatever the races of
\* first connects, rollbacks and last disconnects; there is no entry without a client.
RefCountExact == entry.refCount = Cardinality(Counted) /\ (entry.ch = None <=> Counted = {})

\* While a client is connected, the entry's channel is subscribed on the bus and its
\* forwarder runs: no other client's rollback or late Unsubscribe takes it away.
ConnectedIsForwarded ==
  entry.ch # None =>
    /\ entry.ch \in subscribers
    /\ forwarder[entry.ch] \in {"recv", "hold"} \/ stopping
    /\ entry.ch \in cancelled => stopping

\* When no connect or disconnect is under way, the bus holds the entry's channel and no
\* other: nothing leaks.
NoLeakedSubscription ==
  (\A k \in Client : phase[k] \in {"off", "on", "gone"}) => subscribers = {entry.ch} \ {None}

\* A forwarder that no entry refers to has been told to stop: at most one goes on.
OneLiveForwarder ==
  \A k \in Client : forwarder[k] \in {"recv", "hold"} /\ k \notin cancelled => entry.ch = k

\* A cancelled forwarder ends, even if broadcastChan is full and nobody reads it: Shutdown's
\* wg.Wait returns.  (A channel is cancelled once, and off if it never had a forwarder.)
CancelledEnds ==
  <>[](\A k \in cancelled : forwarder[k] \in {"off", "done"})
=============================================================================
