---------------------------- MODULE ClientLease ----------------------------
(***************************************************************************)
(* The pooled Client objects of a shard and the connections that lease     *)
(* them one after another (server/connection.go, handlers_ws.go,           *)
(* grpc_service.go, client_lifecycle.go, pump.go, broadcast.go).           *)
(*                                                                         *)
(* A connection takes a slot and an object from the pool; its reader ends  *)
(* it, puts the object back and frees the slot.  Two goroutines hold the   *)
(* object without leasing it: the connection's WriteLoop, which nobody     *)
(* waits for, and the shard's broadcast listener, which walks a snapshot   *)
(* of the subscribers.  Both read the object's fields afresh at each step, *)
(* whoever leases it by then.                                              *)
(*                                                                         *)
(* A lease stands for its transport, its client id and its subscriptions.  *)
(* A send channel is named after the lease that made it, or after its      *)
(* object if the pool made it with the object.                             *)
(***************************************************************************)
EXTENDS Integers, Sequences, FiniteSets

CONSTANTS
  Client,    \* pooled objects
  Lease,     \* connections
  MaxConns,  \* capacity of connectionsSem
  SendCap,   \* capacity of a send channel
  None

ASSUME ConstantsAssumption ==
  /\ MaxConns \in Nat \ {0} /\ SendCap \in Nat \ {0}
  /\ None \notin Client \cup Lease /\ Client \cap Lease = {}

VARIABLES
  obj,        \* [Client -> fields of the object]
  pool,       \* objects in the sync.Pool
  sem,        \* slots taken from connectionsSem
  phase,      \* [Lease -> where its handler or reader is]
  kind,       \* [Lease -> "ws" | "sse"]
  holds,      \* [Lease -> its object]
  tOpen,      \* leases whose transport is open
  indexed,    \* pairs <<object, lease>> of the subscription index
  limiter,    \* leases with a token bucket
  helper,     \* leases with a history or replay delivery goroutine
  writer,     \* [Lease -> where its WriteLoop is]
  watched,    \* [Lease -> the channel its blocking select evaluated]
  carried,    \* [Lease -> the message its WriteLoop took]
  queue,      \* [channel -> Seq(lease the message is meant for)]
  closed,     \* closed channels
  listener    \* the broadcast listener: [at, c, for]

Chan == Client \cup Lease
leaseVars  == <<sem, phase, kind, holds>>
writerVars == <<writer, watched, carried>>
chanVars   == <<queue, closed>>
vars == <<obj, pool, leaseVars, tOpen, indexed, limiter, helper, writerVars, chanVars, listener>>

Fields == [transport : Lease \cup {None}, send : Chan, sendClosed : BOOLEAN, closeOnce : BOOLEAN,
           id : Lease \cup {None}]

Phase == {"none", "rejected", "admitted", "got", "attached", "live", "unindex",
          "closeSend", "put", "release", "limiter", "gone"}

\* Phases in which the connection has taken a slot and not given it back.
HasSlot(l) == phase[l] \notin {"none", "rejected", "limiter", "gone"}
\* Phases in which it has an object from the pool and not put it back.
HasObject(l) == HasSlot(l) /\ phase[l] \notin {"admitted", "release"}

\* The slots never exceed connectionsSem and a send channel never its capacity.
TypeOK ==
  /\ obj \in [Client -> Fields] /\ pool \subseteq Client /\ sem \in 0 .. MaxConns
  /\ phase \in [Lease -> Phase] /\ kind \in [Lease -> {"ws", "sse"}]
  /\ holds \in [Lease -> Client \cup {None}]
  /\ tOpen \subseteq Lease /\ limiter \subseteq Lease /\ helper \subseteq Lease
  /\ indexed \subseteq Client \X Lease
  /\ writer \in [Lease -> {"none", "top", "select", "send", "exit", "done"}]
  /\ watched \in [Lease -> Chan \cup {None}] /\ carried \in [Lease -> Lease \cup {None}]
  /\ \A ch \in Chan : queue[ch] \in Seq(Lease) /\ Len(queue[ch]) <= SendCap
  /\ closed \subseteq Chan
  /\ listener \in [at : {"idle", "check", "send", "dead"}, c : Client \cup {None}, for : Lease \cup {None}]

Init ==
  /\ obj = [c \in Client |-> [transport |-> None, send |-> c, sendClosed |-> FALSE,
                              closeOnce |-> FALSE, id |-> None]]
  /\ pool = Client /\ sem = 0
  /\ phase = [l \in Lease |-> "none"] /\ kind = [l \in Lease |-> "ws"]
  /\ holds = [l \in Lease |-> None]
  /\ tOpen = {} /\ indexed = {} /\ limiter = {} /\ helper = {}
  /\ writer = [l \in Lease |-> "none"]
  /\ watched = [l \in Lease |-> None] /\ carried = [l \in Lease |-> None]
  /\ queue = [ch \in Chan |-> <<>>] /\ closed = {}
  /\ listener = [at |-> "idle", c |-> None, for |-> None]

Goto(l, p) == phase' = [phase EXCEPT ![l] = p]

-----------------------------------------------------------------------------
(* Connecting.                                                             *)

Admit(l, k) ==
  /\ phase[l] = "none" /\ sem < MaxConns
  /\ sem' = sem + 1
  /\ kind' = [kind EXCEPT ![l] = k]
  /\ Goto(l, "admitted")
  /\ UNCHANGED <<obj, pool, holds, tOpen, indexed, limiter, helper, writerVars, chanVars, listener>>

Reject(l) ==
  /\ phase[l] = "none" /\ sem = MaxConns
  /\ Goto(l, "rejected")
  /\ UNCHANGED <<obj, pool, sem, kind, holds, tOpen, indexed, limiter, helper, writerVars, chanVars, listener>>

\* Mutant: the slot is not released.
UpgradeFailsKeepsSlot(l) ==
  /\ phase[l] = "admitted" /\ kind[l] = "ws"
  /\ Goto(l, "gone")
  /\ UNCHANGED <<obj, pool, sem, kind, holds, tOpen, indexed, limiter, helper, writerVars, chanVars, listener>>

UpgradeFails(l) ==
  /\ phase[l] = "admitted" /\ kind[l] = "ws"
  /\ sem' = sem - 1
  /\ Goto(l, "gone")
  /\ UNCHANGED <<obj, pool, kind, holds, tOpen, indexed, limiter, helper, writerVars, chanVars, listener>>

\* ConnectionPool.Get: a fresh channel if the old one was closed, a drained one otherwise.
Get(l, c) ==
  /\ phase[l] = "admitted" /\ c \in pool
  /\ pool' = pool \ {c}
  /\ IF obj[c].sendClosed
     THEN /\ obj' = [obj EXCEPT ![c].send = l, ![c].sendClosed = FALSE, ![c].closeOnce = FALSE]
          /\ UNCHANGED queue
     ELSE /\ obj' = [obj EXCEPT ![c].closeOnce = FALSE]
          /\ queue' = [queue EXCEPT ![obj[c].send] = <<>>]
  /\ holds' = [holds EXCEPT ![l] = c]
  /\ Goto(l, "got")
  /\ UNCHANGED <<sem, kind, tOpen, indexed, limiter, helper, writerVars, closed, listener>>

\* The handler fills in the object; an SSE stream registers its channels at once.
Attach(l) ==
  LET c == holds[l] IN
  /\ phase[l] = "got"
  /\ obj' = [obj EXCEPT ![c].transport = l, ![c].id = l]
  /\ tOpen' = tOpen \cup {l}
  /\ indexed' = IF kind[l] = "sse" THEN indexed \cup {<<c, l>>} ELSE indexed
  /\ Goto(l, "attached")
  /\ UNCHANGED <<pool, sem, kind, holds, limiter, helper, writerVars, chanVars, listener>>

\* OnTenantClientConnect succeeds: the pumps start.
HookOk(l) ==
  /\ phase[l] = "attached"
  /\ writer' = [writer EXCEPT ![l] = "top"]
  /\ Goto(l, "live")
  /\ UNCHANGED <<obj, pool, sem, kind, holds, tOpen, indexed, limiter, helper, watched, carried, chanVars, listener>>

\* closeOnce.Do on the object's current fields.
CloseOnce(c) ==
  /\ obj' = [obj EXCEPT ![c].closeOnce = TRUE]
  /\ tOpen' = IF obj[c].closeOnce THEN tOpen ELSE tOpen \ {obj[c].transport}

\* ConnectionPool.Put.
PutFields(f) == [f EXCEPT !.transport = None, !.id = None]

\* Mutant: the error is logged and the pumps start all the same.
HookFailsGoesOn(l) ==
  LET c == holds[l] IN
  /\ phase[l] = "attached"
  /\ tOpen' = tOpen \ {l}
  /\ obj' = [obj EXCEPT ![c] = PutFields(@)]
  /\ pool' = pool \cup {c} /\ writer' = [writer EXCEPT ![l] = "top"]
  /\ Goto(l, "live")
  /\ UNCHANGED <<sem, kind, holds, indexed, limiter, helper, watched, carried, chanVars, listener>>

\* It fails: a WebSocket handler gives everything back, an SSE one unwinds as at the end
\* of a stream (without a writer).
HookFails(l) ==
  LET c == holds[l] IN
  /\ phase[l] = "attached"
  /\ IF kind[l] = "ws"
     THEN /\ tOpen' = tOpen \ {l}
          /\ obj' = [obj EXCEPT ![c] = PutFields(@)]
          /\ pool' = pool \cup {c} /\ sem' = sem - 1
          /\ Goto(l, "gone")
     ELSE /\ CloseOnce(c)
          /\ Goto(l, "closeSend")
          /\ UNCHANGED <<pool, sem>>
  /\ UNCHANGED <<kind, holds, indexed, limiter, helper, writerVars, chanVars, listener>>

-----------------------------------------------------------------------------
(* The reader of a live connection.                                        *)

\* A message passes the rate limiter; a subscribe request enters the index.
Subscribe(l) ==
  /\ phase[l] = "live" /\ kind[l] = "ws" /\ l \in tOpen
  /\ limiter' = limiter \cup {obj[holds[l]].id}
  /\ indexed' = indexed \cup {<<holds[l], l>>}
  /\ UNCHANGED <<obj, pool, leaseVars, tOpen, helper, writerVars, chanVars, listener>>

\* A history or replay request starts a delivery goroutine on clientWg,
HelperStarts(l) ==
  /\ phase[l] = "live" /\ kind[l] = "ws" /\ l \in tOpen /\ l \notin helper
  /\ helper' = helper \cup {l}
  /\ UNCHANGED <<obj, pool, leaseVars, tOpen, indexed, limiter, writerVars, chanVars, listener>>

\* ... which sends to the object's channel,
HelperSends(l) ==
  LET ch == obj[holds[l]].send IN
  /\ l \in helper /\ Len(queue[ch]) < SendCap
  /\ queue' = [queue EXCEPT ![ch] = Append(@, l)]
  /\ UNCHANGED <<obj, pool, leaseVars, tOpen, indexed, limiter, helper, writerVars, closed, listener>>

\* ... and ends when it is done or its context is cancelled.
HelperEnds(l) ==
  /\ l \in helper /\ helper' = helper \ {l}
  /\ UNCHANGED <<obj, pool, leaseVars, tOpen, indexed, limiter, writerVars, chanVars, listener>>

PeerCloses(l) ==
  /\ phase[l] = "live" /\ l \in tOpen /\ tOpen' = tOpen \ {l}
  /\ UNCHANGED <<obj, pool, leaseVars, indexed, limiter, helper, writerVars, chanVars, listener>>

\* ReadLoop sees the closed transport, an SSE handler its cancelled context.
ReadEnds(l) ==
  /\ phase[l] = "live" /\ l \notin tOpen
  /\ CloseOnce(holds[l])
  /\ Goto(l, IF kind[l] = "ws" THEN "unindex" ELSE "closeSend")
  /\ UNCHANGED <<pool, sem, kind, holds, indexed, limiter, helper, writerVars, chanVars, listener>>

-----------------------------------------------------------------------------
(* disconnectClient, and the end of an SSE stream, which closes the send   *)
(* channel before it leaves the index.                                     *)

\* Mutant: the subscriptions stay in the index.
UnindexForgets(l) ==
  /\ phase[l] = "unindex"
  /\ Goto(l, IF kind[l] = "ws" THEN "closeSend" ELSE "put")
  /\ UNCHANGED <<obj, pool, sem, kind, holds, tOpen, indexed, limiter, helper, writerVars, chanVars, listener>>

Unindex(l) ==
  /\ phase[l] = "unindex"
  /\ indexed' = indexed \ {<<holds[l], l>>}
  /\ Goto(l, IF kind[l] = "ws" THEN "closeSend" ELSE "put")
  /\ UNCHANGED <<obj, pool, sem, kind, holds, tOpen, limiter, helper, writerVars, chanVars, listener>>

\* Mutant: clientCancel without clientWg.Wait.
CloseSendNoWait(l) ==
  LET c == holds[l] IN
  /\ phase[l] = "closeSend"
  /\ obj' = [obj EXCEPT ![c].sendClosed = TRUE]
  /\ closed' = IF obj[c].sendClosed THEN closed ELSE closed \cup {obj[c].send}
  /\ Goto(l, IF kind[l] = "ws" THEN "put" ELSE "unindex")
  /\ UNCHANGED <<pool, sem, kind, holds, tOpen, indexed, limiter, helper, writerVars, queue, listener>>

\* clientCancel, clientWg.Wait, closeSend.
CloseSend(l) ==
  LET c == holds[l] IN
  /\ phase[l] = "closeSend" /\ l \notin helper
  /\ obj' = [obj EXCEPT ![c].sendClosed = TRUE]
  /\ closed' = IF obj[c].sendClosed THEN closed ELSE closed \cup {obj[c].send}
  /\ Goto(l, IF kind[l] = "ws" THEN "put" ELSE "unindex")
  /\ UNCHANGED <<pool, sem, kind, holds, tOpen, indexed, limiter, helper, writerVars, queue, listener>>

Put(l) ==
  LET c == holds[l] IN
  /\ phase[l] = "put"
  /\ obj' = [obj EXCEPT ![c] = PutFields(@)]
  /\ pool' = pool \cup {c}
  /\ Goto(l, "release")
  /\ UNCHANGED <<sem, kind, holds, tOpen, indexed, limiter, helper, writerVars, chanVars, listener>>

\* Mutant: the reader waits for the WriteLoop, which may be blocked elsewhere.
ReleaseAfterWriter(l) ==
  /\ phase[l] = "release" /\ writer[l] = "done"
  /\ sem' = sem - 1
  /\ Goto(l, IF kind[l] = "ws" THEN "limiter" ELSE "gone")
  /\ UNCHANGED <<obj, pool, kind, holds, tOpen, indexed, limiter, helper, writerVars, chanVars, listener>>

Release(l) ==
  /\ phase[l] = "release"
  /\ sem' = sem - 1
  /\ Goto(l, IF kind[l] = "ws" THEN "limiter" ELSE "gone")
  /\ UNCHANGED <<obj, pool, kind, holds, tOpen, indexed, limiter, helper, writerVars, chanVars, listener>>

\* rateLimiter.RemoveClient(c.id): the id is read from the object after Put.
RemoveClient(l) ==
  /\ phase[l] = "limiter"
  /\ limiter' = limiter \ {obj[holds[l]].id}
  /\ Goto(l, "gone")
  /\ UNCHANGED <<obj, pool, sem, kind, holds, tOpen, indexed, helper, writerVars, chanVars, listener>>

-----------------------------------------------------------------------------
(* WriteLoop of lease l.                                                   *)

\* A receive on channel ch, from the loop's top or its select.
Receive(l, ch) ==
  \/ /\ queue[ch] # <<>>
     /\ carried' = [carried EXCEPT ![l] = Head(queue[ch])]
     /\ queue' = [queue EXCEPT ![ch] = Tail(@)]
     /\ writer' = [writer EXCEPT ![l] = "send"]
  \/ /\ queue[ch] = <<>> /\ ch \in closed
     /\ writer' = [writer EXCEPT ![l] = "exit"]
     /\ UNCHANGED <<carried, queue>>

WriterTop(l) ==
  LET ch == obj[holds[l]].send IN
  /\ writer[l] = "top"
  /\ \/ Receive(l, ch) /\ UNCHANGED watched
     \/ /\ queue[ch] = <<>> /\ ch \notin closed
        /\ writer' = [writer EXCEPT ![l] = "select"]
        /\ watched' = [watched EXCEPT ![l] = ch]
        /\ UNCHANGED <<carried, queue>>
  /\ UNCHANGED <<obj, pool, leaseVars, tOpen, indexed, limiter, helper, closed, listener>>

WriterSelect(l) ==
  /\ writer[l] = "select"
  /\ Receive(l, watched[l])
  /\ watched' = [watched EXCEPT ![l] = None]
  /\ UNCHANGED <<obj, pool, leaseVars, tOpen, indexed, limiter, helper, closed, listener>>

\* The ping finds no transport or a closed one; an SSE stream's context is cancelled.
WriterStops(l) ==
  /\ writer[l] = "select"
  /\ obj[holds[l]].transport \notin tOpen \/ (kind[l] = "sse" /\ l \notin tOpen)
  /\ writer' = [writer EXCEPT ![l] = "exit"]
  /\ watched' = [watched EXCEPT ![l] = None]
  /\ UNCHANGED <<obj, pool, leaseVars, tOpen, indexed, limiter, helper, carried, chanVars, listener>>

\* handleSendMsg writes to the transport the object has now.
WriterSends(l) ==
  /\ writer[l] = "send" /\ obj[holds[l]].transport \in tOpen
  /\ carried' = [carried EXCEPT ![l] = None]
  /\ writer' = [writer EXCEPT ![l] = "top"]
  /\ UNCHANGED <<obj, pool, leaseVars, tOpen, indexed, limiter, helper, watched, chanVars, listener>>

\* There is none, or the write fails and the channel of the object is drained.
WriterFails(l) ==
  LET c == holds[l] IN
  /\ writer[l] = "send"
  /\ carried' = [carried EXCEPT ![l] = None]
  /\ queue' = IF obj[c].transport = None THEN queue ELSE [queue EXCEPT ![obj[c].send] = <<>>]
  /\ writer' = [writer EXCEPT ![l] = "exit"]
  /\ UNCHANGED <<obj, pool, leaseVars, tOpen, indexed, limiter, helper, watched, closed, listener>>

\* The deferred closeOnce.
WriterExits(l) ==
  /\ writer[l] = "exit"
  /\ CloseOnce(holds[l])
  /\ writer' = [writer EXCEPT ![l] = "done"]
  /\ UNCHANGED <<pool, leaseVars, indexed, limiter, helper, watched, carried, chanVars, listener>>

-----------------------------------------------------------------------------
(* The broadcast listener, one subscriber of its snapshot at a time.       *)

Snapshot(c, l) ==
  /\ listener.at = "idle" /\ <<c, l>> \in indexed
  /\ listener' = [at |-> "check", c |-> c, for |-> l]
  /\ UNCHANGED <<obj, pool, leaseVars, tOpen, indexed, limiter, helper, writerVars, chanVars>>

ListenerIdle == listener' = [at |-> "idle", c |-> None, for |-> None]

CheckTransport ==
  /\ listener.at = "check"
  /\ IF obj[listener.c].transport = None
     THEN ListenerIdle
     ELSE listener' = [listener EXCEPT !.at = "send"]
  /\ UNCHANGED <<obj, pool, leaseVars, tOpen, indexed, limiter, helper, writerVars, chanVars>>

\* A non-blocking send; on a closed channel it panics and the listener's goroutine ends.
BroadcastSend ==
  LET ch == obj[listener.c].send IN
  /\ listener.at = "send"
  /\ IF ch \in closed
     THEN listener' = [at |-> "dead", c |-> None, for |-> None] /\ UNCHANGED queue
     ELSE /\ Len(queue[ch]) < SendCap
          /\ queue' = [queue EXCEPT ![ch] = Append(@, listener.for)]
          /\ ListenerIdle
  /\ UNCHANGED <<obj, pool, leaseVars, tOpen, indexed, limiter, helper, writerVars, closed>>

\* A full buffer: drop, and close the transport of a client that is too slow.
BroadcastDrop ==
  LET c == listener.c IN
  /\ listener.at = "send" /\ obj[c].send \notin closed /\ Len(queue[obj[c].send]) = SendCap
  /\ tOpen' \in {tOpen, tOpen \ {obj[c].transport}}
  /\ ListenerIdle
  /\ UNCHANGED <<obj, pool, leaseVars, indexed, limiter, helper, writerVars, chanVars>>

Broadcast == CheckTransport \/ BroadcastSend \/ BroadcastDrop

-----------------------------------------------------------------------------
Reader(l) == ReadEnds(l) \/ Unindex(l) \/ CloseSend(l) \/ Put(l) \/ Release(l)
             \/ RemoveClient(l)

WriteLoop(l) == WriterTop(l) \/ WriterSelect(l) \/ WriterStops(l) \/ WriterSends(l) \/ WriterFails(l)
                \/ WriterExits(l)

Connect(l) ==
  \/ \E k \in {"ws", "sse"} : Admit(l, k)
  \/ Reject(l) \/ UpgradeFails(l) \/ Attach(l) \/ HookOk(l) \/ HookFails(l)
  \/ \E c \in Client : Get(l, c)

Helper(l) == HelperStarts(l) \/ HelperSends(l) \/ HelperEnds(l)

Next ==
  \/ \E l \in Lease : Connect(l) \/ Subscribe(l) \/ Helper(l) \/ PeerCloses(l) \/ Reader(l) \/ WriteLoop(l)
  \/ \E c \in Client, l \in Lease : Snapshot(c, l)
  \/ Broadcast

Spec == Init /\ [][Next]_vars

\* A connection's reader runs, and its cancelled delivery goroutines end.
Fairness == \A l \in Lease : WF_vars(Reader(l)) /\ WF_vars(HelperEnds(l))

FairSpec == Spec /\ Fairness

-----------------------------------------------------------------------------
(* Properties.                                                             *)

\* connectionsSem counts exactly the connections between admission and release, on
\* every path out of the handlers.
SlotsBalanced == sem = Cardinality({l \in Lease : HasSlot(l)})

\* ConnectionPool.Get hands an object to one connection at a time.
Exclusive ==
  \A l \in Lease : HasObject(l) =>
    /\ holds[l] \notin pool
    /\ \A m \in Lease \ {l} : HasObject(m) => holds[m] # holds[l]

\* The subscription index names an object only while the connection that subscribed has
\* it: Put never returns an indexed object to the pool.
IndexedIsLeased == \A p \in indexed : HasObject(p[2]) /\ holds[p[2]] = p[1]

\* disconnectClient waits for the delivery goroutines (clientWg) before the channel is
\* closed and the object put back, so they never send on another lease's channel.
HelperOwnsClient ==
  \A l \in helper : HasObject(l) /\ ~obj[holds[l]].sendClosed /\ obj[holds[l]].id = l

\* A connection whose transport closes gives its slot back, whatever its WriteLoop does.
SlotReturned == \A l \in Lease : (phase[l] = "live" /\ l \notin tOpen) ~> ~HasSlot(l)

-----------------------------------------------------------------------------
(* What comments of the code say and the model refutes.                    *)

\* runBroadcastListener ends only with the shard (shard.go 277).
ListenerSurvives == listener.at # "dead"

\* A WriteLoop has left before its object is leased again (client_lifecycle.go 70-72).
WriterLeavesFirst ==
  \A l, m \in Lease : l # m /\ writer[l] \notin {"none", "done"} /\ HasObject(m) => holds[l] # holds[m]

\* A message goes only to the client that subscribed to its channel (broadcast.go 45).
DeliveredToSubscriber ==
  \A l \in Lease : writer[l] = "send" /\ obj[holds[l]].transport \in tOpen =>
    carried[l] = obj[holds[l]].transport

\* A connection that is gone has no rate limiter state (rate_limiter.go 272-278).
LimiterClean == \A l \in limiter : phase[l] # "gone"

=============================================================================
