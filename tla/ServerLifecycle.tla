-------------------------- MODULE ServerLifecycle --------------------------
(***************************************************************************)
(* The life of a ws-server process: upgrade handlers and their pumps       *)
(* (server/handlers_ws.go, pump.go, client_lifecycle.go), SSE streams      *)
(* (server/grpc_service.go), the goroutines Start launches, and the        *)
(* shutdown main runs after a signal (cmd/server/main.go): gRPC, load      *)
(* balancer, shard and its server, backend, bus, in that order.            *)
(*                                                                         *)
(* One shard and one tenant.  A handler that has passed the shuttingDown   *)
(* check is not counted by anything Shutdown waits for until it launches   *)
(* its pumps, and main may be anywhere in the sequence by then.            *)
(***************************************************************************)
EXTENDS Integers, FiniteSets

CONSTANTS
  Conn,      \* WebSocket upgrade requests
  Stream,    \* gRPC Subscribe calls
  MaxConns   \* capacity of connectionsSem

VARIABLES
  main,       \* where main is: "run", then the steps of the shutdown
  listening,  \* the load balancer's ListenAndServe goroutine runs
  conns,      \* [Conn -> [stage, write, sendClosed, open]]
  streams,    \* [Stream -> "idle" | "open" | "over"]
  slots,      \* slots taken in connectionsSem
  count,      \* stats.CurrentConnections
  refs,       \* refCount of the tenant's entry in the shard
  forwarders, \* forwarder goroutines of the tenant that run
  shuttingDown, \* the flag handleWebSocket checks
  cancelled,  \* the server's root context is cancelled
  background  \* goroutines of Start in the server's wait group

vars == <<main, listening, conns, streams, slots, count, refs, forwarders, shuttingDown, cancelled,
          background>>

Order == <<"run", "grpc", "lb", "shard", "drain", "force", "cancel", "wait", "join", "backend", "bus",
           "done">>

\* main has not yet passed step p.
Before(p) == \E i, j \in DOMAIN Order : i < j /\ Order[i] = main /\ Order[j] = p

\* Serve returns when the listener is closed; the rest when the root context is
\* cancelled.  The four monitors wait for nothing else and stand as one.
Optional == {"historyWriter.Run", "adminListener.Run"}
Start == {"server.Serve", "monitors"} \cup Optional

IdleConn == [stage |-> "idle", write |-> FALSE, sendClosed |-> FALSE, open |-> FALSE]
OverConn == [IdleConn EXCEPT !.stage = "over"]

\* A slot is taken at most MaxConns times and every counter stays natural.
TypeOK ==
  /\ main \in {Order[i] : i \in DOMAIN Order}
  /\ listening \in BOOLEAN /\ shuttingDown \in BOOLEAN /\ cancelled \in BOOLEAN
  /\ conns \in [Conn -> [stage : {"idle", "checked", "upgraded", "hooked", "live", "over"},
                         write : BOOLEAN, sendClosed : BOOLEAN, open : BOOLEAN]]
  /\ streams \in [Stream -> {"idle", "open", "over"}]
  /\ slots \in 0 .. MaxConns
  /\ count \in Nat /\ refs \in Nat /\ forwarders \in Nat
  /\ background \subseteq Start

\* The process is up, with or without history and the connection registry;
\* ListenAndServe may have failed at once (address in use).
Init ==
  /\ main = "run" /\ listening \in BOOLEAN
  /\ conns = [c \in Conn |-> IdleConn]
  /\ streams = [s \in Stream |-> "idle"]
  /\ slots = 0 /\ count = 0 /\ refs = 0 /\ forwarders = 0
  /\ shuttingDown = FALSE /\ cancelled = FALSE
  /\ background \in {Start, Start \ Optional}

-----------------------------------------------------------------------------
(* handleWebSocket *)

\* The shard's context, parent of every tenant context, is cancelled first.
ShardCancelled == ~ Before("drain")

\* The first client of the tenant starts a forwarder; refCount counts the rest.
OnTenantClientConnect ==
  /\ refs' = refs + 1
  /\ forwarders' = IF refs = 0 THEN forwarders + 1 ELSE forwarders

OnTenantClientDisconnect == refs' = refs - 1 /\ UNCHANGED forwarders

\* The last disconnect, or the shard's context, ends a forwarder.
ForwarderExit ==
  /\ forwarders > (IF refs > 0 /\ ~ ShardCancelled THEN 1 ELSE 0)
  /\ forwarders' = forwarders - 1
  /\ UNCHANGED <<main, listening, conns, streams, slots, count, refs, shuttingDown, cancelled, background>>

\* A request reaches the handler while the shard's listener is open.  The
\* rate limiter, the guard and the headers may refuse it after the flag did not.
Arrive(c) ==
  /\ conns[c].stage = "idle" /\ Before("drain")
  /\ \E ok \in BOOLEAN :
       conns' = [conns EXCEPT ![c] = IF ok /\ ~ shuttingDown THEN [@ EXCEPT !.stage = "checked"]
                                     ELSE OverConn]
  /\ UNCHANGED <<main, listening, streams, slots, count, refs, forwarders, shuttingDown, cancelled, background>>

\* A slot is taken without waiting, and given back if the upgrade fails.
Upgrade(c) ==
  /\ conns[c].stage = "checked"
  /\ \E ok \in BOOLEAN :
       IF ok /\ slots < MaxConns
       THEN /\ slots' = slots + 1
            /\ conns' = [conns EXCEPT ![c].stage = "upgraded", ![c].open = TRUE]
       ELSE conns' = [conns EXCEPT ![c] = OverConn] /\ UNCHANGED slots
  /\ UNCHANGED <<main, listening, streams, count, refs, forwarders, shuttingDown, cancelled, background>>

\* The tenant's broadcast subscription is wired; if it cannot be, the transport
\* is closed and the slot given back.
Hook(c) ==
  /\ conns[c].stage = "upgraded"
  /\ \/ /\ OnTenantClientConnect
        /\ conns' = [conns EXCEPT ![c].stage = "hooked"]
        /\ UNCHANGED slots
     \/ /\ refs = 0
        /\ conns' = [conns EXCEPT ![c] = OverConn]
        /\ slots' = slots - 1
        /\ UNCHANGED <<refs, forwarders>>
  /\ UNCHANGED <<main, listening, streams, count, shuttingDown, cancelled, background>>

\* The client is stored and counted, and both pumps join the wait group.
Launch(c) ==
  /\ conns[c].stage = "hooked"
  /\ count' = count + 1
  /\ conns' = [conns EXCEPT ![c].stage = "live", ![c].write = TRUE]
  /\ UNCHANGED <<main, listening, streams, slots, refs, forwarders, shuttingDown, cancelled, background>>

\* Mutant: WriteLoop watches only its channels.
WriteStopsOnSend(c) == conns[c].sendClosed

\* WriteLoop leaves when the root context is cancelled or send is closed.
WriteStops(c) == cancelled \/ conns[c].sendClosed

\* WriteLoop returns and closes the transport; a failed write ends it as well.
WriteExit(c) ==
  /\ conns[c].write
  /\ WriteStops(c) \/ ~ conns[c].open
  /\ conns' = [conns EXCEPT ![c].write = FALSE, ![c].open = FALSE]
  /\ UNCHANGED <<main, listening, streams, slots, count, refs, forwarders, shuttingDown, cancelled, background>>

\* disconnectClient: hook, client map, counter, send channel, slot.
disconnectClient(c) ==
  /\ OnTenantClientDisconnect
  /\ count' = count - 1 /\ slots' = slots - 1
  /\ conns' = [conns EXCEPT ![c].stage = "over", ![c].open = FALSE, ![c].sendClosed = TRUE]

\* ReadLoop's read fails once the transport is closed; its deferred call disconnects.
ReadExit(c) ==
  /\ conns[c].stage = "live" /\ ~ conns[c].open
  /\ disconnectClient(c)
  /\ UNCHANGED <<main, listening, streams, shuttingDown, cancelled, background>>

\* The peer closes, goes silent past the read deadline, or sends a frame that
\* brings ReadLoop back to its check of the context.
ReadLeaves(c) ==
  /\ conns[c].stage = "live"
  /\ disconnectClient(c)
  /\ UNCHANGED <<main, listening, streams, shuttingDown, cancelled, background>>

-----------------------------------------------------------------------------
(* Subscribe: the stream holds a slot until its own context ends *)

Subscribe(s) ==
  /\ streams[s] = "idle" /\ main = "run"
  /\ slots < MaxConns
  /\ slots' = slots + 1 /\ count' = count + 1
  /\ OnTenantClientConnect
  /\ streams' = [streams EXCEPT ![s] = "open"]
  /\ UNCHANGED <<main, listening, conns, shuttingDown, cancelled, background>>

\* The client hangs up: nothing in the process ends the stream's context.
StreamEnds(s) ==
  /\ streams[s] = "open"
  /\ OnTenantClientDisconnect
  /\ slots' = slots - 1 /\ count' = count - 1
  /\ streams' = [streams EXCEPT ![s] = "over"]
  /\ UNCHANGED <<main, listening, conns, shuttingDown, cancelled, background>>

-----------------------------------------------------------------------------
(* main and Shutdown *)

Goto(from, to) == main = from /\ main' = to

Signal ==
  /\ Goto("run", "grpc")
  /\ UNCHANGED <<listening, conns, streams, slots, count, refs, forwarders, shuttingDown, cancelled, background>>

\* GracefulStop refuses new calls and waits for those in progress.
GracefulStop ==
  /\ Goto("grpc", "lb")
  /\ \A s \in Stream : streams[s] # "open"
  /\ UNCHANGED <<listening, conns, streams, slots, count, refs, forwarders, shuttingDown, cancelled, background>>

\* LoadBalancer.Shutdown cancels its context and waits for its goroutines; the
\* context is not the HTTP server's, so a serving ListenAndServe stays.
LoadBalancerShutdown ==
  /\ Goto("lb", "shard")
  /\ ~ listening
  /\ UNCHANGED <<listening, conns, streams, slots, count, refs, forwarders, shuttingDown, cancelled, background>>

\* Shard.Shutdown cancels the shard's context and enters Server.Shutdown, which
\* raises the flag and closes the listener.
ShardShutdown ==
  /\ Goto("shard", "drain")
  /\ shuttingDown' = TRUE
  /\ UNCHANGED <<listening, conns, streams, slots, count, refs, forwarders, cancelled, background>>

\* The check ticker sees no connection left: nothing to force.
Drained ==
  /\ Goto("drain", "cancel")
  /\ count = 0
  /\ UNCHANGED <<listening, conns, streams, slots, count, refs, forwarders, shuttingDown, cancelled, background>>

DrainTimeout ==
  /\ Goto("drain", "force")
  /\ UNCHANGED <<listening, conns, streams, slots, count, refs, forwarders, shuttingDown, cancelled, background>>

\* Every stored client's send channel is closed.
ForceClose ==
  /\ Goto("force", "cancel")
  /\ conns' = [c \in Conn |-> IF conns[c].stage = "live" THEN [conns[c] EXCEPT !.sendClosed = TRUE]
                              ELSE conns[c]]
  /\ UNCHANGED <<listening, streams, slots, count, refs, forwarders, shuttingDown, cancelled, background>>

\* Mutant: the context is cancelled only on the forced path.
RootContextForced == \E c \in Conn : conns[c].sendClosed

\* What s.cancel leaves behind.
RootContext == TRUE

Cancel ==
  /\ Goto("cancel", "wait")
  /\ cancelled' = RootContext
  /\ UNCHANGED <<listening, conns, streams, slots, count, refs, forwarders, shuttingDown, background>>

\* A goroutine of Start returns.
BackgroundExit(g) ==
  /\ g \in background
  /\ IF g = "server.Serve" THEN ~ Before("drain") ELSE cancelled
  /\ background' = background \ {g}
  /\ UNCHANGED <<main, listening, conns, streams, slots, count, refs, forwarders, shuttingDown, cancelled>>

\* The server's wait group: Start's goroutines and the pumps launched so far.
WaitGroup == {c \in Conn : conns[c].stage = "live" \/ conns[c].write}

ServerWait ==
  /\ Goto("wait", "join")
  /\ background = {} /\ WaitGroup = {}
  /\ UNCHANGED <<listening, conns, streams, slots, count, refs, forwarders, shuttingDown, cancelled, background>>

\* The shard's own wait group: the forwarders.
ShardWait ==
  /\ Goto("join", "backend")
  /\ forwarders = 0
  /\ UNCHANGED <<listening, conns, streams, slots, count, refs, forwarders, shuttingDown, cancelled, background>>

BackendAndBus ==
  /\ Goto("backend", "bus") \/ Goto("bus", "done")
  /\ UNCHANGED <<listening, conns, streams, slots, count, refs, forwarders, shuttingDown, cancelled, background>>

MainStep == GracefulStop \/ LoadBalancerShutdown \/ ShardShutdown \/ Drained \/ DrainTimeout \/ ForceClose
              \/ Cancel \/ ServerWait \/ ShardWait \/ BackendAndBus

ConnStep(c) == Upgrade(c) \/ Hook(c) \/ Launch(c) \/ WriteExit(c) \/ ReadExit(c)

\* Goroutines that end once they are told to.
Exits == ForwarderExit \/ \E g \in Start : BackgroundExit(g)

Next ==
  \/ Signal \/ MainStep \/ Exits
  \/ \E c \in Conn : Arrive(c) \/ ConnStep(c) \/ ReadLeaves(c)
  \/ \E s \in Stream : Subscribe(s) \/ StreamEnds(s)

\* Goroutines are scheduled; the drain timer fires.  No peer has to arrive or leave.
Fairness ==
  /\ WF_vars(MainStep) /\ WF_vars(Exits)
  /\ \A c \in Conn : WF_vars(ConnStep(c))

Spec == Init /\ [][Next]_vars /\ Fairness

-----------------------------------------------------------------------------

\* Nothing of a connection is left: pumps, slot, count, subscription, forwarder.
Quiet ==
  /\ WaitGroup = {} /\ slots = 0 /\ count = 0 /\ refs = 0 /\ forwarders = 0
  /\ \A c \in Conn : conns[c].stage \in {"idle", "over"}

\* Once Server.Shutdown has been entered it returns, whatever its connections
\* do: every pump and every goroutine of Start ends, forced or not.
ServerStops == main = "drain" ~> main = "done"

\* A handler that slipped past the shuttingDown check, and launches its pumps
\* after Shutdown stopped waiting, still ends and gives everything back.
LateConnectionsEnd == main = "done" ~> Quiet

\* After a signal, main runs to its end.
ShutdownCompletes == main = "grpc" ~> main = "done"

\* No forwarder runs once main shuts the bus down.
BusAfterForwarders == main = "done" => forwarders = 0
=============================================================================
