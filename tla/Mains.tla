------------------------------- MODULE Mains --------------------------------
(***************************************************************************)
(* What the main functions of the five services do (cmd/gateway,           *)
(* cmd/provisioning, cmd/push, cmd/webhook-worker and cmd/server): they    *)
(* open resources, defer the release of some, launch goroutines, wait for  *)
(* a signal or a failed server, and stop.                                  *)
(*                                                                         *)
(* A main function is a sequence of steps and the actions below execute    *)
(* it, beside its goroutines, the calls its servers have in flight and the *)
(* operator.  What a resource does for the service is modelled elsewhere;  *)
(* here it is opened, used and released.                                   *)
(***************************************************************************)
EXTENDS Naturals, SequencesExt

CONSTANTS
  Process,  \* the services that are run
  MaxCalls  \* bound: calls that reach the servers of one process

VARIABLES
  proc,      \* which main function this is
  has,       \* what its configuration and license switch on
  todo,      \* its steps from the next one on
  defers,    \* the deferred releases, the next one last
  open,      \* resources that are open
  released,  \* resources that have been closed
  running,   \* goroutines on the process's wait groups
  stopped,   \* servers told to stop
  calls,     \* servers with a call in flight
  overdue,   \* servers whose Shutdown timed out
  arrived,   \* calls so far
  signalled, \* SIGTERM or SIGINT is in the channel
  cancelled, \* the context of the process is cancelled
  exit       \* "none", or how the process ended

vars == <<proc, has, todo, defers, open, released, running, stopped, calls, overdue, arrived, signalled,
          cancelled, exit>>

Service == {"gateway", "provisioning", "push", "worker", "server"}
Feature == {"analytics", "push", "webhooks", "connections", "lifecycle", "kafka"}
Server == {"http", "grpc", "workerGRPC"}

ConstantsAssumption == Process \subseteq Service /\ MaxCalls \in Nat

-----------------------------------------------------------------------------
(* The steps of a main function *)

Step(op, what) == [op |-> op, what |-> what, needs |-> "always"]
If(f, s) == [s EXCEPT !.needs = f]
IfAll(f, steps) == [i \in DOMAIN steps |-> If(f, steps[i])]

Check(r)    == Step("check", r)    \* log.Fatal unless it succeeds
Open(r)     == Step("open", r)     \* log.Fatal unless it opens; the release is deferred
Hold(r)     == Step("hold", r)     \* log.Fatal unless it opens; released by name
Try(r)      == Step("try", r)      \* if it opens, the release is deferred
Context     == Step("context", "context")
Notify      == Step("notify", "signals")
Go(g)       == Step("go", g)
Await       == Step("await", "signals")
Cancel      == Step("cancel", "context")
Close(r)    == Step("close", r)
Shutdown(s) == Step("shutdown", s) \* http.Server.Shutdown, with a timeout
Graceful(s) == Step("graceful", s) \* grpc.Server.GracefulStop, without one
Join(G)     == Step("join", G)     \* WaitGroup.Wait
JoinOrExit(G) == Step("joinOrExit", G) \* the same, or os.Exit(1) after a timeout
JoinOrGoOn(G) == Step("joinOrGoOn", G) \* the same, or the next step after a timeout

-----------------------------------------------------------------------------
(* cmd/gateway *)

\* gateway.New: the streams that gw.Close closes.
GatewayNew == <<Hold("keyRegistry"), Hold("apiKeyRegistry"), Hold("channelRules"), Check("validator"), Open("gw")>>

GatewayOpens == <<Check("config"), Open("tracing"), Open("profiling"), If("analytics", Open("analyticsPool"))>>
  \o GatewayNew \o <<Open("serverClient"), If("push", Open("pushClient"))>>

GatewayWatches == <<Context, Hold("licenseWatcher"), Open("expiryWatcher"), Hold("revocationRegistry"),
  Open("publishLimiter")>>

GatewayRuns == <<Notify, If("analytics", Go("collector")), Go("http"), Await>>

\* Nothing cancels the context before the wait.
GatewayStops == <<Shutdown("http"), Join({"collector", "http"})>>

\* gw.Close closes the streams, and the push client a second time.
GatewayClose == {"gw", "channelRules", "apiKeyRegistry", "keyRegistry", "revocationRegistry", "licenseWatcher",
  "pushClient"}

-----------------------------------------------------------------------------
(* cmd/provisioning *)

ProvisioningStores == <<Check("config"), Open("tracing"), Open("profiling"), Context, Check("migrations"),
  If("analytics", Open("analyticsPool")), Open("pool"), Check("encryption")>>

ProvisioningLicense == <<Check("license"), Open("expiryWatcher"), If("webhooks", Open("invalidationClient"))>>

ProvisioningKeys == <<Check("svc"), Open("keyRegistry"), Check("validator"), Open("revStore"),
  Check("webhookHandler")>>

ProvisioningClients == <<If("webhooks", Open("workerConn")), If("webhooks", Try("rateLimitClient")),
  If("connections", Open("connectionsClient"))>>

ProvisioningRoutes == <<Check("router"), Check("grpcListener"), If("webhooks", Check("workerListener")),
  If("webhooks", Go("workerGRPC"))>>

ProvisioningManagers == <<If("lifecycle", Open("lifecycleManager")), If("analytics", Open("analyticsManager"))>>

ProvisioningRuns == <<Go("grpc"), Go("http"), Notify, Await>>

ProvisioningStops == <<Cancel, Shutdown("http"), Graceful("grpc"), If("webhooks", Graceful("workerGRPC")),
  Join({"grpc", "http", "workerGRPC", "requery"})>>

-----------------------------------------------------------------------------
(* cmd/push *)

PushOpens == <<Check("config"), Open("tracing"), Open("profiling"), Open("pool"), Hold("configClient"), Context,
  Hold("providers"), Check("brokers")>>

PushWatches == <<Hold("svc"), Hold("revocationRegistry"), Hold("licenseWatcher"), Open("expiryWatcher"),
  Check("grpcListener"), If("analytics", Open("analyticsPool"))>>

PushRuns == <<If("analytics", Go("collector")), Go("grpc"), Go("http"), Notify, Await>>

PushStops == <<Cancel, Close("svc"), Graceful("grpc"), Shutdown("http"), Close("revocationRegistry"),
  Close("licenseWatcher"), Close("configClient"), Close("providers"), Join({"collector", "grpc", "http"})>>

-----------------------------------------------------------------------------
(* cmd/webhook-worker *)

WorkerOpens == <<Check("config"), Open("provConn"), Hold("bus"), Notify, Go("invalidation"), Check("runner"),
  Check("grpcListener")>>

WorkerRuns == <<Go("grpc"), Go("http"), Go("runner"), Await>>

WorkerStops == <<Cancel, Graceful("grpc"), Shutdown("http"), Close("bus"),
  JoinOrExit({"invalidation", "grpc", "http", "runner"})>>

-----------------------------------------------------------------------------
(* cmd/server *)

WsOpens == <<Check("config"), Hold("systemMonitor"), If("analytics", Open("analyticsPool")), Check("limits"),
  Context, Hold("licenseWatcher"), Open("expiryWatcher"), Hold("rulesProvider"), Open("tracing"),
  Open("profiling")>>

\* kafkabackend.New with the consumer on, and Start; the direct backend opens nothing.
BackendNew == <<Hold("adminClient"), Hold("producer"), Hold("topicRegistry"), Hold("consumerPool"),
  Check("consumerPool.Start")>>

\* KafkaBackend.Shutdown: the registry first, so that no update starts any more.
BackendShutdown == <<Close("topicRegistry"), JoinOrGoOn({"topicUpdate"}), Close("consumerPool"), Close("producer"),
  Close("adminClient")>>

WsBackend == <<Hold("bus")>> \o IfAll("kafka", BackendNew)

WsShards == <<If("connections", Hold("registryClient")), If("connections", Go("registryWriter")),
  Hold("shards"), Hold("lb"), Go("lb.ListenAndServe")>>

WsRuns == <<Check("grpcListener"), If("analytics", Go("collector")), Go("grpc"), Notify, Await>>

\* Mutant: the wait begins without the cancel.
WsStopsNoCancel == <<Graceful("grpc"), Join({"collector", "grpc"}), Join({"lb.ListenAndServe"}), Close("lb"),
  Close("licenseWatcher"), Close("rulesProvider"), Close("shards")>> \o IfAll("kafka", BackendShutdown)
  \o <<Close("bus"), Join({"registryWriter"}), If("connections", Close("registryClient")), Close("systemMonitor")>>

\* LoadBalancer.Shutdown waits for the goroutine that serves, and nothing stops
\* the server it runs.
WsStops == <<Cancel, Graceful("grpc"), Join({"collector", "grpc"}), Join({"lb.ListenAndServe"}), Close("lb"),
  Close("licenseWatcher"), Close("rulesProvider"), Close("shards")>> \o IfAll("kafka", BackendShutdown)
  \o <<Close("bus"), Join({"registryWriter"}), If("connections", Close("registryClient")), Close("systemMonitor")>>

-----------------------------------------------------------------------------
Program == [
  gateway |-> GatewayOpens \o GatewayWatches \o GatewayRuns \o GatewayStops,
  provisioning |-> ProvisioningStores \o ProvisioningLicense \o ProvisioningKeys \o ProvisioningClients
    \o ProvisioningRoutes \o ProvisioningManagers \o ProvisioningRuns \o ProvisioningStops,
  push |-> PushOpens \o PushWatches \o PushRuns \o PushStops,
  worker |-> WorkerOpens \o WorkerRuns \o WorkerStops,
  server |-> WsOpens \o WsBackend \o WsShards \o WsRuns \o WsStops]

\* The steps of a process, with what is switched off left out.
Main(p, f) == SelectSeq(Program[p], LAMBDA s : s.needs \in f \cup {"always"})

Switches(p) == {Program[p][i].needs : i \in DOMAIN Program[p]} \ {"always"}

\* What the calls of a server, a goroutine or an open resource work with.  A
\* rules provider, a license watcher and a bus are read after they are closed:
\* the snapshot stays, and a closed channel ends its reader.
Uses(x) ==
  CASE proc = "gateway" /\ x = "http" -> {"gw", "serverClient", "pushClient"}
    [] proc = "gateway" /\ x = "revocationRegistry" -> {"gw"}
    [] proc = "provisioning" /\ x = "http" -> {"pool", "keyRegistry", "revStore", "invalidationClient", "workerConn",
                                               "rateLimitClient", "connectionsClient", "analyticsPool"}
    [] proc = "provisioning" /\ x = "grpc" -> {"pool", "revStore"}
    [] proc = "provisioning" /\ x = "workerGRPC" -> {"pool", "invalidationClient"}
    [] proc = "provisioning" /\ x \in {"keyRegistry", "lifecycleManager"} -> {"pool"}
    [] proc = "provisioning" /\ x = "analyticsManager" -> {"analyticsPool"}
    [] x = "requery" -> {"connectionsClient"}
    [] proc = "push" /\ x = "svc" -> {"pool", "configClient", "providers"}
    [] proc = "push" /\ x = "grpc" -> {"pool", "configClient"}
    [] proc = "push" /\ x = "revocationRegistry" -> {"pool"}
    [] x = "runner" -> {"provConn"}
    [] proc = "server" /\ x = "grpc" -> {"shards", "producer", "consumerPool"}
    [] x = "lb" -> {"shards"}
    [] x = "shards" -> {"producer", "consumerPool", "bus"}
    [] x = "consumerPool" -> {"bus"}
    [] x = "topicUpdate" -> {"adminClient", "consumerPool"}
    [] x = "registryWriter" -> {"registryClient"}
    [] x = "collector" -> {"analyticsPool"}
    [] OTHER -> {}

\* What is closed is not opened again.
TypeOK ==
  /\ proc \in Service /\ has \subseteq Feature /\ Len(todo) <= Len(Program[proc])
  /\ open \cap released = {}
  /\ stopped \subseteq Server /\ calls \subseteq Server /\ overdue \subseteq stopped \cup {"topicUpdate"}
  /\ arrived \in 0 .. MaxCalls /\ signalled \in BOOLEAN /\ cancelled \in BOOLEAN
  /\ exit \in {"none", "fatal", "killed", "forced", "returned"}

Init ==
  /\ proc \in Process /\ has \in SUBSET Switches(proc)
  /\ todo = Main(proc, has) /\ defers = <<>> /\ open = {} /\ released = {} /\ running = {}
  /\ stopped = {} /\ calls = {} /\ overdue = {} /\ arrived = 0
  /\ signalled = FALSE /\ cancelled = FALSE /\ exit = "none"

-----------------------------------------------------------------------------
(* The main goroutine *)

At(op) == exit = "none" /\ todo # <<>> /\ Head(todo).op = op
what == Head(todo).what

\* main has asked for signals; before that, one ends the process.
Notified == \A i \in DOMAIN todo : todo[i].op # "notify"

Ends(how) == exit' = how /\ UNCHANGED <<proc, has, todo, defers, open, released, running, stopped, calls, overdue,
                                        arrived, signalled, cancelled>>

\* log.Fatal: os.Exit, and no deferred call runs.
Fatal == (\E op \in {"check", "open", "hold"} : At(op)) /\ Ends("fatal")

CheckStep ==
  /\ At("check") \/ At("notify") \/ At("try")
  /\ todo' = Tail(todo)
  /\ UNCHANGED <<proc, has, defers, open, released, running, stopped, calls, overdue, arrived, signalled, cancelled, exit>>

OpenStep ==
  /\ \E op \in {"open", "hold", "try"} : At(op)
  /\ todo' = Tail(todo) /\ open' = open \cup {what}
  /\ defers' = IF At("hold") THEN defers ELSE Append(defers, what)
  /\ UNCHANGED <<proc, has, released, running, stopped, calls, overdue, arrived, signalled, cancelled, exit>>

ContextStep ==
  /\ At("context") /\ todo' = Tail(todo) /\ defers' = Append(defers, what)
  /\ UNCHANGED <<proc, has, open, released, running, stopped, calls, overdue, arrived, signalled, cancelled, exit>>

GoStep ==
  /\ At("go") /\ todo' = Tail(todo) /\ running' = running \cup {what}
  /\ UNCHANGED <<proc, has, defers, open, released, stopped, calls, overdue, arrived, signalled, cancelled, exit>>

\* A signal, or the context that a failed server cancels.  The worker waits for
\* its signal context alone.
AwaitStep ==
  /\ At("await") /\ (signalled \/ cancelled)
  /\ todo' = Tail(todo)
  /\ UNCHANGED <<proc, has, defers, open, released, running, stopped, calls, overdue, arrived, signalled, cancelled, exit>>

CancelStep ==
  /\ At("cancel") /\ todo' = Tail(todo) /\ cancelled' = TRUE
  /\ UNCHANGED <<proc, has, defers, open, released, running, stopped, calls, overdue, arrived, signalled, exit>>

\* What a Close takes along.
Closes(r) == (IF r = "gw" THEN GatewayClose ELSE {r}) \cap (open \cup released)

Release(r) == open' = open \ Closes(r) /\ released' = released \cup Closes(r)

CloseStep ==
  /\ At("close") /\ todo' = Tail(todo) /\ Release(what)
  /\ UNCHANGED <<proc, has, defers, running, stopped, calls, overdue, arrived, signalled, cancelled, exit>>

\* Shutdown and GracefulStop close the listener first.
StopServer ==
  /\ At("shutdown") \/ At("graceful")
  /\ what \notin stopped /\ stopped' = stopped \cup {what}
  /\ UNCHANGED <<proc, has, todo, defers, open, released, running, calls, overdue, arrived, signalled, cancelled, exit>>

\* Then they wait for the calls in flight; Shutdown only until its timeout.
StoppedServer ==
  /\ At("shutdown") \/ At("graceful")
  /\ what \in stopped /\ (what \in calls => At("shutdown"))
  /\ todo' = Tail(todo) /\ overdue' = IF what \in calls THEN overdue \cup {what} ELSE overdue
  /\ UNCHANGED <<proc, has, defers, open, released, running, stopped, calls, arrived, signalled, cancelled, exit>>

JoinStep ==
  /\ At("join") \/ At("joinOrExit") \/ At("joinOrGoOn")
  /\ running \cap what = {} /\ todo' = Tail(todo)
  /\ UNCHANGED <<proc, has, defers, open, released, running, stopped, calls, overdue, arrived, signalled, cancelled, exit>>

JoinTimeout == At("joinOrExit") /\ running \cap what # {} /\ Ends("forced")

JoinGivesUp ==
  /\ At("joinOrGoOn") /\ running \cap what # {}
  /\ todo' = Tail(todo) /\ overdue' = overdue \cup what
  /\ UNCHANGED <<proc, has, defers, open, released, running, stopped, calls, arrived, signalled, cancelled, exit>>

\* main has returned: the deferred calls, the last one first, then the end of
\* the process.
Unwind ==
  /\ exit = "none" /\ todo = <<>> /\ defers # <<>>
  /\ defers' = Front(defers) /\ Release(Last(defers))
  /\ cancelled' = (cancelled \/ Last(defers) = "context")
  /\ UNCHANGED <<proc, has, todo, running, stopped, calls, overdue, arrived, signalled, exit>>

Return == exit = "none" /\ todo = <<>> /\ defers = <<>> /\ Ends("returned")

MainStep == CheckStep \/ OpenStep \/ ContextStep \/ GoStep \/ AwaitStep \/ CancelStep \/ CloseStep \/ StopServer
  \/ StoppedServer \/ JoinStep \/ Unwind \/ Return

-----------------------------------------------------------------------------
(* Everything beside it *)

\* The worker's NotifyContext makes the signal the end of its context.
Signal ==
  /\ exit = "none" /\ ~ signalled
  /\ IF Notified
     THEN /\ signalled' = TRUE /\ cancelled' = (cancelled \/ proc = "worker")
          /\ UNCHANGED <<proc, has, todo, defers, open, released, running, stopped, calls, overdue, arrived, exit>>
     ELSE Ends("killed")

\* Serve returns an error.  The load balancer only logs it, and so does the
\* worker, for its runner and its subscription to invalidations as well.
ServerFails(s) ==
  /\ exit = "none" /\ s \in running \ stopped
  /\ s \in Server \cup {"runner", "invalidation", "lb.ListenAndServe"}
  /\ running' = running \ {s}
  /\ cancelled' = (cancelled \/ (proc # "worker" /\ s \in Server))
  /\ UNCHANGED <<proc, has, todo, defers, open, released, stopped, calls, overdue, arrived, signalled, exit>>

\* Serve returns once its server is stopped, the others once the context is
\* cancelled; a re-query also when its delay is over, an update when it is done.
GoroutineEnds(g) ==
  /\ exit = "none" /\ g \in running \ {"lb.ListenAndServe"}
  /\ IF g \in Server THEN g \in stopped ELSE (cancelled /\ g # "topicUpdate") \/ g \in {"requery", "topicUpdate"}
  /\ running' = running \ {g}
  /\ UNCHANGED <<proc, has, todo, defers, open, released, stopped, calls, overdue, arrived, signalled, cancelled, exit>>

CallArrives(s) ==
  /\ exit = "none" /\ s \in (running \cap Server) \ (stopped \cup calls) /\ arrived < MaxCalls
  /\ calls' = calls \cup {s} /\ arrived' = arrived + 1
  /\ UNCHANGED <<proc, has, todo, defers, open, released, running, stopped, overdue, signalled, cancelled, exit>>

\* A bulk disconnect leaves a re-query behind on main's wait group.
CallEnds(s) ==
  /\ exit = "none" /\ s \in calls
  /\ calls' = calls \ {s}
  /\ running' \in {running} \cup (IF proc = "provisioning" /\ s = "http" /\ "connections" \in has /\ s \notin overdue
                                  THEN {running \cup {"requery"}} ELSE {})
  /\ UNCHANGED <<proc, has, todo, defers, open, released, stopped, overdue, arrived, signalled, cancelled, exit>>

\* The topic registry calls back: a goroutine creates the topics and refreshes the pool.
TopicUpdate ==
  /\ exit = "none" /\ {"topicRegistry", "consumerPool"} \subseteq open /\ "topicUpdate" \notin running
  /\ arrived < MaxCalls /\ arrived' = arrived + 1
  /\ running' = running \cup {"topicUpdate"}
  /\ UNCHANGED <<proc, has, todo, defers, open, released, stopped, calls, overdue, signalled, cancelled, exit>>

Goroutine == Server \cup {"collector", "requery", "topicUpdate", "runner", "invalidation", "registryWriter", "lb.ListenAndServe"}

Next ==
  \/ MainStep \/ Fatal \/ JoinTimeout \/ JoinGivesUp \/ Signal \/ TopicUpdate
  \/ \E g \in Goroutine : ServerFails(g) \/ GoroutineEnds(g)
  \/ \E s \in Server : CallArrives(s) \/ CallEnds(s)

\* Watch and Subscribe streams last as long as the client wants.
Endless(s) == proc \in {"provisioning", "server"} /\ s = "grpc"

\* The scheduler runs main and the goroutines; a unary call has a deadline.
Fairness ==
  /\ WF_vars(MainStep)
  /\ \A g \in Goroutine : WF_vars(GoroutineEnds(g))
  /\ \A s \in Server : WF_vars(~ Endless(s) /\ CallEnds(s))

Spec == Init /\ [][Next]_vars /\ Fairness

\* The same, with clients that end their streams.
PatientSpec == Spec /\ \A s \in Server : WF_vars(CallEnds(s))

-----------------------------------------------------------------------------
(* Properties *)

\* What is at work: resources, and the goroutines and calls that no wait has
\* given up on.
AtWork == (running \ (Server \cup overdue)) \cup open \cup (calls \ overdue)

\* "cancel context, wg.Wait() for goroutines, close channels, release
\* resources": what has been closed is no longer used by anything at work, and
\* a main that returns has closed all it opened.
ReleasedAfterUse ==
  /\ exit = "none" => \A x \in AtWork : Uses(x) \cap released = {}
  /\ exit = "returned" => open = {}

Told == signalled \/ (At("await") /\ cancelled)

\* main waits for a stream that its client keeps open; in the gateway, for a
\* collector whose context nothing cancels after a signal; in the ws-server, for
\* a load balancer that still serves.
Held ==
  \/ At("graceful") /\ what \in calls /\ Endless(what)
  \/ proc = "gateway" /\ At("join") /\ "collector" \in running /\ ~ cancelled
  \/ proc = "server" /\ At("join") /\ what = {"lb.ListenAndServe"} /\ what \subseteq running

\* A process told to stop, by a signal or by a failed server, releases what it
\* holds in that order and ends, unless one of the waits above holds it for
\* good.
StopsInOrder == []ReleasedAfterUse /\ [](Told => <>(exit # "none" \/ []Held))

\* Shutdown always comes to an end once the clients are gone.
StopEnds == Told ~> exit # "none"
=============================================================================
