---------------------------- MODULE MCProcesses -----------------------------
(***************************************************************************)
(* What must come to an end, for TLC: the life of the ws-server process,   *)
(* the shard proxy, the push service's configuration and the main          *)
(* functions of the services.  They share no state in these models, so a   *)
(* behaviour is a behaviour of one of them, chosen at the start, with the  *)
(* others at rest: the reachable states are the union of theirs and not    *)
(* the product.                                                            *)
(***************************************************************************)
EXTENDS ServerLifecycle

CONSTANTS NumShards, ShardConns, ErrCap, Call, Managed, Mobile, WireCap, MaxWrites, MaxBreaks,
          Process, MaxCalls

VARIABLES which, pxProxied, pxLoops, pxCurrent, pcStore, pcWrites, pcWatch, pcPending, pcBreaks,
          pcWire, pcCache, pcEnabled, pcConsumed, pcClients, pcCalls, pcVapidMu, mnProc, mnHas,
          mnTodo, mnDefers, mnOpen, mnReleased, mnRunning, mnStopped, mnCalls, mnOverdue,
          mnArrived, mnSignalled, mnCancelled, mnExit

proxyVars == <<pxProxied, pxLoops, pxCurrent>>
pushVars == <<pcStore, pcWrites, pcWatch, pcPending, pcBreaks, pcWire, pcCache, pcEnabled,
    pcConsumed, pcClients, pcCalls, pcVapidMu>>
mainVars == <<mnProc, mnHas, mnTodo, mnDefers, mnOpen, mnReleased, mnRunning, mnStopped, mnCalls,
    mnOverdue, mnArrived, mnSignalled, mnCancelled, mnExit>>

Part == {"life", "proxy", "push", "mains"}

Proxy == INSTANCE ShardProxy WITH proxied <- pxProxied, loops <- pxLoops, current <- pxCurrent,
    MaxConns <- ShardConns

Push == INSTANCE PushConfig WITH store <- pcStore, writes <- pcWrites, watch <- pcWatch,
    pending <- pcPending, breaks <- pcBreaks, wire <- pcWire, cache <- pcCache,
    enabled <- pcEnabled, consumed <- pcConsumed, clients <- pcClients, calls <- pcCalls,
    vapidMu <- pcVapidMu

Mains == INSTANCE Mains WITH proc <- mnProc, has <- mnHas, todo <- mnTodo, defers <- mnDefers,
    open <- mnOpen, released <- mnReleased, running <- mnRunning, stopped <- mnStopped,
    calls <- mnCalls, overdue <- mnOverdue, arrived <- mnArrived, signalled <- mnSignalled,
    cancelled <- mnCancelled, exit <- mnExit

ASSUME MainsAssumption == Mains!ConstantsAssumption

allVars == <<which, vars, proxyVars, pushVars, mainVars>>

\* A component at rest has one initial state.
MCInit ==
    /\ which \in Part
    /\ Init /\ Proxy!Init /\ Push!Init /\ Mains!Init
    /\ which # "life" => listening /\ background = Start
    /\ which # "mains" => mnProc = (CHOOSE p \in Process : TRUE) /\ mnHas = {}

\* One component takes the steps and the others rest.
MCNext ==
    /\ which' = which
    /\ \/ /\ which = "life" /\ Next
          /\ UNCHANGED <<proxyVars, pushVars, mainVars>>
       \/ /\ which = "proxy" /\ Proxy!Next
          /\ UNCHANGED <<vars, pushVars, mainVars>>
       \/ /\ which = "push" /\ Push!Next
          /\ UNCHANGED <<vars, proxyVars, mainVars>>
       \/ /\ which = "mains" /\ Mains!Next
          /\ UNCHANGED <<vars, proxyVars, pushVars>>

\* The components' own fairness, each where it is the one that runs.
MCFairness ==
    /\ WF_vars(which = "life" /\ MainStep) /\ WF_vars(which = "life" /\ Exits)
    /\ \A c \in Conn : WF_vars(which = "life" /\ ConnStep(c))
    /\ \A c \in Conn :
         /\ WF_proxyVars(which = "proxy" /\ (Proxy!Dial(c) \/ Proxy!FirstError(c) \/ Proxy!CloseBoth(c) \/ Proxy!Join(c)))
         /\ \A d \in Proxy!Dir : WF_proxyVars(which = "proxy" /\ (Proxy!CopyFails(c, d) \/ Proxy!Report(c, d)))
    /\ WF_pushVars(which = "push" /\ Push!WatchHandler) /\ WF_pushVars(which = "push" /\ Push!updatePushConfig)
    /\ WF_pushVars(which = "push" /\ Push!refreshTopics)
    /\ WF_mainVars(which = "mains" /\ Mains!MainStep)
    /\ \A g \in Mains!Goroutine : WF_mainVars(which = "mains" /\ Mains!GoroutineEnds(g))
    /\ \A s \in Mains!Server : WF_mainVars(which = "mains" /\ ~ Mains!Endless(s) /\ Mains!CallEnds(s))

MCSpec == MCInit /\ [][MCNext]_allVars /\ MCFairness

-----------------------------------------------------------------------------
\* A proxied request returns once either copy loop has reported
\* (ShardProxy.proxyMessages).
ProxyReturns == Proxy!ProxyReturns

\* Channels that stay configured end up consumed (push Service.applyDelta).
EnabledIsConsumed == Push!EnabledIsConsumed

\* A main function that is told to stop releases what it opened after its last
\* use and ends, but for the waits it names (cmd/*/main.go).
StopsInOrder == Mains!StopsInOrder
=============================================================================
