------------------------------- MODULE MCEdge -------------------------------
(***************************************************************************)
(* The edge of the system for TLC: the gateway's connections and           *)
(* revocations, SSE cursors, the proxied session, REST publishing, the     *)
(* connection registry, and the runs of the tester.  They share no state   *)
(* in these models, so a behaviour is a behaviour of one of them, chosen   *)
(* at the start, with the others at rest: the reachable states are the     *)
(* union of theirs and not the product.                                    *)
(***************************************************************************)
EXTENDS Gateway

CONSTANTS Feed, MaxPos, MaxConnects, SendCap, MaxReplayMessages, EveryN, Channel, Claim, Public, Burst,
          MaxMsgs, MaxLost, Request, IP, MaxAge, PublishTime, Entry, Shard, Buffer, MsgChanSize, MaxFailures

VARIABLES which, ssLog, ssConn, ssBatch, ssCount, ssDue, ssSend, ssLost, ssCursor, ssSince, ssDirty,
          ssSent, ssToken, ssKnown, ssCut, ssConnects, psClaims, psApiKeyOnly, psTracked, psRefresh,
          psUp, psServer, psDown, psLate, psUntold, psLost, psSent, rpNow, rpReq,
          rpLimiters, rpTable, rpCleaner, rpDevices, rpBudget, rpStrays, crLife, crMoved,
          crWorkChan, crFaulty, crStage, crBatch, crOwned, crFailures, crHash,
          crIndex, crHealth, crSubscribed, crMsgCh, crBulk, trCfg, trStatus, trFrames,
          trHeld, trUnheard, trCancelled, trProcess

sseVars == <<ssLog, ssConn, ssBatch, ssCount, ssDue, ssSend, ssLost, ssCursor, ssSince, ssDirty,
    ssSent, ssToken, ssKnown, ssCut, ssConnects>>
proxyVars == <<psClaims, psApiKeyOnly, psTracked, psRefresh, psUp, psServer, psDown,
    psLate, psUntold, psLost, psSent>>
publishVars == <<rpNow, rpReq, rpLimiters, rpTable, rpCleaner, rpDevices, rpBudget, rpStrays>>
registryVars == <<crLife, crMoved, crWorkChan, crFaulty, crStage, crBatch,
    crOwned, crFailures, crHash, crIndex, crHealth, crSubscribed, crMsgCh, crBulk>>
testerVars == <<trCfg, trStatus, trFrames, trHeld, trUnheard, trCancelled, trProcess>>

Part == {"gateway", "sse", "proxy", "publish", "registry", "tester"}

\* One user with two tokens, a revocation of the first and one of the user
\* issued between the two.
MCToken == {[jti |-> "j1", sub |-> "u", tenant |-> "t1", iat |-> 1],
            [jti |-> "j2", sub |-> "u", tenant |-> "t1", iat |-> 3]}
MCRevocation == {[type |-> "token", tenant |-> "t1", jti |-> "j1", sub |-> "", revokedAt |-> 2],
                 [type |-> "user", tenant |-> "t1", jti |-> "", sub |-> "u", revokedAt |-> 2]}

\* A refresh widens, narrows or replaces what the client may see.
MCAllowed == [public |-> {"a"}, full |-> {"a", "b"}, some |-> {"b"}]

MCShardOf == [c \in Entry |-> CHOOSE s \in Shard : TRUE]

\* The requests of the tester: every suite with every way to authenticate, the
\* other types of run, and runs that bring their own token or API key.
Suite == {"", "auth", "channels", "ordering", "reconnect", "ratelimit", "edition-limits", "pubsub",
          "tenant-isolation", "provisioning", "sse", "rest-publish", "push", "license-reload",
          "token-revocation", "api-key", "upgrade", "webhooks", "kafka-ingest", "history",
          "gap-recovery", "sse-recovery", "revocation", "unknown"}
TestOf(type, suite, mode) ==
    [type |-> type, suite |-> suite, mode |-> mode, supplied |-> FALSE, keyed |-> FALSE,
     channelMode |-> FALSE, metrics |-> FALSE]
MCRequest ==
    {TestOf("validate", s, m) : s \in Suite, m \in {"", "jwt", "api-key", "upgrade", "mixed"}}
    \cup {[TestOf("validate", s, "") EXCEPT !.supplied = TRUE] : s \in {"auth", "webhooks", "api-key", "upgrade"}}
    \cup {[TestOf("validate", s, "") EXCEPT !.keyed = TRUE] : s \in {"api-key", "upgrade"}}
    \cup {[TestOf(t, s, m) EXCEPT !.channelMode = c] :
            t \in {"smoke", "load", "stress", "soak", "fuzz"}, s \in {"", "revocation"},
            m \in {"", "mixed", "api-key"}, c \in BOOLEAN}
    \cup {[TestOf("soak", "revocation", "") EXCEPT !.metrics = TRUE]}

Sse == INSTANCE SseCursor WITH log <- ssLog, conn <- ssConn, batch <- ssBatch, count <- ssCount,
    due <- ssDue, send <- ssSend, lost <- ssLost, cursor <- ssCursor, since <- ssSince,
    dirty <- ssDirty, sent <- ssSent, token <- ssToken, known <- ssKnown, cut <- ssCut,
    connects <- ssConnects, Channel <- Feed

Session == INSTANCE ProxySession WITH claims <- psClaims, apiKeyOnly <- psApiKeyOnly,
    tracked <- psTracked, refresh <- psRefresh, up <- psUp,
    server <- psServer, down <- psDown, late <- psLate, untold <- psUntold, lost <- psLost,
    sent <- psSent, Allowed <- MCAllowed

Publish == INSTANCE RestPublish WITH now <- rpNow, req <- rpReq, limiters <- rpLimiters,
    table <- rpTable, cleaner <- rpCleaner, devices <- rpDevices, budget <- rpBudget,
    strays <- rpStrays, MaxTime <- PublishTime

Registry == INSTANCE ConnRegistry WITH life <- crLife, moved <- crMoved, workChan <- crWorkChan,
    faulty <- crFaulty, stage <- crStage, batch <- crBatch,
    owned <- crOwned, failures <- crFailures, hash <- crHash, index <- crIndex,
    health <- crHealth, subscribed <- crSubscribed, msgCh <- crMsgCh,
    bulk <- crBulk, Conn <- Entry, ShardOf <- MCShardOf

Tester == INSTANCE TesterRuns WITH cfg <- trCfg, status <- trStatus, frames <- trFrames,
    held <- trHeld, unheard <- trUnheard, cancelled <- trCancelled, process <- trProcess, Request <- MCRequest

ASSUME GatewayAssumption == ConstantsAssumption

allVars == <<which, vars, sseVars, proxyVars, publishVars, registryVars, testerVars>>

\* A component at rest has one initial state.
MCInit ==
    /\ which \in Part
    /\ Init /\ Sse!Init /\ Session!Init /\ Publish!Init /\ Registry!Init /\ Tester!Init
    /\ which # "proxy" => psClaims = Public
    /\ which # "tester" => trCfg = TestOf("smoke", "", "jwt")

\* One component takes the steps and the others rest.
MCNext ==
    /\ which' = which
    /\ \/ /\ which = "gateway" /\ Next
          /\ UNCHANGED <<sseVars, proxyVars, publishVars, registryVars, testerVars>>
       \/ /\ which = "sse" /\ Sse!Next
          /\ UNCHANGED <<vars, proxyVars, publishVars, registryVars, testerVars>>
       \/ /\ which = "proxy" /\ Session!Next
          /\ UNCHANGED <<vars, sseVars, publishVars, registryVars, testerVars>>
       \/ /\ which = "publish" /\ Publish!Next
          /\ UNCHANGED <<vars, sseVars, proxyVars, registryVars, testerVars>>
       \/ /\ which = "registry" /\ Registry!Next
          /\ UNCHANGED <<vars, sseVars, proxyVars, publishVars, testerVars>>
       \/ /\ which = "tester" /\ Tester!Next
          /\ UNCHANGED <<vars, sseVars, proxyVars, publishVars, registryVars>>

MCSpec == MCInit /\ [][MCNext]_allVars

-----------------------------------------------------------------------------
\* A client that has read the verdicts of its reconnects lacks nothing they
\* left unsaid, but what its token had passed when a connection was lost
\* before its verdict (HandleSSE, Subscribe, recoveryOutcome).
NoSilentLoss == Sse!NoSilentLoss

\* After a token refresh the client is subscribed to nothing its new claims
\* exclude, but for subscriptions on their way when the refresh looked and
\* those no acknowledgement named (forceUnsubscribeRevokedChannels).
RefreshConverges == Session!RefreshConverges

\* The publish rate of a tenant is bounded while limiters are evicted and
\* made anew (Gateway.HandlePublish).
PublishBounded == Publish!PublishBounded

\* A bulk disconnect reaches the connections its first listing could not see,
\* or its answer tells of a failure (HandleBulkDisconnect).
BulkReaches == Registry!BulkReaches

\* A run that has ended gave back what it was told it created on the platform,
\* and failed when its own tenant or keys exist unheard (Runner.execute and the
\* suites' cleanups).
GivenBack == Tester!GivenBack
=============================================================================
