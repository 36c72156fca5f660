---------------------------- MODULE TesterSuites ----------------------------
(***************************************************************************)
(* The suites of the end-to-end tester, as programs.                       *)
(*                                                                         *)
(* A suite talks to a live deployment: it creates tenants, keys, webhooks  *)
(* and connections, checks what the deployment answers and gives back what *)
(* it created.  What a check compares is left out; what is kept is every   *)
(* creation, every early return, every deferred or inline removal with the *)
(* context it runs under, and every wait for a goroutine.  TesterRuns      *)
(* executes the programs.                                                  *)
(*                                                                         *)
(* A resource is a pair <<kind, name>>.  The kinds are "tenant", "key" (a  *)
(* signing key), "apikey", "config" (rules, topics, webhooks, push         *)
(* settings), "conn" (a WebSocket, an SSE stream, a publisher or a pool of *)
(* connections) and "go" (a goroutine).                                    *)
(***************************************************************************)
EXTENDS Naturals, Sequences

T(n) == <<"tenant", n>>
K(n) == <<"key", n>>
A(n) == <<"apikey", n>>
G(n) == <<"config", n>>
C(n) == <<"conn", n>>

(***************************************************************************)
(* The instructions.                                                       *)
(***************************************************************************)
Base == [op |-> "check", r |-> <<"none", "">>, to |-> <<"none", "">>,
         fresh |-> FALSE, must |-> FALSE, err |-> FALSE, ops |-> <<>>, p |-> ""]

\* Checks append results and never leave the function.
Check == Base

\* Create r on the run's context; Must returns when that fails, Try goes on,
\* MustElse runs `undo` before it returns.
Must(r) == [Base EXCEPT !.op = "create", !.r = r, !.must = TRUE]
Try(r) == [Base EXCEPT !.op = "create", !.r = r]
MustElse(r, undo) == [Must(r) EXCEPT !.ops = undo]

\* A call or a wait on the run's context whose failure returns.
Require == [Base EXCEPT !.op = "require", !.must = TRUE]
RequireElse(undo) == [Require EXCEPT !.ops = undo]

\* The same without a context: minting a token, judging what arrived.
Local == [Require EXCEPT !.fresh = TRUE]
LocalElse(undo) == [Local EXCEPT !.ops = undo]

\* A wait or a loop that returns because the context of the run ended.
Alive == [Base EXCEPT !.op = "alive", !.must = TRUE]

\* Remove r: on a fresh context, or on the run's own.
Fresh(r) == [Base EXCEPT !.op = "remove", !.r = r, !.fresh = TRUE]
OnCtx(r) == [Base EXCEPT !.op = "remove", !.r = r]

\* Create r on a fresh context, whatever became of the run's own.
Detached(r) == [Try(r) EXCEPT !.fresh = TRUE]

\* Register removals to run when the function returns, last registered first.
Defer(ops) == [Base EXCEPT !.op = "defer", !.ops = ops]

\* Start a goroutine; wait until r is gone.
Go(n) == [Base EXCEPT !.op = "go", !.r = <<"go", n>>]
Join(r) == [Base EXCEPT !.op = "join", !.r = r]

\* Call another function; Need returns when it returned an error.
Sub(p) == [Base EXCEPT !.op = "call", !.p = p]
Need(p) == [Sub(p) EXCEPT !.must = TRUE]

\* Rename r to r2.
Rename(r, r2) == [Base EXCEPT !.op = "rename", !.r = r, !.to = r2]

\* The failures of prog are returned as errors, not as failing checks.
Err(prog) == [i \in DOMAIN prog |-> [prog[i] EXCEPT !.err = TRUE]]

\* Open a connection or return, and close it at the end.
Held(n) == <<Must(C(n)), Defer(<<Fresh(C(n))>>)>>
\* The same with a read goroutine that the deferred function waits for.
Read(n) == <<Must(C(n)), Defer(<<Fresh(C(n)), Join(C(n))>>)>>
\* Open it if possible and close it at once.
Touch(n) == <<Try(C(n)), Fresh(C(n))>>

(***************************************************************************)
(* Building blocks shared by the suites.                                   *)
(***************************************************************************)
\* Connect with retries: up to five attempts, given up when the context ends.
connectWithRetry(n) == Must(C(n))

\* A user: mint, connect with retries, start the read loop.
CreateUser(n) == connectWithRetry(n)

\* Subscribe again and again until the acknowledgement names every channel.
waitSubscribeConfirmed == Require

\* Publish probes until one comes back.
probeUntilLive == Require

\* Publish and look who received it: a failed publish is the result.
PublishAndVerify ==
  <<Local,     \* the publish
    Check,     \* until all have it, the timeout or the end of the context
    Check>>    \* buildResult: missing and misrouted receivers

\* Issue again and again until refused; a cancelled wait returns, unless the
\* refusal was seen by then.
waitForDeny == [Alive EXCEPT !.must = FALSE]

\* Ingest a record into Kafka and see it delivered, once more after a timeout.
ingestTracked == Require

\* Probe the REST endpoint until the routing rules have reached the gateway.
waitForRoutable == Require

\* Give the tenant permissive channel rules.
seedDefaultChannelRules == Require

\* Ask provisioning or the gateway for the edition.
fetchEditionFrom == Require

\* One request to revoke a token.
doRevokeOnce == Require

\* The stress and soak runners repeat it themselves on 429 and 5xx.
revokeTokenWithClient == doRevokeOnce

\* Again after 429, as long as the header says; given up with the context.
revokeToken == doRevokeOnce

\* The same signed by the platform operator.
revokeTokenAsOperator == revokeToken

\* Connections opened one after the other; a failed one leaves its slot empty.
\* Only the end of the context is an error, and what is open stays open.
RampUp(n) == Try(C(n))
Ramped(n) == Err(<<RampUp(n), Alive>>)

\* One slot of the pool: closed, and filled again on a fresh context.
CloseAt(n) == Fresh(C(n))
FillSlot(n) == Detached(C(n))

\* Close every connection of the pool and wait for the read loops.
Drain(n) == Defer(<<Fresh(C(n)), Join(C(n))>>)

(***************************************************************************)
(* Run set-up: auth.Setup, auth.SetupAPIKeyOnly, selfProvisionAPIKey.      *)
(***************************************************************************)
\* Mutant: the clean-up runs on the context of the run.
SetupCleanupOnCtx(t) ==
  <<Must(T(t)), MustElse(K(t), <<Fresh(T(t))>>), Defer(<<OnCtx(K(t)), OnCtx(T(t))>>)>>

\* A throwaway tenant with a signing key; the caller defers the clean-up.
Setup(t) ==
  <<Must(T(t)), MustElse(K(t), <<Fresh(T(t))>>), Defer(<<Fresh(K(t)), Fresh(T(t))>>)>>

\* A supplied tenant is used as it is and only gets a key.
SetupIn == <<Must(K("run")), Defer(<<Fresh(K("run"))>>)>>

\* API-key mode has no signing key.
SetupAPIKeyOnly == <<Must(T("run")), Defer(<<Fresh(T("run"))>>)>>

\* A key for the run; an answer that cannot be parsed is a failure, and leaves
\* the key: one of the ways a creation goes unheard.
selfProvisionAPIKey == <<Must(A("run")), Defer(<<Fresh(A("run"))>>)>>

(***************************************************************************)
(* validate:auth and validate:channels                                     *)
(***************************************************************************)
validateTokens ==
  Touch("valid") \o Touch("expired") \o Touch("kid") \o Touch("tenant")

validateRevokedKey ==
  <<Must(K("revoked")), Require, OnCtx(K("revoked"))>> \o Touch("revoked")

validateProvisioningJWT ==
  <<Check,             \* the own tenant is readable
    Try(T("xt")),
    Check,             \* another one is not
    Fresh(T("xt"))>>

validateTemporaryKey ==
  <<Try(A("auth"))>>
    \o Touch("apikey")     \* with retries, as long as the context lives
    \o <<Check,            \* REST publish refused
         Fresh(A("auth")),
         Check>>           \* unauthenticated request refused

validateAuth ==
  validateTokens \o <<Sub("validateRevokedKey")>> \o Touch("missing")
    \o <<Sub("validateProvisioningJWT")>> \o validateTemporaryKey

validateChannels == <<connectWithRetry("c"), Defer(<<Fresh(C("c"))>>), Check>>

(***************************************************************************)
(* validate:ordering, reconnect, ratelimit, pubsub, tenant-isolation       *)
(***************************************************************************)
validateOrdering ==
  <<Check, CreateUser("u"), Defer(<<Fresh(C("u"))>>),
    waitSubscribeConfirmed, probeUntilLive,
    Local,         \* the sequence is published
    Check,         \* all arrived, the timeout or the end of the context
    Check>>

validateReconnect ==
  <<CreateUser("u1"), RequireElse(<<Fresh(C("u1"))>>), Check, Fresh(C("u1")),
    CreateUser("u2"), Defer(<<Fresh(C("u2"))>>), waitSubscribeConfirmed, Sub("PublishAndVerify")>>

validateRateLimit ==
  <<Require, Check, Require,
    connectWithRetry("c"), Defer(<<Fresh(C("c")), Join(C("c"))>>),
    Require,       \* subscribe
    Check,         \* the burst, write errors included
    Check, Check,  \* the first refusal; quiet again
    Check>>        \* the probe comes back

\* The three users are created before their clean-up is deferred.
validatePubSub ==
  <<Require, Require, CreateUser("a"), CreateUser("b"), CreateUser("c"),
    Defer(<<Fresh(C("a")), Fresh(C("b")), Fresh(C("c"))>>), waitSubscribeConfirmed,
    probeUntilLive, Sub("PublishAndVerify"), waitForDeny, waitForDeny, waitForDeny>>

validateTenantIsolation ==
  Setup("a") \o Setup("b")
    \o <<Require, CreateUser("a"), Defer(<<Fresh(C("a"))>>), CreateUser("b"), Defer(<<Fresh(C("b"))>>),
         waitSubscribeConfirmed, probeUntilLive, Sub("PublishAndVerify"), waitForDeny>>

(***************************************************************************)
(* validate:edition-limits                                                 *)
(***************************************************************************)
checkTenantLimit ==
  <<Require, Defer(<<Fresh(T("fill1")), Fresh(T("fill2")), Fresh(T("reject"))>>),
    Try(T("fill1")), Try(T("fill2")), Try(T("reject")), Check>>

checkRoutingRulesLimit ==
  <<Require, Defer(<<OnCtx(G("rules"))>>), Try(G("rules")), Check>>

checkConnectionLimit ==
  <<Require, Drain("pool"), RampUp("pool"), Require>> \o Touch("extra")

validateEditionLimits ==
  Err(<<fetchEditionFrom>>) \o <<Check, Require>>
    \o Err(<<Must(T("shared"))>>) \o <<Defer(<<Fresh(T("shared"))>>), Sub("checkTenantLimit"),
         Sub("checkRoutingRulesLimit"), Sub("checkConnectionLimit"), Check>>

(***************************************************************************)
(* validate:provisioning                                                   *)
(***************************************************************************)
validateCrud ==
  <<Check, Check, Check,        \* get, list, update
    Try(A("prov")), Check,
    OnCtx(A("prov")), Check>>

validateRulesAndQuota ==
  <<Try(G("rules")), Check, OnCtx(G("rules")), Sub("validateProvisioningRouting"),
    Sub("validateProvisioningTopics"), Sub("renameChecks"), Sub("testAccessChecks"),
    Try(G("chrules")), Check, OnCtx(G("chrules")), Check>>

validateProvisioning == Setup("prov") \o validateCrud \o validateRulesAndQuota

\* Restore the fixture, and read it back.
appendReset == <<OnCtx(G("rule")), Check>>

\* An allowed write, and then one that differs in what is refused.
writeCheck == <<Must(G("rule")), Check>>

routingWrites ==
  <<Check>>                                       \* delete is idempotent
    \o <<Sub("writeCheck")>> \o appendReset       \* topic gate
    \o <<Sub("writeCheck")>> \o appendReset       \* POST, pattern taken
    \o <<Sub("writeCheck")>> \o appendReset       \* POST, priority taken
    \o <<Sub("writeCheck")>> \o appendReset       \* PUT, pattern twice
    \o <<Sub("writeCheck")>> \o appendReset       \* PUT, invalid rules

routingRoles ==
  <<Check, Sub("writeCheck"), Check>> \o appendReset
    \o <<Check, Check, Sub("checkCrossTenantMismatch"), Sub("checkPagination")>> \o appendReset
    \o <<Sub("writeCheck")>> \o appendReset        \* PUT echoes the rules
    \o <<Sub("writeCheck")>> \o appendReset        \* "*" reads back as "**"

validateProvisioningRouting == routingWrites \o routingRoles

checkCrossTenantMismatch ==
  <<Local>> \o Setup("routing-b")
    \o <<Require,            \* the own tenant may be read
         Require,            \* the other one may not be written
         Local, Require>>    \* nor with roles the tenant signed itself

checkPagination ==
  <<Must(G("rule")), Check,  \* three rules, one on the page
    Check>>                  \* the page size is capped

checkTopicsPaginationFn ==
  <<Require, Must(G("t1")), Must(G("t2")), Must(G("t3")),
    Defer(<<OnCtx(G("t1")), OnCtx(G("t2")), OnCtx(G("t3"))>>), Require, Check>>

checkTopicsQuotaWall ==
  <<Require, Require, Defer(<<Check>>), Require, Must(G("fill")), Defer(<<OnCtx(G("fill"))>>),
    Try(G("over")), OnCtx(G("over"))>>

\* One closure per check: create the topic or return, delete it on return.
topicCheck ==
  <<Must(G("topic")), Defer(<<OnCtx(G("topic"))>>),
    Check>>            \* listed, or what must be refused is

topicDelete == <<Must(G("del")), OnCtx(G("del")), Check>>

topicReferenced ==
  <<Defer(<<OnCtx(G("refrule")), OnCtx(G("ref"))>>), Must(G("ref")), Must(G("refrule")), Require,
    OnCtx(G("refrule")), OnCtx(G("ref"))>>

validateProvisioningTopics ==
  <<Sub("topicCheck"), Sub("topicCheck"),      \* create and list, reserved
    Sub("topicCheck"), Sub("topicCheck"),      \* invalid, duplicate
    Sub("topicDelete"), Sub("topicReferenced"),
    Check, Sub("topicCheck"),                  \* who may read, who may write
    Sub("checkTopicsPaginationFn"), Sub("checkTopicsQuotaWall")>>

\* Deleted under the name it has when the function returns.
renameChecks ==
  Setup("b")
    \o <<Defer(<<Fresh(T("renamed")), Fresh(T("b"))>>),
         Check, Check, Check, Check,       \* bad body, invalid, reserved, taken
         Check,                            \* who may rename
         Rename(T("b"), T("renamed")), Check,
         Check>>                           \* not again at once

testAccessChecks ==
  <<Local, Require,
    Defer(<<Check>>),       \* the rules are restored
    Check,                  \* computed patterns
    Sub("accessNoRules"),
    Check>>                 \* bad body

\* The rules are deleted, and restored at the end.
accessNoRules ==
  <<Require, Require,
    Local,        \* none are allowed
    Require>>

(***************************************************************************)
(* validate:sse, sse-recovery, rest-publish                                *)
(***************************************************************************)
\* The client of an unexpected success is dropped.
checkSSEReject == <<Try(C("accepted")), Check>>

validateSSEStreams ==
  <<Check, connectWithRetry("ws"), Defer(<<Fresh(C("ws"))>>)>>
    \o Held("sse")
    \o <<Check, Check>>   \* published, received

validateSSESecond ==
  <<Try(C("sse2")), Defer(<<Fresh(C("sse2"))>>),
    Check, Check,                                  \* published by REST, received
    Sub("checkSSEReject"), Sub("checkSSEReject"),  \* no credentials, expired
    Sub("checkSSEReject"), Sub("checkSSEReject")>> \* no channels, empty ones

validateSSE == <<Check>> \o validateSSEStreams \o validateSSESecond

recoverySetup == <<Require, Require>>

sseRecoveryFirst ==
  recoverySetup
    \o <<CreateUser("control"), Defer(<<Fresh(C("control"))>>), waitSubscribeConfirmed>>
    \o Held("victim") \o Held("pub")
    \o <<ingestTracked, Require, Require>>   \* received, with a cursor

sseRecoverySecond ==
  <<Fresh(C("victim")), ingestTracked, ingestTracked>>
    \o Held("revived")
    \o <<Require,             \* what was missed is replayed
         Local,               \* recovery_complete, nothing left out
         Local,               \* the anchor is not repeated
         Local, Local>>       \* in order, with the same mids

validateSSERecovery == sseRecoveryFirst \o sseRecoverySecond

restPublishWS ==
  <<Require, Check, waitForRoutable,
    connectWithRetry("ws"), Defer(<<Fresh(C("ws"))>>),
    Require,       \* subscribe
    Check,         \* warm-up
    Check, Check,  \* published, received
    Check>>        \* with the mid of the answer

\* A refused or an unwanted stream ends the suite; one that missed its
\* warm-up is closed at once.
restPublishSSE ==
  <<Check, Try(C("sse")),
    RequireElse(<<Fresh(C("sse"))>>),    \* the edition gate
    Check, Defer(<<Fresh(C("sse"))>>),
    Check, Check>>                       \* published, received

restPublishErrors ==
  <<Check,                   \* the format of the answer
    Check, Check, Check,     \* no channel, no data, no JSON
    Check, Check, Check>>    \* too large, no credentials, wrong type

validateRestPublish == restPublishWS \o restPublishSSE \o restPublishErrors

(***************************************************************************)
(* validate:history, gap-recovery, kafka-ingest                            *)
(***************************************************************************)
validateHistory ==
  recoverySetup
    \o <<CreateUser("a"), Defer(<<Fresh(C("a"))>>), waitSubscribeConfirmed>> \o Held("pub")
    \o <<ingestTracked, ingestTracked, Require,
         CreateUser("b"), Defer(<<Fresh(C("b"))>>), waitSubscribeConfirmed,
         Require, Require,      \* asked for, complete
         Local, Local>>         \* nothing missing, the same mids

gapReconnect ==
  recoverySetup \o <<CreateUser("control"), Defer(<<Fresh(C("control"))>>), waitSubscribeConfirmed,
    CreateUser("victim"), Defer(<<Fresh(C("victim"))>>), waitSubscribeConfirmed>> \o Held("pub")
    \o <<ingestTracked, Require, Fresh(C("victim")), ingestTracked, ingestTracked>>

gapRevived ==
  <<CreateUser("revived"), Defer(<<Fresh(C("revived"))>>), waitSubscribeConfirmed, Require, Require, Require>>

gapLive ==
  <<CreateUser("live"), Defer(<<Fresh(C("live"))>>), waitSubscribeConfirmed, Require, Require, Require>>

validateGapRecovery == gapReconnect \o gapRevived \o gapLive

validateKafkaIngest ==
  <<Require, Require, CreateUser("u"), Defer(<<Fresh(C("u"))>>), waitSubscribeConfirmed>>
    \o Held("pub") \o <<Sub("PublishAndVerify"), Sub("PublishAndVerify")>>

(***************************************************************************)
(* validate:push                                                           *)
(***************************************************************************)
PushCleanup ==
  Defer(<<Fresh(G("device")), Fresh(G("device2")), Fresh(G("channels")), Fresh(G("vapid"))>>)

validatePushSetup ==
  <<PushCleanup, Require, Require, waitForRoutable, Sub("verifyPushDelivery"),
    Try(G("vapid")), Try(G("channels"))>>

validatePushDevice ==
  <<Try(G("device")),
    Check,                    \* publish accepted
    OnCtx(G("device")),
    Try(G("channels")), Check,
    OnCtx(G("channels")), Check>>

validatePushPlatforms ==
  <<Try(G("vapid")), OnCtx(G("vapid")),
    Try(G("channels")), Try(G("vapid")),
    Try(G("device2")), Try(G("device2")), Try(G("device2"))>>   \* web, android, ios

validatePush == validatePushSetup \o validatePushDevice \o validatePushPlatforms

verifyPushDelivery ==
  <<Require>> \o Held("receiver")
    \o <<Require, Must(G("vchannels")), Must(G("vdevice")), Defer(<<OnCtx(G("vdevice"))>>), Require, Check>>

(***************************************************************************)
(* validate:token-revocation                                               *)
(***************************************************************************)
\* A connection that should have been refused is not kept.
tryConnect(n) == Try(C(n))

checkJTIRevocation ==
  <<Require>> \o Read("jti")
    \o <<revokeTokenAsOperator, Check, tryConnect("reuse")>> \o Touch("other")

\* A failed connect closes the ones before it.
checkSubRevocation ==
  <<Require, Must(C("s1")), MustElse(C("s2"), <<Fresh(C("s1"))>>),
    MustElse(C("s3"), <<Fresh(C("s1")), Fresh(C("s2"))>>),
    Defer(<<Fresh(C("s1")), Fresh(C("s2")), Fresh(C("s3")), Join(C("s1"))>>), revokeTokenAsOperator, Require>>

checkSubReconnects ==
  Touch("new")                  \* issued after the revocation
    \o <<tryConnect("old")>>    \* issued before it
    \o Touch("boundary")

checkSSERevocation ==
  <<Require, Must(G("rrules")), Defer(<<Fresh(G("rrules"))>>), Require>> \o Read("rsse")
    \o <<revokeTokenAsOperator, Check>>

\* The credentials are set before the clean-up is deferred.
checkPushRevocation ==
  <<Must(G("rvapid")), Must(G("rchannels")), Defer(<<Fresh(G("rchannels")), Fresh(G("rvapid"))>>),
    Must(G("rdevice1")), revokeTokenAsOperator, Require, Try(G("rdevice2")), Fresh(G("rdevice2"))>>

checkInvalidRevocations ==
  <<Check, Check>>             \* neither field, both fields
    \o Err(Setup("revoke-b"))
    \o <<Local, Check>>        \* the token of another tenant

checkEdgeCases == <<Check>>

validateTokenRevocation ==
  Err(<<fetchEditionFrom>>) \o <<Require, Require, Require, Sub("checkJTIRevocation"), Sub("checkSubRevocation"),
    Sub("checkSSERevocation"), Sub("checkPushRevocation"), Need("checkInvalidRevocations")>> \o checkEdgeCases

(***************************************************************************)
(* validate:api-key, upgrade, webhooks, license-reload                     *)
(***************************************************************************)
validateAPIKey ==
  Err(<<Require>>) \o <<Require>> \o Read("c")
    \o <<Require,                       \* the public channel
         waitForDeny, Check,            \* the private one; REST publish
         waitForDeny, waitForDeny,      \* a group's, another user's
         waitForDeny, Check>>           \* publish

\* The read loop lives until the refresh is answered or its timeout fires,
\* and only then is the connection closed.
upgradeCheck ==
  <<Must(C("up")),
    Defer(<<Check, Fresh(C("up"))>>),
    Local, Local,         \* minted, sent
    Check>>               \* answered or timed out

validateUpgrade ==
  Err(<<Require>>) \o Read("c1") \o <<Require, Sub("upgradeCheck"), Sub("upgradeCheck")>>

runWebhookScenario ==
  <<Require, Defer(<<Check>>), Must(G("wrules")), Defer(<<Fresh(G("wrules"))>>), Must(G("webhook")),
    Defer(<<Fresh(G("webhook"))>>), Require, Check>>

validateWebhooks ==
  <<Require, fetchEditionFrom, Need("runWebhookScenario"), Need("runWebhookScenario"), Need("runWebhookScenario")>>

checkInvalidKeys ==
  <<Require, Require,        \* Pro pushed and seen
    Check, Check, Check,     \* bad signature, expired, replayed
    Check>>                  \* the edition stands

checkTransitionChain ==
  <<Require, Require,             \* Community pushed and seen
    Check>> \o Read("chain")      \* Community to Pro
    \o <<Require, Check, Check,   \* subscribe; to Enterprise
         Check, Check>>           \* to Pro; to Community

validateLicenseReload ==
  Err(<<Require, fetchEditionFrom>>) \o <<Defer(<<Check>>), Sub("checkInvalidKeys"), Sub("checkTransitionChain")>>

\* Seed the rules, then the suite; its error is the error of the run.
runValidate(suite) ==
  <<seedDefaultChannelRules,
    Need(suite),
    Check>>        \* the report fails when one check failed

(***************************************************************************)
(* smoke, load, stress and soak                                            *)
(***************************************************************************)
runSmoke ==
  Err(<<Require, seedDefaultChannelRules>>)
    \o <<Try(C("c")), Defer(<<Fresh(C("c"))>>),
         Check, Check, Check,                     \* two health checks, subscribe
         Check, Try(C("smoke")), Defer(<<Fresh(C("smoke"))>>),
         Check, Sub("PublishAndVerify")>>

\* The canary is closed by the last phase only.
Canary(n) == Err(<<Must(C(n)), RequireElse(<<Fresh(C(n))>>)>>)

publishLoop == <<Check>>

runLoad ==
  Err(<<Require>>) \o Canary("canary")
    \o <<Drain("pool")>> \o Ramped("pool") \o Err(Held("pub"))
    \o publishLoop \o <<Fresh(C("canary")), Join(C("canary"))>>

loadCanaries ==
  Err(<<Require, Require>>)
    \o <<Drain("p1"), Drain("p2"), Drain("p3")>>
    \o Canary("public")
    \o Err(<<Local>>) \o Canary("user")
    \o Err(<<Local>>) \o Canary("group")

loadPools ==
  Ramped("p1")
    \o Ramped("p2")
    \o Ramped("p3")

loadPublishes ==
  Err(Held("pub")) \o publishLoop \o <<Fresh(C("public")), Fresh(C("user")), Fresh(C("group")), Join(C("public"))>>

runLoadChannelMode == loadCanaries \o loadPools \o loadPublishes

\* The two pools live in goroutines of their own that share nothing; they run
\* one after the other here.  The run waits for both.
mixedPublish == <<Try(C("pub"))>> \o publishLoop \o <<Fresh(C("pub"))>>

runLoadMixed ==
  <<Drain("jwt"), RampUp("jwt")>>
    \o mixedPublish
    \o <<Drain("api"), RampUp("api"),
         Check,          \* held until the end of the run
         Check>>         \* the report

runSoakMixed ==
  <<Drain("jwt"), RampUp("jwt")>>
    \o mixedPublish
    \o <<Drain("api"), RampUp("api"),
         Check,          \* no refresh: held until the end of the run
         Check>>

runStress ==
  Err(<<Local>>)
    \o <<Drain("pool"), RampUp("pool"),
         Check, Check>>     \* held; as many as asked for?

runSoak ==
  Err(<<Require, seedDefaultChannelRules>>) \o Canary("canary")
    \o <<Drain("pool")>> \o Ramped("pool") \o Err(Held("pub"))
    \o <<Check, Check,      \* publish, refresh the tokens
         Fresh(C("canary")), Join(C("canary"))>>

stressMass ==
  Err(<<fetchEditionFrom>>) \o <<Local>> \o Err(<<Local>>)   \* the edition, the token
    \o <<RampUp("s1"), Check,
         [LocalElse(<<Fresh(C("s1"))>>) EXCEPT !.err = TRUE],      \* mint
         [revokeTokenWithClient EXCEPT !.ops = <<Fresh(C("s1"))>>],
         Check, Fresh(C("s1")),                                      \* the closes are counted
         Check, Check, Check>>

stressBystanders ==
  <<Require, Must(G("srules")), Defer(<<Fresh(G("srules"))>>)>>
    \o Err(<<Local>>) \o Read("canary")
    \o <<Local, RampUp("s2"), Drain("s2")>> \o Held("pub")
    \o <<Go("publish")>>

\* The publisher ends when told to, and is waited for.
stopPublisher == <<Fresh(<<"go", "publish">>), Join(<<"go", "publish">>)>>

\* A token that cannot be minted is an error, a refused revocation a report.
stressRevokes ==
  <<Check,
    [LocalElse(stopPublisher) EXCEPT !.err = TRUE],            \* mint
    [revokeTokenWithClient EXCEPT !.ops = stopPublisher],
    Check>> \o stopPublisher                                     \* the closes are counted
    \o <<Check, Check>>

stressReconnects ==
  <<Defer(<<Fresh(C("s3a")), Fresh(C("s3b"))>>),
    Try(C("s3a")), Try(C("s3b")), Check>>

runStressRevocation == stressMass \o stressBystanders \o stressRevokes \o stressReconnects

runSoakRevocationPreflight ==
  <<Require, Local,             \* scrape, mint
    revokeTokenWithClient, Check,
    Require, Local>>            \* scrape, the map has grown

\* `metrics`: the URL of the gateway's metrics is configured.
soakPool(metrics) ==
  Err(<<fetchEditionFrom>>) \o <<Local>> \o Err(<<Local>>)   \* the edition, the token
    \o (IF metrics THEN runSoakRevocationPreflight ELSE <<>>) \o <<RampUp("pool"), Drain("pool")>>

\* The monitor scrapes until the context of the run ends.
soakMonitor(metrics) ==
  IF metrics THEN <<Go("monitor")>> ELSE <<>>

\* Each cycle closes, revokes and refills slots.  The loop ends at the
\* deadline or when the run is stopped, and returns early when every slot is
\* dead or when errors exceed the rate; each of these waits for the monitor.
monitorWait == Join(<<"go", "monitor">>)

soakCycles ==
  <<Check,                           \* a cycle is due, or the run ends
    CloseAt("pool"), Check,          \* closed, else the slot is dead
    Check,                           \* revoked, else an error
    FillSlot("pool"),                \* refilled, else the slot is dead
    LocalElse(<<monitorWait>>),      \* some slot is alive
    LocalElse(<<monitorWait>>),      \* errors below the rate
    monitorWait>>

soakDrift ==
  <<Check,      \* memory
    Check,      \* the revocation map
    Check>>     \* goroutines

soakPrune(metrics) ==
  IF ~metrics THEN <<Check>>
  ELSE <<Require,       \* scrape
         Check,         \* revocations that expire
         Local,         \* not all failed
         Alive,         \* wait for the pruner
         Check>>        \* the map is back where it was

runSoakRevocation(metrics) ==
  soakPool(metrics) \o soakMonitor(metrics) \o soakCycles \o soakDrift \o soakPrune(metrics)

(***************************************************************************)
(* The functions by name.                                                  *)
(***************************************************************************)
Program(p) ==
  CASE p = "auth" -> validateAuth
    [] p = "PublishAndVerify" -> PublishAndVerify
    [] p = "validateRevokedKey" -> validateRevokedKey
    [] p = "validateProvisioningJWT" -> validateProvisioningJWT
    [] p = "channels" -> validateChannels
    [] p = "ordering" -> validateOrdering
    [] p = "reconnect" -> validateReconnect
    [] p = "ratelimit" -> validateRateLimit
    [] p = "pubsub" -> validatePubSub
    [] p = "tenant-isolation" -> validateTenantIsolation
    [] p = "edition-limits" -> validateEditionLimits
    [] p = "checkTenantLimit" -> checkTenantLimit
    [] p = "checkRoutingRulesLimit" -> checkRoutingRulesLimit
    [] p = "checkConnectionLimit" -> checkConnectionLimit
    [] p = "provisioning" -> validateProvisioning
    [] p = "validateProvisioningRouting" -> validateProvisioningRouting
    [] p = "checkCrossTenantMismatch" -> checkCrossTenantMismatch
    [] p = "checkPagination" -> checkPagination
    [] p = "validateProvisioningTopics" -> validateProvisioningTopics
    [] p = "writeCheck" -> writeCheck
    [] p = "topicCheck" -> topicCheck
    [] p = "topicDelete" -> topicDelete
    [] p = "topicReferenced" -> topicReferenced
    [] p = "checkTopicsPaginationFn" -> checkTopicsPaginationFn
    [] p = "checkTopicsQuotaWall" -> checkTopicsQuotaWall
    [] p = "renameChecks" -> renameChecks
    [] p = "testAccessChecks" -> testAccessChecks
    [] p = "accessNoRules" -> accessNoRules
    [] p = "sse" -> validateSSE
    [] p = "checkSSEReject" -> checkSSEReject
    [] p = "sse-recovery" -> validateSSERecovery
    [] p = "rest-publish" -> validateRestPublish
    [] p = "history" -> validateHistory
    [] p = "gap-recovery" -> validateGapRecovery
    [] p = "kafka-ingest" -> validateKafkaIngest
    [] p = "push" -> validatePush
    [] p = "verifyPushDelivery" -> verifyPushDelivery
    [] p = "token-revocation" -> validateTokenRevocation
    [] p = "checkJTIRevocation" -> checkJTIRevocation
    [] p = "checkSubRevocation" -> checkSubRevocation \o checkSubReconnects
    [] p = "checkSSERevocation" -> checkSSERevocation
    [] p = "checkPushRevocation" -> checkPushRevocation
    [] p = "checkInvalidRevocations" -> checkInvalidRevocations
    [] p = "api-key" -> validateAPIKey
    [] p = "upgrade" -> validateUpgrade
    [] p = "upgradeCheck" -> upgradeCheck
    [] p = "webhooks" -> validateWebhooks
    [] p = "runWebhookScenario" -> runWebhookScenario
    [] p = "license-reload" -> validateLicenseReload
    [] p = "checkInvalidKeys" -> checkInvalidKeys
    [] p = "checkTransitionChain" -> checkTransitionChain
    [] p = "runSmoke" -> runSmoke
    [] p = "runLoad" -> runLoad
    [] p = "runLoadChannelMode" -> runLoadChannelMode
    [] p = "runLoadMixed" -> runLoadMixed
    [] p = "runStress" -> runStress
    [] p = "runStressRevocation" -> runStressRevocation
    [] p = "runSoak" -> runSoak
    [] p = "runSoakMixed" -> runSoakMixed
    [] p = "runSoakRevocation" -> runSoakRevocation(FALSE)
    [] p = "runSoakRevocation+metrics" -> runSoakRevocation(TRUE)
    [] OTHER -> <<Check>>
=============================================================================
