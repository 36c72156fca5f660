---------------------------- MODULE ConsumerPool ----------------------------
(***************************************************************************)
(* The multi-tenant consumer pool (server/orchestration/                   *)
(* multitenant_pool.go): a refresh loop brings one shared consumer and one *)
(* consumer per dedicated tenant in line with the topic registry           *)
(* (shared/provapi/topic_registry.go), while each consumer's poll          *)
(* goroutine reports topics that were deleted at the broker                *)
(* (server/kafka/consumer.go, handleFetchErrors).                          *)
(*                                                                         *)
(* mu is held by the refresh alone, so the refresh is one process; topicMu *)
(* is released between its steps, so a poller's callback runs between any  *)
(* two of them.  The Kafka client (external) is two sets per consumer: the *)
(* topics it consumes, and of those the paused ones, which stay paused     *)
(* until the client is closed.                                             *)
(***************************************************************************)
EXTENDS Integers

CONSTANTS
  Topic, Tenant,
  Owner,      \* [Topic -> Tenant]
  Shared,     \* names the shared consumer
  None,
  MaxChanges, \* bound on registry updates
  MaxDeletes, \* bound on deletions at the broker
  MaxFails    \* bound on consumers the factory fails to create

ConstantsAssumption ==
  /\ Owner \in [Topic -> Tenant] /\ Shared \notin Tenant /\ None \notin Topic
  /\ MaxChanges \in Nat /\ MaxDeletes \in Nat /\ MaxFails \in Nat

Consumer == Tenant \cup {Shared}
Mode == {"off", "shared", "dedicated"}

VARIABLES
  registry,     \* [mode : [Tenant -> Mode], live : SUBSET Topic]: the registry's cache
  gone,         \* topics deleted at the broker and not created again
  updates,      \* topic_update goroutines of the backend that have not finished
  refreshCh,    \* a refresh is pending in the channel of capacity 1
  pc,           \* where the refresh goroutine is
  plan,         \* the refresh's locals: [shared, dedicated, toAdd, toRemove]
  sharedTopics, blockedSharedTopics, dedicatedTopics, topicTenants,
  pooled,       \* consumers in p.sharedConsumer and p.dedicatedConsumers
  client,       \* [Consumer -> [up, consumed, paused]]: the Kafka clients
  callback,     \* [Consumer -> the topic its poller is reporting]
  started,      \* Start has returned and the refresh loop runs
  stop,         \* Stop: "no", "cancelled", "stopping", "done"
  clean,        \* history: the registry has not changed since the refresh read it
  changes, deletes, fails

topicVars == <<sharedTopics, blockedSharedTopics, dedicatedTopics>>
kafkaVars == <<client, callback>>
stopVars  == <<started, stop>>
regVars   == <<registry, gone, updates, changes, deletes>>
vars == <<regVars, refreshCh, pc, plan, topicVars, topicTenants, pooled, kafkaVars, stopVars, clean, fails>>

SharedOf(r) == {t \in r.live : r.mode[Owner[t]] = "shared"}
DedicatedOf(r) == [n \in {m \in Tenant : r.mode[m] = "dedicated"} |-> {t \in r.live : Owner[t] = n}]
TenantTopics(r) == {t \in r.live : r.mode[Owner[t]] # "off"}

NoClient == [up |-> FALSE, consumed |-> {}, paused |-> {}]
NoPlan == [shared |-> {}, dedicated |-> [n \in {} |-> {}], toAdd |-> {}, toRemove |-> {}]
Fetched(c) == IF client[c].up THEN client[c].consumed \ client[c].paused ELSE {}

\* The refresh's locals and the pool's maps hold what multitenant_pool.go declares.
TypeOK ==
  /\ registry \in [mode : [Tenant -> Mode], live : SUBSET Topic]
  /\ gone \subseteq Topic /\ updates \in 0 .. MaxChanges /\ refreshCh \in BOOLEAN
  /\ pc \in {"start", "idle", "dedicated", "tenants", "diff", "create", "record", "add", "recordAdd",
             "remove", "recordRemove", "leave", "join", "stop", "done"}
  /\ plan.shared \subseteq Topic /\ plan.toAdd \subseteq Topic /\ plan.toRemove \subseteq Topic
  /\ sharedTopics \subseteq Topic /\ blockedSharedTopics \subseteq Topic
  /\ dedicatedTopics \subseteq Topic /\ topicTenants \subseteq Topic
  /\ pooled \subseteq Consumer
  /\ client \in [Consumer -> [up : BOOLEAN, consumed : SUBSET Topic, paused : SUBSET Topic]]
  /\ callback \in [Consumer -> Topic \cup {None}]
  /\ stop \in {"no", "cancelled", "stopping", "done"} /\ clean \in BOOLEAN /\ started \in BOOLEAN
  /\ changes \in 0 .. MaxChanges /\ deletes \in 0 .. MaxDeletes /\ fails \in 0 .. MaxFails

\* The first snapshot has arrived; Start is about to refresh.
Init ==
  /\ registry \in [mode : [Tenant -> Mode], live : SUBSET Topic]
  /\ gone = {} /\ updates = 0 /\ refreshCh = FALSE
  /\ pc = "start" /\ plan = NoPlan
  /\ sharedTopics = {} /\ blockedSharedTopics = {} /\ dedicatedTopics = {} /\ topicTenants = {}
  /\ pooled = {} /\ client = [c \in Consumer |-> NoClient] /\ callback = [c \in Consumer |-> None]
  /\ started = FALSE /\ stop = "no" /\ clean = FALSE
  /\ changes = 0 /\ deletes = 0 /\ fails = 0

-----------------------------------------------------------------------------
(* The registry, the backend's reaction to it, and the broker.             *)

\* applyTopicUpdate replaces the cache under its lock; onUpdate then spawns a goroutine.
RegistryUpdate ==
  /\ changes < MaxChanges /\ stop = "no" /\ pc # "done"
  /\ changes' = changes + 1 /\ updates' = updates + 1
  /\ \E n \in Tenant, m \in Mode : registry' = [registry EXCEPT !.mode[n] = m]
     \/ \E t \in Topic : registry' = [registry EXCEPT !.live = (@ \ {t}) \cup ({t} \ @)]
  /\ registry' # registry /\ clean' = FALSE
  /\ UNCHANGED <<gone, deletes, refreshCh, pc, plan, topicVars, topicTenants, pooled, kafkaVars, stopVars, fails>>

\* Mutant: the channel has no buffer, so a signal during a refresh is lost.
TopicUpdateUnbuffered ==
  /\ updates > 0 /\ updates' = updates - 1
  /\ gone' \in {gone, gone \ TenantTopics(registry)}
  /\ refreshCh' = (refreshCh \/ pc = "idle")
  /\ UNCHANGED <<registry, changes, deletes, pc, plan, topicVars, topicTenants, pooled, kafkaVars, stopVars, clean, fails>>

\* The topic_update goroutine: ensureTopicsExist, which may fail, then RefreshTopics.
TopicUpdate ==
  /\ updates > 0 /\ updates' = updates - 1
  /\ gone' \in {gone, gone \ TenantTopics(registry)}
  /\ refreshCh' = TRUE
  /\ UNCHANGED <<registry, changes, deletes, pc, plan, topicVars, topicTenants, pooled, kafkaVars, stopVars, clean, fails>>

BrokerDelete(t) ==
  /\ deletes < MaxDeletes /\ t \notin gone
  /\ gone' = gone \cup {t} /\ deletes' = deletes + 1
  /\ UNCHANGED <<registry, updates, changes, refreshCh, pc, plan, topicVars, topicTenants, pooled, kafkaVars,
                 stopVars, clean, fails>>

-----------------------------------------------------------------------------
(* A consumer's poll goroutine: pause first, then call the pool back.  The *)
(* client (external) may report any deleted topic it fetches.              *)

FetchUnknownTopic(c, t) ==
  /\ t \in Fetched(c) \cap gone /\ callback[c] = None
  /\ client' = [client EXCEPT ![c].paused = @ \cup {t}]
  /\ callback' = [callback EXCEPT ![c] = t]
  /\ UNCHANGED <<regVars, refreshCh, pc, plan, topicVars, topicTenants, pooled, stopVars, clean, fails>>

\* Mutant: the callback takes mu, which the refresh holds while it stops consumers.
handleBrokerDeletedTopicUnderMu(c) ==
  LET t == callback[c] IN
  /\ t # None /\ callback' = [callback EXCEPT ![c] = None]
  /\ pc \in {"start", "idle", "dedicated", "tenants", "done"}
  /\ IF t \in sharedTopics
       THEN /\ sharedTopics' = sharedTopics \ {t}
            /\ blockedSharedTopics' = blockedSharedTopics \cup {t}
            /\ UNCHANGED dedicatedTopics
       ELSE /\ dedicatedTopics' = dedicatedTopics \ {t}
            /\ UNCHANGED <<sharedTopics, blockedSharedTopics>>
  /\ UNCHANGED <<regVars, refreshCh, pc, plan, topicTenants, pooled, client, stopVars, clean, fails>>

handleBrokerDeletedTopic(c) ==
  LET t == callback[c] IN
  /\ t # None /\ callback' = [callback EXCEPT ![c] = None]
  /\ IF t \in sharedTopics
       THEN /\ sharedTopics' = sharedTopics \ {t}
            /\ blockedSharedTopics' = blockedSharedTopics \cup {t}
            /\ UNCHANGED dedicatedTopics
       ELSE /\ dedicatedTopics' = dedicatedTopics \ {t}
            /\ UNCHANGED <<sharedTopics, blockedSharedTopics>>
  /\ UNCHANGED <<regVars, refreshCh, pc, plan, topicTenants, pooled, client, stopVars, clean, fails>>

-----------------------------------------------------------------------------
(* refreshTopics: three reads of the registry, each under its own lock.    *)

ReadShared ==
  /\ plan' = [NoPlan EXCEPT !.shared = SharedOf(registry)] /\ clean' = TRUE
  /\ pc' = "dedicated"
  /\ UNCHANGED <<regVars, topicVars, topicTenants, pooled, kafkaVars, stopVars, fails>>

\* Start's own refresh, before the loop runs.
Start == pc = "start" /\ ReadShared /\ UNCHANGED refreshCh

\* The loop's select may prefer a ready arm to a cancelled context.
RefreshOnTick == pc = "idle" /\ ReadShared /\ UNCHANGED refreshCh
RefreshOnSignal == pc = "idle" /\ refreshCh /\ ReadShared /\ refreshCh' = FALSE

ReadDedicated ==
  /\ pc = "dedicated" /\ plan' = [plan EXCEPT !.dedicated = DedicatedOf(registry)]
  /\ pc' = "tenants"
  /\ UNCHANGED <<regVars, refreshCh, topicVars, topicTenants, pooled, kafkaVars, stopVars, clean, fails>>

ReadTenants ==
  /\ pc = "tenants" /\ topicTenants' = TenantTopics(registry)
  /\ pc' = "diff"
  /\ UNCHANGED <<regVars, refreshCh, plan, topicVars, pooled, kafkaVars, stopVars, clean, fails>>

-----------------------------------------------------------------------------
(* updateSharedConsumer.                                                   *)

\* First critical section: evict blocks of deprovisioned topics, drop the blocked ones,
\* copy the current set; the differences are computed outside the lock.
Diff ==
  LET blocked == blockedSharedTopics \cap plan.shared
      newTopics == plan.shared \ blocked IN
  /\ pc = "diff"
  /\ blockedSharedTopics' = blocked
  /\ plan' = [plan EXCEPT !.toAdd = newTopics \ sharedTopics, !.toRemove = sharedTopics \ newTopics]
  /\ pc' = IF Shared \in pooled THEN "add" ELSE IF newTopics # {} THEN "create" ELSE "leave"
  /\ UNCHANGED <<regVars, refreshCh, sharedTopics, dedicatedTopics, topicTenants, pooled, kafkaVars, stopVars, clean, fails>>

\* No consumer yet: create and start it (its poller runs from here on)
CreateShared ==
  /\ pc = "create"
  /\ client' = [client EXCEPT ![Shared] = [up |-> TRUE, consumed |-> plan.toAdd, paused |-> {}]]
  /\ pooled' = pooled \cup {Shared}
  /\ pc' = "record"
  /\ UNCHANGED <<regVars, refreshCh, plan, topicVars, topicTenants, callback, stopVars, clean, fails>>

\* ... and only then record its topics;
RecordCreated ==
  /\ pc = "record" /\ sharedTopics' = plan.toAdd
  /\ pc' = "leave"
  /\ UNCHANGED <<regVars, refreshCh, plan, blockedSharedTopics, dedicatedTopics, topicTenants, pooled, kafkaVars,
                 stopVars, clean, fails>>

\* ... a failure ends the refresh, and at the first refresh it ends Start.
CreateSharedFails ==
  /\ pc = "create" /\ fails < MaxFails /\ fails' = fails + 1
  /\ clean' = FALSE /\ pc' = IF started THEN "idle" ELSE "done"
  /\ UNCHANGED <<regVars, refreshCh, plan, topicVars, topicTenants, pooled, kafkaVars, stopVars>>

\* AddConsumeTopics, then a second critical section that skips what has been blocked since.
AddTopics ==
  /\ pc = "add"
  /\ client' = [client EXCEPT ![Shared].consumed = @ \cup plan.toAdd]
  /\ pc' = "recordAdd"
  /\ UNCHANGED <<regVars, refreshCh, plan, topicVars, topicTenants, pooled, callback, stopVars, clean, fails>>

RecordAdded ==
  /\ pc = "recordAdd" /\ sharedTopics' = sharedTopics \cup (plan.toAdd \ blockedSharedTopics)
  /\ pc' = "remove"
  /\ UNCHANGED <<regVars, refreshCh, plan, blockedSharedTopics, dedicatedTopics, topicTenants, pooled, kafkaVars,
                 stopVars, clean, fails>>

\* Mutant: the departed topics are forgotten and still fetched.
PauseRemovedNot ==
  /\ pc = "remove" /\ pc' = "recordRemove"
  /\ UNCHANGED <<regVars, refreshCh, plan, topicVars, topicTenants, pooled, kafkaVars, stopVars, clean, fails>>

\* PauseFetchTopics for the departed, then a third critical section forgets them.
PauseRemoved ==
  /\ pc = "remove"
  /\ client' = [client EXCEPT ![Shared].paused = @ \cup plan.toRemove]
  /\ pc' = "recordRemove"
  /\ UNCHANGED <<regVars, refreshCh, plan, topicVars, topicTenants, pooled, callback, stopVars, clean, fails>>

\* Mutant: the set is replaced by what this refresh has added.
RecordRemovedResets ==
  /\ pc = "recordRemove" /\ sharedTopics' = plan.toAdd \ plan.toRemove
  /\ pc' = "leave"
  /\ UNCHANGED <<regVars, refreshCh, plan, blockedSharedTopics, dedicatedTopics, topicTenants, pooled, kafkaVars,
                 stopVars, clean, fails>>

RecordRemoved ==
  /\ pc = "recordRemove" /\ sharedTopics' = sharedTopics \ plan.toRemove
  /\ pc' = "leave"
  /\ UNCHANGED <<regVars, refreshCh, plan, blockedSharedTopics, dedicatedTopics, topicTenants, pooled, kafkaVars,
                 stopVars, clean, fails>>

-----------------------------------------------------------------------------
(* updateDedicatedConsumers; the consumers it drops are stopped after mu   *)
(* is released.                                                            *)

RemoveDedicated ==
  LET left == (pooled \ {Shared}) \ DOMAIN plan.dedicated IN
  /\ pc = "leave"
  /\ pooled' = pooled \ left
  /\ dedicatedTopics' = {t \in dedicatedTopics : Owner[t] \notin left}
  /\ pc' = "join"
  /\ UNCHANGED <<regVars, refreshCh, plan, sharedTopics, blockedSharedTopics, topicTenants, kafkaVars, stopVars,
                 clean, fails>>

\* Tenants that have topics and no consumer yet; a tenant that has one is passed over.
Unserved == {n \in DOMAIN plan.dedicated : plan.dedicated[n] # {} /\ n \notin pooled}
Passed(n) == plan' = [plan EXCEPT !.dedicated = [m \in DOMAIN @ \ {n} |-> @[m]]]

\* Nothing reads dedicatedTopics between the consumer's start and its recording.
CreateDedicated(n) ==
  /\ pc = "join" /\ n \in Unserved /\ Passed(n)
  /\ client' = [client EXCEPT ![n] = [up |-> TRUE, consumed |-> plan.dedicated[n], paused |-> {}]]
  /\ pooled' = pooled \cup {n}
  /\ dedicatedTopics' = dedicatedTopics \cup plan.dedicated[n]
  /\ UNCHANGED <<regVars, refreshCh, pc, sharedTopics, blockedSharedTopics, topicTenants, callback, stopVars, clean, fails>>

\* A failure is logged and the loop goes on with the next tenant.
CreateDedicatedFails(n) ==
  /\ pc = "join" /\ n \in Unserved /\ Passed(n)
  /\ fails < MaxFails /\ fails' = fails + 1 /\ clean' = FALSE
  /\ UNCHANGED <<regVars, refreshCh, pc, topicVars, topicTenants, pooled, kafkaVars, stopVars>>

DedicatedUpdated ==
  /\ pc = "join" /\ Unserved = {}
  /\ pc' = "stop"
  /\ UNCHANGED <<regVars, refreshCh, plan, topicVars, topicTenants, pooled, kafkaVars, stopVars, clean, fails>>

\* Consumer.Stop waits for the poll goroutine, and so for a callback under way.
Dropped == {n \in Tenant : client[n].up /\ n \notin pooled}

StopDropped(n) ==
  /\ pc = "stop" /\ n \in Dropped /\ callback[n] = None
  /\ client' = [client EXCEPT ![n] = NoClient]
  /\ UNCHANGED <<regVars, refreshCh, pc, plan, topicVars, topicTenants, pooled, callback, stopVars, clean, fails>>

\* The refresh is over; after the first one the loop starts.
RefreshDone ==
  /\ pc = "stop" /\ Dropped = {}
  /\ pc' = "idle" /\ started' = TRUE /\ plan' = NoPlan
  /\ UNCHANGED <<regVars, refreshCh, topicVars, topicTenants, pooled, kafkaVars, stop, clean, fails>>

-----------------------------------------------------------------------------
(* Stop: cancel, wait for the loop, stop every consumer of the pool.       *)

Cancel ==
  /\ stop = "no" /\ started /\ stop' = "cancelled"
  /\ UNCHANGED <<regVars, refreshCh, pc, plan, topicVars, topicTenants, pooled, kafkaVars, started, clean, fails>>

LoopEnds ==
  /\ pc = "idle" /\ stop # "no" /\ pc' = "done"
  /\ UNCHANGED <<regVars, refreshCh, plan, topicVars, topicTenants, pooled, kafkaVars, stopVars, clean, fails>>

\* Mutant: Stop does not wait for the refresh loop.
WaitNot ==
  /\ stop = "cancelled" /\ stop' = "stopping"
  /\ UNCHANGED <<regVars, refreshCh, pc, plan, topicVars, topicTenants, pooled, kafkaVars, started, clean, fails>>

Wait ==
  /\ stop = "cancelled" /\ pc = "done" /\ stop' = "stopping"
  /\ UNCHANGED <<regVars, refreshCh, pc, plan, topicVars, topicTenants, pooled, kafkaVars, started, clean, fails>>

StopConsumer(c) ==
  /\ stop = "stopping" /\ c \in pooled /\ client[c].up /\ callback[c] = None
  /\ client' = [client EXCEPT ![c] = NoClient]
  /\ UNCHANGED <<regVars, refreshCh, pc, plan, topicVars, topicTenants, pooled, callback, stopVars, clean, fails>>

StopReturns ==
  /\ stop = "stopping" /\ \A c \in pooled : ~client[c].up
  /\ stop' = "done"
  /\ UNCHANGED <<regVars, refreshCh, pc, plan, topicVars, topicTenants, pooled, kafkaVars, started, clean, fails>>

-----------------------------------------------------------------------------
Refresh ==
  \/ ReadDedicated \/ ReadTenants \/ Diff \/ CreateShared \/ RecordCreated \/ CreateSharedFails
  \/ AddTopics \/ RecordAdded \/ PauseRemoved \/ RecordRemoved \/ RemoveDedicated
  \/ \E n \in Tenant : CreateDedicated(n) \/ CreateDedicatedFails(n) \/ StopDropped(n)
  \/ DedicatedUpdated \/ RefreshDone

Poller(c) == handleBrokerDeletedTopic(c) \/ \E t \in Topic : FetchUnknownTopic(c, t)

StopSteps == LoopEnds \/ Wait \/ StopReturns \/ \E c \in Consumer : StopConsumer(c)

Next ==
  \/ Start \/ RefreshOnTick \/ RefreshOnSignal \/ Refresh \/ StopSteps \/ Cancel
  \/ RegistryUpdate \/ TopicUpdate \/ \E t \in Topic : BrokerDelete(t)
  \/ \E c \in Consumer : Poller(c)

Spec == Init /\ [][Next]_vars

\* The goroutines run.  The ticker is not assumed to fire: a signal alone must do.
\* A select that is entered again and again with an arm ready takes it.
Fairness ==
  /\ WF_vars(Start) /\ SF_vars(RefreshOnSignal) /\ WF_vars(Refresh) /\ WF_vars(TopicUpdate)
  /\ \A c \in Consumer : WF_vars(handleBrokerDeletedTopic(c))
  /\ SF_vars(LoopEnds) /\ WF_vars(StopSteps)

FairSpec == Spec /\ Fairness

-----------------------------------------------------------------------------
(* Properties.                                                             *)

\* The loop is idle after a refresh that succeeded and read the registry as it is.
Settled == pc = "idle" /\ clean /\ callback = [c \in Consumer |-> None]

\* After a refresh the pool's view is the registry's: every shared topic is subscribed or
\* blocked, and nothing else is subscribed.
FollowsRegistry ==
  Settled => sharedTopics \subseteq SharedOf(registry) /\ SharedOf(registry) \subseteq sharedTopics \cup blockedSharedTopics

\* After a refresh nothing is fetched for a tenant that is gone, and no topic by two
\* consumers: the shared one fetches shared topics, a dedicated one runs for a dedicated
\* tenant.  (A deletion at the broker breaks this: a dedicated consumer's report takes the
\* topic out of the shared set, and the shared consumer is not told to stop fetching it.)
NothingFetchedTwice ==
  Settled /\ deletes = 0 => /\ Fetched(Shared) \subseteq SharedOf(registry)
                             /\ \A n \in Tenant : client[n].up /\ stop = "no" => registry.mode[n] = "dedicated"

\* Once Stop has returned no consumer runs, whatever the refresh was doing when it was called.
StopStopsAll == stop = "done" => \A c \in Consumer : ~client[c].up

\* An update of the registry is followed by a refresh that reads it, without the ticker:
\* the signal is not lost while a refresh is running.
UpdateFollowed == ~clean ~> (clean \/ stop # "no" \/ fails > 0)

\* Stop returns: no consumer's Stop waits for a callback that waits for the pool.
StopReturned == stop = "cancelled" ~> stop = "done"

-----------------------------------------------------------------------------
(* What comments of the code say and the model refutes.                    *)

\* The second critical section of updateSharedConsumer "defends against a TOCTOU race where
\* handleBrokerDeletedTopic fires AFTER the first lock releases but BEFORE the second lock
\* acquires": a topic that is gone and reported is not subscribed.
ReportedIsBlocked ==
  Settled => \A t \in gone : t \in client[Shared].paused => t \notin sharedTopics

\* Topics are "hot-added without rebalance": a subscribed topic that exists is fetched.
SubscribedIsFetched == Settled /\ stop = "no" => sharedTopics \ gone \subseteq Fetched(Shared)

\* "New topics are added via AddConsumeTopics()", for dedicated tenants too: after a refresh
\* a dedicated tenant's topics are the ones its consumer consumes.
DedicatedIsConsumed ==
  Settled /\ stop = "no" =>
    \A n \in DOMAIN DedicatedOf(registry) : DedicatedOf(registry)[n] \subseteq client[n].consumed

=============================================================================
