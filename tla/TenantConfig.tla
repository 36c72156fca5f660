---------------------------- MODULE TenantConfig ----------------------------
(***************************************************************************)
(* The configuration of one tenant in the provisioning service: routing    *)
(* rules, provisioned topics, quotas and channel rules.                    *)
(*                                                                         *)
(* Requests run concurrently and, except for the routing-rule writes, each *)
(* SQL statement is a transaction of its own.  RoutingRulesRepository.Add  *)
(* and Replace run in a transaction that first takes an advisory lock per  *)
(* tenant; DeleteAll takes no lock.  A step of this module is one          *)
(* statement with the in-memory work that follows it; the last step of a   *)
(* transaction is its commit.  A rule's pattern is a name: matching it is  *)
(* left out.                                                               *)
(***************************************************************************)
EXTENDS Integers, FiniteSets

CONSTANTS Rule,          \* the rules requests ask for: [pattern, priority, ingress, egress]
          Worker,        \* request goroutines that run at once
          NoWorker,      \* the advisory lock is free
          MaxRules,      \* the lower of the config's and the edition's rule limit
          MaxTopics,     \* the edition's topic limit
          MaxTopicsPerRule,
          Quota,         \* the values a quota may have (0: unlimited)
          MaxRequests    \* bound: requests served over the whole behaviour

DefaultTopicSuffix == "default"
DeadLetterTopicSuffix == "dead-letter"

AllTopicSuffixes(r) == {r.ingress} \cup r.egress
Suffix == UNION {AllTopicSuffixes(r) : r \in Rule}
Fields == {"max_topics", "max_connections"}

VARIABLES
    active,     \* tenants.status = 'active'
    rules,      \* tenant_routing_rules, committed
    topics,     \* tenant_topics
    quota,      \* tenant_quotas
    channels,   \* a channel_rules row exists
    lock,       \* the holder of pg_advisory_xact_lock(routing-rules:tenant)
    req,        \* the request each worker is serving
    served      \* requests accepted so far

vars == <<active, rules, topics, quota, channels, lock, req, served>>

Idle == [pc |-> "idle", op |-> "none", rules |-> {}, suffixes |-> {}, patch |-> {}, row |-> {}]

Op == {"none", "add", "replace", "deleteRules", "createTopic", "deleteTopic", "updateQuota",
       "setChannels", "deleteChannels"}
Pc == Op \cup {"idle", "count", "precheck", "topics", "begin", "insert", "rollback", "insertTopic",
               "dropTopic", "writeQuota", "upsertChannels", "dropChannels"}
Request ==
    [pc : Pc, op : Op, rules : SUBSET Rule, suffixes : SUBSET Suffix,
     patch : SUBSET [field : Fields, value : Quota], row : SUBSET [Fields -> Quota]]

TypeOK ==
    /\ active \in BOOLEAN /\ channels \in BOOLEAN
    /\ rules \subseteq Rule
    /\ topics \subseteq Suffix
    /\ quota \in [Fields -> Quota]
    /\ lock \in Worker \cup {NoWorker}
    /\ req \in [Worker -> Request]
    /\ served \in Nat

\* The default topic needs no row; the other suffixes start provisioned or not.
Init ==
    /\ active = TRUE /\ channels = FALSE
    /\ rules = {}
    /\ topics \in {{}, Suffix \ {DefaultTopicSuffix, DeadLetterTopicSuffix}}
    /\ quota \in [Fields -> Quota \ {0}]
    /\ lock = NoWorker
    /\ req = [w \in Worker |-> Idle]
    /\ served = 0

-----------------------------------------------------------------------------
\* Validation

\* Ingress is required and never the DLQ; egress never the default topic, the DLQ
\* or the rule's own ingress topic; the topics of one rule are capped.
validateRuleTopics(r) ==
    /\ r.ingress # DeadLetterTopicSuffix
    /\ Cardinality(AllTopicSuffixes(r)) <= MaxTopicsPerRule
    /\ r.egress \cap {DefaultTopicSuffix, DeadLetterTopicSuffix, r.ingress} = {}

\* No topic is both written to as egress and consumed as ingress.
ValidateEgressDisjoint(R) ==
    \A r, q \in R : r.ingress \notin q.egress

UniqueKeys(R) ==
    \A r, q \in R : r # q => r.pattern # q.pattern /\ r.priority # q.priority

ValidateRoutingRules(R) ==
    /\ R # {}
    /\ \A r \in R : validateRuleTopics(r)
    /\ UniqueKeys(R)
    /\ ValidateEgressDisjoint(R)

\* What the ws-servers consume, and what is only created.
ConsumeTopicSuffixes(R) == {DefaultTopicSuffix} \cup {r.ingress : r \in R}
CreateOnlyTopicSuffixes(R) == (UNION {r.egress : r \in R}) \ ConsumeTopicSuffixes(R)

validateTopicSuffix(s) == s \notin {DefaultTopicSuffix, DeadLetterTopicSuffix}

\* ensureTopicProvisioned
Provisioned(s) == s = DefaultTopicSuffix \/ s \in topics

\* The count is of the rows before the insert.
RulesWithinLimitOffByOne(n) == n <= MaxRules
RulesWithinLimit(n) == n < MaxRules

TopicsWithinQuota(n) ==
    /\ quota["max_topics"] > 0 => n < quota["max_topics"]
    /\ n < MaxTopics

-----------------------------------------------------------------------------
\* Steps shared by the operations

Done(w) == req' = [req EXCEPT ![w] = Idle]
Goto(w, pc) == req' = [req EXCEPT ![w].pc = pc]
NextIf(w, cond, pc) == IF cond THEN Goto(w, pc) ELSE Done(w)

Accept(w, op, R, S, patch) ==
    /\ req[w].pc = "idle" /\ served < MaxRequests
    /\ served' = served + 1
    /\ req' = [req EXCEPT ![w] = [pc |-> op, op |-> op, rules |-> R, suffixes |-> S,
                                  patch |-> patch, row |-> {}]]
    /\ UNCHANGED <<active, rules, topics, quota, channels, lock>>

\* A statement fails or the client goes away: the operation returns, and a
\* transaction it had begun is rolled back, which frees the lock.
Abandon(w) ==
    /\ req[w].pc # "idle"
    /\ Done(w)
    /\ lock' = IF lock = w THEN NoWorker ELSE lock
    /\ UNCHANGED <<active, rules, topics, quota, channels, served>>

\* TenantLifecycle: the tenant is suspended.
Suspended ==
    /\ active
    /\ active' = FALSE
    /\ UNCHANGED <<rules, topics, quota, channels, lock, req, served>>

-----------------------------------------------------------------------------
\* Routing rules

HandleAddRoutingRule(w) ==
    \E r \in Rule : validateRuleTopics(r) /\ Accept(w, "add", {r}, AllTopicSuffixes(r), {})

\* The handler validates the rule set before it calls the service.
HandleReplaceRoutingRules(w) ==
    \E R \in SUBSET Rule :
        /\ ValidateRoutingRules(R)
        /\ Accept(w, "replace", R, UNION {AllTopicSuffixes(r) : r \in R}, {})

HandleDeleteRoutingRules(w) == Accept(w, "deleteRules", {}, {}, {})

\* AddRoutingRule: the tenant is read, then the rules are counted.
AddRead(w) ==
    /\ req[w].pc = "add"
    /\ NextIf(w, active, "count")
    /\ UNCHANGED <<active, rules, topics, quota, channels, lock, served>>

AddCount(w) ==
    /\ req[w].pc = "count"
    /\ NextIf(w, RulesWithinLimit(Cardinality(rules)), "precheck")
    /\ UNCHANGED <<active, rules, topics, quota, channels, lock, served>>

\* The fast-fail check, not atomic with the insert.
AddPrecheck(w) ==
    /\ req[w].pc = "precheck"
    /\ NextIf(w, ValidateEgressDisjoint(rules \cup req[w].rules), "topics")
    /\ UNCHANGED <<active, rules, topics, quota, channels, lock, served>>

\* ReplaceRoutingRules: the tenant is read; limits and shape are checked in memory.
ReplaceRead(w) ==
    /\ req[w].pc = "replace"
    /\ NextIf(w, active /\ Cardinality(req[w].rules) <= MaxRules /\ ValidateRoutingRules(req[w].rules), "topics")
    /\ UNCHANGED <<active, rules, topics, quota, channels, lock, served>>

\* TopicRepository.Exists, one suffix at a time.
CheckTopic(w) ==
    /\ req[w].pc = "topics"
    /\ \E s \in req[w].suffixes :
        IF Provisioned(s)
          THEN req' = [req EXCEPT ![w].suffixes = @ \ {s},
                                  ![w].pc = IF req[w].suffixes = {s} THEN "begin" ELSE @]
          ELSE Done(w)
    /\ UNCHANGED <<active, rules, topics, quota, channels, lock, served>>

\* lockTenantRoutingRules blocks until the lock is free.
LockNone(w) == lock' = lock
lockTenantRoutingRules(w) == lock = NoWorker /\ lock' = w

\* Add, first statements: lock, re-read, validate the authoritative state.
AddBegin(w) ==
    /\ req[w].pc = "begin" /\ req[w].op = "add"
    /\ lockTenantRoutingRules(w)
    /\ req' = [req EXCEPT ![w].pc = IF ValidateEgressDisjoint(rules \cup req[w].rules) THEN "insert" ELSE "rollback"]
    /\ UNCHANGED <<active, rules, topics, quota, channels, served>>

\* Add, last statements: insert under the unique keys, commit.
AddCommit(w) ==
    /\ req[w].pc = "insert"
    /\ rules' = IF UniqueKeys(rules \cup req[w].rules) THEN rules \cup req[w].rules ELSE rules
    /\ lock' = NoWorker
    /\ Done(w)
    /\ UNCHANGED <<active, topics, quota, channels, served>>

AddRollback(w) ==
    /\ req[w].pc = "rollback"
    /\ lock' = NoWorker
    /\ Done(w)
    /\ UNCHANGED <<active, rules, topics, quota, channels, served>>

\* Replace: lock, delete and insert; nobody else holds the lock meanwhile.
Replace(w) ==
    /\ req[w].pc = "begin" /\ req[w].op = "replace"
    /\ lock = NoWorker
    /\ rules' = req[w].rules
    /\ Done(w)
    /\ UNCHANGED <<active, topics, quota, channels, lock, served>>

\* DeleteAll takes no lock and the tenant need not be active.
DeleteAll(w) ==
    /\ req[w].pc = "deleteRules"
    /\ rules' = {}
    /\ Done(w)
    /\ UNCHANGED <<active, topics, quota, channels, lock, served>>

-----------------------------------------------------------------------------
\* Topics

HandleCreateTopic(w) == \E s \in Suffix : Accept(w, "createTopic", {}, {s}, {})
HandleDeleteTopic(w) == \E s \in Suffix : Accept(w, "deleteTopic", {}, {s}, {})

\* CreateTopic: tenant and suffix, the count against quota and edition limit.
CreateTopicCheck(w) ==
    /\ req[w].pc = "createTopic"
    /\ NextIf(w, active /\ (\A s \in req[w].suffixes : validateTopicSuffix(s))
                        /\ TopicsWithinQuota(Cardinality(topics)), "insertTopic")
    /\ UNCHANGED <<active, rules, topics, quota, channels, lock, served>>

\* A suffix that exists already is a conflict, which leaves the row alone.
InsertTopic(w) ==
    /\ req[w].pc = "insertTopic"
    /\ topics' = topics \cup req[w].suffixes
    /\ Done(w)
    /\ UNCHANGED <<active, rules, quota, channels, lock, served>>

\* DeleteTopic: not a reserved suffix, and no rule refers to it.
DeleteTopicCheck(w) ==
    /\ req[w].pc = "deleteTopic"
    /\ NextIf(w, \A s \in req[w].suffixes :
                    validateTopicSuffix(s) /\ \A r \in rules : s \notin AllTopicSuffixes(r), "dropTopic")
    /\ UNCHANGED <<active, rules, topics, quota, channels, lock, served>>

DropTopic(w) ==
    /\ req[w].pc = "dropTopic"
    /\ topics' = topics \ req[w].suffixes
    /\ Done(w)
    /\ UNCHANGED <<active, rules, quota, channels, lock, served>>

-----------------------------------------------------------------------------
\* Quotas and channel rules

HandleUpdateQuota(w) ==
    \E f \in Fields, q \in Quota : Accept(w, "updateQuota", {}, {}, {[field |-> f, value |-> q]})

\* UpdateQuota reads the row, patches the fields the request carries, ...
UpdateQuotaRead(w) ==
    /\ req[w].pc = "updateQuota"
    /\ req' = [req EXCEPT ![w].pc = "writeQuota",
                          ![w].row = {[quota EXCEPT ![p.field] = p.value] : p \in req[w].patch}]
    /\ UNCHANGED <<active, rules, topics, quota, channels, lock, served>>

\* ... and writes the whole row back.
UpdateQuotaWrite(w) ==
    /\ req[w].pc = "writeQuota"
    /\ quota' \in req[w].row
    /\ Done(w)
    /\ UNCHANGED <<active, rules, topics, channels, lock, served>>

HandleSetChannelRules(w) == Accept(w, "setChannels", {}, {}, {})
HandleDeleteChannelRules(w) == Accept(w, "deleteChannels", {}, {}, {})

\* SetChannelRules: an active tenant; then an upsert.
SetChannelsRead(w) ==
    /\ req[w].pc = "setChannels"
    /\ NextIf(w, active, "upsertChannels")
    /\ UNCHANGED <<active, rules, topics, quota, channels, lock, served>>

UpsertChannels(w) ==
    /\ req[w].pc = "upsertChannels"
    /\ channels' = TRUE
    /\ Done(w)
    /\ UNCHANGED <<active, rules, topics, quota, lock, served>>

\* DeleteChannelRules: the row is looked up, then deleted.
DeleteChannelsRead(w) ==
    /\ req[w].pc = "deleteChannels"
    /\ NextIf(w, channels, "dropChannels")
    /\ UNCHANGED <<active, rules, topics, quota, channels, lock, served>>

DropChannels(w) ==
    /\ req[w].pc = "dropChannels"
    /\ channels' = FALSE
    /\ Done(w)
    /\ UNCHANGED <<active, rules, topics, quota, lock, served>>

-----------------------------------------------------------------------------
AddStep(w) == AddRead(w) \/ AddCount(w) \/ AddPrecheck(w) \/ AddBegin(w) \/ AddCommit(w) \/ AddRollback(w)

Handle(w) ==
    /\ req[w].pc = "idle" /\ served < MaxRequests
    /\ \/ HandleAddRoutingRule(w) \/ HandleReplaceRoutingRules(w) \/ HandleDeleteRoutingRules(w)
       \/ HandleCreateTopic(w) \/ HandleDeleteTopic(w)
       \/ HandleUpdateQuota(w) \/ HandleSetChannelRules(w) \/ HandleDeleteChannelRules(w)

Serve(w) ==
    \/ AddStep(w) \/ ReplaceRead(w) \/ CheckTopic(w) \/ Replace(w) \/ DeleteAll(w)
    \/ CreateTopicCheck(w) \/ InsertTopic(w) \/ DeleteTopicCheck(w) \/ DropTopic(w)
    \/ UpdateQuotaRead(w) \/ UpdateQuotaWrite(w)
    \/ SetChannelsRead(w) \/ UpsertChannels(w) \/ DeleteChannelsRead(w) \/ DropChannels(w)

Next ==
    \/ \E w \in Worker : Handle(w) \/ Serve(w) \/ Abandon(w)
    \/ Suspended

Spec == Init /\ [][Next]_vars

-----------------------------------------------------------------------------
\* Properties

\* EgressDisjoint: whatever adds, replaces and deletes run at once, every egress topic
\* of the stored rules is create-only: no ws-server consumes it and delivers the copies
\* again (the lock and the re-validation inside RoutingRulesRepository.Add).
EgressDisjoint ==
    CreateOnlyTopicSuffixes(rules) = UNION {r.egress : r \in rules}

\* BoundedOvershoot: the rule count is not serialised with the insert, but exceeds the
\* limit by at most the requests in flight besides one (AddRoutingRule's residual).
BoundedOvershoot ==
    Cardinality(rules) <= MaxRules + Cardinality(Worker) - 1

\* TopicsBackRules: every topic a stored rule names is provisioned
\* (DeleteTopic: "a topic still referenced by a routing rule cannot be deleted").
TopicsBackRules ==
    \A r \in rules : \A s \in AllTopicSuffixes(r) : Provisioned(s)

\* PatchIsPartial: writing a quota patch leaves the fields it does not carry alone
\* (UpdateQuota; the API documents the patch as partial).
PatchIsPartial ==
    [][\A w \in Worker : \A f \in Fields :
        (UpdateQuotaWrite(w) /\ \A p \in req[w].patch : f # p.field) => quota'[f] = quota[f]]_vars
=============================================================================
