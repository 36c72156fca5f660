------------------------- MODULE TenantConfigProofs -------------------------
(***************************************************************************)
(* For any rules, any number of concurrent requests and any limits, every  *)
(* egress topic of the stored routing rules is create-only.                *)
(*                                                                         *)
(* Disjointness alone is not inductive: an add that has validated must     *)
(* still be valid when it inserts.  The strengthening says that such an    *)
(* add holds the lock, and that what it read still covers the table: only  *)
(* a holder of the lock adds rows, and DeleteAll, which takes none, only   *)
(* removes them.                                                           *)
(***************************************************************************)
EXTENDS TenantConfig, TLAPS

InTransaction(w) == req[w].pc \in {"insert", "rollback"}

\* What the validation of stored and requested rules establishes.
Sound(R) == \A r \in R : validateRuleTopics(r)

IInv ==
    /\ rules \subseteq Rule
    /\ lock \in Worker \cup {NoWorker}
    /\ req \in [Worker -> Request]
    /\ quota \in [Fields -> Quota]
    /\ Sound(rules)
    /\ ValidateEgressDisjoint(rules)
    /\ \A w \in Worker : Sound(req[w].rules)
    /\ \A w \in Worker : InTransaction(w) => lock = w
    /\ \A w \in Worker : req[w].pc = "insert" => ValidateEgressDisjoint(rules \cup req[w].rules)
    /\ \A w \in Worker : req[w].op = "replace" => ValidateEgressDisjoint(req[w].rules)

\* Taking a request changes nothing but the worker's request, which is not in a
\* transaction (Handler methods of provisioning/api).
LEMMA AcceptPreserves ==
    ASSUME NEW w \in Worker, NEW op \in Op, NEW R \in SUBSET Rule, NEW S \in SUBSET Suffix,
           NEW patch \in SUBSET [field : Fields, value : Quota],
           IInv, Accept(w, op, R, S, patch), op \notin {"insert", "rollback"}, Sound(R),
           op = "replace" => ValidateEgressDisjoint(R)
    PROVE  IInv'
<1> DEFINE new == [pc |-> op, op |-> op, rules |-> R, suffixes |-> S, patch |-> patch, row |-> {}]
<1>1. new \in Request
  BY DEF Request, Pc
<1>2. req' = [req EXCEPT ![w] = new] /\ UNCHANGED <<rules, lock, quota>>
  BY DEF Accept
<1> HIDE DEF new
<1>3. req' \in [Worker -> Request] /\ req'[w] = new /\ \A v \in Worker : v # w => req'[v] = req[v]
  BY <1>1, <1>2 DEF IInv
<1>4. new.rules = R /\ new.pc = op /\ new.op = op
  BY DEF new
<1> QED
  BY <1>2, <1>3, <1>4 DEF IInv, InTransaction, Sound, ValidateEgressDisjoint

\* A step that at most removes rows and takes no new request out of its order
\* preserves the invariant: checks, deletes, quota and channel-rule statements.
LEMMA QuietPreserves ==
    ASSUME NEW w \in Worker, IInv,
           rules' \subseteq rules, lock' = lock, quota' \in [Fields -> Quota],
           req' \in [Worker -> Request],
           \A v \in Worker : v # w => req'[v] = req[v],
           req'[w].rules \in {req[w].rules, {}},
           req'[w].op = "replace" => req[w].op = "replace",
           req'[w].pc \notin {"insert", "rollback"}
    PROVE  IInv'
<1>1. Sound(rules)' /\ ValidateEgressDisjoint(rules)'
  BY DEF IInv, Sound, ValidateEgressDisjoint
<1>2. \A v \in Worker : Sound(req[v].rules)'
  BY DEF IInv, Sound
<1>3. \A v \in Worker : InTransaction(v)' => lock' = v
  BY DEF IInv, InTransaction
<1>4. \A v \in Worker : (req[v].pc = "insert")' => ValidateEgressDisjoint(rules' \cup req'[v].rules)
  BY DEF IInv, ValidateEgressDisjoint
<1>5. \A v \in Worker : (req[v].op = "replace")' => ValidateEgressDisjoint(req'[v].rules)
  BY DEF IInv, ValidateEgressDisjoint
<1> QED
  BY <1>1, <1>2, <1>3, <1>4, <1>5 DEF IInv, Sound, ValidateEgressDisjoint

\* The two outcomes of a check: the request is over, or goes on at pc.
LEMMA MoveShape ==
    ASSUME NEW w \in Worker, NEW pc \in Pc, IInv, pc \notin {"insert", "rollback"},
           Done(w) \/ Goto(w, pc)
    PROVE  /\ req' \in [Worker -> Request]
           /\ \A v \in Worker : v # w => req'[v] = req[v]
           /\ req'[w].rules \in {req[w].rules, {}}
           /\ req'[w].op = "replace" => req[w].op = "replace"
           /\ req'[w].pc \notin {"insert", "rollback"}
<1>1. Idle \in Request /\ Idle.rules = {} /\ Idle.op = "none" /\ Idle.pc = "idle"
  BY DEF Idle, Request, Pc, Op
<1>2. CASE Done(w)
  BY <1>1, <1>2 DEF Done, IInv
<1>3. CASE Goto(w, pc)
  <2> DEFINE new == [req[w] EXCEPT !.pc = pc]
  <2>1. req[w] \in Request
    BY DEF IInv
  <2>2. new \in Request
    BY <2>1 DEF Request
  <2>3. new.rules = req[w].rules /\ new.op = req[w].op /\ new.pc = pc
    BY <2>1 DEF Request
  <2>4. req' = [req EXCEPT ![w] = new]
    BY <1>3 DEF Goto
  <2> HIDE DEF new
  <2> QED
    BY <2>2, <2>3, <2>4 DEF IInv
<1> QED
  BY <1>2, <1>3

\* The invariant holds when the tenant has no rules and no request has been taken.
LEMMA InitIInv == Init => IInv
<1> SUFFICES ASSUME Init PROVE IInv
  OBVIOUS
<1>1. Idle \in Request /\ Idle.rules = {} /\ Idle.op = "none" /\ Idle.pc = "idle"
  BY DEF Idle, Request, Pc, Op
<1>2. \A w \in Worker : req[w] = Idle
  BY DEF Init
<1> QED
  BY <1>1, <1>2 DEF Init, IInv, InTransaction, Sound, ValidateEgressDisjoint

\* The handlers take only validated rules (AddRoutingRule, ReplaceRoutingRules).
LEMMA HandlePreserves ==
    ASSUME NEW w \in Worker, IInv, Handle(w)
    PROVE  IInv'
<1>1. CASE HandleAddRoutingRule(w)
  <2>1. PICK r \in Rule : validateRuleTopics(r) /\ Accept(w, "add", {r}, AllTopicSuffixes(r), {})
    BY <1>1 DEF HandleAddRoutingRule
  <2>2. AllTopicSuffixes(r) \in SUBSET Suffix
    BY DEF Suffix
  <2> QED
    BY <2>1, <2>2, AcceptPreserves DEF Op, Sound
<1>2. CASE HandleReplaceRoutingRules(w)
  <2>1. PICK R \in SUBSET Rule :
            ValidateRoutingRules(R) /\ Accept(w, "replace", R, UNION {AllTopicSuffixes(r) : r \in R}, {})
    BY <1>2, Zenon DEF HandleReplaceRoutingRules
  <2>2. UNION {AllTopicSuffixes(r) : r \in R} \in SUBSET Suffix
    BY DEF Suffix
  <2>3. Sound(R) /\ ValidateEgressDisjoint(R)
    BY <2>1 DEF ValidateRoutingRules, Sound
  <2> QED
    BY <2>1, <2>2, <2>3, AcceptPreserves DEF Op
<1>3. CASE HandleCreateTopic(w) \/ HandleDeleteTopic(w)
  <2>1. PICK s \in Suffix : Accept(w, "createTopic", {}, {s}, {}) \/ Accept(w, "deleteTopic", {}, {s}, {})
    BY <1>3 DEF HandleCreateTopic, HandleDeleteTopic
  <2>2. {s} \in SUBSET Suffix /\ {} \in SUBSET Rule /\ {} \in SUBSET [field : Fields, value : Quota] /\ Sound({})
    BY DEF Sound
  <2>3. {"createTopic", "deleteTopic"} \subseteq Op
    BY DEF Op
  <2> QED
    BY <2>1, <2>2, <2>3, AcceptPreserves
<1>4. CASE HandleUpdateQuota(w)
  <2>1. PICK f \in Fields, q \in Quota : Accept(w, "updateQuota", {}, {}, {[field |-> f, value |-> q]})
    BY <1>4, SMTT(60), ZenonT(60) DEF HandleUpdateQuota
  <2>2. {[field |-> f, value |-> q]} \in SUBSET [field : Fields, value : Quota]
    OBVIOUS
  <2>3. {} \in SUBSET Rule /\ {} \in SUBSET Suffix /\ Sound({}) /\ "updateQuota" \in Op
    BY DEF Sound, Op
  <2> QED
    BY <2>1, <2>2, <2>3, AcceptPreserves
<1>5. CASE HandleDeleteRoutingRules(w) \/ HandleSetChannelRules(w) \/ HandleDeleteChannelRules(w)
  BY <1>5, AcceptPreserves, SMTT(60), ZenonT(60)
     DEF HandleDeleteRoutingRules, HandleSetChannelRules, HandleDeleteChannelRules, Op, Sound
<1> QED
  BY <1>1, <1>2, <1>3, <1>4, <1>5 DEF Handle

\* Checks that only decide whether the request goes on.
LEMMA CheckPreserves ==
    ASSUME NEW w \in Worker, IInv,
           \/ AddRead(w) \/ AddCount(w) \/ AddPrecheck(w) \/ ReplaceRead(w)
           \/ CreateTopicCheck(w) \/ DeleteTopicCheck(w) \/ SetChannelsRead(w) \/ DeleteChannelsRead(w)
    PROVE  IInv'
<1>1. PICK pc \in Pc : pc \notin {"insert", "rollback"} /\ (Done(w) \/ Goto(w, pc))
  BY DEF AddRead, AddCount, AddPrecheck, ReplaceRead, CreateTopicCheck, DeleteTopicCheck,
         SetChannelsRead, DeleteChannelsRead, NextIf, Pc
<1>2. UNCHANGED <<rules, lock, quota>>
  BY ZenonT(60) DEF AddRead, AddCount, AddPrecheck, ReplaceRead, CreateTopicCheck, DeleteTopicCheck,
         SetChannelsRead, DeleteChannelsRead
<1>3. quota' \in [Fields -> Quota]
  BY <1>2 DEF IInv
<1> QED
  BY <1>1, <1>2, <1>3, MoveShape, QuietPreserves, SMTT(60), ZenonT(60)

\* Statements that end the request without adding a routing rule.
LEMMA WritePreserves ==
    ASSUME NEW w \in Worker, IInv,
           \/ DeleteAll(w) \/ InsertTopic(w) \/ DropTopic(w) \/ UpdateQuotaWrite(w)
           \/ UpsertChannels(w) \/ DropChannels(w)
    PROVE  IInv'
<1>1. Done(w) /\ lock' = lock /\ rules' \subseteq rules
  BY DEF DeleteAll, InsertTopic, DropTopic, UpdateQuotaWrite, UpsertChannels, DropChannels
<1>2. quota' \in [Fields -> Quota]
  BY DEF DeleteAll, InsertTopic, DropTopic, UpdateQuotaWrite, UpsertChannels, DropChannels, IInv, Request
<1>3. "idle" \in Pc
  BY DEF Pc
<1> QED
  BY <1>1, <1>2, <1>3, MoveShape, QuietPreserves

\* The per-suffix topic check and the read of a quota patch.
LEMMA RequestPreserves ==
    ASSUME NEW w \in Worker, IInv, CheckTopic(w) \/ UpdateQuotaRead(w)
    PROVE  IInv'
<1>1. CASE CheckTopic(w)
  <2>1. UNCHANGED <<rules, lock, quota>>
    BY <1>1 DEF CheckTopic
  <2>2. CASE Done(w)
    <3>1. "idle" \in Pc
      BY DEF Pc
    <3>2. /\ req' \in [Worker -> Request]
          /\ \A v \in Worker : v # w => req'[v] = req[v]
          /\ req'[w].rules \in {req[w].rules, {}}
          /\ req'[w].op = "replace" => req[w].op = "replace"
          /\ req'[w].pc \notin {"insert", "rollback"}
      BY <2>2, <3>1, MoveShape
    <3>3. quota' \in [Fields -> Quota]
      BY <2>1 DEF IInv
    <3> QED
      BY <2>1, <3>2, <3>3, QuietPreserves
  <2>3. ASSUME NEW s \in req[w].suffixes,
               req' = [req EXCEPT ![w].suffixes = @ \ {s},
                                  ![w].pc = IF req[w].suffixes = {s} THEN "begin" ELSE @]
        PROVE  IInv'
    <3> DEFINE next == IF req[w].suffixes = {s} THEN "begin" ELSE req[w].pc
               left == req[w].suffixes \ {s}
               new  == [req[w] EXCEPT !.suffixes = left, !.pc = next]
    <3>1. req[w] \in Request
      BY DEF IInv
    <3>2. next \in {"begin", "topics"} /\ next \in Pc
      BY <1>1 DEF CheckTopic, Pc
    <3>3. left \in SUBSET Suffix
      BY <3>1 DEF Request
    <3>4. req' = [req EXCEPT ![w] = new]
      BY <2>3, Zenon
    <3> HIDE DEF next, left
    <3>5. new \in Request
      BY <3>1, <3>2, <3>3, Zenon DEF Request
    <3>6. new.rules = req[w].rules /\ new.op = req[w].op /\ new.pc = next
      BY <3>1 DEF Request
    <3> HIDE DEF new
    <3>7. /\ req' \in [Worker -> Request]
          /\ \A v \in Worker : v # w => req'[v] = req[v]
          /\ req'[w] = new
      BY <3>4, <3>5 DEF IInv
    <3>8. quota' \in [Fields -> Quota]
      BY <2>1 DEF IInv
    <3> QED
      BY <2>1, <3>2, <3>6, <3>7, <3>8, QuietPreserves
  <2> QED
    BY <1>1, <2>2, <2>3 DEF CheckTopic
<1>2. CASE UpdateQuotaRead(w)
  <2> DEFINE row == {[quota EXCEPT ![p.field] = p.value] : p \in req[w].patch}
  <2>1. row \in SUBSET [Fields -> Quota]
    BY DEF IInv, Request
  <2>2. req' = [req EXCEPT ![w].pc = "writeQuota", ![w].row = row] /\ UNCHANGED <<rules, lock, quota>>
    BY <1>2 DEF UpdateQuotaRead
  <2> HIDE DEF row
  <2>3. "writeQuota" \in Pc
    BY DEF Pc
  <2> DEFINE new == [req[w] EXCEPT !.pc = "writeQuota", !.row = row]
  <2>4. req[w] \in Request
    BY DEF IInv
  <2>5. new \in Request
    BY <2>1, <2>3, <2>4, Zenon DEF Request
  <2>6. new.rules = req[w].rules /\ new.op = req[w].op /\ new.pc = "writeQuota"
    BY <2>4 DEF Request
  <2>7. req' = [req EXCEPT ![w] = new]
    BY <2>2, Zenon
  <2> HIDE DEF new
  <2>8. /\ req' \in [Worker -> Request]
        /\ \A v \in Worker : v # w => req'[v] = req[v]
        /\ req'[w] = new
    BY <2>5, <2>7 DEF IInv
  <2>9. quota' \in [Fields -> Quota]
    BY <2>2, SMTT(60), ZenonT(60) DEF IInv
  <2> QED
    BY <2>2, <2>6, <2>8, <2>9, QuietPreserves, SMTT(60), ZenonT(60)
<1> QED
  BY <1>1, <1>2

\* A request that is over adds nothing to prove: what is left is that the stored
\* rules are still valid and that those in a transaction still own it.
LEMMA FinishPreserves ==
    ASSUME NEW w \in Worker, IInv, Done(w), quota' = quota, lock' \in Worker \cup {NoWorker},
           rules' \subseteq Rule, Sound(rules'), ValidateEgressDisjoint(rules'),
           \A v \in Worker : v # w /\ InTransaction(v) => lock' = v,
           \A v \in Worker : v # w /\ req[v].pc = "insert" => ValidateEgressDisjoint(rules' \cup req[v].rules)
    PROVE  IInv'
<1>1. Idle \in Request /\ Idle.rules = {} /\ Idle.op = "none" /\ Idle.pc = "idle"
  BY DEF Idle, Request, Pc, Op
<1>2. req' \in [Worker -> Request] /\ req'[w] = Idle /\ \A v \in Worker : v # w => req'[v] = req[v]
  BY <1>1 DEF Done, IInv
<1>3. \A v \in Worker : Sound(req'[v].rules)
  <2>1. Sound({})
    BY DEF Sound
  <2> QED
    BY <1>1, <1>2, <2>1, Zenon DEF IInv
<1>4. \A v \in Worker : InTransaction(v)' => lock' = v
  BY <1>1, <1>2 DEF InTransaction
<1>5. \A v \in Worker : req'[v].pc = "insert" => ValidateEgressDisjoint(rules' \cup req'[v].rules)
  BY <1>1, <1>2
<1>6. \A v \in Worker : req'[v].op = "replace" => ValidateEgressDisjoint(req'[v].rules)
  BY <1>1, <1>2 DEF IInv
<1>7. quota' \in [Fields -> Quota]
  BY DEF IInv
<1> QED
  BY <1>2, <1>3, <1>4, <1>5, <1>6, <1>7 DEF IInv, Sound, ValidateEgressDisjoint

\* The transactions of RoutingRulesRepository: the lock and the re-read make the
\* validated state the one the insert meets.
LEMMA TransactionPreserves ==
    ASSUME NoWorker \notin Worker, NEW w \in Worker, IInv,
           AddBegin(w) \/ AddCommit(w) \/ AddRollback(w) \/ Replace(w) \/ Abandon(w)
    PROVE  IInv'
<1>1. CASE AddBegin(w)
  <2> DEFINE next == IF ValidateEgressDisjoint(rules \cup req[w].rules) THEN "insert" ELSE "rollback"
             new  == [req[w] EXCEPT !.pc = next]
  <2>1. lock = NoWorker /\ lock' = w /\ rules' = rules /\ quota' = quota /\ req' = [req EXCEPT ![w].pc = next]
    BY <1>1 DEF AddBegin, lockTenantRoutingRules
  <2>2. next \in {"insert", "rollback"} /\ (next = "insert" => ValidateEgressDisjoint(rules \cup req[w].rules))
    OBVIOUS
  <2> HIDE DEF next
  <2>3. req[w] \in Request /\ next \in Pc
    BY <2>2 DEF IInv, Pc
  <2>4. new \in Request
    BY <2>3 DEF Request
  <2>5. new.rules = req[w].rules /\ new.op = req[w].op /\ new.pc = next
    BY <2>3 DEF Request
  <2>6. req' = [req EXCEPT ![w] = new]
    BY <2>1
  <2> HIDE DEF new
  <2>7. req' \in [Worker -> Request] /\ req'[w] = new /\ \A v \in Worker : v # w => req'[v] = req[v]
    BY <2>4, <2>6 DEF IInv
  <2>8. \A v \in Worker : ~InTransaction(v)
    BY <2>1, SMTT(60), ZenonT(60) DEF IInv
  <2>9. \A v \in Worker : Sound(req'[v].rules) /\ (req'[v].op = "replace" => ValidateEgressDisjoint(req'[v].rules))
    BY <2>5, <2>7 DEF IInv
  <2>10. \A v \in Worker : InTransaction(v)' => lock' = v
    BY <2>1, <2>7, <2>8 DEF InTransaction
  <2>11. \A v \in Worker : req'[v].pc = "insert" => ValidateEgressDisjoint(rules' \cup req'[v].rules)
    BY <2>1, <2>2, <2>5, <2>7, <2>8, ZenonT(60) DEF InTransaction
  <2> QED
    BY <2>1, <2>7, <2>9, <2>10, <2>11 DEF IInv, Sound, ValidateEgressDisjoint
<1>2. ASSUME Done(w), lock' = IF lock = w THEN NoWorker ELSE lock, UNCHANGED <<rules, quota>>
      PROVE  IInv'
  <2>1. rules \subseteq Rule /\ Sound(rules) /\ ValidateEgressDisjoint(rules) /\ lock \in Worker \cup {NoWorker}
    BY DEF IInv
  <2>2. \A v \in Worker : v # w /\ InTransaction(v) => lock' = v
    BY <1>2 DEF IInv
  <2>3. \A v \in Worker : req[v].pc = "insert" => ValidateEgressDisjoint(rules \cup req[v].rules)
    BY DEF IInv
  <2> QED
    BY <1>2, <2>1, <2>2, <2>3, FinishPreserves
<1>3. CASE Abandon(w)
  BY <1>2, <1>3 DEF Abandon
<1>4. CASE AddRollback(w)
  <2>1. lock = w
    BY <1>4, SMTT(60), ZenonT(60) DEF AddRollback, IInv, InTransaction
  <2> QED
    BY <1>2, <1>4, <2>1 DEF AddRollback
<1>5. CASE AddCommit(w)
  <2>1. req[w].pc = "insert" /\ Done(w) /\ lock' = NoWorker /\ quota' = quota
    BY <1>5 DEF AddCommit
  <2>2. lock = w
    BY <2>1, SMTT(60), ZenonT(60) DEF IInv, InTransaction
  <2>3. rules' \subseteq rules \cup req[w].rules
    BY <1>5 DEF AddCommit
  <2>4. /\ rules \subseteq Rule /\ req[w].rules \subseteq Rule
        /\ Sound(rules) /\ Sound(req[w].rules) /\ ValidateEgressDisjoint(rules \cup req[w].rules)
    BY <2>1, SMTT(60), ZenonT(60) DEF IInv, Request
  <2>5. rules' \subseteq Rule /\ Sound(rules') /\ ValidateEgressDisjoint(rules')
    BY <2>3, <2>4 DEF Sound, ValidateEgressDisjoint
  <2>6. \A v \in Worker : v # w => ~InTransaction(v)
    BY <2>2 DEF IInv
  <2>7. \A v \in Worker : v # w => req[v].pc # "insert"
    BY <2>6 DEF InTransaction
  <2> QED
    BY <2>1, <2>5, <2>6, <2>7, FinishPreserves, SMTT(60), ZenonT(60)
<1>6. CASE Replace(w)
  <2>1. /\ lock = NoWorker /\ lock' = lock /\ rules' = req[w].rules /\ quota' = quota
        /\ req[w].op = "replace" /\ Done(w)
    BY <1>6 DEF Replace
  <2>2. rules' \subseteq Rule /\ Sound(rules') /\ ValidateEgressDisjoint(rules')
    BY <2>1, SMTT(60), ZenonT(60) DEF IInv, Request
  <2>3. \A v \in Worker : ~InTransaction(v)
    BY <2>1 DEF IInv
  <2>4. \A v \in Worker : req[v].pc # "insert"
    BY <2>3 DEF InTransaction
  <2> QED
    BY <2>1, <2>2, <2>3, <2>4, FinishPreserves
<1> QED
  BY <1>1, <1>3, <1>4, <1>5, <1>6

\* Every step of the service preserves the invariant.
LEMMA NextIInv ==
    ASSUME NoWorker \notin Worker, IInv, [Next]_vars
    PROVE  IInv'
<1>1. ASSUME NEW w \in Worker, Handle(w) \/ Serve(w) \/ Abandon(w)
      PROVE  IInv'
  <2>1. CASE Handle(w)
    BY <2>1, HandlePreserves
  <2>2. CASE Serve(w)
    BY <2>2, CheckPreserves, WritePreserves, RequestPreserves, TransactionPreserves DEF Serve, AddStep
  <2>3. CASE Abandon(w)
    BY <2>3, TransactionPreserves, SMTT(60), ZenonT(60)
  <2> QED
    BY <1>1, <2>1, <2>2, <2>3
<1>2. CASE Suspended \/ UNCHANGED vars
  BY <1>2 DEF Suspended, vars, IInv, InTransaction, Sound, ValidateEgressDisjoint
<1> QED
  BY <1>1, <1>2 DEF Next

\* Stored rules whose topics are valid and disjoint have only create-only egress topics.
LEMMA DisjointIsCreateOnly ==
    ASSUME IInv
    PROVE  EgressDisjoint
<1>1. ASSUME NEW r \in rules, NEW s \in r.egress
      PROVE  s \notin ConsumeTopicSuffixes(rules)
  <2>1. s # DefaultTopicSuffix
    BY <1>1 DEF IInv, Sound, validateRuleTopics
  <2>2. \A q \in rules : s # q.ingress
    BY <1>1 DEF IInv, ValidateEgressDisjoint
  <2> QED
    BY <2>1, <2>2, SMTT(60), ZenonT(60) DEF ConsumeTopicSuffixes
<1> QED
  BY <1>1 DEF EgressDisjoint, CreateOnlyTopicSuffixes

\* EgressNeverConsumed: for every set of rules, every number of concurrent requests and
\* every limit, no stored egress topic is ever consumed (RoutingRulesRepository.Add and
\* Replace under the advisory lock, DeleteAll without it).
THEOREM EgressNeverConsumed ==
    ASSUME NoWorker \notin Worker
    PROVE  Spec => []EgressDisjoint
<1>1. Init => IInv
  BY InitIInv
<1>2. IInv /\ [Next]_vars => IInv'
  BY NextIInv
<1>3. IInv => EgressDisjoint
  BY DisjointIsCreateOnly
<1> QED
  BY <1>1, <1>2, <1>3, PTL DEF Spec
=============================================================================
