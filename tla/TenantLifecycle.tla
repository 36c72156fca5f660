-------------------------- MODULE TenantLifecycle --------------------------
(***************************************************************************)
(* The life of a tenant in the provisioning service: the HTTP handlers of  *)
(* provisioning/api, the Service operations on tenants, signing keys and   *)
(* API keys, the PostgreSQL statements of provisioning/repository and the  *)
(* LifecycleManager that deletes tenants past their grace period.          *)
(*                                                                         *)
(* Every request runs in a goroutine of its own and every SQL statement    *)
(* commits by itself, so between the statement with which an operation     *)
(* reads the tenant and the one with which it writes it, any other request *)
(* and the sweeper may run.  A step of this module is one statement with   *)
(* the in-memory work that follows it.                                     *)
(*                                                                         *)
(* The KafkaAdmin the service is built with is NoopKafkaAdmin              *)
(* (cmd/provisioning/main.go): creating and deleting topics, ACLs and      *)
(* broker quotas neither fails nor changes anything, so the topic parts of *)
(* the sagas are steps that do nothing and are left out.  Slugs are the    *)
(* subject of TenantRename; here a tenant keeps its slug.                  *)
(***************************************************************************)
EXTENDS Integers, FiniteSets

CONSTANTS Tenant,        \* tenant rows (UUIDs)
          NoTenant,      \* no tenant
          SigningKey,    \* key_id values of tenant_keys
          ApiKey,        \* key_id values of api_keys
          Worker,        \* request goroutines that run at once
          MaxTenants,    \* the edition's tenant limit
          MaxRequests,   \* bound: requests served over the whole behaviour
          MaxFaults      \* bound: failed statements and restarts

VARIABLES
    status,     \* tenants.status, "absent" when there is no row
    due,        \* tenants.deprovision_at: "none", "set" (future), "passed"
    owner,      \* key_id -> tenant_id, for the rows of both key tables
    active,     \* the key_ids whose row has is_active = true
    known,      \* the active keys as of the last KeysChanged / APIKeysChanged
    gauge,      \* provisioning_active_tenants
    req,        \* the request each worker is serving
    sweep,      \* tenants the current sweep still has to delete
    served,     \* requests accepted so far
    faults,     \* failed statements and restarts so far
    late,       \* ghost: keys inserted for a tenant that was not active
    spared      \* ghost: tenants whose key revocation failed or was cut off

vars == <<status, due, owner, active, known, gauge, req, sweep, served, faults, late, spared>>

Key == SigningKey \cup ApiKey
Status == {"absent", "active", "suspended", "deprovisioning", "deleted"}
Visible == {"active", "suspended", "deprovisioning"}
Idle == [pc |-> "idle", op |-> "none", t |-> NoTenant, seen |-> "absent", keys |-> {}]

TypeOK ==
    /\ status \in [Tenant -> Status]
    /\ due \in [Tenant -> {"none", "set", "passed"}]
    /\ owner \in [Key -> Tenant \cup {NoTenant}]
    /\ active \subseteq Key /\ known \subseteq Key /\ late \subseteq Key
    /\ gauge \in Int
    /\ sweep \subseteq Tenant /\ spared \subseteq Tenant

Init ==
    /\ \E t \in Tenant : status = [u \in Tenant |-> IF u = t THEN "active" ELSE "absent"]
    /\ due = [t \in Tenant |-> "none"]
    /\ owner = [k \in Key |-> NoTenant]
    /\ active = {} /\ known = {} /\ late = {} /\ spared = {} /\ sweep = {}
    /\ gauge = 1
    /\ req = [w \in Worker |-> Idle]
    /\ served = 0 /\ faults = 0

-----------------------------------------------------------------------------
\* Helpers of the repositories

\* GetBySlug: soft-deleted rows are not found.
Found(t) == status[t] \in Visible

\* Count: rows whose status is not deleted.
Count == Cardinality({t \in Tenant : Found(t)})

CountActive == Cardinality({t \in Tenant : status[t] = "active"})

\* The WHERE clause of UpdateStatus: the statuses a tenant may be moved from.
SourceAny(s) == Visible
Source(s) ==
    CASE s = "suspended"      -> {"active"}
      [] s = "active"         -> {"suspended"}
      [] s = "deprovisioning" -> {"active", "suspended"}
      [] s = "deleted"        -> {"active", "suspended", "deprovisioning"}

OwnedBy(t, kind) == {k \in kind : owner[k] = t}

GetActiveKeys(on) == on \cap SigningKey

GetActiveAPIKeys(on) == on \cap ApiKey

\* emitEvent(KeysChanged): the key watchers take a snapshot of the signing keys.
KeysChanged(on) == known' = (known \ SigningKey) \cup GetActiveKeys(on)

\* emitEvent(APIKeysChanged)
APIKeysChanged(on) == known' = (known \ ApiKey) \cup GetActiveAPIKeys(on)

Done(w) == req' = [req EXCEPT ![w] = Idle]
Goto(w, pc) == req' = [req EXCEPT ![w].pc = pc]

\* A statement fails (connection lost, request context cancelled).
Fault == faults < MaxFaults /\ faults' = faults + 1
Sound == faults' = faults

\* The statement affects no row, or fails: the operation returns the error.
Fails(noRow) == (noRow /\ Sound) \/ Fault

-----------------------------------------------------------------------------
\* Middleware and handlers

\* RequireTenant: an operator's request must name a tenant that can be read.
RequireTenant(t) == Found(t)

\* A worker takes a request the middleware let through, its body decoded and
\* validated.
Accept(w, op, t, ks) ==
    /\ req[w].pc = "idle" /\ served < MaxRequests
    /\ served' = served + 1
    /\ req' = [req EXCEPT ![w] = [Idle EXCEPT !.pc = "read", !.op = op, !.t = t, !.keys = ks]]
    /\ UNCHANGED <<status, due, owner, active, known, gauge, sweep, faults, late, spared>>

HandleCreateTenant(w) ==
    \E t \in Tenant : \E ks \in {{}} \cup {{k} : k \in SigningKey} :
        status[t] = "absent" /\ Accept(w, "create", t, ks)

HandleSuspendTenant(w) == \E t \in Tenant : RequireTenant(t) /\ Accept(w, "suspend", t, {})

HandleReactivateTenant(w) == \E t \in Tenant : RequireTenant(t) /\ Accept(w, "reactivate", t, {})

HandleDeprovisionTenant(w) ==
    \E t \in Tenant, op \in {"deprovision", "force"} : RequireTenant(t) /\ Accept(w, op, t, {})

HandleCreateKey(w) ==
    \E t \in Tenant, k \in SigningKey : RequireTenant(t) /\ Accept(w, "createKey", t, {k})

HandleRevokeKey(w) ==
    \E t \in Tenant, k \in SigningKey : RequireTenant(t) /\ Accept(w, "revokeKey", t, {k})

HandleCreateAPIKey(w) ==
    \E t \in Tenant, k \in ApiKey : RequireTenant(t) /\ Accept(w, "createAPIKey", t, {k})

HandleRevokeAPIKey(w) ==
    \E t \in Tenant, k \in ApiKey : RequireTenant(t) /\ Accept(w, "revokeAPIKey", t, {k})

-----------------------------------------------------------------------------
\* The operations: what each requires of the tenant as read (from), the status it
\* writes (to), how the gauge moves and the step after the write

\* The WHERE clause makes the decrement exact.
Suspend == [from |-> {"active"}, to |-> "suspended", gauge |-> "dec", then |-> "idle"]

Reactivate == [from |-> {"suspended"}, to |-> "active", gauge |-> "inc", then |-> "idle"]

\* The gauge follows the status as read, not as written.
DeprovisionKeepsKeys ==
    [from |-> {"active", "suspended"}, to |-> "deprovisioning", gauge |-> "decIfRead", then |-> "deadline"]
Deprovision ==
    [from |-> {"active", "suspended"}, to |-> "deprovisioning", gauge |-> "decIfRead", then |-> "revoke"]

\* The gauge is adjusted when the clean-up is over.
ForceDelete == [from |-> Visible, to |-> "deleted", gauge |-> "none", then |-> "revoke"]

Change(op) ==
    CASE op = "suspend"     -> Suspend
      [] op = "reactivate"  -> Reactivate
      [] op = "deprovision" -> Deprovision
      [] op = "force"       -> ForceDelete

StatusOps == {"suspend", "reactivate", "deprovision", "force"}

\* What an operation requires of what its first statement reads.
Admissible(op, t, ks) ==
    CASE op = "create"                          -> Count < MaxTenants
      [] op \in StatusOps                       -> status[t] \in Change(op).from
      [] op \in {"createKey", "createAPIKey"}   -> status[t] = "active"
      [] op \in {"revokeKey", "revokeAPIKey"}   -> Found(t) /\ \A k \in ks : owner[k] = t

\* The statement that follows the read.
WriteOf(op) == IF op \in StatusOps THEN "write" ELSE op

Read(w) ==
    LET r == req[w] IN
    /\ r.pc = "read"
    /\ \/ /\ Admissible(r.op, r.t, r.keys) /\ Sound
          /\ req' = [req EXCEPT ![w].pc = WriteOf(r.op), ![w].seen = status[r.t]]
       \/ Fails(~Admissible(r.op, r.t, r.keys)) /\ Done(w)
    /\ UNCHANGED <<status, due, owner, active, known, gauge, sweep, served, late, spared>>

\* CreateTenant: the row is inserted (the slug is unique), the gauge counts it,
\* a failed quota insert is logged only; then the initial key, if any.
InsertTenant(w) ==
    LET r == req[w] IN
    /\ r.pc = "create"
    /\ \/ /\ status[r.t] = "absent" /\ Sound
          /\ status' = [status EXCEPT ![r.t] = "active"]
          /\ gauge' = gauge + 1
          /\ IF r.keys = {} THEN Done(w) ELSE Goto(w, "firstKey")
       \/ /\ Fails(status[r.t] # "absent")
          /\ Done(w) /\ UNCHANGED <<status, gauge>>
    /\ UNCHANGED <<due, owner, active, known, sweep, served, late, spared>>

\* INSERT INTO tenant_keys: key_id is the primary key.
InsertKey(t, k) ==
    /\ owner[k] = NoTenant
    /\ owner' = [owner EXCEPT ![k] = t]
    /\ active' = active \cup {k}
    /\ late' = IF status[t] = "active" THEN late ELSE late \cup {k}

Rejected(ks) == \E k \in ks : owner[k] # NoTenant

\* CreateTenant's key: TopicsChanged and TenantConfigChanged are emitted, not
\* KeysChanged, so the key watchers are not told.
FirstKey(w) ==
    LET r == req[w] IN
    /\ r.pc = "firstKey" /\ Done(w)
    /\ \/ \E k \in r.keys : InsertKey(r.t, k) /\ Sound
       \/ Fails(Rejected(r.keys)) /\ UNCHANGED <<owner, active, late>>
    /\ UNCHANGED <<status, due, known, gauge, sweep, served, spared>>

CreateKey(w) ==
    LET r == req[w] IN
    /\ r.pc = "createKey" /\ Done(w)
    /\ \/ (\E k \in r.keys : InsertKey(r.t, k)) /\ KeysChanged(active') /\ Sound
       \/ Fails(Rejected(r.keys)) /\ UNCHANGED <<owner, active, late, known>>
    /\ UNCHANGED <<status, due, gauge, sweep, served, spared>>

CreateAPIKey(w) ==
    LET r == req[w] IN
    /\ r.pc = "createAPIKey" /\ Done(w)
    /\ \/ (\E k \in r.keys : InsertKey(r.t, k)) /\ APIKeysChanged(active') /\ Sound
       \/ Fails(Rejected(r.keys)) /\ UNCHANGED <<owner, active, late, known>>
    /\ UNCHANGED <<status, due, gauge, sweep, served, spared>>

\* UPDATE ... WHERE is_active: a key already revoked is not found.
Revoke(ks) == ks \subseteq active /\ active' = active \ ks

RevokeKey(w) ==
    LET r == req[w] IN
    /\ r.pc = "revokeKey" /\ Done(w)
    /\ \/ Revoke(r.keys) /\ KeysChanged(active') /\ Sound
       \/ Fails(~(r.keys \subseteq active)) /\ UNCHANGED <<active, known>>
    /\ UNCHANGED <<status, due, owner, gauge, sweep, served, late, spared>>

RevokeAPIKey(w) ==
    LET r == req[w] IN
    /\ r.pc = "revokeAPIKey" /\ Done(w)
    /\ \/ Revoke(r.keys) /\ APIKeysChanged(active') /\ Sound
       \/ Fails(~(r.keys \subseteq active)) /\ UNCHANGED <<active, known>>
    /\ UNCHANGED <<status, due, owner, gauge, sweep, served, late, spared>>

-----------------------------------------------------------------------------
\* Status changes

GaugeStep(rule, seen) ==
    CASE rule = "dec" -> -1
      [] rule = "inc" -> 1
      [] rule = "decIfRead" /\ seen = "active" -> -1
      [] OTHER -> 0

UpdateStatus(w) ==
    LET r == req[w] c == Change(r.op) IN
    /\ r.pc = "write"
    /\ \/ /\ status[r.t] \in Source(c.to) /\ Sound
          /\ status' = [status EXCEPT ![r.t] = c.to]
          /\ gauge' = gauge + GaugeStep(c.gauge, r.seen)
          /\ IF c.then = "idle" THEN Done(w) ELSE Goto(w, c.then)
       \/ /\ Fails(status[r.t] \notin Source(c.to))
          /\ Done(w) /\ UNCHANGED <<status, gauge>>
    /\ UNCHANGED <<due, owner, active, known, sweep, served, late, spared>>

AfterRevoke(op) == IF op = "deprovision" THEN "deadline" ELSE "listApi"

\* RevokeAllForTenant: a failure is logged and the clean-up goes on.
RevokeAllForTenant(w) ==
    LET r == req[w] IN
    /\ r.pc = "revoke"
    /\ \/ /\ Sound
          /\ active' = active \ OwnedBy(r.t, SigningKey)
          /\ KeysChanged(active')
          /\ UNCHANGED spared
       \/ Fault /\ spared' = spared \cup {r.t} /\ UNCHANGED <<active, known>>
    /\ Goto(w, AfterRevoke(r.op))
    /\ UNCHANGED <<status, due, owner, gauge, sweep, served, late>>

\* SetDeprovisionAt: only while the tenant is still deprovisioning; a failure is
\* logged.  The retention update of the tenant's topics is a no-op.
SetDeprovisionAt(w) ==
    LET r == req[w] IN
    /\ r.pc = "deadline" /\ Done(w)
    /\ \/ /\ Sound
          /\ due' = IF status[r.t] = "deprovisioning" THEN [due EXCEPT ![r.t] = "set"] ELSE due
       \/ Fault /\ UNCHANGED due
    /\ UNCHANGED <<status, owner, active, known, gauge, sweep, served, late, spared>>

\* forceDeleteTenant: the tenant's API keys are listed, the active ones remembered.
ListApiKeys(w) ==
    LET r == req[w] IN
    /\ r.pc = "listApi"
    /\ \/ /\ Sound
          /\ req' = [req EXCEPT ![w].pc = "dropApi", ![w].keys = active \cap OwnedBy(r.t, ApiKey)]
       \/ Fault /\ Goto(w, "dropApi")
    /\ UNCHANGED <<status, due, owner, active, known, gauge, sweep, served, late, spared>>

\* Each listed key is revoked on its own and a failure skipped; KeysChanged (the
\* signing keys' event) is emitted, the rules are deleted and DeprovisionTenant
\* counts the tenant down if it was active when it was read.
DropApiKeys(w) ==
    LET r == req[w] IN
    /\ r.pc = "dropApi" /\ Done(w)
    /\ \/ Sound /\ active' = active \ r.keys
       \/ Fault /\ \E k \in r.keys : active' = active \ (r.keys \ {k})
    /\ IF active' # active THEN KeysChanged(active') ELSE UNCHANGED known
    /\ gauge' = IF r.seen = "active" THEN gauge - 1 ELSE gauge
    /\ UNCHANGED <<status, due, owner, sweep, served, late, spared>>

-----------------------------------------------------------------------------
\* LifecycleManager

\* The grace period of a tenant runs out.
GraceOver ==
    \E t \in Tenant :
        /\ due[t] = "set"
        /\ due' = [due EXCEPT ![t] = "passed"]
        /\ UNCHANGED <<status, owner, active, known, gauge, req, sweep, served, faults, late, spared>>

\* GetTenantsForDeletion
ReadyBeforeDeadline == {t \in Tenant : status[t] = "deprovisioning" /\ due[t] = "set"}
ReadyForDeletion == {t \in Tenant : status[t] = "deprovisioning" /\ due[t] = "passed"}

\* processDeletions: on a tick, the tenants to delete are read once.
SweepTick ==
    /\ sweep = {} /\ ReadyForDeletion # {}
    /\ \/ sweep' = ReadyForDeletion /\ Sound
       \/ Fault /\ UNCHANGED sweep
    /\ UNCHANGED <<status, due, owner, active, known, gauge, req, served, late, spared>>

\* deleteTenant: rules and ACLs go, their errors ignored; the status write
\* decides, and a tenant that failed waits for the next sweep.
SweepDelete ==
    \E t \in sweep :
        /\ sweep' = sweep \ {t}
        /\ \/ /\ status[t] \in Source("deleted") /\ Sound
              /\ status' = [status EXCEPT ![t] = "deleted"]
           \/ Fails(status[t] \notin Source("deleted")) /\ UNCHANGED status
        /\ UNCHANGED <<due, owner, active, known, gauge, req, served, late, spared>>

\* The process dies and is started again: requests in flight are lost, watchers
\* reconnect and take a snapshot, Start sets the gauge from the table.
Restart ==
    /\ Fault
    /\ req' = [w \in Worker |-> Idle]
    /\ sweep' = {}
    /\ known' = active
    /\ gauge' = CountActive
    /\ spared' = spared \cup {req[w].t : w \in {v \in Worker : req[v].pc = "revoke"}}
    /\ UNCHANGED <<status, due, owner, active, served, late>>

-----------------------------------------------------------------------------
Handle(w) ==
    \/ HandleCreateTenant(w) \/ HandleSuspendTenant(w) \/ HandleReactivateTenant(w)
    \/ HandleDeprovisionTenant(w) \/ HandleCreateKey(w) \/ HandleRevokeKey(w)
    \/ HandleCreateAPIKey(w) \/ HandleRevokeAPIKey(w)

Serve(w) ==
    \/ Read(w) \/ InsertTenant(w) \/ FirstKey(w) \/ CreateKey(w) \/ RevokeKey(w)
    \/ CreateAPIKey(w) \/ RevokeAPIKey(w) \/ UpdateStatus(w) \/ RevokeAllForTenant(w) \/ SetDeprovisionAt(w)
    \/ ListApiKeys(w) \/ DropApiKeys(w)

Next ==
    \/ \E w \in Worker : Handle(w) \/ Serve(w)
    \/ GraceOver \/ SweepTick \/ SweepDelete \/ Restart

Spec == Init /\ [][Next]_vars

\* Time passes, the sweeper's ticker keeps firing and it works through its list.
Fairness == WF_vars(GraceOver) /\ WF_vars(SweepTick) /\ WF_vars(SweepDelete)

FairSpec == Spec /\ Fairness

-----------------------------------------------------------------------------
\* Properties

\* No operation brings a tenant back from its deletion: a status read before
\* another request's write may be stale, yet a deprovisioning tenant only becomes
\* deleted and a deleted one stays deleted (UpdateStatus' WHERE clauses,
\* repository/tenant.go).
StatusPath ==
    [][\A t \in Tenant :
          /\ status[t] = "deprovisioning" => status'[t] \in {"deprovisioning", "deleted"}
          /\ status[t] = "deleted" => status'[t] = "deleted"]_vars

\* A signing key of a tenant that is being deleted is inactive once the request
\* has revoked: the only ones left are those a CreateKey that had read the tenant
\* as active inserted afterwards, and those whose revocation failed
\* (service.go, DeprovisionTenant "Revoke all keys immediately").
NoKeyOutlivesTenant ==
    \A k \in active \cap SigningKey :
        status[owner[k]] \in {"deprovisioning", "deleted"} =>
            \/ k \in late
            \/ owner[k] \in spared
            \/ \E w \in Worker : req[w].pc = "revoke" /\ req[w].t = owner[k]

\* A tenant whose grace period was set is deleted in the end, whatever fails a
\* bounded number of times: the sweeper reads the table anew on every tick
\* (lifecycle.go, processDeletions).
DeprovisionCompletes ==
    \A t \in Tenant : (status[t] = "deprovisioning" /\ due[t] # "none") ~> (status[t] = "deleted")

\* "KeysChanged indicates that API keys were created, revoked, or modified" and
\* "APIKeysChanged indicates that API keys were created or revoked"
\* (eventbus/bus.go): when no request is in flight, the watchers' last snapshot
\* holds exactly the active keys.
KeysAnnounced == (\A w \in Worker : req[w].pc = "idle") => known = active

\* "Only Dec when the tenant was active; a suspended tenant was already Dec'd by
\* SuspendTenant." (service.go, DeprovisionTenant): when no request is in flight,
\* the gauge counts the active tenants.
GaugeExact == (\A w \in Worker : req[w].pc = "idle") => gauge = CountActive
=============================================================================
