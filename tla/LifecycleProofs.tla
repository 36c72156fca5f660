--------------------------- MODULE LifecycleProofs ---------------------------
(***************************************************************************)
(* The tenants of the provisioning service, for any tenants, keys and      *)
(* slugs and any number of concurrent requests, faults and restarts:       *)
(*   - no signing key stays active once its tenant is under deletion, but  *)
(*     by a late insert or a failed revocation;                            *)
(*   - no operation brings a tenant back from its deletion;                *)
(*   - a pending rename has a request that will settle it, or was cut off. *)
(***************************************************************************)
EXTENDS MCControl, TLAPS

-----------------------------------------------------------------------------
(* The life of tenants and keys.  A tenant's row is marked, its signing     *)
(* keys are revoked by a later statement of the same request, and keys are  *)
(* inserted by other requests all the while.  The strengthening keeps track *)
(* of who still owes the revocation, of the tenant every request is about,  *)
(* and of what a sweep has read.                                            *)

LifeOp == {"none", "create", "suspend", "reactivate", "deprovision", "force", "createKey", "revokeKey",
           "createAPIKey", "revokeAPIKey"}

LifePc == LifeOp \cup {"idle", "read", "write", "firstKey", "revoke", "deadline", "listApi", "dropApi"}

LifeRequest == [pc : LifePc, op : LifeOp, t : Tenant \cup {NoTenant}, seen : Lifecycle!Status,
                keys : SUBSET Lifecycle!Key]

Leaving(t) == tStatus[t] \in {"deprovisioning", "deleted"}

\* A worker in front of its revocation of the signing keys of t.
Revoking(w, t) == tReq[w].pc = "revoke" /\ tReq[w].t = t

LInv ==
    /\ tStatus \in [Tenant -> Lifecycle!Status]
    /\ tOwner \in [Lifecycle!Key -> Tenant \cup {NoTenant}]
    /\ tActive \subseteq Lifecycle!Key
    /\ tReq \in [Worker -> LifeRequest]
    /\ tSweep \subseteq Tenant
    /\ \A k \in tActive : tOwner[k] \in Tenant
    /\ \A w \in Worker : tReq[w].pc # "idle" => tReq[w].t \in Tenant
    /\ \A w \in Worker : tReq[w].pc = "write" => tReq[w].op \in Lifecycle!StatusOps
    /\ \A t \in tSweep : Leaving(t)
    /\ \A k \in tActive \cap SigningKey :
         Leaving(tOwner[k]) => \/ k \in tLate
                               \/ tOwner[k] \in tSpared
                               \/ \E w \in Worker : Revoking(w, tOwner[k])

\* A worker between two requests.
LEMMA LifeIdle == Lifecycle!Idle \in LifeRequest /\ Lifecycle!Idle.pc = "idle"
  BY DEF Lifecycle!Idle, LifeRequest, LifePc, LifeOp, Lifecycle!Status, Lifecycle!Key

\* One active tenant and no keys, as after the first boot.
LEMMA LifeInit == Lifecycle!Init => LInv
<1> SUFFICES ASSUME Lifecycle!Init PROVE LInv
  OBVIOUS
<1>1. PICK t \in Tenant : tStatus = [u \in Tenant |-> IF u = t THEN "active" ELSE "absent"]
  BY DEF Lifecycle!Init
<1>2. tStatus \in [Tenant -> Lifecycle!Status]
  BY <1>1 DEF Lifecycle!Status
<1>3. tReq \in [Worker -> LifeRequest] /\ \A w \in Worker : tReq[w].pc = "idle"
  BY LifeIdle DEF Lifecycle!Init
<1> QED
  BY <1>2, <1>3 DEF Lifecycle!Init, LInv

\* A step of one worker that adds no key, moves no tenant towards its deletion and
\* was not in front of its revocation.
LEMMA LifeQuiet ==
    ASSUME LInv, NEW w \in Worker,
           tReq[w].pc # "revoke",
           tReq' \in [Worker -> LifeRequest],
           \A v \in Worker : v # w => tReq'[v] = tReq[v],
           tReq'[w].pc # "idle" => tReq'[w].t \in Tenant,
           tReq'[w].pc = "write" => tReq'[w].op \in Lifecycle!StatusOps,
           tActive' \subseteq tActive, tOwner' = tOwner, tLate' = tLate, tSpared' = tSpared,
           tSweep' = tSweep, tStatus' \in [Tenant -> Lifecycle!Status],
           \A t \in Tenant : Leaving(t)' <=> Leaving(t)
    PROVE  LInv'
<1>1. ASSUME NEW k \in tActive' \cap SigningKey, Leaving(tOwner[k])'
      PROVE  k \in tLate' \/ tOwner'[k] \in tSpared' \/ \E v \in Worker : Revoking(v, tOwner[k])'
  <2>1. k \in tActive \cap SigningKey /\ tOwner[k] \in Tenant /\ Leaving(tOwner[k])
    BY <1>1 DEF LInv
  <2>2. k \in tLate \/ tOwner[k] \in tSpared \/ \E v \in Worker : Revoking(v, tOwner[k])
    BY <2>1 DEF LInv
  <2>3. ASSUME NEW v \in Worker, Revoking(v, tOwner[k]) PROVE Revoking(v, tOwner[k])'
    BY <2>3 DEF Revoking
  <2> QED
    BY <2>2, <2>3
<1>2. \A t \in tSweep' : Leaving(t)'
  BY DEF LInv
<1> QED
  BY <1>1, <1>2 DEF LInv

\* Ending a request, or going on with it, changes that request only.
LEMMA LifeMove ==
    ASSUME LInv, NEW w \in Worker, NEW pc \in LifePc, Lifecycle!Done(w) \/ Lifecycle!Goto(w, pc),
           tReq[w].pc # "idle", pc # "write"
    PROVE  /\ tReq' \in [Worker -> LifeRequest]
           /\ \A v \in Worker : v # w => tReq'[v] = tReq[v]
           /\ tReq'[w].pc # "idle" => tReq'[w].t \in Tenant
           /\ tReq'[w].pc = "write" => tReq'[w].op \in Lifecycle!StatusOps
           /\ tReq'[w].pc \in {"idle", pc}
<1>1. CASE Lifecycle!Done(w)
  BY <1>1, LifeIdle DEF LInv, Lifecycle!Done
<1>2. CASE Lifecycle!Goto(w, pc)
  BY <1>2 DEF LInv, Lifecycle!Goto, LifeRequest
<1> QED
  BY <1>1, <1>2

\* The handlers and the first statement of an operation (provisioning/api, Service).
LEMMA LifeHandle ==
    ASSUME LInv, NEW w \in Worker, Lifecycle!Handle(w) \/ Lifecycle!Read(w)
    PROVE  LInv'
<1>1. ASSUME NEW op \in LifeOp, NEW t \in Tenant, NEW ks \in SUBSET Lifecycle!Key,
             Lifecycle!Accept(w, op, t, ks)
      PROVE  LInv'
  <2> DEFINE new == [Lifecycle!Idle EXCEPT !.pc = "read", !.op = op, !.t = t, !.keys = ks]
  <2>1. new \in LifeRequest /\ new.pc = "read" /\ new.t = t
    BY Zenon DEF Lifecycle!Idle, LifeRequest, LifePc, LifeOp, Lifecycle!Status
  <2>2. /\ tReq[w].pc = "idle" /\ tReq' = [tReq EXCEPT ![w] = new]
        /\ UNCHANGED <<tStatus, tOwner, tActive, tSweep, tLate, tSpared>>
    BY <1>1 DEF Lifecycle!Accept
  <2> HIDE DEF new
  <2> QED
    BY <2>1, <2>2, LifeQuiet DEF LInv, Leaving
<1>2. CASE Lifecycle!Handle(w)
  <2>1. PICK op \in LifeOp, t \in Tenant, ks \in SUBSET Lifecycle!Key : Lifecycle!Accept(w, op, t, ks)
    BY <1>2, Zenon DEF Lifecycle!Handle, Lifecycle!HandleCreateTenant, Lifecycle!HandleSuspendTenant,
       Lifecycle!HandleReactivateTenant, Lifecycle!HandleDeprovisionTenant, Lifecycle!HandleCreateKey,
       Lifecycle!HandleRevokeKey, Lifecycle!HandleCreateAPIKey, Lifecycle!HandleRevokeAPIKey,
       LifeOp, Lifecycle!Key
  <2> QED
    BY <1>1, <2>1
<1>3. CASE Lifecycle!Read(w)
  <2>1. tReq[w].pc = "read" /\ UNCHANGED <<tStatus, tOwner, tActive, tSweep, tLate, tSpared>>
    BY <1>3 DEF Lifecycle!Read
  <2>2. CASE Lifecycle!Done(w)
    BY <2>1, <2>2, LifeMove, LifeQuiet DEF LifePc, LInv, Leaving
  <2>3. CASE tReq' = [tReq EXCEPT ![w].pc = Lifecycle!WriteOf(tReq[w].op),
                                  ![w].seen = tStatus[tReq[w].t]]
    <3> DEFINE next == Lifecycle!WriteOf(tReq[w].op)
               read == tStatus[tReq[w].t]
    <3>1. next \in LifePc /\ next \notin {"idle", "revoke"} /\ (next = "write" => tReq[w].op \in Lifecycle!StatusOps)
      BY DEF Lifecycle!WriteOf, LInv, LifeRequest, LifePc, LifeOp
    <3>2. read \in Lifecycle!Status
      BY <2>1 DEF LInv
    <3> HIDE DEF next, read
    <3>3. /\ tReq' \in [Worker -> LifeRequest]
          /\ \A v \in Worker : v # w => tReq'[v] = tReq[v]
          /\ tReq'[w].pc = next /\ tReq'[w].t = tReq[w].t /\ tReq'[w].op = tReq[w].op
      BY <2>3, <3>1, <3>2, ZenonT(60) DEF LInv, LifeRequest, next, read
    <3> QED
      BY <2>1, <3>1, <3>3, LifeQuiet DEF LInv, Leaving
  <2> QED
    BY <1>3, <2>2, <2>3 DEF Lifecycle!Read
<1> QED
  BY <1>2, <1>3

\* A key that is inserted for a tenant on its way out is a late one.
LEMMA LifeInsert ==
    ASSUME LInv, NEW w \in Worker,
           Lifecycle!FirstKey(w) \/ Lifecycle!CreateKey(w) \/ Lifecycle!CreateAPIKey(w)
    PROVE  LInv'
<1>1. /\ Lifecycle!Done(w) /\ tReq[w].pc \notin {"idle", "revoke"}
      /\ UNCHANGED <<tStatus, tSweep, tSpared>>
  BY DEF Lifecycle!FirstKey, Lifecycle!CreateKey, Lifecycle!CreateAPIKey
<1>2. /\ tReq' \in [Worker -> LifeRequest] /\ tReq'[w].pc = "idle"
      /\ \A v \in Worker : v # w => tReq'[v] = tReq[v]
  BY <1>1, LifeMove DEF LifePc
<1>3. CASE UNCHANGED <<tOwner, tActive, tLate>>
  BY <1>1, <1>2, <1>3, LifeQuiet DEF LInv, Leaving
<1>4. ASSUME NEW k \in tReq[w].keys, Lifecycle!InsertKey(tReq[w].t, k)
      PROVE  LInv'
  <2>1. k \in Lifecycle!Key /\ tReq[w].t \in Tenant
    BY <1>1 DEF LInv, LifeRequest
  <2>2. /\ tOwner' = [tOwner EXCEPT ![k] = tReq[w].t] /\ tActive' = tActive \cup {k}
        /\ tLate' = IF tStatus[tReq[w].t] = "active" THEN tLate ELSE tLate \cup {k}
    BY <1>4 DEF Lifecycle!InsertKey
  <2>3. /\ tOwner' \in [Lifecycle!Key -> Tenant \cup {NoTenant}]
        /\ \A j \in tActive' : tOwner'[j] \in Tenant
        /\ tOwner'[k] = tReq[w].t /\ \A j \in tActive : j # k => tOwner'[j] = tOwner[j]
    BY <2>1, <2>2 DEF LInv
  <2>4. ASSUME NEW j \in tActive' \cap SigningKey, Leaving(tOwner[j])'
        PROVE  j \in tLate' \/ tOwner'[j] \in tSpared' \/ \E v \in Worker : Revoking(v, tOwner[j])'
    <3>1. CASE j = k
      BY <1>1, <2>2, <2>3, <2>4, <3>1 DEF Leaving
    <3>2. CASE j # k
      <4>1. j \in tActive \cap SigningKey /\ tOwner'[j] = tOwner[j] /\ Leaving(tOwner[j])
        BY <1>1, <2>2, <2>3, <2>4, <3>2 DEF Leaving
      <4>2. j \in tLate \/ tOwner[j] \in tSpared \/ \E v \in Worker : Revoking(v, tOwner[j])
        BY <4>1 DEF LInv
      <4>3. ASSUME NEW v \in Worker, Revoking(v, tOwner[j]) PROVE Revoking(v, tOwner[j])'
        BY <1>1, <1>2, <4>1, <4>3 DEF Revoking
      <4> QED
        BY <1>1, <2>2, <4>1, <4>2, <4>3
    <3> QED
      BY <3>1, <3>2
  <2> QED
    BY <1>1, <1>2, <2>1, <2>2, <2>3, <2>4 DEF LInv, Leaving
<1> QED
  BY <1>3, <1>4 DEF Lifecycle!FirstKey, Lifecycle!CreateKey, Lifecycle!CreateAPIKey

\* The row of a new tenant, the revocation of named keys and the statements that
\* write neither a status nor a key (InsertTenant to DropApiKeys).
LEMMA LifeStatement ==
    ASSUME LInv, NEW w \in Worker,
           \/ Lifecycle!InsertTenant(w) \/ Lifecycle!RevokeKey(w) \/ Lifecycle!RevokeAPIKey(w)
           \/ Lifecycle!SetDeprovisionAt(w) \/ Lifecycle!ListApiKeys(w) \/ Lifecycle!DropApiKeys(w)
    PROVE  LInv'
<1>1. CASE Lifecycle!InsertTenant(w)
  <2>1. /\ tReq[w].pc = "create" /\ (Lifecycle!Done(w) \/ Lifecycle!Goto(w, "firstKey"))
        /\ UNCHANGED <<tOwner, tActive, tSweep, tLate, tSpared>>
        /\ \/ tStatus' = tStatus
           \/ tStatus[tReq[w].t] = "absent" /\ tStatus' = [tStatus EXCEPT ![tReq[w].t] = "active"]
    BY <1>1 DEF Lifecycle!InsertTenant
  <2>2. tStatus' \in [Tenant -> Lifecycle!Status] /\ \A t \in Tenant : Leaving(t)' <=> Leaving(t)
    BY <2>1 DEF LInv, Leaving, Lifecycle!Status
  <2> QED
    BY <2>1, <2>2, LifeMove, LifeQuiet DEF LifePc
<1>2. CASE Lifecycle!RevokeKey(w) \/ Lifecycle!RevokeAPIKey(w)
  <2>1. /\ tReq[w].pc \in {"revokeKey", "revokeAPIKey"} /\ Lifecycle!Done(w)
        /\ UNCHANGED <<tStatus, tOwner, tSweep, tLate, tSpared>> /\ tActive' \subseteq tActive
    BY <1>2 DEF Lifecycle!RevokeKey, Lifecycle!RevokeAPIKey, Lifecycle!Revoke
  <2> QED
    BY <2>1, LifeMove, LifeQuiet, SMTT(60), ZenonT(60) DEF LifePc, LInv, Leaving
<1>3. CASE Lifecycle!SetDeprovisionAt(w) \/ Lifecycle!DropApiKeys(w)
  <2>1. /\ tReq[w].pc \in {"deadline", "dropApi"} /\ Lifecycle!Done(w)
        /\ UNCHANGED <<tStatus, tOwner, tSweep, tLate, tSpared>> /\ tActive' \subseteq tActive
    BY <1>3 DEF Lifecycle!SetDeprovisionAt, Lifecycle!DropApiKeys
  <2> QED
    BY <2>1, LifeMove, LifeQuiet DEF LifePc, LInv, Leaving
<1>4. CASE Lifecycle!ListApiKeys(w)
  <2>1. /\ tReq[w].pc = "listApi"
        /\ UNCHANGED <<tStatus, tOwner, tActive, tSweep, tLate, tSpared>>
    BY <1>4 DEF Lifecycle!ListApiKeys
  <2>2. CASE Lifecycle!Goto(w, "dropApi")
    BY <2>1, <2>2, LifeMove, LifeQuiet DEF LifePc, LInv, Leaving
  <2>3. CASE tReq' = [tReq EXCEPT ![w].pc = "dropApi",
                                  ![w].keys = tActive \cap Lifecycle!OwnedBy(tReq[w].t, ApiKey)]
    <3> DEFINE listed == tActive \cap Lifecycle!OwnedBy(tReq[w].t, ApiKey)
    <3>1. listed \in SUBSET Lifecycle!Key /\ tReq' = [tReq EXCEPT ![w].pc = "dropApi", ![w].keys = listed]
      BY <2>3 DEF LInv
    <3> HIDE DEF listed
    <3>2. tReq \in [Worker -> LifeRequest] /\ "dropApi" \in LifePc
      BY DEF LInv, LifePc
    <3>3. /\ tReq' \in [Worker -> LifeRequest]
          /\ \A v \in Worker : v # w => tReq'[v] = tReq[v]
          /\ tReq'[w].pc = "dropApi" /\ tReq'[w].t = tReq[w].t
      BY <3>1, <3>2, Zenon DEF LifeRequest
    <3> QED
      BY <2>1, <3>3, LifeQuiet DEF LInv, Leaving
  <2> QED
    BY <1>4, <2>2, <2>3 DEF Lifecycle!ListApiKeys
<1> QED
  BY <1>1, <1>2, <1>3, <1>4

\* What UpdateStatus can do to the tenant it writes: the WHERE clause decides.
LEMMA LifeWrite ==
    ASSUME LInv, NEW w \in Worker, Lifecycle!UpdateStatus(w)
    PROVE  \/ tStatus' = tStatus /\ Lifecycle!Done(w)
           \/ /\ tStatus[tReq[w].t] \in {"active", "suspended"} /\ Lifecycle!Done(w)
              /\ \/ tStatus' = [tStatus EXCEPT ![tReq[w].t] = "suspended"]
                 \/ tStatus' = [tStatus EXCEPT ![tReq[w].t] = "active"]
           \/ /\ tStatus[tReq[w].t] \in {"active", "suspended"} /\ Lifecycle!Goto(w, "revoke")
              /\ tStatus' = [tStatus EXCEPT ![tReq[w].t] = "deprovisioning"]
           \/ /\ Lifecycle!Goto(w, "revoke")
              /\ tStatus[tReq[w].t] # "deleted"
              /\ tStatus' = [tStatus EXCEPT ![tReq[w].t] = "deleted"]
<1> DEFINE t == tReq[w].t  c == Lifecycle!Change(tReq[w].op)
<1>1. tReq[w].op \in {"suspend", "reactivate", "deprovision", "force"}
  BY DEF Lifecycle!UpdateStatus, LInv, Lifecycle!StatusOps
<1>2. CASE tStatus' = tStatus /\ Lifecycle!Done(w)
  BY <1>2
<1>3. CASE /\ tStatus[t] \in Lifecycle!Source(c.to)
           /\ tStatus' = [tStatus EXCEPT ![t] = c.to]
           /\ IF c.then = "idle" THEN Lifecycle!Done(w) ELSE Lifecycle!Goto(w, c.then)
  <2>1. CASE tReq[w].op = "suspend"
    BY <1>3, <2>1, Zenon DEF Lifecycle!Change, Lifecycle!Suspend, Lifecycle!Source
  <2>2. CASE tReq[w].op = "reactivate"
    BY <1>3, <2>2, Zenon DEF Lifecycle!Change, Lifecycle!Reactivate, Lifecycle!Source
  <2>3. CASE tReq[w].op = "deprovision"
    BY <1>3, <2>3, Zenon DEF Lifecycle!Change, Lifecycle!Deprovision, Lifecycle!Source
  <2>4. CASE tReq[w].op = "force"
    BY <1>3, <2>4, Zenon DEF Lifecycle!Change, Lifecycle!ForceDelete, Lifecycle!Source
  <2> QED
    BY <1>1, <2>1, <2>2, <2>3, <2>4
<1> QED
  BY <1>2, <1>3, Zenon DEF Lifecycle!UpdateStatus

\* A tenant that is moved to its deletion has a worker in front of the revocation.
LEMMA LifeUpdate ==
    ASSUME LInv, NEW w \in Worker, Lifecycle!UpdateStatus(w)
    PROVE  LInv'
<1> DEFINE t == tReq[w].t
<1>1. /\ tReq[w].pc = "write" /\ t \in Tenant
      /\ UNCHANGED <<tOwner, tActive, tSweep, tLate, tSpared>>
  BY DEF Lifecycle!UpdateStatus, LInv
<1>2. CASE Lifecycle!Done(w)
  <2>1. tStatus' \in [Tenant -> Lifecycle!Status] /\ \A u \in Tenant : Leaving(u)' <=> Leaving(u)
    <3>1. CASE tStatus' = tStatus
      BY <3>1 DEF LInv, Leaving
    <3>2. CASE /\ tStatus[t] \in {"active", "suspended"}
               /\ tStatus' = [tStatus EXCEPT ![t] = "suspended"] \/ tStatus' = [tStatus EXCEPT ![t] = "active"]
      BY <1>1, <3>2 DEF LInv, Leaving, Lifecycle!Status
    <3>3. CASE Lifecycle!Goto(w, "revoke")
      BY <1>2, <3>3, <1>1, LifeIdle DEF Lifecycle!Goto, Lifecycle!Done, LInv, LifeRequest
    <3> QED
      BY <3>1, <3>2, <3>3, LifeWrite
  <2> QED
    BY <1>1, <1>2, <2>1, LifeMove, LifeQuiet DEF LifePc
<1>3. CASE /\ Lifecycle!Goto(w, "revoke")
           /\ \/ tStatus' = [tStatus EXCEPT ![t] = "deprovisioning"]
              \/ tStatus' = [tStatus EXCEPT ![t] = "deleted"]
  <2>1. /\ tReq' \in [Worker -> LifeRequest]
        /\ \A v \in Worker : v # w => tReq'[v] = tReq[v]
        /\ tReq'[w].pc = "revoke" /\ tReq'[w].t = t /\ tReq'[w].op = tReq[w].op
    BY <1>3 DEF Lifecycle!Goto, LInv, LifeRequest, LifePc
  <2>2. /\ tStatus' \in [Tenant -> Lifecycle!Status] /\ tStatus'[t] \in {"deprovisioning", "deleted"}
        /\ \A u \in Tenant : u # t => (Leaving(u)' <=> Leaving(u))
    BY <1>1, <1>3 DEF LInv, Leaving, Lifecycle!Status
  <2>3. ASSUME NEW k \in tActive' \cap SigningKey, Leaving(tOwner[k])'
        PROVE  k \in tLate' \/ tOwner'[k] \in tSpared' \/ \E v \in Worker : Revoking(v, tOwner[k])'
    <3>1. CASE tOwner[k] = t
      BY <1>1, <2>1, <3>1 DEF Revoking
    <3>2. CASE tOwner[k] # t
      <4>1. k \in tActive \cap SigningKey /\ tOwner[k] \in Tenant /\ Leaving(tOwner[k])
        BY <1>1, <2>2, <2>3, <3>2 DEF LInv, Leaving
      <4>2. k \in tLate \/ tOwner[k] \in tSpared \/ \E v \in Worker : Revoking(v, tOwner[k])
        BY <4>1 DEF LInv
      <4>3. ASSUME NEW v \in Worker, Revoking(v, tOwner[k]) PROVE Revoking(v, tOwner[k])'
        BY <1>1, <2>1, <4>3 DEF Revoking
      <4> QED
        BY <1>1, <4>2, <4>3
    <3> QED
      BY <3>1, <3>2
  <2>4. \A u \in tSweep' : Leaving(u)'
    BY <1>1, <2>2 DEF LInv, Leaving
  <2> QED
    BY <1>1, <2>1, <2>2, <2>3, <2>4 DEF LInv
<1> QED
  BY <1>2, <1>3, LifeWrite

\* The revocation takes every signing key of the tenant, or is recorded as failed.
LEMMA LifeRevokeAll ==
    ASSUME LInv, NEW w \in Worker, Lifecycle!RevokeAllForTenant(w)
    PROVE  LInv'
<1> DEFINE t == tReq[w].t
<1>1. /\ tReq[w].pc = "revoke" /\ t \in Tenant
      /\ UNCHANGED <<tStatus, tOwner, tSweep, tLate>>
      /\ Lifecycle!Goto(w, "deadline") \/ Lifecycle!Goto(w, "listApi")
      /\ \/ tActive' = tActive \ Lifecycle!OwnedBy(t, SigningKey) /\ tSpared' = tSpared
         \/ tActive' = tActive /\ tSpared' = tSpared \cup {t}
  BY DEF Lifecycle!RevokeAllForTenant, Lifecycle!AfterRevoke, LInv
<1>2. /\ tReq' \in [Worker -> LifeRequest]
      /\ \A v \in Worker : v # w => tReq'[v] = tReq[v]
      /\ tReq'[w].pc \notin {"write", "revoke"} /\ (tReq'[w].pc # "idle" => tReq'[w].t \in Tenant)
  BY <1>1, LifeMove DEF LifePc
<1>3. ASSUME NEW k \in tActive' \cap SigningKey, Leaving(tOwner[k])'
      PROVE  k \in tLate' \/ tOwner'[k] \in tSpared' \/ \E v \in Worker : Revoking(v, tOwner[k])'
  <2>1. k \in tActive \cap SigningKey /\ tOwner'[k] = tOwner[k] /\ Leaving(tOwner[k])
    BY <1>1, <1>3 DEF Leaving
  <2>2. k \in tLate \/ tOwner[k] \in tSpared \/ \E v \in Worker : Revoking(v, tOwner[k])
    BY <2>1 DEF LInv
  <2>3. CASE tOwner[k] = t
    BY <1>1, <1>3, <2>1, <2>3 DEF Lifecycle!OwnedBy
  <2>4. CASE tOwner[k] # t
    <3>1. ASSUME NEW v \in Worker, Revoking(v, tOwner[k]) PROVE Revoking(v, tOwner[k])'
      BY <1>1, <1>2, <2>4, <3>1 DEF Revoking
    <3> QED
      BY <1>1, <2>1, <2>2, <3>1
  <2> QED
    BY <2>3, <2>4
<1> QED
  BY <1>1, <1>2, <1>3 DEF LInv, Leaving

\* The sweeper deletes only tenants that were on their way out when it listed them,
\* and none of these comes back; a restart records the revocations it cuts off.
LEMMA LifeSweep ==
    ASSUME LInv, \/ Lifecycle!GraceOver \/ Lifecycle!SweepTick \/ Lifecycle!SweepDelete
                 \/ Lifecycle!Restart \/ UNCHANGED lifecycleVars
    PROVE  LInv'
<1>1. CASE UNCHANGED <<tStatus, tOwner, tActive, tReq, tSweep, tLate, tSpared>>
  BY <1>1 DEF LInv, Leaving, Revoking
<1>2. CASE Lifecycle!SweepTick
  <2>1. /\ UNCHANGED <<tStatus, tOwner, tActive, tReq, tLate, tSpared>>
        /\ tSweep' \in {tSweep, Lifecycle!ReadyForDeletion}
    BY <1>2 DEF Lifecycle!SweepTick
  <2>2. tSweep' \subseteq Tenant /\ \A t \in tSweep' : Leaving(t)'
    BY <2>1 DEF LInv, Leaving, Lifecycle!ReadyForDeletion
  <2> QED
    BY <2>1, <2>2 DEF LInv, Leaving, Revoking
<1>3. CASE Lifecycle!SweepDelete
  <2>1. PICK t \in tSweep : /\ tSweep' = tSweep \ {t}
                            /\ tStatus' = tStatus \/ tStatus' = [tStatus EXCEPT ![t] = "deleted"]
                            /\ UNCHANGED <<tOwner, tActive, tReq, tLate, tSpared>>
    BY <1>3 DEF Lifecycle!SweepDelete
  <2>2. tStatus' \in [Tenant -> Lifecycle!Status] /\ \A u \in Tenant : Leaving(u)' <=> Leaving(u)
    BY <2>1 DEF LInv, Leaving, Lifecycle!Status
  <2> QED
    BY <2>1, <2>2 DEF LInv, Revoking
<1>4. CASE Lifecycle!Restart
  <2>1. /\ UNCHANGED <<tStatus, tOwner, tActive, tLate>> /\ tSweep' = {}
        /\ tReq' = [w \in Worker |-> Lifecycle!Idle]
        /\ tSpared' = tSpared \cup {tReq[w].t : w \in {v \in Worker : tReq[v].pc = "revoke"}}
    BY <1>4 DEF Lifecycle!Restart
  <2>2. tReq' \in [Worker -> LifeRequest] /\ \A w \in Worker : tReq'[w].pc = "idle"
    BY <2>1, LifeIdle
  <2>3. ASSUME NEW k \in tActive \cap SigningKey, Leaving(tOwner[k])
        PROVE  k \in tLate \/ tOwner[k] \in tSpared'
    BY <2>1, <2>3 DEF LInv, Revoking
  <2> QED
    BY <2>1, <2>2, <2>3 DEF LInv, Leaving
<1> QED
  BY <1>1, <1>2, <1>3, <1>4 DEF Lifecycle!GraceOver, lifecycleVars

\* Every step of the tenants' life preserves the invariant.
LEMMA LifeNext ==
    ASSUME LInv, [Lifecycle!Next]_(Lifecycle!vars)
    PROVE  LInv'
<1>1. ASSUME NEW w \in Worker, Lifecycle!Serve(w)
      PROVE  LInv'
  BY <1>1, LifeHandle, LifeInsert, LifeStatement, LifeUpdate, LifeRevokeAll DEF Lifecycle!Serve
<1>2. UNCHANGED Lifecycle!vars => UNCHANGED lifecycleVars
  BY DEF Lifecycle!vars, lifecycleVars
<1> QED
  BY <1>1, <1>2, LifeHandle, LifeSweep DEF Lifecycle!Next

\* An active signing key of a tenant under deletion was inserted after the tenant was
\* marked, or its revocation failed, or the request that marked the tenant is about to
\* revoke it (Service.DeprovisionTenant, KeyRepository.RevokeAllForTenant).
THEOREM KeysGoWithTheTenant == Lifecycle!Spec => []NoKeyOutlivesTenant
<1>1. LInv => NoKeyOutlivesTenant
  BY DEF LInv, NoKeyOutlivesTenant, Lifecycle!NoKeyOutlivesTenant, Leaving, Revoking
<1> QED
  BY <1>1, LifeInit, LifeNext, PTL DEF Lifecycle!Spec

\* Whatever requests and sweeps overlap, a tenant in deprovisioning only goes on to
\* deleted, and a deleted one stays so (the WHERE clauses of
\* TenantRepository.UpdateStatus, LifecycleManager's sweep).
THEOREM NoWayBack == Lifecycle!Spec => StatusPath
<1> DEFINE Path == \A t \in Tenant :
          /\ tStatus[t] = "deprovisioning" => tStatus'[t] \in {"deprovisioning", "deleted"}
          /\ tStatus[t] = "deleted" => tStatus'[t] = "deleted"
<1>1. ASSUME LInv, [Lifecycle!Next]_(Lifecycle!vars) PROVE Path
  <2>1. ASSUME NEW w \in Worker, Lifecycle!InsertTenant(w) PROVE Path
    BY <2>1, <1>1 DEF Lifecycle!InsertTenant, LInv
  <2>2. ASSUME NEW w \in Worker, Lifecycle!UpdateStatus(w) PROVE Path
    BY <2>2, <1>1, LifeWrite DEF LInv
  <2>3. ASSUME Lifecycle!SweepDelete PROVE Path
    BY <2>3, <1>1 DEF Lifecycle!SweepDelete, LInv
  <2>4. CASE tStatus' = tStatus
    BY <2>4
  <2>5. ASSUME NEW w \in Worker, Lifecycle!Handle(w)
        PROVE  tStatus' = tStatus
    BY <2>5, ZenonT(60) DEF Lifecycle!Handle, Lifecycle!HandleCreateTenant, Lifecycle!HandleSuspendTenant,
       Lifecycle!HandleReactivateTenant, Lifecycle!HandleDeprovisionTenant, Lifecycle!HandleCreateKey,
       Lifecycle!HandleRevokeKey, Lifecycle!HandleCreateAPIKey, Lifecycle!HandleRevokeAPIKey, Lifecycle!Accept
  <2>6. ASSUME NEW w \in Worker, Lifecycle!Serve(w), ~Lifecycle!InsertTenant(w), ~Lifecycle!UpdateStatus(w)
        PROVE  tStatus' = tStatus
    BY <2>6, Zenon DEF Lifecycle!Serve, Lifecycle!Read, Lifecycle!FirstKey, Lifecycle!CreateKey, Lifecycle!RevokeKey,
       Lifecycle!CreateAPIKey, Lifecycle!RevokeAPIKey, Lifecycle!RevokeAllForTenant, Lifecycle!SetDeprovisionAt,
       Lifecycle!ListApiKeys, Lifecycle!DropApiKeys
  <2>7. Lifecycle!GraceOver \/ Lifecycle!SweepTick \/ Lifecycle!Restart \/ UNCHANGED Lifecycle!vars => tStatus' = tStatus
    BY DEF Lifecycle!GraceOver, Lifecycle!SweepTick, Lifecycle!Restart, Lifecycle!vars
  <2> QED
    BY <1>1, <2>1, <2>2, <2>3, <2>4, <2>5, <2>6, <2>7, SMTT(60), ZenonT(60) DEF Lifecycle!Next
<1>2. LInv /\ [Lifecycle!Next]_(Lifecycle!vars) => [Path]_(Lifecycle!vars)
  BY <1>1
<1> QED
  BY <1>2, LifeInit, LifeNext, PTL DEF Lifecycle!Spec, StatusPath, Lifecycle!StatusPath

-----------------------------------------------------------------------------
(* Renames.  The invariant is what PendingOwned says together with the type *)
(* of a request: the compare-and-set that takes a rename is what makes its  *)
(* worker the owner.                                                        *)

RenamePc == {"idle", "read", "clear", "available", "cas", "commit", "compensate"}

RenameRequest == [pc : RenamePc, t : Tenant \cup {Rename!Idle.t}, new : Slug \cup {NoSlug},
                  slug : Slug \cup {NoSlug}, epoch : Nat]

\* Requests are records with a stage and a tenant; the state of every rename and its
\* owner, which is what PendingOwned says.
RInv ==
    /\ rRstate \in [Tenant -> {"none", "pending", "complete"}]
    /\ rReq \in [Worker -> RenameRequest]
    /\ rSlug \in [Tenant -> Slug \cup {NoSlug}]
    /\ rEpoch \in [Tenant -> Nat]
    /\ \A w \in Worker : rReq[w].pc # "idle" => rReq[w].t \in Tenant
    /\ Rename!PendingOwned

\* A step of one rename that leaves its tenant's state alone, or settles it: the
\* renames of other tenants keep their owners.
LEMMA RenameFrame ==
    ASSUME RInv, NEW w \in Worker,
           rRstate' \in [Tenant -> {"none", "pending", "complete"}],
           \A v \in Worker : v # w => rReq'[v] = rReq[v],
           rReq[w].t \in Tenant,
           \A t \in Tenant : t # rReq[w].t => rRstate'[t] = rRstate[t] /\ (t \in rStuck => t \in rStuck'),
           rRstate'[rReq[w].t] = "pending" =>
               \/ rReq[w].t \in rStuck'
               \/ rReq'[w].t = rReq[w].t /\ rReq'[w].pc \in {"commit", "compensate"}
               \/ /\ rRstate[rReq[w].t] = "pending" /\ rReq[w].pc \notin {"commit", "compensate"}
                  /\ rReq[w].t \in rStuck => rReq[w].t \in rStuck'
    PROVE  Rename!PendingOwned'
<1> SUFFICES ASSUME NEW t \in Tenant, rRstate'[t] = "pending"
             PROVE  t \in rStuck' \/ \E v \in Worker : Rename!Past(v, t)'
  BY DEF Rename!PendingOwned
<1>1. ASSUME rRstate[t] = "pending", t \in rStuck => t \in rStuck',
             ~Rename!Past(w, t) 
      PROVE  t \in rStuck' \/ \E v \in Worker : Rename!Past(v, t)'
  <2>1. t \in rStuck \/ \E v \in Worker : Rename!Past(v, t)
    BY <1>1 DEF RInv, Rename!PendingOwned
  <2>2. ASSUME NEW v \in Worker, Rename!Past(v, t) PROVE Rename!Past(v, t)'
    BY <1>1, <2>2 DEF Rename!Past
  <2> QED
    BY <1>1, <2>1, <2>2
<1>2. CASE t # rReq[w].t
  BY <1>1, <1>2 DEF Rename!Past
<1>3. CASE t = rReq[w].t
  BY <1>1, <1>3 DEF Rename!Past
<1> QED
  BY <1>2, <1>3

\* Ending a request, or going on with it.
LEMMA RenameMove ==
    ASSUME RInv, NEW w \in Worker, NEW pc \in RenamePc, Rename!Done(w) \/ Rename!Goto(w, pc),
           rReq[w].pc # "idle"
    PROVE  /\ rReq' \in [Worker -> RenameRequest]
           /\ \A v \in Worker : rReq'[v].pc # "idle" => rReq'[v].t \in Tenant
           /\ \A v \in Worker : v # w => rReq'[v] = rReq[v]
           /\ Rename!Goto(w, pc) => rReq'[w].pc = pc /\ rReq'[w].t = rReq[w].t
<1>1. CASE Rename!Done(w)
  <2>1. /\ Rename!Idle \in RenameRequest
        /\ Rename!Idle.pc = "idle"
    BY DEF Rename!Idle, RenamePc, RenameRequest
  <2> HIDE DEF Rename!Idle
  <2>2. rReq' = [rReq EXCEPT ![w] = Rename!Idle]
    BY <1>1 DEF Rename!Done
  <2>3. rReq'[w] = Rename!Idle /\ \A v \in Worker : v # w => rReq'[v] = rReq[v]
    BY <2>2 DEF RInv
  <2>4. Rename!Goto(w, pc) => rReq'[w].pc = pc /\ rReq'[w].t = rReq[w].t
    BY DEF Rename!Goto, RInv, RenameRequest
  <2> QED
    BY <2>1, <2>2, <2>3, <2>4 DEF RInv
<1>2. CASE Rename!Goto(w, pc)
  BY <1>2 DEF Rename!Goto, RInv, RenameRequest
<1> QED
  BY <1>1, <1>2

\* The invariant holds before the first request.
LEMMA RenameInit == Rename!Init => RInv
<1> SUFFICES ASSUME Rename!Init PROVE RInv
  OBVIOUS
<1>1. Rename!Idle \in RenameRequest /\ Rename!Idle.pc = "idle"
  BY DEF Rename!Idle, RenamePc, RenameRequest
<1>2. PICK u \in Tenant, s \in Slug : rSlug = [t \in Tenant |-> IF t = u THEN s ELSE NoSlug]
  BY DEF Rename!Init
<1>3. rReq \in [Worker -> RenameRequest] /\ \A w \in Worker : rReq[w].pc = "idle"
  BY <1>1 DEF Rename!Init
<1> QED
  BY <1>2, <1>3 DEF Rename!Init, RInv, Rename!PendingOwned

\* The request is taken, and the tenant looked up: no row changes.
LEMMA RenameRead ==
    ASSUME RInv, NEW w \in Worker, Rename!HandleRenameTenant(w) \/ Rename!LookUp(w)
    PROVE  RInv'
<1>1. /\ rReq[w].pc \in {"idle", "read"}
      /\ UNCHANGED <<rRstate, rSlug, rEpoch, rStuck>>
  BY Zenon DEF Rename!HandleRenameTenant, Rename!LookUp, Rename!row
<1>2. ASSUME rReq' \in [Worker -> RenameRequest],
             \A v \in Worker : rReq'[v].pc # "idle" => rReq'[v].t \in Tenant,
             \A v \in Worker : v # w => rReq'[v] = rReq[v]
      PROVE  RInv'
  <2>1. ASSUME NEW t \in Tenant, NEW v \in Worker, Rename!Past(v, t) PROVE Rename!Past(v, t)'
    BY <1>1, <1>2, <2>1 DEF Rename!Past
  <2> QED
    BY <1>1, <1>2, <2>1 DEF RInv, Rename!PendingOwned
<1>3. CASE Rename!HandleRenameTenant(w)
  <2>1. PICK t \in Tenant, s \in Slug :
            rReq' = [rReq EXCEPT ![w] = [Rename!Idle EXCEPT !.pc = "read", !.t = t, !.new = s, !.slug = rSlug[t]]]
    BY <1>3, Zenon DEF Rename!HandleRenameTenant
  <2> DEFINE new == [Rename!Idle EXCEPT !.pc = "read", !.t = t, !.new = s, !.slug = rSlug[t]]
  <2>2. new \in RenameRequest /\ new.t = t
    BY Zenon DEF Rename!Idle, RenameRequest, RenamePc, RInv
  <2> HIDE DEF new
  <2>3. rReq' = [rReq EXCEPT ![w] = new]
    BY <2>1 DEF new
  <2> QED
    BY <1>2, <2>2, <2>3 DEF RInv
<1>4. CASE Rename!LookUp(w)
  <2>1. CASE Rename!Done(w)
    BY <1>1, <1>2, <1>4, <2>1, RenameMove DEF Rename!LookUp, RenamePc
  <2>2. ASSUME NEW pc \in RenamePc,
               rReq' = [rReq EXCEPT ![w].pc = pc, ![w].epoch = rEpoch[rReq[w].t]]
        PROVE  RInv'
    <3>1. rReq[w].t \in Tenant /\ rEpoch[rReq[w].t] \in Nat
      BY <1>4 DEF RInv, Rename!LookUp
    <3> DEFINE new == [rReq[w] EXCEPT !.pc = pc, !.epoch = rEpoch[rReq[w].t]]
    <3>2. rReq[w] \in RenameRequest /\ rReq' = [rReq EXCEPT ![w] = new]
      BY <2>2, Zenon DEF RInv
    <3>3. new \in RenameRequest /\ new.t = rReq[w].t
      BY <3>1, <3>2, Zenon DEF RenameRequest
    <3> HIDE DEF new
    <3>4. /\ rReq' \in [Worker -> RenameRequest]
          /\ \A v \in Worker : v # w => rReq'[v] = rReq[v]
          /\ rReq'[w].t = rReq[w].t
      BY <3>2, <3>3, Zenon DEF RInv
    <3> QED
      BY <1>2, <3>1, <3>4 DEF RInv
  <2> QED
    BY <1>4, <2>1, <2>2 DEF Rename!LookUp, RenamePc
<1> QED
  BY <1>3, <1>4

\* The lazy clear, the check that the slug is free and the compare-and-set: before
\* the last, the rename owns nothing.
LEMMA RenameClaim ==
    ASSUME RInv, NEW w \in Worker,
           Rename!LazyClear(w) \/ Rename!Available(w) \/ Rename!SetRenameState(w)
    PROVE  RInv'
<1>1. /\ rReq[w].pc \in {"clear", "available", "cas"} /\ UNCHANGED <<rSlug, rEpoch>>
      /\ Rename!Done(w) \/ \E pc \in {"available", "cas", "commit"} : Rename!Goto(w, pc)
  <2>1. ASSUME Rename!LazyClear(w)
        PROVE  rReq[w].pc = "clear" /\ UNCHANGED <<rSlug, rEpoch>> /\ (Rename!Done(w) \/ Rename!Goto(w, "available"))
    BY <2>1 DEF Rename!LazyClear
  <2>2. ASSUME Rename!Available(w)
        PROVE  rReq[w].pc = "available" /\ UNCHANGED <<rSlug, rEpoch>> /\ (Rename!Done(w) \/ Rename!Goto(w, "cas"))
    BY <2>2, SMTT(60), ZenonT(60) DEF Rename!Available, Rename!row
  <2>3. ASSUME Rename!SetRenameState(w)
        PROVE  rReq[w].pc = "cas" /\ UNCHANGED <<rSlug, rEpoch>> /\ (Rename!Done(w) \/ Rename!Goto(w, "commit"))
    BY <2>3, ZenonT(60) DEF Rename!SetRenameState
  <2> QED
    BY <2>1, <2>2, <2>3, Zenon
<1>2. /\ rReq' \in [Worker -> RenameRequest]
      /\ \A v \in Worker : rReq'[v].pc # "idle" => rReq'[v].t \in Tenant
      /\ \A v \in Worker : v # w => rReq'[v] = rReq[v]
      /\ Rename!Goto(w, "commit") => rReq'[w].pc = "commit" /\ rReq'[w].t = rReq[w].t
  BY <1>1, RenameMove DEF RenamePc
<1>3. rReq[w].t \in Tenant
  BY <1>1 DEF RInv
<1>4. CASE UNCHANGED <<rRstate, rStuck>>
  BY <1>1, <1>2, <1>3, <1>4, RenameFrame DEF RInv
<1>5. CASE rRstate' = [rRstate EXCEPT ![rReq[w].t] = "none"] /\ UNCHANGED rStuck
  <2>1. /\ rRstate' \in [Tenant -> {"none", "pending", "complete"}] /\ rRstate'[rReq[w].t] = "none"
        /\ \A t \in Tenant : t # rReq[w].t => rRstate'[t] = rRstate[t]
    BY <1>3, <1>5 DEF RInv
  <2> QED
    BY <1>1, <1>2, <1>3, <1>5, <2>1, RenameFrame DEF RInv
<1>6. CASE /\ rRstate' = [rRstate EXCEPT ![rReq[w].t] = "pending"] /\ rStuck' = rStuck \ {rReq[w].t}
           /\ Rename!Goto(w, "commit")
  <2>1. /\ rRstate' \in [Tenant -> {"none", "pending", "complete"}]
        /\ \A t \in Tenant : t # rReq[w].t => rRstate'[t] = rRstate[t] /\ (t \in rStuck => t \in rStuck')
    BY <1>3, <1>6 DEF RInv
  <2> QED
    BY <1>1, <1>2, <1>3, <1>6, <2>1, RenameFrame DEF RInv
<1> QED
  BY <1>4, <1>5, <1>6, ZenonT(60)
     DEF Rename!LazyClear, Rename!Available, Rename!SetRenameState, Rename!row, Rename!ClearRenameState

\* The commit and its compensation settle the state, pass it on or mark the tenant.
LEMMA RenameSettle ==
    ASSUME RInv, NEW w \in Worker, Rename!UpdateSlug(w) \/ Rename!Compensate(w)
    PROVE  RInv'
<1>1. /\ rReq[w].pc \in {"commit", "compensate"}
      /\ Rename!Done(w) \/ Rename!Goto(w, "compensate")
  BY ZenonT(60) DEF Rename!UpdateSlug, Rename!Compensate
<1>2. /\ rReq' \in [Worker -> RenameRequest]
      /\ \A v \in Worker : rReq'[v].pc # "idle" => rReq'[v].t \in Tenant
      /\ \A v \in Worker : v # w => rReq'[v] = rReq[v]
      /\ Rename!Goto(w, "compensate") => rReq'[w].pc = "compensate" /\ rReq'[w].t = rReq[w].t
  BY <1>1, RenameMove, Zenon DEF RenamePc
<1>3. rReq[w].t \in Tenant
  BY <1>1 DEF RInv
<1>4. rSlug' \in [Tenant -> Slug \cup {NoSlug}] /\ rEpoch' \in [Tenant -> Nat]
  <2>1. \/ UNCHANGED <<rSlug, rEpoch>>
        \/ /\ rSlug' = [rSlug EXCEPT ![rReq[w].t] = rReq[w].new]
           /\ rEpoch' = [rEpoch EXCEPT ![rReq[w].t] = @ + 1]
    BY Zenon DEF Rename!UpdateSlug, Rename!Compensate
  <2>2. rReq[w].new \in Slug \cup {NoSlug}
    BY DEF RInv, RenameRequest
  <2> QED
    BY <2>1, <2>2 DEF RInv
<1>5. \/ \E r \in {"none", "complete"} : rRstate' = [rRstate EXCEPT ![rReq[w].t] = r] /\ rStuck' = rStuck
      \/ rRstate' = rRstate /\ rStuck' = rStuck /\ Rename!Goto(w, "compensate")
      \/ rRstate' = rRstate /\ rStuck' = rStuck \cup {rReq[w].t}
  BY Zenon DEF Rename!UpdateSlug, Rename!Compensate, Rename!ClearRenameState
<1>6. /\ rRstate' \in [Tenant -> {"none", "pending", "complete"}]
      /\ \A t \in Tenant : t # rReq[w].t => rRstate'[t] = rRstate[t] /\ (t \in rStuck => t \in rStuck')
      /\ rRstate'[rReq[w].t] = "pending" => rReq[w].t \in rStuck' \/ Rename!Goto(w, "compensate")
  BY <1>3, <1>5 DEF RInv
<1> QED
  BY <1>2, <1>3, <1>4, <1>6, RenameFrame DEF RInv

\* Other requests move the status or the clock; a restart marks what it cuts off.
LEMMA RenameOther ==
    ASSUME RInv,
           \/ \E t \in Tenant : Rename!ChangeStatus(t) \/ Rename!HoldExpires(t)
           \/ \E t \in Tenant, s \in Slug : Rename!CreateTenant(t, s)
           \/ Rename!Restart \/ UNCHANGED Rename!vars
    PROVE  RInv'
<1>1. CASE UNCHANGED <<rRstate, rReq, rEpoch, rStuck>> /\ rSlug' \in [Tenant -> Slug \cup {NoSlug}]
  BY <1>1 DEF RInv, Rename!PendingOwned, Rename!Past
<1>2. CASE Rename!Restart
  <2>1. Rename!Idle \in RenameRequest /\ Rename!Idle.pc = "idle"
    BY Zenon DEF Rename!Idle, RenamePc, RenameRequest
  <2>2. /\ rReq' = [w \in Worker |-> Rename!Idle] /\ UNCHANGED <<rRstate, rSlug, rEpoch>>
        /\ rStuck' = rStuck \cup {t \in Tenant : rRstate[t] = "pending"}
    BY <1>2 DEF Rename!Restart, Rename!row
  <2> HIDE DEF Rename!Idle
  <2> QED
    BY <2>1, <2>2 DEF RInv, Rename!PendingOwned
<1>3. ASSUME NEW t \in Tenant, NEW s \in Slug, Rename!CreateTenant(t, s)
      PROVE  UNCHANGED <<rRstate, rReq, rEpoch, rStuck>> /\ rSlug' \in [Tenant -> Slug \cup {NoSlug}]
  BY <1>3 DEF Rename!CreateTenant, RInv
<1>4. ASSUME NEW t \in Tenant, Rename!ChangeStatus(t) \/ Rename!HoldExpires(t)
      PROVE  UNCHANGED <<rRstate, rReq, rEpoch, rStuck>> /\ rSlug' \in [Tenant -> Slug \cup {NoSlug}]
  BY <1>4 DEF Rename!ChangeStatus, Rename!HoldExpires, RInv
<1>5. UNCHANGED Rename!vars => UNCHANGED <<rRstate, rReq, rEpoch, rStuck>> /\ rSlug' \in [Tenant -> Slug \cup {NoSlug}]
  BY DEF Rename!vars, RInv
<1> QED
  BY <1>1, <1>2, <1>3, <1>4, <1>5

\* A tenant whose rename is pending has a request between the compare-and-set and the
\* settlement of that rename, or its request was cut off by a restart or a failed
\* statement (RenameTenant, steps 9 to 12).
THEOREM PendingHasAnOwner == Rename!Spec => []PendingOwned
<1>1. RInv /\ [Rename!Next]_(Rename!vars) => RInv'
  BY RenameRead, RenameClaim, RenameSettle, RenameOther DEF Rename!Next, Rename!Serve
<1>2. RInv => PendingOwned
  BY DEF RInv, PendingOwned
<1> QED
  BY <1>1, <1>2, RenameInit, PTL DEF Rename!Spec
==============================================================================
