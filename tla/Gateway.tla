------------------------------ MODULE Gateway ------------------------------
(***************************************************************************)
(* The connection handlers of the gateway (ws/internal/gateway).           *)
(*                                                                         *)
(* HandleWebSocket and HandleSSE take a request through authentication,    *)
(* the tenant's connection slot, the upgrade and the backend, the registry *)
(* used to force-disconnect, and a deferred teardown in the reverse order. *)
(* Beside them runs the revocation stream (shared/provapi): it stores a    *)
(* snapshot of the revocations, which authentication reads without a lock, *)
(* and then calls HandleRevocation once for every entry it received.       *)
(*                                                                         *)
(* A token is a record [jti, sub, tenant, iat]; the validator that decides *)
(* which tokens are genuine is external (TokenValidator).  An API key is   *)
(* its tenant.  claims is {} for an API-key-only connection.               *)
(***************************************************************************)
EXTENDS Integers, FiniteSets

CONSTANTS
    Conn,          \* connections (requests) the gateway may serve
    Tenant,
    Token,         \* genuine tokens: records [jti, sub, tenant, iat]
    Revocation,    \* records [type, tenant, jti, sub, revokedAt]
    Limit,         \* DefaultTenantConnectionLimit
    MaxUpdates     \* bound: messages on the revocation stream

\* A jti names one token, a revocation is about a token or a user.
ConstantsAssumption ==
    /\ Tenant # {}
    /\ \A a, b \in Token : a.jti = b.jti => a = b
    /\ \A tok \in Token : tok.tenant \in Tenant /\ tok.iat \in Int
    /\ \A r \in Revocation : r.type \in {"token", "user"} /\ r.revokedAt \in Int

VARIABLES
    conns,       \* Conn -> the handler's locals and the Proxy / sseConnection
    count,       \* Tenant -> TenantConnectionTracker.connections
    byJTI,       \* ConnectionRegistry.byJTI: set of <<jti, conn>>, a function
    bySubject,   \* ConnectionRegistry.bySubject: set of <<tenant, sub, conn>>
    source,      \* revocations held by the provisioning service
    snapshot,    \* StreamRevocationRegistry.snapshot
    calls,       \* entries the stream goroutine has still to call OnRevocation for
    targets,     \* <<connection, entry>>: what HandleRevocation has still to close
    fired,       \* entries whose HandleRevocation has returned
    updates      \* messages received on the stream

vars == <<conns, count, byJTI, bySubject, source, snapshot, calls, targets, fired, updates>>

NewConn ==
    [pc |-> "new", kind |-> "ws", tenant |-> CHOOSE t \in Tenant : TRUE, claims |-> {},
     reg |-> {}, apiKeyOnly |-> FALSE, closed |-> FALSE, reason |-> "", refreshed |-> FALSE]

Init ==
    /\ conns = [c \in Conn |-> NewConn]
    /\ count = [t \in Tenant |-> 0]
    /\ byJTI = {} /\ bySubject = {}
    /\ source = {} /\ snapshot = {}
    /\ calls = {} /\ targets = {} /\ fired = {}
    /\ updates = 0

Streams == <<source, snapshot, calls, targets, fired, updates>>

Set(c, r) == conns' = [conns EXCEPT ![c] = r]

----------------------------------------------------------------------------
(* authenticateRequest                                                     *)

\* IsRevoked over a snapshot: by jti within the tenant, or by subject when the
\* token was issued before the user was revoked.
IsRevoked(snap, tok) ==
    \E r \in snap : /\ r.tenant = tok.tenant
                    /\ \/ r.type = "token" /\ r.jti = tok.jti
                       \/ r.type = "user" /\ r.sub = tok.sub /\ tok.iat < r.revokedAt

\* A key's tenant is resolved against the UUID->slug projection.  known is
\* what the tenant-config stream has delivered of it, which may be anything at
\* any time: nothing yet (503), or no such tenant (403).
resolveAPIKeyTenantSlug(key, known) == key # {} /\ key \subseteq known

\* The request's outcome.  A key alone needs the projection; a token must not
\* be revoked; with both, the tenants must agree.
Admitted(key, claims, known) ==
    /\ key # {} \/ claims # {}
    /\ claims = {} => resolveAPIKeyTenantSlug(key, known)
    /\ \A tok \in claims : key \subseteq {tok.tenant} /\ ~IsRevoked(snapshot, tok)

authenticateRequest(c, kind, key, claims, known) ==
    /\ conns[c].pc = "new"
    /\ IF Admitted(key, claims, known)
       THEN \E t \in IF claims = {} THEN key ELSE {tok.tenant : tok \in claims} :
               Set(c, [conns[c] EXCEPT !.pc = "admitted", !.kind = kind, !.tenant = t,
                                       !.claims = claims, !.apiKeyOnly = claims = {}])
       ELSE Set(c, [conns[c] EXCEPT !.pc = "refused"])
    /\ UNCHANGED <<count, byJTI, bySubject, Streams>>

----------------------------------------------------------------------------
(* The tenant's slot, the backend and the registry                         *)

\* Mutant: one connection more than the limit.
HasSlotOffByOne(t) == count[t] <= Limit

HasSlot(t) == count[t] < Limit

TryAcquire(c) ==
    /\ conns[c].pc = "admitted"
    /\ IF HasSlot(conns[c].tenant)
       THEN /\ count' = [count EXCEPT ![conns[c].tenant] = @ + 1]
            /\ Set(c, [conns[c] EXCEPT !.pc = "acquired"])
       ELSE /\ Set(c, [NewConn EXCEPT !.pc = "refused"])
            /\ UNCHANGED count
    /\ UNCHANGED <<byJTI, bySubject, Streams>>

\* The upgrade and the dial (WebSocket), or the Subscribe stream (SSE).
Connect(c) ==
    /\ conns[c].pc = "acquired"
    /\ \E ok \in BOOLEAN :
          Set(c, [conns[c] EXCEPT !.pc = IF ~ok THEN "unregistered"
                                         ELSE IF conns[c].claims = {} THEN "running"
                                         ELSE "connected"])
    /\ UNCHANGED <<count, byJTI, bySubject, Streams>>

TheToken(c) == CHOOSE tok \in conns[c].claims : TRUE

\* Register: the jti index keeps the last connection, the subject index all.
Register(c) ==
    /\ conns[c].pc = "connected"
    /\ LET tok == TheToken(c) IN
       /\ byJTI' = {p \in byJTI : p[1] # tok.jti} \cup {<<tok.jti, c>>}
       /\ bySubject' = bySubject \cup {<<conns[c].tenant, tok.sub, c>>}
       /\ Set(c, [conns[c] EXCEPT !.pc = "registered", !.reg = {tok}])
    /\ UNCHANGED <<count, Streams>>

\* closeOnce: the first closer's reason stays.
ForceClosed(r, reason) ==
    IF r.closed THEN r ELSE [r EXCEPT !.closed = TRUE, !.reason = reason]

RevokedReason(tok) ==
    IF IsRevoked({r \in snapshot : r.type = "token"}, tok) THEN "token" ELSE "user"

\* Mutant: the verdict of authentication is kept: no second look at the snapshot.
RecheckedNot(c) == conns[c]

\* recheckRevocationAfterRegister, then Run.
Rechecked(c) ==
    IF IsRevoked(snapshot, TheToken(c))
    THEN ForceClosed(conns[c], RevokedReason(TheToken(c)))
    ELSE conns[c]

recheckRevocationAfterRegister(c) ==
    /\ conns[c].pc = "registered"
    /\ Set(c, [Rechecked(c) EXCEPT !.pc = "running"])
    /\ UNCHANGED <<count, byJTI, bySubject, Streams>>

\* interceptAuthRefresh: same tenant, and the API key's tenant when the
\* connection came with one.  The registry is left as it is.
interceptAuthRefresh(c, tok) ==
    /\ conns[c].pc = "running" /\ conns[c].kind = "ws" /\ ~conns[c].closed
    /\ tok.tenant = conns[c].tenant
    /\ tok \notin conns[c].claims
    /\ Set(c, [conns[c] EXCEPT !.claims = {tok}, !.apiKeyOnly = FALSE, !.refreshed = TRUE])
    /\ UNCHANGED <<count, byJTI, bySubject, Streams>>

\* Run returns: a pump failed, the peer closed, or the connection was closed
\* by force.  Run's own close goes through the same closeOnce.
RunEnds(c) ==
    /\ conns[c].pc = "running"
    /\ Set(c, [ForceClosed(conns[c], "") EXCEPT !.pc = "ending"])
    /\ UNCHANGED <<count, byJTI, bySubject, Streams>>

\* The deferred calls, in reverse: Unregister, then Release.
Unregister(c) ==
    /\ conns[c].pc = "ending"
    /\ Set(c, [conns[c] EXCEPT !.pc = "unregistered"])
    /\ byJTI' = {p \in byJTI : \A tok \in conns[c].reg : p[1] # tok.jti}
    /\ bySubject' = bySubject \ {<<conns[c].tenant, tok.sub, c>> : tok \in conns[c].reg}
    /\ UNCHANGED <<count, Streams>>

Release(c) ==
    /\ conns[c].pc = "unregistered"
    /\ count' = [count EXCEPT ![conns[c].tenant] = IF @ - 1 < 0 THEN 0 ELSE @ - 1]
    /\ Set(c, [NewConn EXCEPT !.pc = "done", !.reg = conns[c].reg])
    /\ UNCHANGED <<byJTI, bySubject, Streams>>

----------------------------------------------------------------------------
(* The revocation stream                                                   *)

Handlers == <<conns, count, byJTI, bySubject>>

\* The provisioning service revokes, or lets a revocation expire.
Revoke(r) ==
    /\ r \notin source
    /\ source' = source \cup {r}
    /\ UNCHANGED <<Handlers, snapshot, calls, targets, fired, updates>>

Expire(r) ==
    /\ r \in source
    /\ source' = source \ {r}
    /\ UNCHANGED <<Handlers, snapshot, calls, targets, fired, updates>>

\* The stream goroutine is back in Recv.
Receiving == calls = {} /\ targets = {} /\ updates < MaxUpdates

\* The message's content replaces or amends the snapshot, and only then are
\* the callbacks run, one entry after the other.
Stored(new, entries) ==
    /\ snapshot' = new
    /\ calls' = entries
    /\ fired' = fired \cap new

applySnapshot ==
    /\ Receiving
    /\ Stored(source, source)
    /\ updates' = updates + 1
    /\ UNCHANGED <<Handlers, source, targets>>

applyDelta(r) ==
    /\ Receiving
    /\ \/ r \in source \ snapshot /\ Stored(snapshot \cup {r}, {r})
       \/ r \in snapshot \ source /\ Stored(snapshot \ {r}, {})
    /\ updates' = updates + 1
    /\ UNCHANGED <<Handlers, source, targets>>

\* FindByJTI returns one connection, FindBySub all of the user's.
Found(r) ==
    IF r.type = "token" THEN {p[2] : p \in {q \in byJTI : q[1] = r.jti}}
    ELSE {p[3] : p \in {q \in bySubject : q[1] = r.tenant /\ q[2] = r.sub}}

HandleRevocation(r) ==
    /\ r \in calls /\ targets = {}
    /\ calls' = calls \ {r}
    /\ targets' = {<<c, r>> : c \in Found(r)}
    /\ fired' = IF Found(r) = {} THEN fired \cup {r} ELSE fired
    /\ UNCHANGED <<Handlers, source, snapshot, updates>>

\* A token issued since the user was revoked is left alone.
Spared(c, r) == r.type = "user" /\ \A tok \in conns[c].claims : tok.iat >= r.revokedAt

ForceClose(c, r) ==
    /\ <<c, r>> \in targets
    /\ targets' = targets \ {<<c, r>>}
    /\ fired' = IF targets = {<<c, r>>} THEN fired \cup {r} ELSE fired
    /\ IF Spared(c, r) THEN UNCHANGED conns ELSE Set(c, ForceClosed(conns[c], r.type))
    /\ UNCHANGED <<count, byJTI, bySubject, source, snapshot, calls, updates>>

Handle(c) ==
    \/ TryAcquire(c) \/ Connect(c) \/ Register(c) \/ recheckRevocationAfterRegister(c)
    \/ RunEnds(c) \/ Unregister(c) \/ Release(c)
    \/ \E tok \in Token : interceptAuthRefresh(c, tok)

Next ==
    \/ \E c \in Conn, kind \in {"ws", "sse"}, key \in {{}} \cup {{t} : t \in Tenant},
          claims \in {{}} \cup {{tok} : tok \in Token}, known \in SUBSET Tenant :
             authenticateRequest(c, kind, key, claims, known)
    \/ \E c \in Conn : Handle(c)
    \/ \E r \in Revocation : \/ Revoke(r) \/ Expire(r) \/ applyDelta(r) \/ HandleRevocation(r)
                             \/ \E c \in Conn : ForceClose(c, r)
    \/ applySnapshot

Spec == Init /\ [][Next]_vars

----------------------------------------------------------------------------
(* Properties                                                              *)

TypeOK ==
    /\ \A c \in Conn : /\ conns[c].pc \in {"new", "admitted", "refused", "acquired", "connected",
                                           "registered", "running", "ending", "unregistered", "done"}
                       /\ conns[c].claims \subseteq Token /\ conns[c].tenant \in Tenant
    /\ count \in [Tenant -> Nat]
    /\ snapshot \subseteq Revocation /\ calls \subseteq snapshot

HoldsSlot(c) == conns[c].pc \in {"acquired", "connected", "registered", "running", "ending", "unregistered"}

\* Every way out of the two handlers gives back the tenant's connection slot
\* exactly once, and only handlers past TryAcquire have one: the counter is
\* the number of handlers that hold a slot, and never above the limit.
SlotsExact ==
    \A t \in Tenant :
       /\ count[t] = Cardinality({c \in Conn : HoldsSlot(c) /\ conns[c].tenant = t})
       /\ count[t] <= Limit

\* ConnectionRegistry has one connection for a jti.
SharesToken(c) == \E d \in Conn \ {c} : conns[d].reg \cap conns[c].reg # {}

\* The fan-out of a revocation and the registration of a connection race
\* (recheckRevocationAfterRegister): whatever their order, once a stored
\* revocation's HandleRevocation has returned, no connection whose token it
\* covers is being served, in either transport.  The property speaks of
\* connections that keep the token they came with, and, for the revocation
\* of one token, of tokens one connection uses.
NoSurvivor ==
    \A r \in fired \cap snapshot, c \in Conn :
       ( /\ conns[c].pc = "running" /\ ~conns[c].refreshed
         /\ r.type = "user" \/ ~SharesToken(c)
         /\ \E tok \in conns[c].claims : IsRevoked({r}, tok) )
       => conns[c].closed

=============================================================================
