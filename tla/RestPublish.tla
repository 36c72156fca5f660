----------------------------- MODULE RestPublish ----------------------------
(***************************************************************************)
(* The REST side of the gateway: POST /publish, the push subscription      *)
(* endpoints and the rate limiter of publications                          *)
(* (ws/internal/gateway/publish.go, push_subscribe.go, push_vapid.go,      *)
(* rate_limit_publish.go).                                                 *)
(*                                                                         *)
(* A request is checked without state and then, for a publication, charged *)
(* to the limiter of its tenant and to that of its address.  A limiter is  *)
(* found or made by LoadOrStore, its time of use is stored and a token is  *)
(* taken, in three steps; beside them the cleanup looks at an entry and    *)
(* deletes its key.  A limiter that was deleted in between is a stray: it  *)
(* still serves the requests that hold it.                                 *)
(*                                                                         *)
(* Time is counted in ticks.  A tick refills one token of each limiter;    *)
(* publishLimiterMaxAge is MaxAge ticks, long enough to refill one (10     *)
(* minutes against a few seconds).  No tick passes while a request is      *)
(* inside allowKey.                                                        *)
(***************************************************************************)
EXTENDS Integers, Sequences, FiniteSets

CONSTANTS
    Request,
    Tenant, IP,     \* disjoint: the keys of the two maps
    Burst,          \* PublishBurst
    MaxAge,         \* publishLimiterMaxAge in ticks, at least Burst
    MaxTime         \* bound: ticks

VARIABLES
    now,
    req,            \* Request -> the handler serving it
    limiters,       \* every limiter made: tokens left and lastUsed
    table,          \* tenantLimiters and ipLimiters: key -> index into limiters, or 0
    cleaner,        \* keys the cleanup has still to look at, and the one it found stale
    devices,        \* tenants with a registered push device
    budget,         \* tokens left in an ideal bucket of each tenant
    strays          \* tokens taken from limiters the cleanup had found stale

vars == <<now, req, limiters, table, cleaner, devices, budget, strays>>

Key == Tenant \cup IP

Waiting == [at |-> "idle", tenant |-> CHOOSE t \in Tenant : TRUE, ip |-> CHOOSE i \in IP : TRUE, holds |-> 0]

Init ==
    /\ now = MaxAge + 1
    /\ req = [r \in Request |-> Waiting]
    /\ limiters = <<>>
    /\ table = [k \in Key |-> 0]
    /\ cleaner = [todo |-> {}, stale |-> {}]
    /\ devices = {}
    /\ budget = [t \in Tenant |-> Burst]
    /\ strays = [t \in Tenant |-> 0]

----------------------------------------------------------------------------
(* HandlePublish                                                           *)

\* Content type, size, JSON, channel, data, authentication, no API key alone,
\* format, tenant prefix and the tenant's publish rules, in this order: any of
\* them ends the request, and none of them leaves a trace.
HandlePublish(r, t, i) ==
    /\ req[r].at = "idle"
    /\ \/ req' = [req EXCEPT ![r] = [at |-> "tenant", tenant |-> t, ip |-> i, holds |-> 0]]
       \/ req' = [req EXCEPT ![r].at = "refused"]
    /\ UNCHANGED <<now, limiters, table, cleaner, devices, budget, strays>>

KeyOf(r) == IF req[r].at \in {"tenant", "tenant-take"} THEN req[r].tenant ELSE req[r].ip

\* allowKey: LoadOrStore, whose new limiter has no time of use yet.
LoadOrStore(r) ==
    /\ req[r].at \in {"tenant", "ip"}
    /\ req[r].holds = 0
    /\ LET k == KeyOf(r) IN
       IF table[k] = 0
       THEN /\ limiters' = Append(limiters, [tokens |-> Burst, last |-> 0])
            /\ table' = [table EXCEPT ![k] = Len(limiters) + 1]
            /\ req' = [req EXCEPT ![r].holds = Len(limiters) + 1]
       ELSE /\ req' = [req EXCEPT ![r].holds = table[k]]
            /\ UNCHANGED <<limiters, table>>
    /\ UNCHANGED <<now, cleaner, devices, budget, strays>>

\* lastUsed.Store(now).
StoreLastUsed(r) ==
    /\ req[r].at \in {"tenant", "ip"}
    /\ req[r].holds # 0
    /\ limiters' = [limiters EXCEPT ![req[r].holds].last = now]
    /\ req' = [req EXCEPT ![r].at = IF @ = "tenant" THEN "tenant-take" ELSE "ip-take"]
    /\ UNCHANGED <<now, table, cleaner, devices, budget, strays>>

\* The limiter was found stale: its key is being deleted, or was.
Condemned(k, l) == k \in cleaner.stale \/ table[k] # l

\* limiter.Allow.  A request refused by its address has used its tenant's token.
Allow(r) ==
    /\ req[r].at \in {"tenant-take", "ip-take"}
    /\ LET l == req[r].holds  t == req[r].tenant
           granted == limiters[l].tokens > 0  ofTenant == req[r].at = "tenant-take" IN
       /\ limiters' = IF granted THEN [limiters EXCEPT ![l].tokens = @ - 1] ELSE limiters
       /\ req' = [req EXCEPT ![r].holds = 0,
                             ![r].at = IF ~granted THEN "limited" ELSE IF ofTenant THEN "ip" ELSE "grpc"]
       /\ budget' = IF granted /\ ofTenant THEN [budget EXCEPT ![t] = @ - 1] ELSE budget
       /\ strays' = IF granted /\ ofTenant /\ Condemned(t, l) THEN [strays EXCEPT ![t] = @ + 1] ELSE strays
    /\ UNCHANGED <<now, table, cleaner, devices>>

\* The server's answer, or mapPublishError of its code.
Publish(r) ==
    /\ req[r].at = "grpc"
    /\ \E end \in {"published", "failed"} : req' = [req EXCEPT ![r].at = end]
    /\ UNCHANGED <<now, limiters, table, cleaner, devices, budget, strays>>

----------------------------------------------------------------------------
(* The push endpoints forward to the push service                          *)

\* All channels must pass the subscription filter, or nothing is registered.
HandlePushSubscribe(r, t) ==
    /\ req[r].at = "idle"
    /\ \/ devices' = devices \cup {t} /\ req' = [req EXCEPT ![r].at = "published"]
       \/ req' = [req EXCEPT ![r].at = "refused"] /\ UNCHANGED devices
    /\ UNCHANGED <<now, limiters, table, cleaner, budget, strays>>

HandlePushUnsubscribe(r, t) ==
    /\ req[r].at = "idle"
    /\ \/ devices' = devices \ {t} /\ req' = [req EXCEPT ![r].at = "published"]
       \/ req' = [req EXCEPT ![r].at = "refused"] /\ UNCHANGED devices
    /\ UNCHANGED <<now, limiters, table, cleaner, budget, strays>>

HandlePushVAPIDKey(r) ==
    /\ req[r].at = "idle"
    /\ \E end \in {"published", "refused"} : req' = [req EXCEPT ![r].at = end]
    /\ UNCHANGED <<now, limiters, table, cleaner, devices, budget, strays>>

----------------------------------------------------------------------------
(* cleanup, and time                                                       *)

\* The ticker: the cleanup walks over the keys.
cleanupLoop ==
    /\ cleaner.todo = {} /\ cleaner.stale = {}
    /\ \E k \in Key : table[k] # 0
    /\ cleaner' = [todo |-> {k \in Key : table[k] # 0}, stale |-> {}]
    /\ UNCHANGED <<now, req, limiters, table, devices, budget, strays>>

\* Mutant: the cutoff is the present, so an entry of this second is stale.
StaleNow(l) == limiters[l].last <= now

\* lastUsed < cutoff.
Stale(l) == limiters[l].last < now - MaxAge

\* lastUsed is read, and the key of a stale entry is deleted later.
CleanLook(k) ==
    /\ k \in cleaner.todo /\ cleaner.stale = {}
    /\ cleaner' = [todo |-> cleaner.todo \ {k},
                   stale |-> IF table[k] # 0 /\ Stale(table[k]) THEN {k} ELSE {}]
    /\ UNCHANGED <<now, req, limiters, table, devices, budget, strays>>

CleanDelete(k) ==
    /\ k \in cleaner.stale
    /\ table' = [table EXCEPT ![k] = 0]
    /\ cleaner' = [cleaner EXCEPT !.stale = {}]
    /\ UNCHANGED <<now, req, limiters, devices, budget, strays>>

Tick ==
    /\ now < MaxAge + 1 + MaxTime
    /\ \A r \in Request : req[r].at \notin {"tenant", "tenant-take", "ip", "ip-take"}
    /\ cleaner = [todo |-> {}, stale |-> {}]
    /\ now' = now + 1
    /\ limiters' = [l \in DOMAIN limiters |->
                       [limiters[l] EXCEPT !.tokens = IF @ < Burst THEN @ + 1 ELSE @]]
    /\ budget' = [t \in Tenant |-> IF budget[t] < Burst THEN budget[t] + 1 ELSE budget[t]]
    /\ UNCHANGED <<req, table, cleaner, devices, strays>>

Next ==
    \/ \E r \in Request :
          \/ \E t \in Tenant : (\E i \in IP : HandlePublish(r, t, i))
                               \/ HandlePushSubscribe(r, t) \/ HandlePushUnsubscribe(r, t)
          \/ HandlePushVAPIDKey(r)
          \/ LoadOrStore(r) \/ StoreLastUsed(r) \/ Allow(r) \/ Publish(r)
    \/ cleanupLoop
    \/ \E k \in Key : CleanLook(k) \/ CleanDelete(k)
    \/ Tick

Spec == Init /\ [][Next]_vars

----------------------------------------------------------------------------
(* Properties                                                              *)

\* The cleanup of the limiter tables gives no tenant a second allowance: the
\* requests let through exceed an ideal token bucket by no more than the tokens
\* taken from a limiter between the cleanup's look at it and the last request
\* that held it (allowKey, cleanup).
PublishBounded == \A t \in Tenant : budget[t] >= 0 - strays[t]

\* Keys name limiters that exist; tokens stay within the burst.
TypeOK ==
    /\ \A k \in Key : table[k] \in 0 .. Len(limiters)
    /\ \A l \in DOMAIN limiters : limiters[l].tokens \in 0 .. Burst /\ limiters[l].last <= now
    /\ devices \subseteq Tenant
=============================================================================
