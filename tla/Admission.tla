----------------------------- MODULE Admission -----------------------------
(***************************************************************************)
(* What a WebSocket upgrade must pass before it may take a slot: the       *)
(* connection rate limiter with its per-address buckets and their cleanup  *)
(* (server/limits/connection_rate_limiter.go), then the resource guard     *)
(* with its CPU hysteresis (resource_guard.go) fed by the system monitor   *)
(* (server/metrics/system_monitor.go).                                     *)
(*                                                                         *)
(* One address.  Time is counted in the refill interval of one token, so a *)
(* bucket is an integer.  A request holds the bucket it looked up while    *)
(* others run, and the CPU reading it sampled while the monitor goes on.   *)
(* CPU is low (below the lower threshold), in the band between the two, or *)
(* high; a smoothed value is somewhere between the previous one and the    *)
(* raw reading.                                                            *)
(***************************************************************************)
EXTENDS Integers, FiniteSets, Sequences

CONSTANTS
  Request,      \* handler goroutines; each serves one request at a time
  IPBurst,      \* tokens a bucket holds
  GlobalBurst,
  IPTTL,        \* idle time after which a bucket is dropped
  MaxTime,      \* bound: the clock
  MaxAdmits     \* bound: requests the limiter lets through

VARIABLES
  now,
  global,     \* the global bucket: [tokens, last]
  buckets,    \* limiter objects made for the address, oldest first
  tracked,    \* index in buckets of the one in ipLimiters, 0 if none
  lastAccess, \* of the tracked entry
  reqs,       \* [Request -> [stage, bucket, cpu, hot]]
  admits,     \* times at which the limiter let a request of the address through
  raw, smoothed, \* the monitor's last reading and its average
  hot,        \* smoothed was high, and no reading since was anything else
  rejecting   \* isRejectingCPU

limiterVars == <<global, buckets, tracked, lastAccess, admits>>
guardVars == <<raw, smoothed, hot, rejecting>>
vars == <<now, limiterVars, reqs, guardVars>>

Low == 0
Band == 1
High == 2

Idle == [stage |-> "idle", bucket |-> 0, cpu |-> Low, hot |-> FALSE, flag |-> FALSE]

\* Buckets hold between no token and their burst, and a request points at a bucket that was made.
TypeOK ==
  /\ now \in 0 .. MaxTime
  /\ global.tokens \in 0 .. GlobalBurst
  /\ \A b \in DOMAIN buckets : buckets[b].tokens \in 0 .. IPBurst
  /\ tracked \in 0 .. Len(buckets) /\ lastAccess \in 0 .. MaxTime
  /\ \A r \in Request : reqs[r].bucket \in 0 .. Len(buckets)
  /\ raw \in Low .. High /\ smoothed \in Low .. High
  /\ hot \in BOOLEAN /\ rejecting \in BOOLEAN

NewBucket(burst) == [tokens |-> burst, last |-> now]

Init ==
  /\ now = 0
  /\ global = NewBucket(GlobalBurst)
  /\ buckets = <<>> /\ tracked = 0 /\ lastAccess = 0 /\ admits = <<>>
  /\ reqs = [r \in Request |-> Idle]
  /\ raw \in Low .. High /\ smoothed = raw /\ hot = (raw = High)
  /\ rejecting = FALSE

-----------------------------------------------------------------------------
(* The token bucket *)

Smaller(a, b) == IF a < b THEN a ELSE b

\* One token per unit of time since the last call, never above the burst.
Refilled(b, burst) == Smaller(burst, b.tokens + (now - b.last))

\* The bucket after Allow, which takes a token if there is one.
Allow(b, burst) ==
  [tokens |-> IF Refilled(b, burst) > 0 THEN Refilled(b, burst) - 1 ELSE 0, last |-> now]

-----------------------------------------------------------------------------
(* CheckConnectionAllowed *)

Arrive(r) ==
  /\ reqs[r].stage \in {"idle", "accepted", "refused"}
  /\ Len(admits) < MaxAdmits
  /\ reqs' = [reqs EXCEPT ![r] = [Idle EXCEPT !.stage = "new"]]
  /\ UNCHANGED <<now, limiterVars, guardVars>>

\* The global bucket first; its token is spent even if the address is refused.
CheckGlobal(r) ==
  /\ reqs[r].stage = "new"
  /\ global' = Allow(global, GlobalBurst)
  /\ reqs' = [reqs EXCEPT ![r].stage = IF Refilled(global, GlobalBurst) > 0 THEN "lookup" ELSE "refused"]
  /\ UNCHANGED <<now, buckets, tracked, lastAccess, admits, guardVars>>

\* The entry is read under the read lock, which is then released.
FindIPLimiter(r) ==
  /\ reqs[r].stage = "lookup"
  /\ reqs' = [reqs EXCEPT ![r].stage = IF tracked = 0 THEN "create" ELSE "touch", ![r].bucket = tracked]
  /\ UNCHANGED <<now, limiterVars, guardVars>>

\* lastAccess is set on the entry that was read, which cleanup may have dropped since.
TouchEntry(r) ==
  /\ reqs[r].stage = "touch"
  /\ lastAccess' = IF reqs[r].bucket = tracked THEN now ELSE lastAccess
  /\ reqs' = [reqs EXCEPT ![r].stage = "allow"]
  /\ UNCHANGED <<now, global, buckets, tracked, admits, guardVars>>

\* Mutant: the entry is not looked up again under the write lock.
SecondLookNot == FALSE

\* Another request made the entry first.
SecondLook == tracked # 0

\* Under the write lock: the entry another request made, or a full bucket.
CreateEntry(r) ==
  /\ reqs[r].stage = "create"
  /\ lastAccess' = now
  /\ IF SecondLook
     THEN /\ reqs' = [reqs EXCEPT ![r].stage = "allow", ![r].bucket = tracked]
          /\ UNCHANGED <<buckets, tracked>>
     ELSE /\ buckets' = Append(buckets, NewBucket(IPBurst))
          /\ tracked' = Len(buckets')
          /\ reqs' = [reqs EXCEPT ![r].stage = "allow", ![r].bucket = tracked']
  /\ UNCHANGED <<now, global, admits, guardVars>>

\* The address's own bucket decides, outside any lock of the limiter.
CheckIP(r) ==
  /\ reqs[r].stage = "allow"
  /\ LET b == buckets[reqs[r].bucket]
         ok == Refilled(b, IPBurst) > 0
     IN /\ buckets' = [buckets EXCEPT ![reqs[r].bucket] = Allow(b, IPBurst)]
        /\ admits' = IF ok THEN Append(admits, now) ELSE admits
        /\ reqs' = [reqs EXCEPT ![r] = [Idle EXCEPT !.stage = IF ok THEN "sample" ELSE "refused"]]
  /\ UNCHANGED <<now, global, tracked, lastAccess, guardVars>>

\* Mutant: every entry is dropped at every tick.
StaleAlways == TRUE

\* Idle for longer than IPTTL.
Stale == now - lastAccess > IPTTL

\* cleanup drops the entry; a request that read it keeps the object.
cleanup ==
  /\ tracked # 0 /\ Stale
  /\ tracked' = 0
  /\ UNCHANGED <<now, global, buckets, lastAccess, admits, reqs, guardVars>>

\* Assumed: a check takes less than the refill interval of a token.
Tick ==
  /\ \A r \in Request : reqs[r].stage \notin {"lookup", "touch", "create", "allow"}
  /\ now < MaxTime /\ now' = now + 1
  /\ UNCHANGED <<limiterVars, reqs, guardVars>>

-----------------------------------------------------------------------------
(* The monitor and the guard *)

\* Mutant: a failed measurement counts as an idle CPU.
OnErrorZero == Low

\* A failed measurement keeps the previous reading.
OnError == raw

\* Values an exponential average of the two may take.
Between(a, b) == {x \in Low .. High : (a <= x /\ x <= b) \/ (b <= x /\ x <= a)}

\* One tick of the monitor: a reading in Low .. High, or an error.
updateMetrics ==
  \E reading \in Low .. High, ok \in BOOLEAN :
    LET r == IF ok THEN reading ELSE OnError
    IN /\ raw' = r
       /\ smoothed' \in Between(smoothed, r)
       /\ hot' = IF ok THEN (hot \/ smoothed' = High) /\ reading = High ELSE hot
       /\ UNCHANGED <<now, limiterVars, reqs, rejecting>>

\* ShouldAcceptConnection samples the monitor before it looks at its own state.
Sample(r) ==
  /\ reqs[r].stage = "sample"
  /\ reqs' = [reqs EXCEPT ![r].stage = "load", ![r].cpu = smoothed, ![r].hot = hot]
  /\ UNCHANGED <<now, limiterVars, guardVars>>

LoadFlag(r) ==
  /\ reqs[r].stage = "load"
  /\ reqs' = [reqs EXCEPT ![r].stage = "decide", ![r].flag = rejecting]
  /\ UNCHANGED <<now, limiterVars, guardVars>>

\* Rejecting until the sample is below the lower threshold; accepting until it
\* is above the upper one.
Refuses(r) == IF reqs[r].flag THEN reqs[r].cpu # Low ELSE reqs[r].cpu = High

\* The decision of the sample is stored; connections, memory and goroutines may refuse as well.
Decide(r) ==
  /\ reqs[r].stage = "decide"
  /\ rejecting' = IF Refuses(r) # reqs[r].flag THEN Refuses(r) ELSE rejecting
  /\ \E other \in BOOLEAN :
       reqs' = [reqs EXCEPT ![r] = [Idle EXCEPT !.stage = IF Refuses(r) \/ other THEN "refused" ELSE "accepted",
                                                !.hot = ~ Refuses(r) /\ ~ other /\ reqs[r].hot]]
  /\ UNCHANGED <<now, limiterVars, raw, smoothed, hot>>

Next ==
  \/ \E r \in Request : \/ Arrive(r) \/ CheckGlobal(r) \/ FindIPLimiter(r) \/ TouchEntry(r) \/ CreateEntry(r)
                        \/ CheckIP(r) \/ Sample(r) \/ LoadFlag(r) \/ Decide(r)
  \/ cleanup \/ Tick \/ updateMetrics

Spec == Init /\ [][Next]_vars

-----------------------------------------------------------------------------

\* In any stretch of time, an address gets at most a burst and what refills
\* meanwhile, plus one connection for every other request in flight: those may
\* spend a bucket that cleanup dropped under them.  Cleanup itself gives nothing
\* away as long as an idle bucket has refilled by the time it is dropped.
RateBounded ==
  IPTTL >= IPBurst =>
    \A i, j \in DOMAIN admits :
      i < j => j - i + 1 <= IPBurst + (admits[j] - admits[i]) + (Cardinality(Request) - 1)

\* While every reading is high, measurement errors included, no request that
\* sampled the monitor in that time is accepted, whatever the flag went through.
HotSheds == \A r \in Request : reqs[r].stage = "accepted" => ~ reqs[r].hot
=============================================================================
