------------------------- MODULE HistoryWriterProofs -------------------------
(***************************************************************************)
(* Proofs about HistoryWriter, for any number of pods, messages and        *)
(* faults: types, that an active writer that is on time holds the lock,    *)
(* and that no writer takes another's lock away, on time or not.           *)
(***************************************************************************)
EXTENDS HistoryWriter, SequenceTheorems, TLAPS

-----------------------------------------------------------------------------
(* The lock and the roles.                                                 *)

\* The types of the lock and of the writers' local state.
LockType ==
  /\ lock \in Pod \cup {None} /\ ttl \in 0 .. LockTTL
  /\ pc \in [Pod -> {"run", "backoff", "exited"}]
  /\ active \in [Pod -> BOOLEAN] /\ tick \in [Pod -> BOOLEAN]
  /\ failures \in [Pod -> 0 .. MaxFailures - 1] /\ late \in [Pod -> Nat]
  /\ faults \in 0 .. MaxFaults

\* What a tick that is still to be handled counts for.
Pending(p) == IF tick[p] THEN 1 ELSE 0

\* The intervals since Valkey last answered an active writer p: a tick each, that failed,
\* that is still to be handled or that was missed.
Age(p) == failures[p] + Pending(p) + late[p]

\* The lock of an active writer has aged by no more than that; it is gone only if this is
\* all its time to live.
FreshAt(p) ==
  pc[p] = "run" /\ (Age(p) >= LockTTL \/ (lock = p /\ ttl + Age(p) >= LockTTL))

Fresh == \A p \in Pod : active[p] => FreshAt(p)

\* What the steps of one writer p leave alone, and what they do to p's own state.
OwnStep(p) == runOnce(p) \/ Relay(p) \/ handleHeartbeatTick(p) \/ Notified(p) \/ Stop(p) \/ Crash(p)

\* A batch touches neither lock nor roles, but counts its faults.
LEMMA FlushFaults ==
  ASSUME NEW p, NEW isActive, NEW spent \in Nat, faults \in 0 .. MaxFaults,
         flushBatch(p, isActive, spent)
  PROVE  faults' \in 0 .. MaxFaults
BY ConstantsAssumption DEF flushBatch, Faults

\* The end of a run keeps the types and leaves the pod passive.
LEMMA EndRunType ==
  ASSUME LockType, NEW p \in Pod, NEW s \in {"backoff", "exited"}, EndRun(p, s)
  PROVE  /\ pc' \in [Pod -> {"run", "backoff", "exited"}]
         /\ active' \in [Pod -> BOOLEAN] /\ tick' \in [Pod -> BOOLEAN]
         /\ failures' \in [Pod -> 0 .. MaxFailures - 1] /\ late' \in [Pod -> Nat]
         /\ ~active'[p]
         /\ \A q \in Pod \ {p} : /\ pc'[q] = pc[q] /\ active'[q] = active[q] /\ tick'[q] = tick[q]
                                 /\ failures'[q] = failures[q] /\ late'[q] = late[q]
<1>1. /\ pc' \in [Pod -> {"run", "backoff", "exited"}]
      /\ failures' \in [Pod -> 0 .. MaxFailures - 1] /\ late' \in [Pod -> Nat]
  BY ConstantsAssumption DEF LockType, EndRun
<1>2. active' \in [Pod -> BOOLEAN] /\ tick' \in [Pod -> BOOLEAN]
  BY Zenon DEF LockType, EndRun
<1>3. ~active'[p]
  BY DEF LockType, EndRun
<1>4. ASSUME NEW q \in Pod \ {p}
      PROVE  /\ pc'[q] = pc[q] /\ active'[q] = active[q] /\ tick'[q] = tick[q]
             /\ failures'[q] = failures[q] /\ late'[q] = late[q]
  BY DEF LockType, EndRun
<1> QED BY <1>1, <1>2, <1>3, <1>4

\* The lock at the end of a run: released only if it is the pod's own.
LEMMA EndLockType ==
  ASSUME LockType, NEW p \in Pod, NEW spent \in Nat, EndLock(p, spent)
  PROVE  /\ lock' \in Pod \cup {None} /\ ttl' \in 0 .. LockTTL /\ faults' \in 0 .. MaxFaults
         /\ lock # p => lock' = lock /\ ttl' = ttl
         /\ lock = p => (lock' = lock /\ ttl' = ttl) \/ (active[p] /\ lock' = None)
BY ConstantsAssumption DEF LockType, EndLock, Release, Faults, lockVars

\* A call that failed: the lock is as it was, renewed, or taken when it was free.
LEMMA AttemptType ==
  ASSUME LockType, NEW p \in Pod, Attempt(p)
  PROVE  /\ lock' \in Pod \cup {None} /\ ttl' \in 0 .. LockTTL
         /\ \/ lock' = lock /\ ttl' = ttl
            \/ active[p] /\ lock = p /\ lock' = p /\ ttl' = LockTTL
            \/ ~active[p] /\ lock = None /\ lock' = p /\ ttl' = LockTTL
BY ConstantsAssumption DEF LockType, Attempt, Renew, SetNX, lockVars

\* A heartbeat that goes on keeps the types and handles the tick.
LEMMA BeatType ==
  ASSUME LockType, NEW p \in Pod, NEW isActive \in BOOLEAN, NEW spent \in Nat,
         Beat(p, isActive, spent)
  PROVE  /\ pc' = pc /\ faults' \in 0 .. MaxFaults
         /\ active' \in [Pod -> BOOLEAN] /\ tick' \in [Pod -> BOOLEAN]
         /\ active'[p] = isActive /\ ~tick'[p]
         /\ \A q \in Pod \ {p} : active'[q] = active[q] /\ tick'[q] = tick[q]
<1>1. pc' = pc
  BY DEF Beat
<1>2. faults' \in 0 .. MaxFaults
  BY FlushFaults DEF Beat, LockType
<1>3. active' \in [Pod -> BOOLEAN] /\ tick' \in [Pod -> BOOLEAN]
  BY Zenon DEF LockType, Beat
<1>4. active'[p] = isActive /\ ~tick'[p]
  BY Zenon DEF LockType, Beat
<1>5. ASSUME NEW q \in Pod \ {p} PROVE active'[q] = active[q] /\ tick'[q] = tick[q]
  BY DEF LockType, Beat
<1> QED BY <1>1, <1>2, <1>3, <1>4, <1>5

\* The passing of time keeps the types.
LEMMA ClockType ==
  ASSUME LockType, Clock
  PROVE  LockType'
<1>1. tick' \in [Pod -> BOOLEAN]
  BY Zenon DEF Clock
<1>2. late' \in [Pod -> Nat]
  BY DEF Clock, LockType
<1>3. faults' \in 0 .. MaxFaults
  BY ConstantsAssumption DEF Clock, Faults, LockType
<1> QED BY <1>1, <1>2, <1>3, ConstantsAssumption DEF Clock, LockType

\* A step of one writer keeps the types, and a lock that is set goes only when its
\* active holder ends its run.
LEMMA OwnStepLock ==
  ASSUME LockType, NEW p \in Pod, OwnStep(p)
  PROVE  /\ LockType'
         /\ lock \in Pod /\ lock' # lock =>
              lock = p /\ lock' = None /\ active[p] /\ pc'[p] # "run"
<1> DEFINE Kept == lock \in Pod /\ lock' # lock =>
                     lock = p /\ lock' = None /\ active[p] /\ pc'[p] # "run"
<1> USE ConstantsAssumption
<1>1. CASE runOnce(p)
  <2>1. /\ pc' = [pc EXCEPT ![p] = "run"]
        /\ failures' = failures /\ tick' = tick /\ late' = late /\ faults' \in 0 .. MaxFaults
    BY <1>1 DEF runOnce, Faults, LockType
  <2>2. /\ \/ lock' = lock /\ ttl' = ttl
           \/ lock = None /\ lock' = p /\ ttl' = LockTTL
        /\ active' = [active EXCEPT ![p] = TRUE] \/ active' = active
    BY <1>1 DEF runOnce, SetNX, lockVars
  <2>3. active' \in [Pod -> BOOLEAN]
    BY <2>2, Zenon DEF LockType
  <2>4. lock' \in Pod \cup {None} /\ ttl' \in 0 .. LockTTL /\ Kept
    BY <2>2 DEF LockType
  <2>5. pc' \in [Pod -> {"run", "backoff", "exited"}]
    BY <2>1 DEF LockType
  <2> QED BY <2>1, <2>3, <2>4, <2>5 DEF LockType
<1>2. CASE Relay(p) \/ Notified(p)
  <2>1. UNCHANGED <<lockVars, runVars>> /\ faults' \in 0 .. MaxFaults
    <3>1. CASE Relay(p)
      BY <3>1 DEF Relay, LockType
    <3>2. CASE Notified(p)
      BY <3>2, FlushFaults DEF Notified, LockType
    <3> QED BY <1>2, <3>1, <3>2
  <2> QED BY <2>1 DEF LockType, lockVars, runVars
<1>3. CASE \E s \in {"backoff", "exited"}, spent \in Nat : EndRun(p, s) /\ EndLock(p, spent)
  <2>1. PICK s \in {"backoff", "exited"}, spent \in Nat : EndRun(p, s) /\ EndLock(p, spent)
    BY <1>3
  <2>2. LockType'
    BY <2>1, EndRunType, EndLockType DEF LockType
  <2>3. pc'[p] = s
    BY <2>1 DEF EndRun, LockType
  <2>4. Kept
    BY <2>1, <2>3, EndLockType DEF LockType
  <2> QED BY <2>2, <2>4
<1>4. CASE TickRenew(p) \/ TickAcquire(p) \/ TickLost(p) \/ TickPassive(p)
  <2>1. PICK isActive \in BOOLEAN : Beat(p, isActive, 0)
    BY <1>4, Zenon DEF TickRenew, TickAcquire, TickLost, TickPassive
  <2>2. /\ \/ lock' = lock /\ ttl' = ttl
           \/ lock \in {p, None} /\ lock' = p /\ ttl' = LockTTL
        /\ failures' = [failures EXCEPT ![p] = 0] \/ failures' = failures
        /\ late' = [late EXCEPT ![p] = 0] \/ late' = late
    BY <1>4, Zenon DEF TickRenew, TickAcquire, TickLost, TickPassive, Renew, SetNX, Reset, lockVars
  <2>3. /\ pc' = pc /\ faults' \in 0 .. MaxFaults /\ active' \in [Pod -> BOOLEAN]
        /\ tick' \in [Pod -> BOOLEAN]
    BY <2>1, BeatType
  <2>4. failures' \in [Pod -> 0 .. MaxFailures - 1] /\ late' \in [Pod -> Nat]
    BY <2>2 DEF LockType
  <2>5. lock' \in Pod \cup {None} /\ ttl' \in 0 .. LockTTL /\ Kept
    BY <2>2 DEF LockType
  <2> QED BY <2>3, <2>4, <2>5 DEF LockType
<1>5. CASE /\ OnTick(p) /\ failures[p] + 1 < MaxFailures /\ Attempt(p)
           /\ failures' = [failures EXCEPT ![p] = @ + 1] /\ late' = late
           /\ Beat(p, active[p], 1)
  <2>1. active[p] \in BOOLEAN
    BY DEF LockType
  <2>2. /\ pc' = pc /\ faults' \in 0 .. MaxFaults /\ active' \in [Pod -> BOOLEAN]
        /\ tick' \in [Pod -> BOOLEAN]
    BY <1>5, <2>1, BeatType
  <2>3. failures' \in [Pod -> 0 .. MaxFailures - 1]
    BY <1>5 DEF LockType
  <2> QED BY <1>5, <2>2, <2>3, AttemptType DEF LockType
<1>6. CASE EndRun(p, "backoff") /\ Attempt(p) /\ Faults(2)
  BY <1>6, EndRunType, AttemptType DEF LockType, Faults
<1>7. CASE TickError(p)
  <2>1. CASE failures[p] + 1 < MaxFailures
    BY <1>5, <1>7, <2>1 DEF TickError, LockType
  <2>2. CASE EndRun(p, "backoff") /\ EndLock(p, 1)
    BY <1>3, <2>2
  <2> QED BY <1>6, <1>7, <2>1, <2>2 DEF TickError
<1>8. CASE TickUnhealthy(p)
  BY <1>3, <1>8 DEF TickUnhealthy
<1>9. CASE Stop(p)
  <2>1. CASE EndRun(p, "exited") /\ EndLock(p, 0)
    BY <1>3, <2>1
  <2>2. CASE /\ UNCHANGED <<lockVars, active, failures, tick, late, faults>>
             /\ pc' = [pc EXCEPT ![p] = "exited"]
    BY <2>2 DEF LockType, lockVars
  <2> QED BY <1>9, <2>1, <2>2 DEF Stop
<1>10. CASE Crash(p)
  <2>1. /\ active' = [active EXCEPT ![p] = FALSE] /\ tick' = [tick EXCEPT ![p] = FALSE]
        /\ failures' = [failures EXCEPT ![p] = 0] /\ late' = [late EXCEPT ![p] = 0]
        /\ pc' = [pc EXCEPT ![p] = "backoff"]
        /\ lock' = lock /\ ttl' = ttl /\ faults' \in 0 .. MaxFaults
    BY <1>10 DEF Crash, lockVars, Faults, LockType
  <2>2. active' \in [Pod -> BOOLEAN] /\ tick' \in [Pod -> BOOLEAN]
    BY <2>1, ZenonT(30) DEF LockType
  <2> QED BY <2>1, <2>2 DEF LockType
<1> QED BY <1>1, <1>2, <1>4, <1>7, <1>8, <1>9, <1>10 DEF OwnStep, handleHeartbeatTick

\* A step of one writer leaves a lock that another active writer holds as it is, and
\* its own lock fresh if it is active afterwards.
LEMMA OwnStepFresh ==
  ASSUME LockType, Fresh, NEW p \in Pod, OwnStep(p)
  PROVE  Fresh'
<1> DEFINE Others == /\ \A q \in Pod \ {p} :
                          /\ active'[q] = active[q] /\ pc'[q] = pc[q] /\ tick'[q] = tick[q]
                          /\ failures'[q] = failures[q] /\ late'[q] = late[q]
                     /\ lock \in Pod \ {p} => lock' = lock /\ ttl' = ttl
           Own == active'[p] => FreshAt(p)'
<1>0. SUFFICES Others /\ Own
  <2> SUFFICES ASSUME Others, Own, NEW q \in Pod, active'[q]
               PROVE  FreshAt(q)'
    BY DEF Fresh
  <2>1. CASE q = p
    BY <2>1
  <2>2. CASE q # p
    <3>1. /\ active[q] /\ pc'[q] = pc[q] /\ tick'[q] = tick[q]
          /\ failures'[q] = failures[q] /\ late'[q] = late[q]
      BY <2>2
    <3>2. FreshAt(q)
      BY <3>1 DEF Fresh
    <3>3. lock = q => lock' = lock /\ ttl' = ttl
      BY <2>2
    <3>4. Age(q)' = Age(q)
      BY <3>1 DEF Age, Pending
    <3> QED BY <3>1, <3>2, <3>3, <3>4 DEF FreshAt
  <2> QED BY <2>1, <2>2
<1>t. LockType'
  BY OwnStepLock
<1> USE ConstantsAssumption
<1>1. CASE runOnce(p)
  <2>1. /\ pc' = [pc EXCEPT ![p] = "run"]
        /\ failures' = failures /\ tick' = tick /\ late' = late /\ faults' \in 0 .. MaxFaults
    BY <1>1 DEF runOnce, Faults, LockType
  <2>2. ~active[p]
    BY <1>1 DEF runOnce, Fresh, FreshAt
  <2>3. \/ lock = None /\ lock' = p /\ ttl' = LockTTL /\ active' = [active EXCEPT ![p] = TRUE]
        \/ lock = None /\ lock' = p /\ ttl' = LockTTL /\ active' = active
        \/ lock' = lock /\ ttl' = ttl /\ active' = active
    BY <1>1 DEF runOnce, SetNX, lockVars
  <2>6. Others
    BY <2>1, <2>3 DEF LockType
  <2>7. Own
    <3>1. SUFFICES ASSUME active'[p] PROVE Own
      OBVIOUS
    <3>2. lock' = p /\ ttl' = LockTTL
      BY <2>2, <2>3, <3>1 DEF LockType
    <3>3. pc'[p] = "run" /\ Age(p)' \in Nat
      <4>1. failures'[p] \in Nat /\ late'[p] \in Nat /\ Pending(p)' \in Nat
        BY <1>t DEF LockType, Pending
      <4> QED BY <2>1, <4>1 DEF Age, LockType
    <3> QED BY <3>2, <3>3 DEF FreshAt
  <2> QED BY <2>6, <2>7
<1>2. CASE Relay(p) \/ Notified(p)
  <2>1. UNCHANGED <<lockVars, runVars>> /\ faults' \in 0 .. MaxFaults
    <3>1. CASE Relay(p)
      BY <3>1 DEF Relay, LockType
    <3>2. CASE Notified(p)
      BY <3>2, FlushFaults DEF Notified, LockType
    <3> QED BY <1>2, <3>1, <3>2
  <2>2. Others
    BY <2>1 DEF LockType, lockVars, runVars
  <2>3. Own
    BY <2>1 DEF Fresh, FreshAt, Age, Pending, lockVars, runVars
  <2> QED BY <2>2, <2>3
<1>3. CASE \E s \in {"backoff", "exited"}, spent \in Nat : EndRun(p, s) /\ EndLock(p, spent)
  <2>1. PICK s \in {"backoff", "exited"}, spent \in Nat : EndRun(p, s) /\ EndLock(p, spent)
    BY <1>3
  <2>3. Others /\ Own
    BY <2>1, EndRunType, EndLockType DEF LockType
  <2> QED BY <2>3
<1>4. CASE TickRenew(p) \/ TickAcquire(p)
  <2>1. /\ lock \in {p, None} /\ lock' = p /\ ttl' = LockTTL /\ pc[p] = "run"
        /\ Beat(p, TRUE, 0)
        /\ failures' = [failures EXCEPT ![p] = 0] /\ late' = [late EXCEPT ![p] = 0]
    BY <1>4, Zenon DEF TickRenew, TickAcquire, Renew, SetNX, Reset, OnTick
  <2>2. failures'[p] = 0 /\ late'[p] = 0
    BY <2>1 DEF LockType
  <2>3. /\ pc' = pc /\ faults' \in 0 .. MaxFaults /\ active' \in [Pod -> BOOLEAN]
        /\ tick' \in [Pod -> BOOLEAN] /\ active'[p] = TRUE /\ ~tick'[p]
        /\ \A q \in Pod \ {p} : active'[q] = active[q] /\ tick'[q] = tick[q]
    BY <2>1, BeatType, Zenon
  <2>5. Others
    BY <2>1, <2>3 DEF LockType
  <2>6. Own
    BY <2>1, <2>2, <2>3 DEF FreshAt, Age, Pending
  <2> QED BY <2>5, <2>6
<1>5. CASE TickLost(p) \/ TickPassive(p)
  <2>1. /\ lock' = lock /\ ttl' = ttl /\ Beat(p, FALSE, 0)
        /\ failures' = [failures EXCEPT ![p] = 0] \/ failures' = failures
        /\ late' = [late EXCEPT ![p] = 0] \/ late' = late
    BY <1>5, Zenon DEF TickLost, TickPassive, Reset, lockVars
  <2>2. /\ pc' = pc /\ faults' \in 0 .. MaxFaults /\ active' \in [Pod -> BOOLEAN]
        /\ tick' \in [Pod -> BOOLEAN] /\ active'[p] = FALSE /\ ~tick'[p]
        /\ \A q \in Pod \ {p} : active'[q] = active[q] /\ tick'[q] = tick[q]
    BY <2>1, BeatType, Zenon
  <2>4. Others
    BY <2>1, <2>2 DEF LockType
  <2>5. Own
    BY <2>2
  <2> QED BY <2>4, <2>5
<1>6. CASE /\ OnTick(p) /\ failures[p] + 1 < MaxFailures /\ Attempt(p)
           /\ failures' = [failures EXCEPT ![p] = @ + 1] /\ late' = late
           /\ Beat(p, active[p], 1)
  <2>1. active[p] \in BOOLEAN
    BY DEF LockType
  <2>2. /\ pc' = pc /\ faults' \in 0 .. MaxFaults /\ active' \in [Pod -> BOOLEAN]
        /\ tick' \in [Pod -> BOOLEAN] /\ active'[p] = active[p] /\ ~tick'[p]
        /\ \A q \in Pod \ {p} : active'[q] = active[q] /\ tick'[q] = tick[q]
    BY <1>6, <2>1, BeatType
  <2>3. failures' \in [Pod -> 0 .. MaxFailures - 1] /\ failures'[p] = failures[p] + 1
    BY <1>6 DEF LockType
  <2>5. Others
    BY <1>6, <2>2, AttemptType DEF LockType
  <2>6. Own
    <3>1. SUFFICES ASSUME active'[p] PROVE Own
      OBVIOUS
    <3>2. FreshAt(p)
      BY <2>2, <3>1, Zenon DEF Fresh
    <3>3. lock = p => lock' = p /\ (ttl' = ttl \/ ttl' = LockTTL)
      BY <1>6, AttemptType
    <3>4. tick[p] /\ Pending(p) = 1 /\ Pending(p)' = 0
      BY <1>6, <2>2 DEF OnTick, Pending
    <3>5. ttl \in Nat /\ failures[p] \in Nat /\ late[p] \in Nat
      BY DEF LockType
    <3>6. Age(p)' = Age(p) /\ Age(p) \in Nat
      BY <1>6, <2>3, <3>4, <3>5 DEF Age
    <3> QED BY <2>2, <3>2, <3>3, <3>5, <3>6 DEF FreshAt
  <2> QED BY <2>5, <2>6
<1>7. CASE EndRun(p, "backoff") /\ Attempt(p) /\ Faults(2)
  BY <1>7, EndRunType, AttemptType DEF LockType
<1>8. CASE /\ UNCHANGED <<lockVars, active, failures, tick, late, faults>>
           /\ pc[p] = "backoff" /\ pc' = [pc EXCEPT ![p] = "exited"]
  <2>1. ~active[p]
    BY <1>8 DEF Fresh, FreshAt
  <2> QED BY <1>8, <2>1 DEF LockType, lockVars
<1>9. CASE Crash(p)
  <2>1. /\ active' = [active EXCEPT ![p] = FALSE] /\ tick' = [tick EXCEPT ![p] = FALSE]
        /\ failures' = [failures EXCEPT ![p] = 0] /\ late' = [late EXCEPT ![p] = 0]
        /\ pc' = [pc EXCEPT ![p] = "backoff"]
        /\ lock' = lock /\ ttl' = ttl /\ faults' \in 0 .. MaxFaults
    BY <1>9 DEF Crash, lockVars, Faults, LockType
  <2>2. active' \in [Pod -> BOOLEAN] /\ tick' \in [Pod -> BOOLEAN] /\ ~active'[p]
    BY <2>1, Zenon DEF LockType
  <2>4. Others
    BY <2>1, SMTT(30), ZenonT(60) DEF LockType
  <2> QED BY <2>2, <2>4
<1>10. CASE TickError(p)
  <2>1. CASE /\ OnTick(p) /\ failures[p] + 1 < MaxFailures /\ Attempt(p)
             /\ failures' = [failures EXCEPT ![p] = @ + 1] /\ late' = late
             /\ Beat(p, active[p], 1)
    BY <1>6, <2>1, Zenon
  <2>2. CASE EndRun(p, "backoff") /\ EndLock(p, 1)
    <3>1. 1 \in Nat
      OBVIOUS
    <3> QED BY <1>3, <2>2, <3>1, Zenon
  <2>3. CASE EndRun(p, "backoff") /\ Attempt(p) /\ Faults(2)
    BY <1>7, <2>3, Zenon
  <2> QED BY <1>10, <2>1, <2>2, <2>3, Zenon DEF TickError
<1>11. CASE TickUnhealthy(p)
  BY <1>3, <1>11, SMTT(30), ZenonT(60) DEF TickUnhealthy
<1>12. CASE Stop(p)
  <2>1. CASE EndRun(p, "exited") /\ EndLock(p, 0)
    BY <1>3, <2>1, SMTT(30), ZenonT(60)
  <2> QED BY <1>8, <1>12, <2>1, ZenonT(60) DEF Stop
<1> QED BY <1>1, <1>2, <1>4, <1>5, <1>9, <1>10, <1>11, <1>12, ZenonT(60) DEF OwnStep, handleHeartbeatTick

-----------------------------------------------------------------------------
(* The theorems about the lock.                                            *)

\* Every step keeps the lock fresh.
LEMMA NextFresh ==
  ASSUME LockType, Fresh, [Next]_vars
  PROVE  LockType' /\ Fresh'
<1> USE ConstantsAssumption
<1>1. CASE Clock
  <2>1. /\ ttl' = IF ttl > 0 THEN ttl - 1 ELSE 0
        /\ lock' = IF ttl > 1 THEN lock ELSE None
        /\ tick' = [p \in Pod |-> pc[p] = "run"]
        /\ late' = [p \in Pod |-> IF tick[p] /\ active[p] THEN late[p] + 1 ELSE late[p]]
        /\ pc' = pc /\ active' = active /\ failures' = failures
    BY <1>1 DEF Clock
  <2>2. LockType'
    BY <1>1, ClockType
  <2>3. ASSUME NEW p \in Pod, active'[p]
        PROVE  FreshAt(p)'
    <3>1. active[p] /\ FreshAt(p)
      BY <2>1, <2>3 DEF Fresh
    <3>2. tick'[p]
      BY <2>1, <3>1, Zenon DEF FreshAt
    <3>3. late'[p] = IF tick[p] THEN late[p] + 1 ELSE late[p]
      BY <2>1, <3>1
    <3>4. ttl \in Nat /\ failures[p] \in Nat /\ late[p] \in Nat
      BY DEF LockType
    <3>5. Age(p)' = Age(p) + 1 /\ Age(p) \in Nat
      BY <2>1, <3>2, <3>3, <3>4 DEF Age, Pending
    <3> QED BY <2>1, <3>1, <3>4, <3>5 DEF FreshAt
  <2> QED BY <2>2, <2>3 DEF Fresh
<1>2. CASE Publish \/ UNCHANGED vars
  BY <1>2 DEF Publish, vars, lockVars, runVars, LockType, Fresh, FreshAt, Age, Pending
<1>3. CASE \E p \in Pod : OwnStep(p)
  BY <1>3, OwnStepLock, OwnStepFresh
<1> QED BY <1>1, <1>2, <1>3 DEF Next, OwnStep

\* The active writer holds the lock: as long as the heartbeats that passed over it leave
\* room for the failures it tolerates, flushBatch appends under the lock only, whatever
\* calls fail, whatever replies are lost and whichever pods crash or restart.
THEOREM ActiveWriterHoldsLock == Spec => []ActiveHoldsLock
<1>1. Init => LockType /\ Fresh
  BY ConstantsAssumption DEF Init, LockType, Fresh
<1>2. LockType /\ Fresh /\ [Next]_vars => (LockType /\ Fresh)'
  BY NextFresh
<1>3. LockType /\ Fresh => ActiveHoldsLock
  <2> SUFFICES ASSUME LockType, Fresh, NEW p \in Pod, active[p], OnTime(p)
               PROVE  lock = p
    BY DEF ActiveHoldsLock
  <2>1. failures[p] \in 0 .. MaxFailures - 1 /\ late[p] \in Nat /\ Pending(p) \in 0 .. 1
    BY DEF LockType, Pending
  <2>2. Age(p) < LockTTL
    BY <2>1, ConstantsAssumption DEF Age, OnTime
  <2>3. FreshAt(p)
    BY DEF Fresh
  <2>4. Age(p) \in Nat
    BY <2>1 DEF Age
  <2> QED BY <2>2, <2>3, <2>4, ConstantsAssumption DEF FreshAt
<1> QED BY <1>1, <1>2, <1>3, PTL DEF Spec

\* Hence no two pods append that are on time.
THEOREM SingleWriter ==
  Spec => [](\A p, q \in Pod : active[p] /\ active[q] /\ OnTime(p) /\ OnTime(q) => p = q)
<1> DEFINE One == \A p, q \in Pod : active[p] /\ active[q] /\ OnTime(p) /\ OnTime(q) => p = q
<1>1. ActiveHoldsLock => One
  BY DEF ActiveHoldsLock
<1> QED BY <1>1, ActiveWriterHoldsLock, PTL

-----------------------------------------------------------------------------
(* Types, and who may take a lock away; heartbeats may be late here.       *)

\* The types of the queues.
QueueType ==
  /\ notify \in [Pod -> BOOLEAN]
  /\ busCh \in [Pod -> Seq(1 .. MaxMsgs)] /\ workChan \in [Pod -> Seq(1 .. MaxMsgs)]
  /\ \A p \in Pod : Len(workChan[p]) <= WorkCap
  /\ published \in 0 .. MaxMsgs /\ stream \in Seq(1 .. MaxMsgs)

\* A part of a queue is a queue, and no longer.
LEMMA PartType ==
  ASSUME NEW s \in Seq(1 .. MaxMsgs), NEW i \in Nat \ {0}, NEW j \in 0 .. Len(s)
  PROVE  SubSeq(s, i, j) \in Seq(1 .. MaxMsgs) /\ Len(SubSeq(s, i, j)) <= Len(s)
<1>1. Len(s) \in Nat
  BY LenProperties
<1>2. ASSUME NEW k \in i .. j PROVE s[k] \in 1 .. MaxMsgs
  <2>1. k \in 1 .. Len(s)
    BY <1>1
  <2> QED BY <2>1, ElementOfSeq, Zenon
<1> QED BY <1>1, <1>2, SubSeqProperties

\* A batch keeps the queues' types.
LEMMA FlushType ==
  ASSUME QueueType, NEW p \in Pod, NEW isActive, NEW spent, flushBatch(p, isActive, spent)
  PROVE  /\ workChan' \in [Pod -> Seq(1 .. MaxMsgs)]
         /\ \A q \in Pod : Len(workChan'[q]) <= WorkCap
         /\ stream' \in Seq(1 .. MaxMsgs)
<1> DEFINE w == workChan[p]
           n == Least(Batch, Len(w))
<1>1. w \in Seq(1 .. MaxMsgs) /\ Len(w) \in Nat /\ Len(w) <= WorkCap
  BY LenProperties DEF QueueType
<1>2. n \in 0 .. Len(w)
  BY <1>1, ConstantsAssumption DEF Least
<1>3. workChan' = [workChan EXCEPT ![p] = SubSeq(w, n + 1, Len(w))]
  BY DEF flushBatch
<1>4. /\ SubSeq(w, n + 1, Len(w)) \in Seq(1 .. MaxMsgs)
      /\ Len(SubSeq(w, n + 1, Len(w))) <= Len(w)
  <2>1. n + 1 \in Nat \ {0} /\ Len(w) \in 0 .. Len(w)
    BY <1>1, <1>2
  <2> HIDE DEF w, n
  <2> QED BY <1>1, <2>1, PartType, Zenon
<1>5. Len(SubSeq(w, n + 1, Len(w))) <= WorkCap
  <2>1. Len(SubSeq(w, n + 1, Len(w))) \in Nat
    BY <1>4, LenProperties
  <2> QED BY <1>1, <1>4, <2>1, ConstantsAssumption
<1>6. stream' = stream \/ \E k \in 0 .. Len(w) : stream' = stream \o SubSeq(w, 1, k)
  <2>1. CASE stream' = (IF isActive THEN stream \o SubSeq(w, 1, n) ELSE stream)
    BY <1>2, <2>1, Zenon
  <2>2. CASE \E kept \in 0 .. n - 1 : stream' = stream \o SubSeq(w, 1, kept)
    <3> HIDE DEF w, n
    <3>1. 0 .. n - 1 \subseteq 0 .. Len(w)
      BY <1>1, <1>2
    <3> QED BY <2>2, <3>1
  <2> QED BY <2>1, <2>2, Zenon DEF flushBatch
<1>7. stream' \in Seq(1 .. MaxMsgs)
  <2>1. CASE stream' = stream
    BY <2>1 DEF QueueType
  <2>2. CASE \E k \in 0 .. Len(w) : stream' = stream \o SubSeq(w, 1, k)
    <3> HIDE DEF w
    <3>1. PICK k \in 0 .. Len(w) : stream' = stream \o SubSeq(w, 1, k)
      BY <2>2
    <3>2. SubSeq(w, 1, k) \in Seq(1 .. MaxMsgs)
      <4>1. 1 \in Nat \ {0}
        OBVIOUS
      <4> QED BY <1>1, <4>1, PartType, Zenon
    <3> QED BY <3>1, <3>2, ConcatProperties DEF QueueType
  <2> QED BY <1>6, <2>1, <2>2, SMTT(30), ZenonT(60)
<1> HIDE DEF w, n
<1>8. workChan' \in [Pod -> Seq(1 .. MaxMsgs)]
  BY <1>3, <1>4 DEF QueueType
<1>9. \A q \in Pod : Len(workChan'[q]) <= WorkCap
  BY <1>3, <1>5, Zenon DEF QueueType
<1> QED BY <1>7, <1>8, <1>9

\* A step of one writer keeps the queues' types.
LEMMA OwnStepQueue ==
  ASSUME LockType, QueueType, NEW p \in Pod, OwnStep(p)
  PROVE  QueueType'
<1> USE ConstantsAssumption
<1>1. CASE runOnce(p)
  BY <1>1 DEF runOnce, QueueType, queueVars
<1>2. CASE Relay(p)
  <2>1. busCh[p] \in Seq(1 .. MaxMsgs) /\ busCh[p] # <<>> /\ workChan[p] \in Seq(1 .. MaxMsgs)
    BY <1>2 DEF Relay, QueueType
  <2>2. Head(busCh[p]) \in 1 .. MaxMsgs /\ Tail(busCh[p]) \in Seq(1 .. MaxMsgs)
    BY <2>1, HeadTailProperties, Zenon
  <2>3. busCh' \in [Pod -> Seq(1 .. MaxMsgs)]
    BY <1>2, <2>2 DEF Relay, QueueType
  <2>4. published' = published /\ stream' = stream
    BY <1>2 DEF Relay
  <2>5. CASE Len(workChan[p]) < WorkCap
    <3>1. /\ workChan' = [workChan EXCEPT ![p] = Append(workChan[p], Head(busCh[p]))]
          /\ notify' = [notify EXCEPT ![p] = TRUE]
      BY <1>2, <2>5 DEF Relay
    <3>2. /\ Append(workChan[p], Head(busCh[p])) \in Seq(1 .. MaxMsgs)
          /\ Len(Append(workChan[p], Head(busCh[p]))) <= WorkCap
      BY <2>1, <2>2, <2>5, AppendProperties, LenProperties
    <3>3. notify' \in [Pod -> BOOLEAN]
      BY <3>1, Zenon DEF QueueType
    <3>4. workChan' \in [Pod -> Seq(1 .. MaxMsgs)] /\ \A q \in Pod : Len(workChan'[q]) <= WorkCap
      BY <3>1, <3>2 DEF QueueType
    <3> QED BY <2>3, <2>4, <3>3, <3>4 DEF QueueType
  <2>6. CASE ~(Len(workChan[p]) < WorkCap)
    BY <1>2, <2>3, <2>4, <2>6 DEF Relay, QueueType
  <2> QED BY <2>5, <2>6
<1>3. CASE Notified(p)
  <2>1. notify' \in [Pod -> BOOLEAN]
    BY <1>3, Zenon DEF Notified, QueueType
  <2> QED BY <1>3, <2>1, FlushType DEF Notified, QueueType
<1>4. CASE \E isActive \in BOOLEAN, spent \in Nat : Beat(p, isActive, spent)
  BY <1>4, FlushType DEF Beat, QueueType
<1>5. CASE \E s \in {"backoff", "exited"} : EndRun(p, s)
  <2>1. /\ busCh' = [busCh EXCEPT ![p] = <<>>]
        /\ workChan' = workChan /\ notify' = notify /\ published' = published /\ stream' = stream
    BY <1>5 DEF EndRun
  <2>2. busCh' \in [Pod -> Seq(1 .. MaxMsgs)]
    BY <2>1, EmptySeq DEF QueueType
  <2> QED BY <2>1, <2>2 DEF QueueType
<1>6. CASE Crash(p)
  <2>1. /\ busCh' = [busCh EXCEPT ![p] = <<>>] /\ workChan' = [workChan EXCEPT ![p] = <<>>]
        /\ published' = published /\ stream' = stream
    BY <1>6 DEF Crash
  <2>2. notify' \in [Pod -> BOOLEAN]
    BY <1>6, Zenon DEF Crash, QueueType
  <2>3. busCh' \in [Pod -> Seq(1 .. MaxMsgs)] /\ workChan' \in [Pod -> Seq(1 .. MaxMsgs)]
    BY <2>1, EmptySeq DEF QueueType
  <2>4. \A q \in Pod : Len(workChan'[q]) <= WorkCap
    BY <2>1, EmptySeq DEF QueueType
  <2> QED BY <2>1, <2>2, <2>3, <2>4 DEF QueueType
<1>7. CASE Stop(p)
  <2>1. CASE EndRun(p, "exited")
    BY <1>5, <2>1
  <2>2. CASE UNCHANGED <<queueVars, published, stream>>
    BY <2>2 DEF QueueType, queueVars
  <2> QED BY <1>7, <2>1, <2>2 DEF Stop
<1>8. CASE handleHeartbeatTick(p)
  <2>1. active[p] \in BOOLEAN
    BY DEF LockType
  <2>2. \/ \E isActive \in BOOLEAN, spent \in Nat : Beat(p, isActive, spent)
        \/ EndRun(p, "backoff")
    BY <1>8, <2>1, Zenon DEF handleHeartbeatTick, TickUnhealthy, TickRenew, TickLost, TickAcquire, TickPassive, TickError
  <2> QED BY <1>4, <1>5, <2>2
<1> QED BY <1>1, <1>2, <1>3, <1>6, <1>7, <1>8 DEF OwnStep

\* Every step keeps the types.
LEMMA NextType ==
  ASSUME LockType, QueueType, [Next]_vars
  PROVE  LockType' /\ QueueType'
<1> USE ConstantsAssumption
<1>1. CASE Clock
  <2>1. LockType'
    BY <1>1, ClockType
  <2> QED BY <1>1, <2>1 DEF Clock, QueueType, queueVars
<1>2. CASE Publish
  <2>1. LockType'
    BY <1>2 DEF Publish, LockType, lockVars, runVars
  <2>2. published' = published + 1 /\ published + 1 \in 1 .. MaxMsgs
    BY <1>2 DEF Publish, QueueType
  <2>3. \A q \in Pod : Append(busCh[q], published + 1) \in Seq(1 .. MaxMsgs)
    BY <2>2, AppendProperties DEF QueueType
  <2>4. busCh' \in [Pod -> Seq(1 .. MaxMsgs)]
    BY <1>2, <2>3, Zenon DEF Publish, QueueType
  <2> QED BY <1>2, <2>1, <2>2, <2>4 DEF Publish, QueueType
<1>3. CASE UNCHANGED vars
  BY <1>3 DEF vars, lockVars, runVars, queueVars, LockType, QueueType
<1>4. CASE \E p \in Pod : OwnStep(p)
  BY <1>4, OwnStepLock, OwnStepQueue
<1> QED BY <1>1, <1>2, <1>3, <1>4 DEF Next, OwnStep

\* The types hold from the start.
LEMMA InitTypes == Init => LockType /\ QueueType
<1> SUFFICES ASSUME Init PROVE LockType /\ QueueType
  OBVIOUS
<1>1. LockType
  BY ConstantsAssumption DEF Init, LockType
<1>2. \A p \in Pod : busCh[p] = <<>> /\ workChan[p] = <<>>
  BY Zenon DEF Init
<1>3. <<>> \in Seq(1 .. MaxMsgs) /\ Len(<<>>) = 0
  BY EmptySeq
<1>4. /\ busCh \in [Pod -> Seq(1 .. MaxMsgs)] /\ workChan \in [Pod -> Seq(1 .. MaxMsgs)]
      /\ stream \in Seq(1 .. MaxMsgs)
  BY <1>3 DEF Init
<1>5. ASSUME NEW p \in Pod PROVE Len(workChan[p]) <= WorkCap
  <2>1. Len(workChan[p]) = 0
    BY <1>2, <1>3, Zenon
  <2> QED BY <2>1, ConstantsAssumption
<1> QED BY <1>1, <1>4, <1>5, ConstantsAssumption DEF Init, QueueType

\* Type correctness; in particular workChan never exceeds its capacity and a run never
\* counts more failures than it tolerates.
THEOREM TypeCorrect == Spec => []TypeOK
<1>1. LockType /\ QueueType /\ [Next]_vars => (LockType /\ QueueType)'
  BY NextType
<1>2. LockType /\ QueueType => TypeOK
  BY DEF LockType, QueueType, TypeOK
<1> QED BY InitTypes, <1>1, <1>2, PTL DEF Spec

\* A writer never takes another's lock away, however late its heartbeats are: the scripts
\* that renew and release compare before they act.
THEOREM LockIsNotStolen == Spec => NoTheft
<1> DEFINE Step == \A q \in Pod : lock = q /\ lock' # q =>
                     lock' = None /\ (ttl <= 1 \/ (active[q] /\ pc'[q] # "run"))
<1>1. LockType /\ QueueType /\ [Next]_vars => (LockType /\ QueueType)'
  BY NextType
<1>2. LockType /\ QueueType /\ [Next]_vars => [Step]_vars
  <2> SUFFICES ASSUME LockType, [Next]_vars, NEW q \in Pod, lock = q, lock' # q
               PROVE  lock' = None /\ (ttl <= 1 \/ (active[q] /\ pc'[q] # "run"))
    OBVIOUS
  <2>1. CASE Clock
    BY <2>1 DEF Clock, LockType
  <2>2. CASE Publish \/ UNCHANGED vars
    BY <2>2 DEF Publish, vars, lockVars
  <2>3. CASE \E p \in Pod : OwnStep(p)
    BY <2>3, OwnStepLock
  <2> QED BY <2>1, <2>2, <2>3 DEF Next, OwnStep
<1> QED BY InitTypes, <1>1, <1>2, PTL DEF Spec, NoTheft
=============================================================================
