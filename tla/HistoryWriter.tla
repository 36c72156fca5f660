---------------------------- MODULE HistoryWriter ----------------------------
(***************************************************************************)
(* The message history (server/history/writer.go): every pod of the fleet  *)
(* hears every message of the bus, and the one that holds a lock in Valkey *)
(* appends them to the history streams.  The lock has a time to live and   *)
(* is renewed at every heartbeat; the pods that do not hold it try for it  *)
(* at every heartbeat and throw away what they hear.                       *)
(*                                                                         *)
(* Time is counted in heartbeats.  Clock is one interval: it ages the lock *)
(* and fires every running writer's ticker.  A writer that the scheduler,  *)
(* the garbage collector or a Valkey call without a deadline holds back    *)
(* misses it: its tick is still to be handled when the next one comes, and *)
(* the ticker drops that one.  This is one of the MaxFaults failures of    *)
(* the environment.  A lock renewed at a heartbeat that lives for t        *)
(* heartbeats and a bit (10s against 3s: t = 3) is LockTTL = t + 1.        *)
(*                                                                         *)
(* A Valkey call that fails may or may not have been applied.  One stream  *)
(* stands for all; trimming, expiry and the length of the delays between   *)
(* two runs are left out.                                                  *)
(***************************************************************************)
EXTENDS Integers, Sequences

CONSTANTS
  Pod,
  None,
  LockTTL,      \* HistoryWriterLockTTL, in heartbeats
  MaxFailures,  \* HistoryMaxConsecutiveLockFailures
  WorkCap,      \* HistoryWriterBuffer
  Batch,        \* HistoryWriterPipelineBatch
  MaxMsgs, MaxFaults

ASSUME ConstantsAssumption ==
  /\ None \notin Pod
  /\ LockTTL \in Nat \ {0} /\ MaxFailures \in Nat \ {0}
  /\ WorkCap \in Nat \ {0} /\ Batch \in Nat \ {0}
  /\ MaxMsgs \in Nat /\ MaxFaults \in Nat

VARIABLES
  lock,      \* the value of the lock's key, None when the key is absent
  ttl,       \* what is left of its time to live
  pc,        \* "run", "backoff" (Run between two runs) or "exited"
  active,    \* isActiveWriter
  failures,  \* consecutiveLockFailures of this run
  tick,      \* the ticker's channel holds a tick
  late,      \* intervals that passed over an active writer since Valkey last answered it
  busCh,     \* the bus subscription of this run
  workChan,
  notify,    \* notifyChan holds a signal
  published, \* messages 1 .. published went over the bus
  stream,    \* what XADD appended
  faults     \* failures of the environment so far

lockVars == <<lock, ttl>>
runVars == <<pc, active, failures, tick, late>>
queueVars == <<busCh, workChan, notify>>
vars == <<lockVars, runVars, queueVars, published, stream, faults>>

Least(a, b) == IF a < b THEN a ELSE b

Init ==
  /\ lock = None /\ ttl = 0
  /\ pc = [p \in Pod |-> "backoff"]
  /\ active = [p \in Pod |-> FALSE]
  /\ failures = [p \in Pod |-> 0]
  /\ tick = [p \in Pod |-> FALSE]
  /\ late = [p \in Pod |-> 0]
  /\ busCh = [p \in Pod |-> <<>>]
  /\ workChan = [p \in Pod |-> <<>>]
  /\ notify = [p \in Pod |-> FALSE]
  /\ published = 0 /\ stream = <<>>
  /\ faults = 0

----------------------------------------------------------------------------
(* Valkey.                                                                 *)

Faults(n) == faults + n <= MaxFaults /\ faults' = faults + n

\* SET key pod NX PX ttl, when the key is absent
SetNX(p) == lock = None /\ lock' = p /\ ttl' = LockTTL

\* historyWriterLockRenewLuaScript, when it finds its own value
Renew(p) == lock = p /\ lock' = lock /\ ttl' = LockTTL

\* Mutant: DEL without the comparison.
ReleaseAny(p) == lock' = None /\ ttl' = 0

\* historyWriterLockReleaseLuaScript: compare and delete
Release(p) ==
  IF lock = p THEN lock' = None /\ ttl' = 0 ELSE UNCHANGED lockVars

\* Mutant: the lock does not expire.
ClockNoExpiry ==
  /\ Faults(IF \E p \in Pod : tick[p] THEN 1 ELSE 0)
  /\ tick' = [p \in Pod |-> pc[p] = "run"]
  /\ late' = [p \in Pod |-> IF tick[p] /\ active[p] THEN late[p] + 1 ELSE late[p]]
  /\ UNCHANGED <<lockVars, pc, active, failures, queueVars, published, stream>>

\* one heartbeat interval passes, over writers that are held back as well
Clock ==
  /\ Faults(IF \E p \in Pod : tick[p] THEN 1 ELSE 0)
  /\ ttl' = IF ttl > 0 THEN ttl - 1 ELSE 0
  /\ lock' = IF ttl > 1 THEN lock ELSE None
  /\ tick' = [p \in Pod |-> pc[p] = "run"]
  /\ late' = [p \in Pod |-> IF tick[p] /\ active[p] THEN late[p] + 1 ELSE late[p]]
  /\ UNCHANGED <<pc, active, failures, queueVars, published, stream>>

----------------------------------------------------------------------------
(* The bus and the relay goroutine.                                        *)

Publish ==
  /\ published < MaxMsgs
  /\ published' = published + 1
  /\ busCh' = [p \in Pod |-> IF pc[p] = "run" THEN Append(busCh[p], published + 1)
                                              ELSE busCh[p]]
  /\ UNCHANGED <<lockVars, runVars, workChan, notify, stream, faults>>

Relay(p) ==
  /\ pc[p] = "run" /\ busCh[p] # <<>>
  /\ busCh' = [busCh EXCEPT ![p] = Tail(@)]
  /\ IF Len(workChan[p]) < WorkCap
       THEN /\ workChan' = [workChan EXCEPT ![p] = Append(@, Head(busCh[p]))]
            /\ notify' = [notify EXCEPT ![p] = TRUE]
       ELSE UNCHANGED <<workChan, notify>>
  /\ UNCHANGED <<lockVars, runVars, published, stream, faults>>

----------------------------------------------------------------------------
(* One run of the writer.                                                  *)

\* An active writer appends a batch, a passive one drops it.  When the pipeline
\* fails from some XADD on, the rest is not tried again.
flushBatch(p, isActive, spent) ==
  LET n == Least(Batch, Len(workChan[p])) IN
  /\ workChan' = [workChan EXCEPT ![p] = SubSeq(@, n + 1, Len(@))]
  /\ \/ /\ stream' = IF isActive THEN stream \o SubSeq(workChan[p], 1, n) ELSE stream
        /\ Faults(spent)
     \/ /\ isActive
        /\ \E kept \in 0 .. n - 1 : stream' = stream \o SubSeq(workChan[p], 1, kept)
        /\ Faults(spent + 1)

\* tryAcquireLock, then SubscribeAll
runOnce(p) ==
  /\ pc[p] = "backoff"
  /\ \/ SetNX(p) /\ active' = [active EXCEPT ![p] = TRUE] /\ Faults(0)
     \/ lock # None /\ UNCHANGED <<lockVars, active>> /\ Faults(0)
     \/ (SetNX(p) \/ UNCHANGED lockVars) /\ UNCHANGED active /\ Faults(1)
  /\ pc' = [pc EXCEPT ![p] = "run"]
  /\ UNCHANGED <<failures, tick, late, queueVars, published, stream>>

\* the deferred calls of runOnce, but for the lock
EndRun(p, state) ==
  /\ pc' = [pc EXCEPT ![p] = state]
  /\ active' = [active EXCEPT ![p] = FALSE]
  /\ failures' = [failures EXCEPT ![p] = 0]
  /\ tick' = [tick EXCEPT ![p] = FALSE]
  /\ late' = [late EXCEPT ![p] = 0]
  /\ busCh' = [busCh EXCEPT ![p] = <<>>]
  /\ UNCHANGED <<workChan, notify, published, stream>>

\* an active writer releases the lock; the release may fail
EndLock(p, spent) ==
  \/ (IF active[p] THEN Release(p) ELSE UNCHANGED lockVars) /\ Faults(spent)
  \/ active[p] /\ UNCHANGED lockVars /\ Faults(spent + 1)

\* Mutant: no flushBatch at a heartbeat.
BeatOnly(p, isActive, spent) ==
  /\ active' = [active EXCEPT ![p] = isActive]
  /\ tick' = [tick EXCEPT ![p] = FALSE]
  /\ Faults(spent)
  /\ UNCHANGED <<pc, queueVars, published, stream>>

\* the rest of a heartbeat that ends in flushBatch
Beat(p, isActive, spent) ==
  /\ active' = [active EXCEPT ![p] = isActive]
  /\ flushBatch(p, isActive, spent)
  /\ tick' = [tick EXCEPT ![p] = FALSE]
  /\ UNCHANGED <<pc, busCh, notify, published>>

OnTick(p) == pc[p] = "run" /\ tick[p]

\* Valkey answered
Reset(p) ==
  /\ failures' = [failures EXCEPT ![p] = 0]
  /\ late' = [late EXCEPT ![p] = 0]

\* the bus cannot publish: restart
TickUnhealthy(p) == OnTick(p) /\ EndRun(p, "backoff") /\ EndLock(p, 1)

TickRenew(p) == OnTick(p) /\ active[p] /\ Renew(p) /\ Reset(p) /\ Beat(p, TRUE, 0)

\* the script finds another value or none
TickLost(p) ==
  /\ OnTick(p) /\ active[p] /\ lock # p
  /\ Reset(p) /\ Beat(p, FALSE, 0) /\ UNCHANGED lockVars

TickAcquire(p) == OnTick(p) /\ ~active[p] /\ SetNX(p) /\ Reset(p) /\ Beat(p, TRUE, 0)

TickPassive(p) ==
  /\ OnTick(p) /\ ~active[p] /\ lock # None
  /\ Beat(p, FALSE, 0) /\ UNCHANGED <<lockVars, failures, late>>

\* the call fails: it was applied, or not; the writer restarts at MaxFailures
Attempt(p) == (active[p] /\ Renew(p)) \/ (~active[p] /\ SetNX(p)) \/ UNCHANGED lockVars

\* Mutant: failures are not counted.
TickErrorForgets(p) ==
  /\ OnTick(p)
  /\ Attempt(p)
  /\ UNCHANGED <<failures, late>>
  /\ Beat(p, active[p], 1)

\* Mutant: the writer never steps down.
TickErrorStays(p) ==
  /\ OnTick(p)
  /\ Attempt(p)
  /\ failures' = [failures EXCEPT ![p] = @ + 1] /\ UNCHANGED late
  /\ Beat(p, active[p], 1)

TickError(p) ==
  /\ OnTick(p)
  /\ \/ /\ failures[p] + 1 < MaxFailures
        /\ Attempt(p)
        /\ failures' = [failures EXCEPT ![p] = @ + 1] /\ UNCHANGED late
        /\ Beat(p, active[p], 1)
     \/ /\ failures[p] + 1 >= MaxFailures
        /\ EndRun(p, "backoff")
        /\ \/ EndLock(p, 1)
           \/ Attempt(p) /\ Faults(2)

\* the signal of the relay
Notified(p) ==
  /\ pc[p] = "run" /\ notify[p]
  /\ notify' = [notify EXCEPT ![p] = FALSE]
  /\ flushBatch(p, active[p], 0)
  /\ UNCHANGED <<lockVars, runVars, busCh, published>>

\* the server shuts down
Stop(p) ==
  \/ pc[p] = "run" /\ EndRun(p, "exited") /\ EndLock(p, 0)
  \/ /\ pc[p] = "backoff" /\ pc' = [pc EXCEPT ![p] = "exited"]
     /\ UNCHANGED <<lockVars, active, failures, tick, late, queueVars, published, stream, faults>>

\* the process dies and is started again; the lock is left behind
Crash(p) ==
  /\ pc[p] = "run" /\ Faults(1)
  /\ pc' = [pc EXCEPT ![p] = "backoff"]
  /\ active' = [active EXCEPT ![p] = FALSE]
  /\ failures' = [failures EXCEPT ![p] = 0]
  /\ tick' = [tick EXCEPT ![p] = FALSE]
  /\ late' = [late EXCEPT ![p] = 0]
  /\ busCh' = [busCh EXCEPT ![p] = <<>>]
  /\ workChan' = [workChan EXCEPT ![p] = <<>>]
  /\ notify' = [notify EXCEPT ![p] = FALSE]
  /\ UNCHANGED <<lockVars, published, stream>>

handleHeartbeatTick(p) ==
  TickUnhealthy(p) \/ TickRenew(p) \/ TickLost(p) \/ TickAcquire(p) \/ TickPassive(p) \/ TickError(p)

Next ==
  \/ Clock \/ Publish
  \/ \E p \in Pod : runOnce(p) \/ Relay(p) \/ handleHeartbeatTick(p) \/ Notified(p) \/ Stop(p) \/ Crash(p)

Spec == Init /\ [][Next]_vars

\* Time passes, goroutines that can run do, and the arms of runOnce's select
\* are chosen at random among the ready ones.
FairSpec ==
  /\ Spec /\ WF_vars(Clock)
  /\ \A p \in Pod : /\ WF_vars(runOnce(p)) /\ WF_vars(Relay(p))
                    /\ SF_vars(handleHeartbeatTick(p)) /\ SF_vars(Notified(p))

----------------------------------------------------------------------------
(* Properties.                                                             *)

\* Types, with the capacity of workChan and the failures a writer may survive.
TypeOK ==
  /\ lock \in Pod \cup {None} /\ ttl \in 0 .. LockTTL
  /\ pc \in [Pod -> {"run", "backoff", "exited"}]
  /\ active \in [Pod -> BOOLEAN] /\ tick \in [Pod -> BOOLEAN] /\ notify \in [Pod -> BOOLEAN]
  /\ failures \in [Pod -> 0 .. MaxFailures - 1] /\ late \in [Pod -> Nat]
  /\ busCh \in [Pod -> Seq(1 .. MaxMsgs)] /\ workChan \in [Pod -> Seq(1 .. MaxMsgs)]
  /\ \A p \in Pod : Len(workChan[p]) <= WorkCap
  /\ published \in 0 .. MaxMsgs /\ stream \in Seq(1 .. MaxMsgs)
  /\ faults \in 0 .. MaxFaults

\* the heartbeats that passed over a writer leave room for the failures it tolerates
OnTime(p) == late[p] + MaxFailures < LockTTL

\* "Exactly one pod in the cluster holds the active-writer lock at a time; all
\* other pods run as passive observers that skip XADD": a writer that takes
\* itself for the active one holds the lock, unless so many heartbeats passed
\* over it that the lock expired before it could count its failures.
ActiveHoldsLock == \A p \in Pod : active[p] /\ OnTime(p) => lock = p

\* The comment's words, late or not: no two pods take themselves for the writer.
OneWriter == \A p, q \in Pod : active[p] /\ active[q] => p = q

\* A lock goes away when its time is over or when its active holder ends its
\* run: a writer that still takes itself for the active one after the lock
\* passed to another pod never deletes that pod's lock.
NoTheft ==
  [][\A q \in Pod : lock = q /\ lock' # q =>
       lock' = None /\ (ttl <= 1 \/ (active[q] /\ pc'[q] # "run"))]_vars

\* Whatever fails, crashes or restarts, and whoever held the lock when it did,
\* some running pod becomes the writer again, unless all pods were shut down.
WriterReturns ==
  []<>((\A p \in Pod : pc[p] = "exited") \/ (\E p \in Pod : pc[p] = "run" /\ active[p] /\ lock = p))

\* notifyChan holds one signal and flushBatch takes one batch, so signals are
\* lost; what is queued is still taken, by the heartbeat if by nothing else.
Drained ==
  \A p \in Pod : pc[p] = "run" /\ workChan[p] # <<>> ~> (workChan[p] = <<>> \/ pc[p] = "exited")
=============================================================================
