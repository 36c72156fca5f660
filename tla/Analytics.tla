------------------------------ MODULE Analytics ------------------------------
(***************************************************************************)
(* Usage analytics.  Producers add events to an in-memory counter map; a   *)
(* flush loop and a downgrade poller swap the map out and write it to the  *)
(* database, keeping what failed in a bounded queue.  The provisioning     *)
(* pods promote the minute rows to hour and day rows and maintain the      *)
(* partitions, and the administrator's streams read the result.            *)
(*                                                                         *)
(* The counters of a map are the events added to it; the rows of a bucket  *)
(* are their number.  Time is counted in hours, HoursPerDay to the day.    *)
(***************************************************************************)
EXTENDS Naturals, Sequences, FiniteSets, FiniteSetsExt

CONSTANTS Event, KeyOf, Before, BufferSize, QueueCap, MaxFlushes, MaxFaults,
          Tables, Pod, HoursPerDay, MaxHour, MaxRows, MaxStatementFaults, MinuteRetention,
          HourRetention, Viewer, MaxConns

VARIABLES current,      \* the map producers load
          maps,         \* the keys and events of every map made so far
          producers,    \* the producer of each event
          flushEnabled, \* producers record
          edition,      \* the edition has the feature
          procs,        \* the flush loop and the downgrade poller
          pending,      \* pendingFlush
          stored,       \* how often the database counts each event
          counted,      \* events given up and counted in a drop metric
          logged,       \* events the drain at shutdown gave up
          late,         \* events added to a map that had been swapped out
          unsure,       \* events of a batch that was applied but reported failed
          ctx,          \* the context of the service is cancelled
          budget,       \* flushes and faults so far
          hour, minuteRows, hourRows, dayRows, \* the clock and the tables
          parts,        \* where the rows of each day are, minute and hour tables
          jobs,         \* the tickers of each provisioning pod
          viewers       \* the streams of administrators

collectorVars == <<current, maps, producers, flushEnabled, edition, procs, pending, stored, counted,
                   logged, late, unsure, ctx>>
rollupVars == <<hour, minuteRows, hourRows, dayRows, parts, jobs>>
vars == <<collectorVars, budget, rollupVars, viewers>>

Table == {Tables[i] : i \in 1..Len(Tables)}
Job == {"hour", "day"}
Class == {"minute", "hour"}
Proc == {"loop", "poller"}
Retention == [minute |-> MinuteRetention, hour |-> HourRetention]
Key == {KeyOf[e] : e \in Event}
DayOf(h) == h \div HoursPerDay
Days == 0..DayOf(MaxHour)

\* newCounterMap
EmptyMap == [keys |-> {}, events |-> {}]
IdleProc == [pc |-> "wait", mode |-> "", map |-> 0, batch |-> {}, target |-> 0, todo |-> {}]
IdleJob == [pc |-> "wait", table |-> 1, bucket |-> 0, sum |-> 0, next |-> 0]
Interval(j) == IF j = "hour" THEN 1 ELSE HoursPerDay

\* AnalyticsManager.Start: each pod's tickers count from the time it started.
\* The first maintenance has made the partitions of the two days to come; today
\* has one if a pod ran the day before, else its rows go to the default one.
Started ==
    /\ \E start \in [Pod -> 0..HoursPerDay - 1] :
         jobs = [p \in Pod |-> [j \in Job |-> [IdleJob EXCEPT !.next = start[p] + Interval(j)]]]
    /\ \E today \in {"own", "default"} :
         parts = [c \in Class |-> [d \in Days |-> CASE d = 0 -> today [] d \in {1, 2} -> "own" [] OTHER -> "default"]]

\* newRealCollector, with its first map and collection switched on.
Init ==
    /\ current = 1 /\ maps = <<EmptyMap>>
    /\ producers = [e \in Event |-> [pc |-> "idle", map |-> 0]]
    /\ flushEnabled = TRUE /\ edition = TRUE
    /\ procs = [p \in Proc |-> IdleProc] /\ pending = <<>>
    /\ stored = [e \in Event |-> 0]
    /\ counted = {} /\ logged = {} /\ late = {} /\ unsure = {}
    /\ ctx = FALSE /\ budget = [flushes |-> 0, faults |-> 0, rows |-> 0]
    /\ hour = 0
    /\ minuteRows = [t \in Table |-> [h \in 0..MaxHour |-> 0]]
    /\ hourRows = [t \in Table |-> [h \in 0..MaxHour |-> 0]]
    /\ dayRows = [t \in Table |-> [d \in Days |-> 0]]
    /\ Started
    /\ viewers = [v \in Viewer |-> [pc |-> "none", seen |-> {}]]

TypeOK ==
    /\ current = Len(maps) /\ \A i \in 1..Len(maps) : maps[i].keys \subseteq Key /\ maps[i].events \subseteq Event
    /\ \A e \in Event : producers[e].pc \in {"idle", "loaded", "done", "off"} /\ producers[e].map \in 0..current
    /\ flushEnabled \in BOOLEAN /\ edition \in BOOLEAN /\ ctx \in BOOLEAN
    /\ \A p \in Proc : /\ procs[p].pc \in {"wait", "swap", "build", "send", "enqueue", "retry", "merge",
                                             "replay", "requeue", "drain", "close", "exited"}
                       /\ procs[p].mode \in {"", "flush", "downgrade", "final", "replay", "drain"}
    /\ Len(pending) <= QueueCap /\ \A e \in Event : stored[e] \in Nat
    /\ counted \cup logged \cup late \cup unsure \subseteq Event
    /\ hour \in 0..MaxHour
    /\ \A c \in Class, d \in Days : parts[c][d] \in {"default", "own", "dropped"}
    /\ \A p \in Pod, j \in Job : jobs[p][j].pc \in {"wait", "lock", "read", "write", "exited"}
    /\ \A v \in Viewer : viewers[v].pc \in {"none", "open", "stream", "refused", "closed"}

(***************************************************************************)
(* Producers                                                               *)
(***************************************************************************)
\* IncrementConnections, IncrementMessages and RecordPushDelivery begin alike:
\* with collection switched off nothing is recorded, else the map is loaded.
\* Before[e] are the events that the goroutine of e records first.
Load(e) ==
    /\ producers[e].pc = "idle" /\ \A f \in Before[e] : producers[f].pc \in {"done", "off"}
    /\ producers' = [producers EXCEPT ![e] = IF flushEnabled THEN [pc |-> "loaded", map |-> current]
                                                             ELSE [pc |-> "off", map |-> 0]]
    /\ UNCHANGED <<current, maps, flushEnabled, edition, procs, pending, stored, counted, logged, late,
                   unsure, ctx, budget, rollupVars, viewers>>

\* Under the mutex of the map: the entry of the key, a new one, or a drop that
\* is counted when the buffer is full.  The atomic additions to the entry follow
\* whatever has become of its map: an event is late if it was swapped out.
HasRoom(m, k) == k \in maps[m].keys \/ Cardinality(maps[m].keys) < BufferSize
getOrCreate(e) ==
    LET m == producers[e].map
    IN  /\ producers[e].pc = "loaded"
        /\ \/ /\ HasRoom(m, KeyOf[e])
              /\ maps' = [maps EXCEPT ![m].keys = @ \cup {KeyOf[e]}, ![m].events = @ \cup {e}]
              /\ late' = IF m = current THEN late ELSE late \cup {e}
              /\ UNCHANGED counted
           \/ /\ ~HasRoom(m, KeyOf[e])
              /\ counted' = counted \cup {e} /\ UNCHANGED <<maps, late>>
        /\ producers' = [producers EXCEPT ![e].pc = "done"]
        /\ UNCHANGED <<current, flushEnabled, edition, procs, pending, stored, logged, unsure, ctx, budget,
                       rollupVars, viewers>>

(***************************************************************************)
(* Flushing                                                                *)
(***************************************************************************)
Goto(p, pc) == procs' = [procs EXCEPT ![p].pc = pc]
Release(p, pc) == procs' = [procs EXCEPT ![p] = [IdleProc EXCEPT !.pc = pc]]

\* What follows a flush: flush drains one pending snapshot if it succeeded, the
\* poller switches collection off, the loop drains the queue at shutdown.
AfterFlush(mode, ok) ==
    CASE mode = "flush" -> IF ok THEN "replay" ELSE "wait"
      [] mode = "downgrade" -> "close"
      [] mode = "final" -> "drain"
      [] mode = "replay" -> "wait"
      [] mode = "drain" -> "drain"

\* A tick of runFlushLoop: flush looks at the edition first.
FlushTick ==
    /\ procs["loop"].pc = "wait" /\ budget.flushes < MaxFlushes
    /\ edition
    /\ procs' = [procs EXCEPT !["loop"] = [IdleProc EXCEPT !.pc = "swap", !.mode = "flush"]]
    /\ budget' = [budget EXCEPT !.flushes = @ + 1]
    /\ UNCHANGED <<current, maps, producers, flushEnabled, edition, pending, stored, counted, logged, late,
                   unsure, ctx, rollupVars, viewers>>

\* A tick of runDowngradePoller: a final flush when the gate has closed, and
\* collection resumes when it has opened again.
PollTick ==
    /\ procs["poller"].pc = "wait" /\ budget.flushes < MaxFlushes
    /\ \/ /\ ~edition /\ flushEnabled
          /\ procs' = [procs EXCEPT !["poller"] = [IdleProc EXCEPT !.pc = "swap", !.mode = "downgrade"]]
          /\ UNCHANGED flushEnabled
       \/ /\ edition /\ ~flushEnabled
          /\ flushEnabled' = TRUE /\ UNCHANGED procs
    /\ budget' = [budget EXCEPT !.flushes = @ + 1]
    /\ UNCHANGED <<current, maps, producers, edition, pending, stored, counted, logged, late, unsure, ctx,
                   rollupVars, viewers>>
GoDark ==
    /\ procs["poller"].pc = "close"
    /\ flushEnabled' = FALSE /\ Goto("poller", "wait")
    /\ UNCHANGED <<current, maps, producers, edition, pending, stored, counted, logged, late, unsure, ctx,
                   budget, rollupVars, viewers>>

\* The cancelled context: the poller returns, the loop makes its final flush.
Leave(p) ==
    /\ procs[p].pc = "wait" /\ ctx
    /\ procs' = [procs EXCEPT ![p] = IF p = "poller" THEN [IdleProc EXCEPT !.pc = "exited"]
                                                     ELSE [IdleProc EXCEPT !.pc = "swap", !.mode = "final"]]
    /\ UNCHANGED <<current, maps, producers, flushEnabled, edition, pending, stored, counted, logged, late,
                   unsure, ctx, budget, rollupVars, viewers>>

\* flush and flushUnchecked: current.Swap(fresh), and isEmpty.  A producer that
\* gets in between the two is late either way.
Swap(p) ==
    /\ procs[p].pc = "swap"
    /\ maps' = Append(maps, EmptyMap) /\ current' = current + 1
    /\ IF maps[current].keys # {}
       THEN procs' = [procs EXCEPT ![p].pc = "build", ![p].map = current]
       ELSE Release(p, IF procs[p].mode = "flush" THEN "wait" ELSE AfterFlush(procs[p].mode, TRUE))
    /\ UNCHANGED <<producers, flushEnabled, edition, pending, stored, counted, logged, late, unsure, ctx,
                   budget, rollupVars, viewers>>

\* buildBatch reads the counters of every key under the mutex of the map.
buildBatch(p) ==
    /\ procs[p].pc = "build"
    /\ procs' = [procs EXCEPT ![p].pc = "send", ![p].batch = maps[procs[p].map].events]
    /\ UNCHANGED <<current, maps, producers, flushEnabled, edition, pending, stored, counted, logged, late,
                   unsure, ctx, budget, rollupVars, viewers>>

\* The upserts of a batch are one implicit transaction and add to the rows.
Upsert(batch) == stored' = [e \in Event |-> stored[e] + (IF e \in batch THEN 1 ELSE 0)]

SendSucceeds(p) ==
    /\ procs[p].pc = "send"
    /\ Upsert(procs[p].batch)
    /\ Release(p, AfterFlush(procs[p].mode, TRUE))
    /\ UNCHANGED <<current, maps, producers, flushEnabled, edition, pending, counted, logged, late, unsure, ctx,
                   budget, rollupVars, viewers>>

\* A failed batch is queued again, or given up with a log line by the drain at
\* shutdown.  The batch may have been applied all the same, its reply lost.
\* The poller's context is the cancelled one, the final flush has its own.
SendFails(p) ==
    /\ procs[p].pc = "send"
    /\ \/ /\ budget.faults < MaxFaults /\ budget' = [budget EXCEPT !.faults = @ + 1]
          /\ \/ UNCHANGED <<stored, unsure>>
             \/ Upsert(procs[p].batch) /\ unsure' = unsure \cup procs[p].batch
       \/ ctx /\ procs[p].mode \in {"flush", "downgrade", "replay"} /\ UNCHANGED <<budget, stored, unsure>>
    /\ CASE procs[p].mode = "drain" -> /\ logged' = logged \cup maps[procs[p].map].events
                                       /\ Release(p, "drain")
         [] procs[p].mode = "replay" -> Goto(p, "requeue") /\ UNCHANGED logged
         [] OTHER -> Goto(p, "enqueue") /\ UNCHANGED logged
    /\ UNCHANGED <<current, maps, producers, flushEnabled, edition, pending, counted, late, ctx, rollupVars, viewers>>

\* Mutant: the oldest snapshot is dropped without the metric.
EnqueueForgets(p) ==
    /\ procs[p].pc = "enqueue"
    /\ \/ /\ Len(pending) < QueueCap
          /\ pending' = Append(pending, procs[p].map)
          /\ Release(p, AfterFlush(procs[p].mode, FALSE))
       \/ /\ Len(pending) = QueueCap
          /\ pending' = Tail(pending) /\ Goto(p, "retry")
    /\ UNCHANGED <<current, maps, producers, flushEnabled, edition, stored, counted, logged, late, unsure, ctx,
                   budget, rollupVars, viewers>>

\* enqueuePendingOrMerge, one channel operation at a time: queue the snapshot;
\* when the queue is full drop the oldest, counted, and try again; when another
\* process has filled it meanwhile, add the snapshot to the map then current.
Enqueue(p) ==
    /\ procs[p].pc = "enqueue"
    /\ \/ /\ Len(pending) < QueueCap
          /\ pending' = Append(pending, procs[p].map)
          /\ Release(p, AfterFlush(procs[p].mode, FALSE)) /\ UNCHANGED counted
       \/ /\ Len(pending) = QueueCap
          /\ pending' = Tail(pending) /\ counted' = counted \cup maps[Head(pending)].events
          /\ Goto(p, "retry")
    /\ UNCHANGED <<current, maps, producers, flushEnabled, edition, stored, logged, late, unsure, ctx, budget,
                   rollupVars, viewers>>
Retry(p) ==
    /\ procs[p].pc = "retry"
    /\ \/ /\ Len(pending) < QueueCap
          /\ pending' = Append(pending, procs[p].map)
          /\ Release(p, AfterFlush(procs[p].mode, FALSE))
       \/ /\ Len(pending) = QueueCap
          /\ procs' = [procs EXCEPT ![p].pc = "merge", ![p].target = current,
                                    ![p].todo = maps[procs[p].map].keys]
          /\ UNCHANGED pending
    /\ UNCHANGED <<current, maps, producers, flushEnabled, edition, stored, counted, logged, late, unsure, ctx,
                   budget, rollupVars, viewers>>

\* mergeBack, key by key, into the map that was current when it began.  A key
\* that finds the buffer full is dropped and counted.
mergeBack(p) ==
    /\ procs[p].pc = "merge"
    /\ \/ /\ procs[p].todo = {} /\ Release(p, AfterFlush(procs[p].mode, FALSE))
          /\ UNCHANGED <<maps, counted, late>>
       \/ \E k \in procs[p].todo :
            LET t == procs[p].target
                moved == {e \in maps[procs[p].map].events : KeyOf[e] = k}
            IN  /\ procs' = [procs EXCEPT ![p].todo = @ \ {k}]
                /\ IF HasRoom(t, k)
                   THEN /\ maps' = [maps EXCEPT ![t].keys = @ \cup {k}, ![t].events = @ \cup moved]
                        /\ late' = IF t = current THEN late ELSE late \cup moved
                        /\ UNCHANGED counted
                   ELSE counted' = counted \cup moved /\ UNCHANGED <<maps, late>>
    /\ UNCHANGED <<current, producers, flushEnabled, edition, pending, stored, logged, unsure, ctx, budget,
                   rollupVars, viewers>>

\* After a flush that succeeded one pending snapshot is sent again; at shutdown
\* the loop sends all of them and returns.
TakePending(p) ==
    /\ procs[p].pc \in {"replay", "drain"}
    /\ \/ /\ pending # <<>>
          /\ procs' = [procs EXCEPT ![p] = [IdleProc EXCEPT !.pc = "build", !.mode = procs[p].pc,
                                                            !.map = Head(pending)]]
          /\ pending' = Tail(pending)
       \/ /\ pending = <<>> /\ UNCHANGED pending
          /\ Release(p, IF procs[p].pc = "replay" THEN "wait" ELSE "exited")
    /\ UNCHANGED <<current, maps, producers, flushEnabled, edition, stored, counted, logged, late, unsure, ctx,
                   budget, rollupVars, viewers>>

\* A snapshot whose second attempt failed goes to the end of the queue, or is
\* dropped and counted when there is no room.
Requeue(p) ==
    /\ procs[p].pc = "requeue"
    /\ \/ /\ Len(pending) < QueueCap
          /\ pending' = Append(pending, procs[p].map) /\ UNCHANGED counted
       \/ /\ Len(pending) = QueueCap
          /\ counted' = counted \cup maps[procs[p].map].events /\ UNCHANGED pending
    /\ Release(p, "wait")
    /\ UNCHANGED <<current, maps, producers, flushEnabled, edition, stored, logged, late, unsure, ctx, budget,
                   rollupVars, viewers>>

\* The licence changes the edition (see License); the service is stopped.
ChangeEdition ==
    /\ budget.faults < MaxFaults /\ budget' = [budget EXCEPT !.faults = @ + 1]
    /\ edition' = ~edition
    /\ UNCHANGED <<current, maps, producers, flushEnabled, procs, pending, stored, counted, logged, late,
                   unsure, ctx, rollupVars, viewers>>
Cancel ==
    /\ ~ctx /\ ctx' = TRUE
    /\ UNCHANGED <<current, maps, producers, flushEnabled, edition, procs, pending, stored, counted, logged,
                   late, unsure, budget, rollupVars, viewers>>

(***************************************************************************)
(* The analytics manager of a provisioning pod                             *)
(***************************************************************************)
\* A ticker fires before the hour is over, and no promotion outlasts the hour it
\* began in: its three statements take seconds.
Tock ==
    /\ hour < MaxHour /\ hour' = hour + 1
    /\ \A p \in Pod, j \in Job : \/ jobs[p][j].pc = "exited"
                                 \/ jobs[p][j].pc = "wait" /\ jobs[p][j].next > hour
    /\ UNCHANGED <<collectorVars, budget, minuteRows, hourRows, dayRows, parts, jobs, viewers>>

\* The batch of some pod's collector is applied.  Its bucket was chosen when it
\* was built, which may have been in the hour before.
RowsLand ==
    /\ budget.rows < MaxRows /\ budget' = [budget EXCEPT !.rows = @ + 1]
    /\ \E t \in Table, h \in {hour, hour - 1} \cap 0..MaxHour :
         minuteRows' = [minuteRows EXCEPT ![t][h] = @ + 1]
    /\ UNCHANGED <<collectorVars, hour, hourRows, dayRows, parts, jobs, viewers>>

SetJob(p, j, job) == jobs' = [jobs EXCEPT ![p][j] = job]

\* A tick asks for the advisory lock.  It is a lock of the transaction, which is
\* the statement itself: held by another pod only while both ask.
Tick(p, j) ==
    /\ jobs[p][j].pc = "wait" /\ jobs[p][j].next <= hour
    /\ SetJob(p, j, [jobs[p][j] EXCEPT !.pc = "lock", !.next = @ + Interval(j)])
    /\ UNCHANGED <<collectorVars, budget, hour, minuteRows, hourRows, dayRows, parts, viewers>>

\* PromoteHour takes the hour before this one, PromoteDay the day before.
Locked(p, j) ==
    /\ jobs[p][j].pc = "lock"
    /\ \/ /\ SetJob(p, j, [jobs[p][j] EXCEPT !.pc = "read", !.table = 1,
                             !.bucket = IF j = "hour" THEN hour - 1 ELSE DayOf(hour) - 1])
       \/ /\ \E q \in Pod \ {p} : jobs[q][j].pc = "lock"
          /\ SetJob(p, j, [jobs[p][j] EXCEPT !.pc = "wait"])
    /\ UNCHANGED <<collectorVars, budget, hour, minuteRows, hourRows, dayRows, parts, viewers>>

\* The statement sees the rows committed when it began: minute rows of the
\* hour, or hour rows of the day.
SumOf(j, t, b) ==
    IF j = "hour" THEN minuteRows[t][b]
    ELSE FoldSet(LAMBDA h, acc : acc + hourRows[t][h], 0, {h \in 0..MaxHour : DayOf(h) = b})
PromoteRead(p, j) ==
    LET job == jobs[p][j]
    IN  /\ job.pc = "read"
        /\ SetJob(p, j, [job EXCEPT !.pc = "write", !.sum = SumOf(j, Tables[job.table], job.bucket)])
        /\ UNCHANGED <<collectorVars, budget, hour, minuteRows, hourRows, dayRows, parts, viewers>>

\* The next table, or the end of the promotion.
NextTable(job) ==
    IF job.table = Len(Tables) THEN [job EXCEPT !.pc = "wait", !.table = 1, !.bucket = 0, !.sum = 0]
    ELSE [job EXCEPT !.pc = "read", !.table = @ + 1, !.sum = 0]

\* ON CONFLICT DO UPDATE SET the sums: a promotion replaces what an earlier one
\* wrote.  Without rows to sum nothing is written.
PromotedHour(t, b, n) ==
    /\ hourRows' = IF n = 0 THEN hourRows ELSE [hourRows EXCEPT ![t][b] = n]
    /\ UNCHANGED dayRows
PromotedDay(t, b, n) ==
    /\ dayRows' = IF n = 0 THEN dayRows ELSE [dayRows EXCEPT ![t][b] = n]
    /\ UNCHANGED hourRows
PromoteWrite(p, j) ==
    LET job == jobs[p][j]
        t == Tables[job.table]
    IN  /\ job.pc = "write"
        /\ \/ j = "hour" /\ PromotedHour(t, job.bucket, job.sum)
           \/ j = "day" /\ PromotedDay(t, job.bucket, job.sum)
        /\ SetJob(p, j, NextTable(job))
        /\ UNCHANGED <<collectorVars, budget, hour, minuteRows, parts, viewers>>

\* A statement that fails ends the promotion: the tables after it are not
\* promoted, and the next tick promotes the next hour.
PromoteFails(p, j) ==
    /\ jobs[p][j].pc \in {"lock", "read", "write"}
    /\ budget.faults < MaxStatementFaults /\ budget' = [budget EXCEPT !.faults = @ + 1]
    /\ SetJob(p, j, [jobs[p][j] EXCEPT !.pc = "wait", !.table = 1, !.bucket = 0, !.sum = 0])
    /\ UNCHANGED <<collectorVars, hour, minuteRows, hourRows, dayRows, parts, viewers>>

\* AnalyticsManager.Stop cancels the context, so that tickers return and the
\* statement under way fails, and waits for them.
Stop(p) ==
    /\ \E j \in Job : jobs[p][j].pc # "exited"
    /\ jobs' = [jobs EXCEPT ![p] = [j \in Job |-> [IdleJob EXCEPT !.pc = "exited"]]]
    /\ UNCHANGED <<collectorVars, budget, hour, minuteRows, hourRows, dayRows, parts, viewers>>

\* RunMaintenance: partitions for tomorrow and the day after, and the expired
\* ones dropped with their rows; a statement that fails is skipped.  A day in
\* the default partition has nothing to drop.  The monthly partitions of the
\* day tables are made and dropped likewise, beyond the days modelled.
Upcoming(c) == {d \in {DayOf(hour) + 1, DayOf(hour) + 2} \cap Days : parts[c][d] = "default"}
Expired(c) == {d \in Days : parts[c][d] = "own" /\ d + Retention[c] < DayOf(hour)}
createDayPartition(c, done) == [d \in Days |-> IF d \in Upcoming(c) \cap done THEN "own" ELSE parts[c][d]]
dropPartitionsOlderThan(rows, c, done) ==
    [t \in Table |-> [h \in 0..MaxHour |-> IF DayOf(h) \in Expired(c) \cap done THEN 0 ELSE rows[t][h]]]
RunMaintenance ==
    LET todo == UNION {Upcoming(c) \cup Expired(c) : c \in Class}
    IN  /\ todo # {} /\ \E p \in Pod : jobs[p]["hour"].pc # "exited"
        /\ \E done \in {todo} \cup {todo \ {d} : d \in todo} :
             /\ parts' = [c \in Class |-> [d \in Days |->
                            IF d \in Expired(c) \cap done THEN "dropped" ELSE createDayPartition(c, done)[d]]]
             /\ minuteRows' = dropPartitionsOlderThan(minuteRows, "minute", done)
             /\ hourRows' = dropPartitionsOlderThan(hourRows, "hour", done)
             /\ IF done = todo THEN UNCHANGED budget
                ELSE budget.faults < MaxStatementFaults /\ budget' = [budget EXCEPT !.faults = @ + 1]
        /\ UNCHANGED <<collectorVars, hour, dayRows, jobs, viewers>>

(***************************************************************************)
(* The administrator's stream                                              *)
(***************************************************************************)
SetViewer(v, pc, seen) == viewers' = [viewers EXCEPT ![v] = [pc |-> pc, seen |-> seen]]
Streaming == {v \in Viewer : viewers[v].pc \in {"open", "stream"}}

\* ServeHTTP: a slot of the semaphore or a refusal; a tenant_id that is no UUID
\* is refused and gives the slot back.
ServeHTTP(v) ==
    /\ viewers[v].pc = "none"
    /\ \/ Cardinality(Streaming) < MaxConns /\ \E pc \in {"open", "closed"} : SetViewer(v, pc, {})
       \/ Cardinality(Streaming) = MaxConns /\ SetViewer(v, "refused", {})
    /\ UNCHANGED <<collectorVars, budget, rollupVars>>

\* queryMetrics: a table whose query fails is left out, push without its edition.
queryMetrics(failed) ==
    LET sections == IF edition THEN Table ELSE Table \ {"push"}
    IN  {t \in sections : t \notin failed}

\* sendSnapshot on connecting and at every tick; a failed write ends the stream,
\* as do the client's leaving and the idle timer.
sendSnapshot(v) ==
    /\ viewers[v].pc \in {"open", "stream"}
    /\ \/ SetViewer(v, "stream", queryMetrics({})) /\ UNCHANGED budget
       \/ /\ budget.faults < MaxFaults /\ budget' = [budget EXCEPT !.faults = @ + 1]
          /\ \/ \E t \in Table : SetViewer(v, "stream", queryMetrics({t}))
             \/ SetViewer(v, "closed", {})
    /\ UNCHANGED <<collectorVars, rollupVars>>
StreamEnds(v) ==
    /\ viewers[v].pc = "stream" /\ SetViewer(v, "closed", {})
    /\ UNCHANGED <<collectorVars, budget, rollupVars>>

CollectorNext ==
    \/ \E e \in Event : Load(e) \/ getOrCreate(e)
    \/ FlushTick \/ PollTick \/ GoDark \/ ChangeEdition \/ Cancel
    \/ \E p \in Proc : \/ Leave(p) \/ Swap(p) \/ buildBatch(p) \/ SendSucceeds(p) \/ SendFails(p)
                       \/ Enqueue(p) \/ Retry(p) \/ mergeBack(p) \/ TakePending(p) \/ Requeue(p)
RollupNext ==
    \/ Tock \/ RowsLand \/ RunMaintenance
    \/ \E p \in Pod : Stop(p)
    \/ \E p \in Pod, j \in Job : \/ Tick(p, j) \/ Locked(p, j) \/ PromoteRead(p, j) \/ PromoteWrite(p, j)
                                 \/ PromoteFails(p, j)
StreamNext ==
    \/ ChangeEdition
    \/ \E v \in Viewer : ServeHTTP(v) \/ sendSnapshot(v) \/ StreamEnds(v)
Next == CollectorNext \/ RollupNext \/ StreamNext

Spec == Init /\ [][Next]_vars

-----------------------------------------------------------------------------
\* The maps from which an event can still reach the database: the current one,
\* those queued and those a process holds, key by key while it merges.
Waiting(e) ==
    {m \in {current} \cup {pending[i] : i \in 1..Len(pending)} : e \in maps[m].events}
    \cup {procs[p].map : p \in {q \in Proc : /\ procs[q].pc \in {"build", "send", "enqueue", "retry",
                                                                 "merge", "requeue"}
                                             /\ e \in maps[procs[q].map].events
                                             /\ procs[q].pc = "merge" => KeyOf[e] \in procs[q].todo}}
Bit(b) == IF b THEN 1 ELSE 0

\* Every recorded event is in exactly one place: it waits in one map, or the
\* database counts it once, or a drop was counted or logged for it.  Exempt are
\* the events added to a map that was no longer current (late) and those whose
\* batch was applied though reported as failed (unsure).  And no roll-up counts
\* more than the minute rows it was made from, however often and by however
\* many pods it is promoted (real_collector.go, flush.go, rollup.go).
CountedOnce ==
    /\ \A e \in Event \ (late \cup unsure) : producers[e].pc = "done" =>
         Cardinality(Waiting(e)) + stored[e] + Bit(e \in counted) + Bit(e \in logged) = 1
    /\ \A t \in Table, h \in 0..MaxHour : parts["minute"][DayOf(h)] # "dropped" => hourRows[t][h] <= minuteRows[t][h]
    /\ \A t \in Table, d \in Days : parts["minute"][d] # "dropped" =>
         dayRows[t][d] <= FoldSet(LAMBDA h, acc : acc + minuteRows[t][h], 0, {h \in 0..MaxHour : DayOf(h) = d})

\* Refuted.  "Final flush: current snapshot + all pending snapshots" (runFlushLoop):
\* the poller may queue a snapshot after the drain.
ShutdownDrains == (\A p \in Proc : procs[p].pc = "exited") => pending = <<>>

\* Refuted.  "hour rollup promotion failed; will retry next tick" (AnalyticsManager):
\* the next tick promotes another hour, so one failure leaves an hour without
\* its row for good.  So do rows that land after the promotion, and pods that
\* have all started since the hour.
HourIsPromoted ==
    \A t \in Table, h \in 0..MaxHour :
        (h + 2 < hour /\ \A p \in Pod : jobs[p]["hour"].pc = "wait" /\ jobs[p]["hour"].next > hour)
        => (minuteRows[t][h] > 0 => hourRows[t][h] > 0)

\* Refuted.  "Uses a PostgreSQL advisory lock to prevent concurrent promotion
\* from multiple pods" (PromoteHour): the lock is gone before the promotion.
OnePromotion ==
    \A j \in Job : Cardinality({p \in Pod : jobs[p][j].pc \in {"read", "write"}}) <= 1

=============================================================================
