---------------------------- MODULE PushPipeline ----------------------------
(***************************************************************************)
(* The push service: the consumer loop turns a record into one job per     *)
(* matching device, a bounded queue holds the jobs, workers send them      *)
(* through a provider with retries, and Stop takes it all down in order.   *)
(*                                                                         *)
(* A device is a row of push_subscriptions; a job is the device it goes to *)
(* and the number of the record.  The consumer commits automatically, so a *)
(* record is gone once polled.                                             *)
(***************************************************************************)
EXTENDS Naturals, Sequences

CONSTANTS Device, PlatformOf, Worker, QueueSize, MaxRetries, MaxRecords

VARIABLES devices,  \* rows of push_subscriptions
          records,  \* records handled so far
          loop,     \* consumeLoop: pc, devices still to enqueue
          jobs,     \* the channel of the worker pool
          closed,   \* it is closed
          workers,  \* what each worker does
          ctx,      \* the context of the service is cancelled
          refresh,  \* refreshTopicsLoop runs
          stage,    \* where Start and Stop are
          ended,    \* jobs with an outcome
          dropped,  \* jobs Enqueue gave up on
          panicked  \* a send met the closed channel

vars == <<devices, records, loop, jobs, closed, workers, ctx, refresh, stage, ended, dropped, panicked>>

IdleWorker == [pc |-> "idle", job |-> <<>>, attempt |-> 0]

Init ==
    /\ devices \in SUBSET Device /\ records = 0
    /\ loop = [pc |-> "none", todo |-> {}]
    /\ jobs = <<>> /\ closed = FALSE
    /\ workers = [w \in Worker |-> IdleWorker]
    /\ ctx = FALSE /\ refresh = FALSE /\ stage = "starting"
    /\ ended = {} /\ dropped = {} /\ panicked = FALSE

TypeOK ==
    /\ devices \subseteq Device /\ records \in 0..MaxRecords
    /\ loop.pc \in {"none", "poll", "match", "enqueue", "blocked", "exited"} /\ loop.todo \subseteq Device
    /\ Len(jobs) <= QueueSize /\ closed \in BOOLEAN /\ ctx \in BOOLEAN /\ panicked \in BOOLEAN
    /\ \A w \in Worker : workers[w].pc \in {"idle", "send", "backoff", "exited"} /\ workers[w].attempt \in 0..MaxRetries
    /\ stage \in {"starting", "running", "signalled", "consumer", "refresh", "workers", "stopped"}

(***************************************************************************)
(* Service.Start and Service.Stop                                          *)
(***************************************************************************)
\* The workers first, then the consumer and the refresh of its topics.
Start ==
    /\ stage = "starting" /\ stage' = "running"
    /\ loop' = [loop EXCEPT !.pc = "poll"] /\ refresh' = TRUE
    /\ UNCHANGED <<devices, records, jobs, closed, workers, ctx, ended, dropped, panicked>>

\* Without a Kafka client the workers are stopped again.
StartFails ==
    /\ stage = "starting" /\ stage' = "workers"
    /\ ctx' = TRUE /\ closed' = TRUE /\ loop' = [loop EXCEPT !.pc = "exited"]
    /\ UNCHANGED <<devices, records, jobs, workers, refresh, ended, dropped, panicked>>

\* A signal, or a server of the process that fails: main cancels the context everything was started with.
Signal ==
    /\ stage = "running" /\ ctx' = TRUE /\ stage' = "signalled"
    /\ UNCHANGED <<devices, records, loop, jobs, closed, workers, refresh, ended, dropped, panicked>>

\* The service is stopped first.
Stop ==
    /\ stage = "signalled" /\ stage' = "consumer"
    /\ UNCHANGED <<devices, records, loop, jobs, closed, workers, ctx, refresh, ended, dropped, panicked>>

\* Mutant: the workers are stopped without waiting for the consumer.
ConsumerStoppedNot == TRUE

\* Pool.Stop of the consumer waits for its loop.
ConsumerStopped == loop.pc = "exited"

AfterConsumer ==
    /\ stage = "consumer" /\ ConsumerStopped /\ stage' = "refresh"
    /\ UNCHANGED <<devices, records, loop, jobs, closed, workers, ctx, refresh, ended, dropped, panicked>>

\* Mutant: the channel stays open.
CloseJobsNot == closed' = closed

CloseJobs == closed' = TRUE

\* Pool.Stop of the workers: cancel, close, wait.
StopWorkers ==
    /\ stage = "refresh" /\ ~refresh /\ stage' = "workers" /\ CloseJobs
    /\ UNCHANGED <<devices, records, loop, jobs, workers, ctx, refresh, ended, dropped, panicked>>

Stopped ==
    /\ stage = "workers" /\ \A w \in Worker : workers[w].pc = "exited"
    /\ stage' = "stopped"
    /\ UNCHANGED <<devices, records, loop, jobs, closed, workers, ctx, refresh, ended, dropped, panicked>>

refreshTopicsLoopExits ==
    /\ refresh /\ ctx /\ refresh' = FALSE
    /\ UNCHANGED <<devices, records, loop, jobs, closed, workers, ctx, stage, ended, dropped, panicked>>

(***************************************************************************)
(* The consumer                                                            *)
(***************************************************************************)
serviceVars == <<devices, workers, ctx, refresh, stage, ended>>

\* PollFetches returns a record with a tenant and a key.
Poll ==
    /\ loop.pc = "poll" /\ records < MaxRecords
    /\ records' = records + 1 /\ loop' = [loop EXCEPT !.pc = "match"]
    /\ UNCHANGED <<serviceVars, jobs, closed, dropped, panicked>>

\* The loop looks at the context between polls, and the poll fails with it.
consumeLoopExits ==
    /\ loop.pc = "poll" /\ ctx /\ loop' = [loop EXCEPT !.pc = "exited"]
    /\ UNCHANGED <<serviceVars, records, jobs, closed, dropped, panicked>>

\* No pattern of the tenant matches the channel, or the devices cannot be read, or none matches.
HandleNothing ==
    /\ loop.pc = "match" /\ loop' = [loop EXCEPT !.pc = "poll"]
    /\ UNCHANGED <<serviceVars, records, jobs, closed, dropped, panicked>>

\* FindByTenant, then the devices whose channels match.
handleMessage ==
    /\ loop.pc = "match" /\ ~ctx
    /\ \E matching \in SUBSET devices \ {{}} : loop' = [pc |-> "enqueue", todo |-> matching]
    /\ UNCHANGED <<serviceVars, records, jobs, closed, dropped, panicked>>

\* The next device of the list, or the next record.
Rest(d) == [pc |-> IF loop.todo = {d} THEN "poll" ELSE "enqueue", todo |-> loop.todo \ {d}]

\* A send on the channel, which panics when it is closed.
Send(d) ==
    IF closed THEN panicked' = TRUE /\ UNCHANGED jobs
              ELSE Len(jobs) < QueueSize /\ jobs' = Append(jobs, <<d, records>>) /\ UNCHANGED panicked

\* The attempt that does not block.
Enqueue(d) ==
    /\ loop.pc = "enqueue" /\ d \in loop.todo
    /\ \/ Send(d) /\ loop' = Rest(d)
       \/ ~closed /\ Len(jobs) = QueueSize /\ loop' = [loop EXCEPT !.pc = "blocked"] /\ UNCHANGED <<jobs, panicked>>
    /\ UNCHANGED <<serviceVars, records, closed, dropped>>

\* The attempt that waits for room or for the end of the context.
EnqueueBlocked(d) ==
    /\ loop.pc = "blocked" /\ d \in loop.todo /\ loop' = Rest(d)
    /\ \/ Send(d) /\ UNCHANGED dropped
       \/ ctx /\ dropped' = dropped \cup {<<d, records>>} /\ UNCHANGED <<jobs, panicked>>
    /\ UNCHANGED <<serviceVars, records, closed>>

(***************************************************************************)
(* The workers                                                             *)
(***************************************************************************)
consumerVars == <<records, loop, closed, ctx, refresh, stage, dropped, panicked>>

\* range over the channel: a job, or the end once it is closed and empty.
worker(w) ==
    /\ workers[w].pc = "idle"
    /\ \/ /\ jobs # <<>> /\ jobs' = Tail(jobs)
          /\ workers' = [workers EXCEPT ![w] = [pc |-> "send", job |-> Head(jobs), attempt |-> 0]]
       \/ closed /\ jobs = <<>> /\ workers' = [workers EXCEPT ![w].pc = "exited"] /\ UNCHANGED jobs
    /\ UNCHANGED <<consumerVars, devices, ended>>

\* What a provider answers: the errors that dispatch tells apart, and all others.
FCMSend == {"sent", "expired", "limited", "error"}
APNsSend == {"sent", "expired", "limited", "error"}
WebPushSend == {"sent", "expired", "limited", "error"}
DryRunSend == {"sent"}

Answers(w) ==
    LET d == workers[w].job[1]
    IN  [web |-> WebPushSend, android |-> FCMSend, ios |-> APNsSend, dryrun |-> DryRunSend][PlatformOf[d]]

\* The outcome of a job: the worker is free.
Finish(w) ==
    /\ workers' = [workers EXCEPT ![w] = IdleWorker]
    /\ ended' = ended \cup {workers[w].job}

\* Success, or an error other than the two below; a cancelled context is such an error.
dispatch(w) ==
    /\ workers[w].pc = "send" /\ Finish(w)
    /\ UNCHANGED <<consumerVars, devices, jobs>>

\* The provider knows the device no more: its rows go, unless the context stops the statement.
DeleteByToken(w) ==
    /\ workers[w].pc = "send" /\ ~ctx /\ "expired" \in Answers(w) /\ Finish(w)
    /\ devices' \in {devices \ {workers[w].job[1]}, devices}
    /\ UNCHANGED <<consumerVars, jobs>>

\* The provider limits the rate: another attempt after a pause, or the end of them.
sendWithRetry(w) ==
    /\ workers[w].pc = "send" /\ "limited" \in Answers(w)
    /\ IF workers[w].attempt < MaxRetries
       THEN workers' = [workers EXCEPT ![w].pc = "backoff"] /\ UNCHANGED ended
       ELSE Finish(w)
    /\ UNCHANGED <<consumerVars, devices, jobs>>

\* The pause ends with its timer or with the context.
BackoffOver(w) ==
    /\ workers[w].pc = "backoff"
    /\ \/ workers' = [workers EXCEPT ![w].pc = "send", ![w].attempt = @ + 1] /\ UNCHANGED ended
       \/ ctx /\ Finish(w)
    /\ UNCHANGED <<consumerVars, devices, jobs>>

(***************************************************************************)
(* Devices come and go                                                     *)
(***************************************************************************)
RegisterDevice(d) ==
    /\ d \notin devices /\ ~ctx /\ devices' = devices \cup {d}
    /\ UNCHANGED <<records, loop, jobs, closed, workers, ctx, refresh, stage, ended, dropped, panicked>>

\* UnregisterDevice, or HandleRevocation by token and by subject.
Unregister(d) ==
    /\ d \in devices /\ devices' = devices \ {d}
    /\ UNCHANGED <<records, loop, jobs, closed, workers, ctx, refresh, stage, ended, dropped, panicked>>

Consumer == Poll \/ consumeLoopExits \/ HandleNothing \/ handleMessage \/ \E d \in Device : Enqueue(d) \/ EnqueueBlocked(d)

Work(w) == worker(w) \/ dispatch(w) \/ DeleteByToken(w) \/ sendWithRetry(w) \/ BackoffOver(w)

Shutdown == Stop \/ AfterConsumer \/ StopWorkers \/ Stopped \/ refreshTopicsLoopExits

Next ==
    \/ Start \/ StartFails \/ Signal \/ Shutdown \/ Consumer
    \/ \E w \in Worker : Work(w)
    \/ \E d \in Device : RegisterDevice(d) \/ Unregister(d)

\* Goroutines that can run do; the loop between polls looks at the context.
Fairness ==
    /\ WF_vars(Shutdown) /\ WF_vars(Consumer) /\ WF_vars(ctx /\ consumeLoopExits)
    /\ \A w \in Worker : WF_vars(Work(w))

Spec == Init /\ [][Next]_vars /\ Fairness

(***************************************************************************)
(* Properties                                                              *)
(***************************************************************************)
\* The consumer never sends on the job channel after Stop has closed it, blocked on a full queue or not.
NoJobAfterClose == ~panicked

\* Stop returns: the consumer is released from a full queue, and the workers run the queue down and leave.
PushStops == ctx ~> stage = "stopped"
=============================================================================
