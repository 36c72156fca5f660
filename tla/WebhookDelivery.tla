-------------------------- MODULE WebhookDelivery --------------------------
(***************************************************************************)
(* The webhook worker (webhook/worker): the event consumer, the delivery   *)
(* workers with their retry queue, the degraded scheduler, the status      *)
(* updater (runner.go) and the cache of registrations (cache.go), against  *)
(* the statuses the provisioning service stores.                           *)
(*                                                                         *)
(* One tenant.  A task is an event for a webhook, or the synthetic retry   *)
(* of a degraded one.  Delays are left to the scheduler; which queued task *)
(* lies furthest in the future is therefore any of them.  The drain and    *)
(* refill of a full retry queue interleave with the other workers, which   *)
(* do not take dropMu to send or to receive.                               *)
(***************************************************************************)
EXTENDS Integers, FiniteSets, Sequences, SequencesExt

CONSTANTS
  Webhook, Event, Worker,
  AlreadyDegraded, \* webhooks degraded when the worker starts
  MaxRetries,    \* retry budget of a registration
  QueueSize,     \* RetryQueueSize: capacity of retryQueue and degradedCh
  IntakeSize,    \* capacity of intake
  MaxDegraded,   \* bound: times a retry budget is exhausted
  MaxEdits       \* bound: operator's changes of a registration

NoName == "none"

VARIABLES
  pending,   \* events the bus has not yet delivered
  intake, retryQueue,
  workers,   \* [Worker -> [stage, task, drained]]
  drops,     \* [Worker -> tasks a refill found no room for, not yet recorded]
  ended,     \* tasks whose last outcome is known
  statusUpdates, degradedCh,
  timers,    \* webhooks in the scheduler's heap
  lost,      \* webhooks whose degraded timer was dropped
  cache, store, \* [Webhook -> status]
  degradations, \* budgets exhausted so far
  edits         \* operator's changes so far

queues == <<intake, retryQueue>>
statuses == <<statusUpdates, cache, store>>
degraded == <<degradedCh, timers, lost, degradations, edits>>
vars == <<pending, queues, workers, drops, ended, statuses, degraded>>

Status == {"enabled", "degraded", "suspended", "deleted"}

EventTask(e, w) == [event |-> e, webhook |-> w, attempt |-> 1]
RetryTask(w) == [event |-> NoName, webhook |-> w, attempt |-> 1]

IdleWorker == [stage |-> "idle", task |-> RetryTask(NoName), drained |-> <<>>]

\* Queues never exceed their capacity and attempts never the budget.
TypeOK ==
  /\ pending \subseteq Event
  /\ Len(intake) <= IntakeSize /\ Len(retryQueue) <= QueueSize
  /\ Len(degradedCh) <= QueueSize /\ Len(statusUpdates) <= Cardinality(Worker)
  /\ \A k \in Worker : workers[k].stage \in {"idle", "held", "retry", "fallback", "drain", "refill", "record"}
  /\ timers \subseteq Webhook /\ lost \subseteq Webhook
  /\ cache \in [Webhook -> Status] /\ store \in [Webhook -> Status]

\* Run starts by hydrating the cache and seeding a timer per degraded webhook.
Init ==
  /\ pending = Event
  /\ intake = <<>> /\ retryQueue = <<>>
  /\ workers = [k \in Worker |-> IdleWorker] /\ drops = [k \in Worker |-> {}]
  /\ ended = {}
  /\ statusUpdates = <<>> /\ degradedCh = <<>>
  /\ lost = {} /\ degradations = 0 /\ edits = 0
  /\ store = [w \in Webhook |-> IF w \in AlreadyDegraded THEN "degraded" ELSE "enabled"]
  /\ cache = store /\ timers = AlreadyDegraded

Key(t) == <<t.event, t.webhook>>

\* The tasks' deliveries are over; synthetic retries are not accounted for.
End(tasks) == ended' = ended \cup {Key(t) : t \in {x \in tasks : x.event # NoName}}

-----------------------------------------------------------------------------
(* The cache *)

\* ListByTenantForWorker: every row of the tenant, whatever its status.
ListByTenantForWorker == store

\* ListWebhooksForTenant: the rows, with the tenant's slug; a failed lookup fails
\* the call, and the cache keeps what it has.
ListWebhooksForTenant == ListByTenantForWorker

\* The tenant's records are replaced as a whole; the scheduler is not told.
fetchAndStore == cache' = ListWebhooksForTenant

\* An invalidation, the TTL, or the test handler's miss.
Refresh ==
  /\ cache # store /\ fetchAndStore
  /\ UNCHANGED <<pending, queues, workers, drops, ended, statusUpdates, store, degraded>>

\* UPDATE ... SET status: no row, not found.
UpdateStatus(w, s) == store[w] # "deleted" /\ store' = [store EXCEPT ![w] = s]

\* The worker's RPC answers not found for a missing row; it then publishes the
\* invalidation that leads to a Refresh.
UpdateWebhookStatus(w, s) == UpdateStatus(w, s)

\* The operator enables or suspends (UpdateWebhook), or deletes (DeleteWebhook).
Administer(w) ==
  /\ store[w] # "deleted" /\ edits < MaxEdits /\ edits' = edits + 1
  /\ \E s \in {"enabled", "suspended", "deleted"} \ {store[w]} : store' = [store EXCEPT ![w] = s]
  /\ UNCHANGED <<pending, queues, workers, drops, ended, statusUpdates, cache, degradedCh, timers, lost, degradations>>

-----------------------------------------------------------------------------
(* The event consumer and the status updater *)

\* One task per cached registration, while intake has room.
eventConsumer(e) ==
  /\ e \in pending /\ pending' = pending \ {e}
  /\ LET tasks == SetToSeq({EventTask(e, w) : w \in {x \in Webhook : cache[x] # "deleted"}})
         room == IntakeSize - Len(intake)
         kept == SubSeq(tasks, 1, IF Len(tasks) < room THEN Len(tasks) ELSE room)
     IN /\ intake' = intake \o kept
        /\ End({EventTask(e, w) : w \in Webhook} \ ToSet(kept))
  /\ UNCHANGED <<retryQueue, workers, drops, statuses, degraded>>

\* Non-blocking: a full channel drops the update.
sendStatusUpdate(w, s) ==
  statusUpdates' = IF Len(statusUpdates) < Cardinality(Worker) THEN Append(statusUpdates, <<w, s>>)
                   ELSE statusUpdates

\* One update at a time, repeated until the service takes it: for a deleted
\* webhook it answers not found, for ever.  The status is overwritten whatever
\* it was.
asyncStatusUpdater ==
  /\ statusUpdates # <<>>
  /\ UpdateWebhookStatus(Head(statusUpdates)[1], Head(statusUpdates)[2])
  /\ statusUpdates' = Tail(statusUpdates)
  /\ UNCHANGED <<pending, queues, workers, drops, ended, cache, degraded>>

-----------------------------------------------------------------------------
(* The delivery workers *)

Hold(k, t) == workers' = [workers EXCEPT ![k].stage = "held", ![k].task = t]

\* deliveryWorker receives from the retry queue or from intake.
TakeRetry(k) ==
  /\ workers[k].stage = "idle" /\ retryQueue # <<>>
  /\ Hold(k, Head(retryQueue)) /\ retryQueue' = Tail(retryQueue)
  /\ UNCHANGED <<pending, intake, drops, ended, statuses, degraded>>

TakeIntake(k) ==
  /\ workers[k].stage = "idle" /\ intake # <<>>
  /\ Hold(k, Head(intake)) /\ intake' = Tail(intake)
  /\ UNCHANGED <<pending, retryQueue, drops, ended, statuses, degraded>>

Release(k) == workers' = [workers EXCEPT ![k] = IdleWorker]

\* Deliver's gate: a deleted or suspended webhook is skipped, a degraded one is not.
Skip(k) ==
  /\ workers[k].stage = "held" /\ cache[workers[k].task.webhook] \in {"suspended", "deleted"}
  /\ Release(k) /\ End({workers[k].task})
  /\ UNCHANGED <<pending, queues, drops, statuses, degraded>>

\* dispatch: what the POST can come to.
Outcome == {"success", "decrypt_fail", "failure"}

Dispatches(k, outcome) ==
  /\ workers[k].stage = "held" /\ cache[workers[k].task.webhook] \in {"enabled", "degraded"}
  /\ outcome \in Outcome

\* 2xx: a webhook the cache shows as degraded is reported enabled.
DeliverSuccess(k) ==
  /\ Dispatches(k, "success")
  /\ LET w == workers[k].task.webhook
     IN IF cache[w] = "degraded" THEN sendStatusUpdate(w, "enabled") ELSE UNCHANGED statusUpdates
  /\ Release(k) /\ End({workers[k].task})
  /\ UNCHANGED <<pending, queues, drops, cache, store, degraded>>

\* The secret cannot be decrypted: suspended, no retry.
DeliverDecryptFail(k) ==
  /\ Dispatches(k, "decrypt_fail")
  /\ sendStatusUpdate(workers[k].task.webhook, "suspended")
  /\ Release(k) /\ End({workers[k].task})
  /\ UNCHANGED <<pending, queues, drops, cache, store, degraded>>

\* Any other outcome is recorded and retried.
DeliverFailure(k) ==
  /\ Dispatches(k, "failure")
  /\ workers' = [workers EXCEPT ![k].stage = "retry"]
  /\ UNCHANGED <<pending, queues, drops, ended, statuses, degraded>>

\* The budget is spent: degraded, with a timer request if degradedCh has room.
ExhaustRetries(k) ==
  /\ workers[k].stage = "retry" /\ workers[k].task.attempt >= MaxRetries
  /\ degradations < MaxDegraded /\ degradations' = degradations + 1
  /\ LET w == workers[k].task.webhook
     IN /\ sendStatusUpdate(w, "degraded")
        /\ IF Len(degradedCh) < QueueSize
           THEN degradedCh' = Append(degradedCh, w) /\ Release(k)
           ELSE workers' = [workers EXCEPT ![k].stage = "fallback"] /\ UNCHANGED degradedCh
  /\ End({workers[k].task})
  /\ UNCHANGED <<pending, queues, drops, timers, lost, cache, store, edits>>

\* The second try; still full, the timer is dropped.
FallbackTimer(k) ==
  /\ workers[k].stage = "fallback"
  /\ LET w == workers[k].task.webhook
     IN IF Len(degradedCh) < QueueSize
        THEN degradedCh' = Append(degradedCh, w) /\ UNCHANGED lost
        ELSE lost' = lost \cup {w} /\ UNCHANGED degradedCh
  /\ Release(k)
  /\ UNCHANGED <<pending, queues, drops, ended, statuses, timers, degradations, edits>>

\* The next attempt is queued, or the worker sets out to make room.
ScheduleRetry(k) ==
  /\ workers[k].stage = "retry" /\ workers[k].task.attempt < MaxRetries
  /\ LET next == [workers[k].task EXCEPT !.attempt = @ + 1]
     IN IF Len(retryQueue) < QueueSize
        THEN retryQueue' = Append(retryQueue, next) /\ Release(k)
        ELSE workers' = [workers EXCEPT ![k].stage = "drain", ![k].task = next] /\ UNCHANGED retryQueue
  /\ UNCHANGED <<pending, intake, drops, ended, statuses, degraded>>

\* dropMu: one worker at a time drains and refills.
HoldsDropMu(k) == workers[k].drained # <<>> \/ workers[k].stage = "refill"

\* dropOldest receives until the queue is empty.
DrainOne(k) ==
  /\ workers[k].stage = "drain" /\ \A j \in Worker \ {k} : ~ HoldsDropMu(j)
  /\ retryQueue # <<>>
  /\ workers' = [workers EXCEPT ![k].drained = Append(@, Head(retryQueue))]
  /\ retryQueue' = Tail(retryQueue)
  /\ UNCHANGED <<pending, intake, drops, ended, statuses, degraded>>

\* The furthest-future task is set aside, the incoming one joins the rest.
ChooseVictim(k) ==
  /\ workers[k].stage = "drain" /\ \A j \in Worker \ {k} : ~ HoldsDropMu(j)
  /\ retryQueue = <<>>
  /\ LET d == workers[k].drained
     IN \/ /\ d = <<>>
           /\ workers' = [workers EXCEPT ![k].stage = "refill", ![k].drained = <<workers[k].task>>]
           /\ UNCHANGED drops
        \/ \E i \in DOMAIN d :
             /\ workers' = [workers EXCEPT ![k].stage = "refill", ![k].drained = Append(RemoveAt(d, i), workers[k].task)]
             /\ drops' = [drops EXCEPT ![k] = {d[i]}]
  /\ UNCHANGED <<pending, queues, ended, statuses, degraded>>

\* Mutant: a task that no longer fits is forgotten.
OverflowForgotten(k, t) == drops[k]

\* A task that no longer fits is set aside with the victim.
Overflow(k, t) == drops[k] \cup {t}

\* The drained tasks go back one by one; another worker may have filled the queue.
RefillOne(k) ==
  /\ workers[k].stage = "refill" /\ workers[k].drained # <<>>
  /\ LET t == Head(workers[k].drained)
     IN IF Len(retryQueue) < QueueSize
        THEN retryQueue' = Append(retryQueue, t) /\ UNCHANGED drops
        ELSE drops' = [drops EXCEPT ![k] = Overflow(k, t)] /\ UNCHANGED retryQueue
  /\ workers' = [workers EXCEPT ![k].drained = Tail(@)]
  /\ UNCHANGED <<pending, intake, ended, statuses, degraded>>

\* Outside the lock, every task set aside is recorded as dropped.
RecordDrops(k) ==
  /\ workers[k].stage = "refill" /\ workers[k].drained = <<>>
  /\ End(drops[k])
  /\ drops' = [drops EXCEPT ![k] = {}]
  /\ Release(k)
  /\ UNCHANGED <<pending, queues, statuses, degraded>>

-----------------------------------------------------------------------------
(* The degraded scheduler *)

\* A timer request joins the heap.
ScheduleDegraded ==
  /\ degradedCh # <<>>
  /\ timers' = timers \cup {Head(degradedCh)} /\ degradedCh' = Tail(degradedCh)
  /\ UNCHANGED <<pending, queues, workers, drops, ended, statuses, lost, degradations, edits>>

\* A timer fires: dropped unless the cache shows the webhook degraded; kept for
\* later if the retry queue is full.
TimerFires(w) ==
  /\ w \in timers
  /\ IF cache[w] # "degraded"
     THEN timers' = timers \ {w} /\ UNCHANGED retryQueue
     ELSE /\ Len(retryQueue) < QueueSize
          /\ retryQueue' = Append(retryQueue, RetryTask(w)) /\ timers' = timers \ {w}
  /\ UNCHANGED <<pending, intake, workers, drops, ended, statuses, degradedCh, lost, degradations, edits>>

Deliver(k) == Skip(k) \/ DeliverSuccess(k) \/ DeliverDecryptFail(k) \/ DeliverFailure(k)
Retry(k) == ExhaustRetries(k) \/ FallbackTimer(k) \/ ScheduleRetry(k) \/ DrainOne(k) \/ ChooseVictim(k)
              \/ RefillOne(k) \/ RecordDrops(k)

Next ==
  \/ \E e \in Event : eventConsumer(e)
  \/ \E k \in Worker : TakeRetry(k) \/ TakeIntake(k) \/ Deliver(k) \/ Retry(k)
  \/ \E w \in Webhook : Administer(w) \/ TimerFires(w)
  \/ asyncStatusUpdater \/ Refresh \/ ScheduleDegraded

\* Goroutines are scheduled, the cache is refreshed, and a timer that finds the
\* retry queue full comes back until it does not.
Fairness ==
  /\ \A k \in Worker : WF_vars(TakeRetry(k) \/ TakeIntake(k) \/ Deliver(k) \/ Retry(k))
  /\ \A w \in Webhook : SF_vars(TimerFires(w))
  /\ WF_vars(asyncStatusUpdater) /\ WF_vars(Refresh) /\ WF_vars(ScheduleDegraded)

Spec == Init /\ [][Next]_vars /\ Fairness

-----------------------------------------------------------------------------

\* Places a task of an event is at: queued, in a worker's hands, drained, set
\* aside, or ended.
Places(e, w) ==
  LET in(q) == Len(SelectSeq(q, LAMBDA t : Key(t) = <<e, w>>))
      hand(k) == IF workers[k].stage \in {"held", "retry", "drain"} /\ Key(workers[k].task) = <<e, w>>
                 THEN 1 ELSE 0
      of(k) == hand(k) + in(workers[k].drained) + Cardinality({t \in drops[k] : Key(t) = <<e, w>>})
  IN in(intake) + in(retryQueue) + (IF <<e, w>> \in ended THEN 1 ELSE 0)
       + FoldSet(LAMBDA k, n : of(k) + n, 0, Worker)

\* No delivery vanishes and none is duplicated: a task handed out is always in
\* exactly one place until its end is recorded, through a drain and refill that
\* other workers cut across.
TaskInOnePlace == \A e \in Event \ pending, w \in Webhook : Places(e, w) = 1

\* A webhook whose timer was dropped because degradedCh was full is retried,
\* recovers or goes away.
DroppedTimerRecovers ==
  \A w \in Webhook :
    (w \in lost /\ cache[w] = "degraded")
      ~> (cache[w] # "degraded" \/ w \in timers \/ \E i \in DOMAIN retryQueue : retryQueue[i].webhook = w)

\* Every status update accepted by the channel is processed: the updater never
\* stays with one request for ever while others wait.
UpdatesProcessed == Len(statusUpdates) > 1 ~> Len(statusUpdates) <= 1
=============================================================================
