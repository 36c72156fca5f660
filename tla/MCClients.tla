----------------------------- MODULE MCClients ------------------------------
(***************************************************************************)
(* The paths of messages to and from clients for TLC: pooled clients,      *)
(* delivery with its gaps, publishing, webhooks, push notifications, and   *)
(* the analytics that count them.  They share no state in these models, so *)
(* a behaviour is a behaviour of one of them, chosen at the start, with    *)
(* the others at rest: the reachable states are the union of theirs and    *)
(* not the product.  The collector of a service, the roll-ups of the       *)
(* provisioning pods and the streams of administrators are three such      *)
(* parts of Analytics.                                                     *)
(***************************************************************************)
EXTENDS ClientLease

CONSTANTS Channel, DeliveryCap, GapCap, SlowClientMaxAttempts, MaxMsgs, Msg, FanoutWorkers,
          FanoutQueueSize, DLQWorkers, DLQCap, MaxFailures, HalfOpenReqs, BrokerHangs, Webhook,
          Event, Worker, AlreadyDegraded, MaxRetries, QueueSize, IntakeSize, MaxDegraded,
          MaxEdits, Device, PushRetries, MaxRecords, Pod, Viewer

VARIABLES which, cdSeqGen, cdAttempts, cdOpen, cdGone, cdSend, cdGapChan, cdWriter, cdInflight,
          cdMerged, cdOverflow, cdWire, cdDropped, prPub, prAdmitted, prBreaker, prCopy,
          prCounted, prFanout, prDlq, prClosing, prPoolClosed, prCancelled, prClientOpen,
          prTimedOut, whPending, whIntake, whRetryQueue, whWorkers, whDrops, whEnded,
          whStatusUpdates, whDegradedCh, whTimers, whLost, whCache, whStore, whDegradations,
          whEdits, ppDevices, ppRecords, ppLoop, ppJobs, ppClosed, ppWorkers, ppCtx, ppRefresh,
          ppStage, ppEnded, ppDropped, ppPanicked, anCurrent, anMaps, anProducers,
          anFlushEnabled, anEdition, anProcs, anPending, anStored, anCounted, anLogged, anLate,
          anUnsure, anCtx, anBudget, anHour, anMinuteRows, anHourRows, anDayRows, anParts,
          anJobs, anViewers

deliveryVars == <<cdSeqGen, cdAttempts, cdOpen, cdGone, cdSend, cdGapChan, cdWriter, cdInflight,
    cdMerged, cdOverflow, cdWire, cdDropped>>
producerVars == <<prPub, prAdmitted, prBreaker, prCopy, prCounted, prFanout, prDlq, prClosing,
    prPoolClosed, prCancelled, prClientOpen, prTimedOut>>
webhooksVars == <<whPending, whIntake, whRetryQueue, whWorkers, whDrops, whEnded,
    whStatusUpdates, whDegradedCh, whTimers, whLost, whCache, whStore, whDegradations, whEdits>>
pushVars == <<ppDevices, ppRecords, ppLoop, ppJobs, ppClosed, ppWorkers, ppCtx, ppRefresh,
    ppStage, ppEnded, ppDropped, ppPanicked>>
usageVars == <<anCurrent, anMaps, anProducers, anFlushEnabled, anEdition, anProcs, anPending,
    anStored, anCounted, anLogged, anLate, anUnsure, anCtx, anBudget, anHour, anMinuteRows,
    anHourRows, anDayRows, anParts, anJobs, anViewers>>

Part == {"lease", "delivery", "producer", "webhooks", "push", "collect", "rollup", "stream"}

\* One device of each kind of provider.
MCPlatform == [d \in Device |-> IF d = "d1" THEN "web" ELSE "android"]

\* Three analytics events that one goroutine records in turn, under two keys for
\* a buffer of one.
Sample == {"e1", "e2", "e3"}
MCKeyOf == [e1 |-> "k1", e2 |-> "k2", e3 |-> "k2"]
MCBefore == [e1 |-> {}, e2 |-> {"e1"}, e3 |-> {"e1", "e2"}]
MCTables == <<"push">>

Delivery == INSTANCE ClientDelivery WITH seqGen <- cdSeqGen, attempts <- cdAttempts,
    open <- cdOpen, gone <- cdGone, send <- cdSend, gapChan <- cdGapChan, writer <- cdWriter,
    inflight <- cdInflight, merged <- cdMerged, overflow <- cdOverflow, wire <- cdWire,
    dropped <- cdDropped, SendCap <- DeliveryCap

Produce == INSTANCE Producer WITH pub <- prPub, admitted <- prAdmitted, breaker <- prBreaker,
    copy <- prCopy, counted <- prCounted, fanout <- prFanout, dlq <- prDlq,
    closing <- prClosing, poolClosed <- prPoolClosed, cancelled <- prCancelled,
    clientOpen <- prClientOpen, timedOut <- prTimedOut

Webhooks == INSTANCE WebhookDelivery WITH pending <- whPending, intake <- whIntake,
    retryQueue <- whRetryQueue, workers <- whWorkers, drops <- whDrops, ended <- whEnded,
    statusUpdates <- whStatusUpdates, degradedCh <- whDegradedCh, timers <- whTimers,
    lost <- whLost, cache <- whCache, store <- whStore, degradations <- whDegradations,
    edits <- whEdits

Push == INSTANCE PushPipeline WITH devices <- ppDevices, records <- ppRecords, loop <- ppLoop,
    jobs <- ppJobs, closed <- ppClosed, workers <- ppWorkers, ctx <- ppCtx,
    refresh <- ppRefresh, stage <- ppStage, ended <- ppEnded, dropped <- ppDropped,
    panicked <- ppPanicked, PlatformOf <- MCPlatform, MaxRetries <- PushRetries

Usage == INSTANCE Analytics WITH current <- anCurrent, maps <- anMaps, producers <- anProducers,
    flushEnabled <- anFlushEnabled, edition <- anEdition, procs <- anProcs,
    pending <- anPending, stored <- anStored, counted <- anCounted, logged <- anLogged,
    late <- anLate, unsure <- anUnsure, ctx <- anCtx, budget <- anBudget, hour <- anHour,
    minuteRows <- anMinuteRows, hourRows <- anHourRows, dayRows <- anDayRows, parts <- anParts,
    jobs <- anJobs, viewers <- anViewers, Event <- Sample, KeyOf <- MCKeyOf, Before <- MCBefore,
    BufferSize <- 1, QueueCap <- 1, MaxFlushes <- 2, MaxFaults <- 2, Tables <- MCTables,
    HoursPerDay <- 1, MaxHour <- 2, MaxRows <- 1, MaxStatementFaults <- 1, MinuteRetention <- 1,
    HourRetention <- 1

ASSUME DeliveryAssumption == Delivery!ConstantsAssumption
ASSUME ProducerAssumption == Produce!ConstantsAssumption

allVars == <<which, vars, deliveryVars, producerVars, webhooksVars, pushVars, usageVars>>

\* A component at rest has one initial state.
MCInit ==
    /\ which \in Part
    /\ Init /\ Delivery!Init /\ Produce!Init /\ Webhooks!Init /\ Push!Init /\ Usage!Init
    /\ which # "push" => ppDevices = Device
    /\ which # "rollup" => anParts["minute"][0] = "own"

\* One component takes the steps and the others rest.
MCNext ==
    /\ which' = which
    /\ \/ /\ which = "lease" /\ Next
          /\ UNCHANGED <<deliveryVars, producerVars, webhooksVars, pushVars, usageVars>>
       \/ /\ which = "delivery" /\ Delivery!Next
          /\ UNCHANGED <<vars, producerVars, webhooksVars, pushVars, usageVars>>
       \/ /\ which = "producer" /\ Produce!Next
          /\ UNCHANGED <<vars, deliveryVars, webhooksVars, pushVars, usageVars>>
       \/ /\ which = "webhooks" /\ Webhooks!Next
          /\ UNCHANGED <<vars, deliveryVars, producerVars, pushVars, usageVars>>
       \/ /\ which = "push" /\ Push!Next
          /\ UNCHANGED <<vars, deliveryVars, producerVars, webhooksVars, usageVars>>
       \/ /\ which = "collect" /\ Usage!CollectorNext
          /\ UNCHANGED <<vars, deliveryVars, producerVars, webhooksVars, pushVars>>
       \/ /\ which = "rollup" /\ Usage!RollupNext
          /\ UNCHANGED <<vars, deliveryVars, producerVars, webhooksVars, pushVars>>
       \/ /\ which = "stream" /\ Usage!StreamNext
          /\ UNCHANGED <<vars, deliveryVars, producerVars, webhooksVars, pushVars>>

MCSpec == MCInit /\ [][MCNext]_allVars

-----------------------------------------------------------------------------
\* The numbers missing on the wire are those of dropped messages, and a gap
\* begins and ends with one (Broadcast, coalesceGapNotifications).
WireTellsLosses == Delivery!WireTellsLosses

\* The egress copy of every acknowledged message is written or counted
\* (FanoutWorker).
EgressSurfaced == Produce!EgressSurfaced

\* No delivery vanishes and none is duplicated (Runner.dropOldest).
TaskInOnePlace == Webhooks!TaskInOnePlace

\* The push consumer never sends on the job channel once Stop has closed it
\* (Consumer.Stop, Pool.Stop).
NoJobAfterClose == Push!NoJobAfterClose

\* Analytics count what was recorded once: in the collector's maps, queue
\* and batches, and in the roll-ups of several pods (realCollector,
\* RollupManager).
CountedOnce == which \in {"collect", "rollup"} => Usage!CountedOnce
=============================================================================
