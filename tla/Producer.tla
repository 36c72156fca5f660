------------------------------ MODULE Producer ------------------------------
(***************************************************************************)
(* Publishing (server/kafka/producer.go): a publish writes its message to  *)
(* the ingress topic inside a circuit breaker and is then acknowledged;    *)
(* the copy for an egress topic goes to a pool of workers                  *)
(* (fanout_worker.go), and from there, when its write fails, to the        *)
(* dead-letter pool (dlq_worker.go).  Close drains both, within bounds.    *)
(*                                                                         *)
(* A message has one egress copy.  Routing, headers and the length of      *)
(* delays are left out; a dead letter's retries are one write that         *)
(* succeeds or is given up.  The breaker is gobreaker's.                   *)
(***************************************************************************)
EXTENDS Integers, FiniteSets

CONSTANTS
  Msg,            \* one publish each
  FanoutWorkers, FanoutQueueSize,
  DLQWorkers, DLQCap,
  MaxFailures,    \* CircuitBreakerMaxFailures
  HalfOpenReqs,   \* CircuitBreakerHalfOpenReqs
  BrokerHangs     \* a write to the broker may outlast the shutdown timeout

ConstantsAssumption ==
  /\ FanoutWorkers \in Nat \ {0} /\ FanoutQueueSize \in Nat \ {0}
  /\ DLQWorkers \in Nat \ {0} /\ DLQCap \in Nat \ {0}
  /\ MaxFailures \in Nat \ {0} /\ HalfOpenReqs \in Nat \ {0}
  /\ BrokerHangs \in BOOLEAN

VARIABLES
  pub,        \* where a publish is
  admitted,   \* the breaker's generation that let it through
  breaker,    \* [state, generation, requests, failures, successes]
  copy,       \* where its egress copy is
  counted,    \* copies that a counter of the fan-out pool has seen
  fanout,     \* fan-out workers that run
  dlq,        \* dead-letter workers that run
  closing,    \* where Close is
  poolClosed, \* FanoutPool.closed; the channel is closed with it
  cancelled,  \* the producer's context
  clientOpen, \* the Kafka client
  timedOut    \* history: Shutdown gave up waiting for the fan-out workers

breakerVars == <<admitted, breaker>>
poolVars == <<copy, counted>>
workerVars == <<fanout, dlq>>
closeVars == <<closing, poolClosed, cancelled, clientOpen, timedOut>>
vars == <<pub, breakerVars, poolVars, workerVars, closeVars>>

At(place) == {m \in Msg : copy[m] = place}

NewGeneration(state, g) ==
  [state |-> state, generation |-> g, requests |-> 0, failures |-> 0, successes |-> 0]

Init ==
  /\ pub = [m \in Msg |-> "idle"]
  /\ admitted = [m \in Msg |-> 0]
  /\ breaker = NewGeneration("closed", 0)
  /\ copy = [m \in Msg |-> "none"] /\ counted = {}
  /\ fanout = FanoutWorkers /\ dlq = DLQWorkers
  /\ closing = "open" /\ poolClosed = FALSE /\ cancelled = FALSE /\ clientOpen = TRUE
  /\ timedOut = FALSE

----------------------------------------------------------------------------
(* The circuit breaker.  A result counts only in the generation that       *)
(* admitted its request; a generation is a stay in one state.              *)

Failed(b) ==
  IF b.state = "half" \/ b.failures + 1 >= MaxFailures
    THEN NewGeneration("open", b.generation + 1)
    ELSE [b EXCEPT !.failures = @ + 1, !.successes = 0]

Succeeded(b) ==
  IF b.state = "half" /\ b.successes + 1 >= HalfOpenReqs
    THEN NewGeneration("closed", b.generation + 1)
    ELSE [b EXCEPT !.failures = 0, !.successes = @ + 1]

\* afterRequest; IsSuccessful takes a neutral error for a success
Count(m, result) ==
  breaker' = IF admitted[m] # breaker.generation THEN breaker
             ELSE IF result = "failure" THEN Failed(breaker) ELSE Succeeded(breaker)

BreakerTimeout ==
  /\ breaker.state = "open"
  /\ breaker' = NewGeneration("half", breaker.generation + 1)
  /\ UNCHANGED <<pub, admitted, poolVars, workerVars, closeVars>>

----------------------------------------------------------------------------
(* Dead letters.                                                           *)

\* where a dead letter goes: TrySubmit, or the counter for a full queue
DeadLetter == IF Cardinality(At("dlq")) < DLQCap THEN "dlq" ELSE "dlqCounted"

DLQTake(m) ==
  /\ copy[m] = "dlq" /\ Cardinality(At("dlqWorker")) < dlq
  /\ copy' = [copy EXCEPT ![m] = "dlqWorker"]
  /\ UNCHANGED <<pub, breakerVars, counted, workerVars, closeVars>>

\* process: written, or given up and counted
DLQProcess(m) ==
  /\ copy[m] = "dlqWorker"
  /\ \E end \in {"lettered", "dlqCounted"} :
       /\ end = "lettered" => clientOpen
       /\ copy' = [copy EXCEPT ![m] = end]
  /\ UNCHANGED <<pub, breakerVars, counted, workerVars, closeVars>>

\* Mutant: the worker exits without drainAbandoned.
DLQExitNoDrain ==
  /\ cancelled /\ Cardinality(At("dlqWorker")) < dlq
  /\ dlq' = dlq - 1
  /\ UNCHANGED <<pub, breakerVars, poolVars, fanout, closeVars>>

\* a worker that sees the cancelled context drains the queue, counts and exits
DLQExit ==
  /\ cancelled /\ Cardinality(At("dlqWorker")) < dlq
  /\ dlq' = dlq - 1
  /\ copy' = [m \in Msg |-> IF copy[m] = "dlq" THEN "dlqCounted" ELSE copy[m]]
  /\ UNCHANGED <<pub, breakerVars, counted, fanout, closeVars>>

----------------------------------------------------------------------------
(* The fan-out pool.                                                       *)

\* Submit takes submitMu for reading, looks at closed, and sends without
\* blocking; "locked" is the step between.
Submit(m) ==
  /\ pub[m] = "acked"
  /\ IF poolClosed THEN /\ pub' = [pub EXCEPT ![m] = "done"]
                        /\ copy' = [copy EXCEPT ![m] = "counted"]
                        /\ counted' = counted \cup {m}
                        /\ Count(m, "success")
                   ELSE /\ pub' = [pub EXCEPT ![m] = "locked"]
                        /\ UNCHANGED <<copy, counted, breaker>>
  /\ UNCHANGED <<admitted, workerVars, closeVars>>

Send(m) ==
  /\ pub[m] = "locked"
  /\ pub' = [pub EXCEPT ![m] = "done"]
  /\ Count(m, "success")
  /\ IF Cardinality(At("handoff")) < FanoutQueueSize
       THEN copy' = [copy EXCEPT ![m] = "handoff"] /\ counted' = counted
       ELSE copy' = [copy EXCEPT ![m] = DeadLetter] /\ counted' = counted \cup {m}
  /\ UNCHANGED <<admitted, workerVars, closeVars>>

FanoutTake(m) ==
  /\ copy[m] = "handoff" /\ Cardinality(At("worker")) < fanout
  /\ copy' = [copy EXCEPT ![m] = "worker"]
  /\ UNCHANGED <<pub, breakerVars, counted, workerVars, closeVars>>

\* process: written, or counted and dead-lettered
FanoutProcess(m) ==
  /\ copy[m] = "worker"
  /\ \/ /\ clientOpen
        /\ copy' = [copy EXCEPT ![m] = "written"] /\ counted' = counted
     \/ copy' = [copy EXCEPT ![m] = DeadLetter] /\ counted' = counted \cup {m}
  /\ UNCHANGED <<pub, breakerVars, workerVars, closeVars>>

FanoutExit ==
  /\ Cardinality(At("worker")) < fanout
  /\ cancelled \/ (poolClosed /\ At("handoff") = {})
  /\ fanout' = fanout - 1
  /\ UNCHANGED <<pub, breakerVars, poolVars, dlq, closeVars>>

----------------------------------------------------------------------------
(* Publish.                                                                *)

\* the closed check, then the routing plan
PublishStarts(m) ==
  /\ pub[m] = "idle"
  /\ \E to \in IF closing = "open" THEN {"resolved", "rejected"} ELSE {"rejected"} :
       pub' = [pub EXCEPT ![m] = to]
  /\ UNCHANGED <<breakerVars, poolVars, workerVars, closeVars>>

\* Execute: refused, or admitted
Execute(m) ==
  /\ pub[m] = "resolved"
  /\ IF breaker.state = "open" \/ (breaker.state = "half" /\ breaker.requests >= HalfOpenReqs)
       THEN pub' = [pub EXCEPT ![m] = "rejected"] /\ UNCHANGED breakerVars
       ELSE /\ pub' = [pub EXCEPT ![m] = "producing"]
            /\ admitted' = [admitted EXCEPT ![m] = breaker.generation]
            /\ breaker' = [breaker EXCEPT !.requests = IF breaker.state = "half" THEN @ + 1 ELSE @]
  /\ UNCHANGED <<poolVars, workerVars, closeVars>>

\* the ingress write succeeds; Submit follows inside Execute, which counts the
\* result last
doProduce(m) ==
  /\ pub[m] = "producing" /\ clientOpen
  /\ pub' = [pub EXCEPT ![m] = "acked"]
  /\ UNCHANGED <<breakerVars, poolVars, workerVars, closeVars>>

\* it fails; isBreakerNeutralErr holds of some errors
doProduceFails(m, result) ==
  /\ pub[m] = "producing"
  /\ pub' = [pub EXCEPT ![m] = "failed"]
  /\ Count(m, result)
  /\ UNCHANGED <<admitted, poolVars, workerVars, closeVars>>

----------------------------------------------------------------------------
(* Close.                                                                  *)

CloseStep(from, to) == closing = from /\ closing' = to

CloseStarts ==
  /\ CloseStep("open", "shutdown")
  /\ UNCHANGED <<pub, breakerVars, poolVars, workerVars, poolClosed, cancelled, clientOpen, timedOut>>

\* Mutant: the channel is closed without submitMu.
ShutdownClosesUnlocked ==
  /\ CloseStep("shutdown", "drain")
  /\ poolClosed' = TRUE
  /\ UNCHANGED <<pub, breakerVars, poolVars, workerVars, cancelled, clientOpen, timedOut>>

\* Shutdown: submitMu for writing
ShutdownCloses ==
  /\ CloseStep("shutdown", "drain")
  /\ \A m \in Msg : pub[m] # "locked"
  /\ poolClosed' = TRUE
  /\ UNCHANGED <<pub, breakerVars, poolVars, workerVars, cancelled, clientOpen, timedOut>>

ShutdownDrained ==
  /\ CloseStep("drain", "cancel") /\ fanout = 0
  /\ UNCHANGED <<pub, breakerVars, poolVars, workerVars, poolClosed, cancelled, clientOpen, timedOut>>

\* Mutant: the timeout leaves the queue as it is.
ShutdownLeaves ==
  /\ CloseStep("drain", "cancel") /\ BrokerHangs
  /\ UNCHANGED <<pub, breakerVars, poolVars, workerVars, poolClosed, cancelled, clientOpen, timedOut>>

\* Mutant: no timeout.
ShutdownWaits ==
  /\ CloseStep("drain", "cancel") /\ BrokerHangs /\ fanout = 0
  /\ UNCHANGED <<pub, breakerVars, poolVars, workerVars, poolClosed, cancelled, clientOpen, timedOut>>

\* the timeout: what is still queued is counted
ShutdownTimeout ==
  /\ CloseStep("drain", "cancel") /\ BrokerHangs
  /\ copy' = [m \in Msg |-> IF copy[m] = "handoff" THEN "counted" ELSE copy[m]]
  /\ counted' = counted \cup At("handoff")
  /\ timedOut' = TRUE
  /\ UNCHANGED <<pub, breakerVars, workerVars, poolClosed, cancelled, clientOpen>>

Cancel ==
  /\ CloseStep("cancel", "waitDLQ") /\ cancelled' = TRUE
  /\ UNCHANGED <<pub, breakerVars, poolVars, workerVars, poolClosed, clientOpen, timedOut>>

\* the dead-letter workers are gone, or the timeout
CloseClient ==
  /\ CloseStep("waitDLQ", "waitFanout") /\ (dlq = 0 \/ BrokerHangs)
  /\ clientOpen' = FALSE
  /\ UNCHANGED <<pub, breakerVars, poolVars, workerVars, poolClosed, cancelled, timedOut>>

CloseReturns ==
  /\ CloseStep("waitFanout", "closed") /\ (fanout = 0 \/ BrokerHangs)
  /\ UNCHANGED <<pub, breakerVars, poolVars, workerVars, poolClosed, cancelled, clientOpen, timedOut>>

Close ==
  \/ CloseStarts \/ ShutdownCloses \/ ShutdownDrained \/ ShutdownTimeout
  \/ Cancel \/ CloseClient \/ CloseReturns

----------------------------------------------------------------------------
Publish(m) ==
  \/ PublishStarts(m) \/ Execute(m) \/ doProduce(m)
  \/ \E result \in {"failure", "neutral"} : doProduceFails(m, result)

Next ==
  \/ Close \/ BreakerTimeout \/ DLQExit \/ FanoutExit
  \/ \E m \in Msg : Publish(m) \/ Submit(m) \/ Send(m) \/ FanoutTake(m) \/ FanoutProcess(m)
                    \/ DLQTake(m) \/ DLQProcess(m)

Spec == Init /\ [][Next]_vars

\* Close goes on and Submit does not block.  A write to the broker may hang for
\* ever: when it does, Close relies on its timeouts.
FairSpec ==
  /\ Spec
  /\ WF_vars(ShutdownCloses) /\ WF_vars(ShutdownDrained \/ ShutdownTimeout)
  /\ WF_vars(Cancel) /\ WF_vars(CloseClient) /\ WF_vars(CloseReturns)
  /\ WF_vars(DLQExit) /\ WF_vars(FanoutExit)
  /\ \A m \in Msg : /\ WF_vars(Submit(m)) /\ WF_vars(Send(m))
                    /\ WF_vars(FanoutTake(m)) /\ WF_vars(~clientOpen /\ FanoutProcess(m))
                    /\ WF_vars(DLQTake(m)) /\ WF_vars(~clientOpen /\ DLQProcess(m))

----------------------------------------------------------------------------
(* Properties.                                                             *)

\* Types, with the capacity of the two queues and the workers that hold a copy.
TypeOK ==
  /\ pub \in [Msg -> {"idle", "resolved", "rejected", "producing", "failed", "acked",
                      "locked", "done"}]
  /\ breaker.state \in {"closed", "open", "half"}
  /\ breaker.failures \in 0 .. MaxFailures - 1 /\ breaker.requests \in 0 .. HalfOpenReqs
  /\ admitted \in [Msg -> 0 .. breaker.generation]
  /\ copy \in [Msg -> {"none", "handoff", "worker", "written", "counted",
                       "dlq", "dlqWorker", "lettered", "dlqCounted"}]
  /\ Cardinality(At("handoff")) <= FanoutQueueSize /\ Cardinality(At("worker")) <= fanout
  /\ Cardinality(At("dlq")) <= DLQCap /\ Cardinality(At("dlqWorker")) <= dlq

\* "surfaced, never silent": the egress copy of an acknowledged message is
\* written, counted, or still with a worker that runs.
EgressSurfaced ==
  \A m \in Msg : pub[m] = "done" =>
    \/ copy[m] \in {"written", "worker"} \/ m \in counted
    \/ copy[m] = "handoff" /\ fanout > 0

\* "a dropped dead-letter copy is surfaced, never silent": a dead letter is
\* written, counted, or still with a worker that runs.  Without timedOut it does
\* not hold: a write that outlasts the drain fails when Close closes the client,
\* and is dead-lettered into a queue whose workers have emptied it and gone.
DeadLetterSurfaced == At("dlq") # {} => dlq > 0 \/ timedOut

\* submitMu: the handoff channel is not closed under a Submit that has seen it
\* open (a send on a closed channel panics).
NoSendOnClosed == poolClosed => \A m \in Msg : pub[m] # "locked"

\* Close returns, whatever the broker does, and then the workers end.
CloseEnds == closing = "shutdown" ~> (closing = "closed" /\ fanout = 0 /\ dlq = 0)
=============================================================================
