--------------------------- MODULE KafkaConsumer ---------------------------
(***************************************************************************)
(* The Kafka consume loop of ws-server (server/kafka/consumer.go): how     *)
(* records are polled, prepared, batched, broadcast and marked for commit, *)
(* and what survives crashes, rebalances, shutdown and bus outages.        *)
(*                                                                         *)
(* The Kafka broker and the franz-go client are external: a partition has  *)
(* one committed offset, a group member owns partitions, fetching starts   *)
(* at the committed offset and moves on whatever is marked, a commit is    *)
(* cumulative, and the broker takes a commit from any live member, owner   *)
(* or not.  Offsets start at 0: offset o of p is log[p][o + 1].            *)
(***************************************************************************)
EXTENDS Integers, Sequences

CONSTANTS
  Partition,     \* partitions of the consumed topics
  Member,        \* consumer instances of the group (one per ws-server pod)
  NoMember,      \* owner of an unassigned partition
  LogLen,        \* records per partition
  BatchSize,     \* Consumer.batchSize, also the capacity of recordCh
  BatchEnabled,  \* Consumer.batchEnabled
  MaxFaults      \* bound on crashes, cancels, revokes, outages and registry changes

ASSUME ConstantsAssumption ==
  /\ NoMember \notin Member
  /\ LogLen \in Nat
  /\ BatchSize \in Nat \ {0}
  /\ BatchEnabled \in BOOLEAN
  /\ MaxFaults \in Nat

Offset == 0 .. LogLen - 1

\* extractChannel's verdict on the record itself; the registry is separate.
Kind == {"valid", "malformed"}

Record == [part : Partition, off : Offset]

VARIABLES
  log,         \* [Partition -> [1..LogLen -> Kind]]: what was produced
  registered,  \* partitions whose topic is in the pool's topicTenants snapshot
  busUp,       \* the broadcast function succeeds
  owner,       \* [Partition -> Member \cup {NoMember}]
  committed,   \* [Partition -> Nat]: the group's committed offset
  ctx,         \* [Member -> {"down", "live", "canceled"}]: Consumer.ctx
  loop,        \* [Member -> LoopState]: where consumeLoop is
  position,    \* [Member -> [Partition -> Nat]]: next offset PollFetches returns
  polled,      \* [Member -> Seq(Record)]: recordCh and the fetch being pushed into it
  batch,       \* [Member -> Seq(Record)]: the loop's batch
  marked,      \* [Member -> [Partition -> Nat]]: head of the marked offsets, 0 if none
  dirty,       \* [Member -> SUBSET Partition]: marked and not yet committed
  delivered,   \* history: [Partition -> SUBSET Offset] broadcast by some member
  dropped,     \* history: malformed records, sent to the DLQ and marked
  missed,      \* history: records skipped unmarked because of a registry miss
  faults       \* faults so far

brokerVars  == <<log, owner, committed>>
sessionVars == <<ctx, loop, position, polled, batch, marked, dirty>>
historyVars == <<delivered, dropped, missed>>
envVars     == <<registered, busUp, faults>>
vars        == <<brokerVars, sessionVars, historyVars, envVars>>

\* "select": waiting in the loop's select.  "flush": inside deliverBatch, back to
\* the select afterwards.  "final": inside deliverBatch on the way out.
LoopState == {"select", "flush", "final", "stopped"}

\* Types of the consume loop's state; no position, mark or commit passes the end of the log.
TypeOK ==
  /\ log \in [Partition -> [1 .. LogLen -> Kind]]
  /\ registered \subseteq Partition
  /\ busUp \in BOOLEAN
  /\ owner \in [Partition -> Member \cup {NoMember}]
  /\ committed \in [Partition -> 0 .. LogLen]
  /\ ctx \in [Member -> {"down", "live", "canceled"}]
  /\ loop \in [Member -> LoopState]
  /\ position \in [Member -> [Partition -> 0 .. LogLen]]
  /\ polled \in [Member -> Seq(Record)]
  /\ batch \in [Member -> Seq(Record)]
  /\ marked \in [Member -> [Partition -> 0 .. LogLen]]
  /\ dirty \in [Member -> SUBSET Partition]
  /\ delivered \in [Partition -> SUBSET Offset]
  /\ dropped \in [Partition -> SUBSET Offset]
  /\ missed \in [Partition -> SUBSET Offset]
  /\ faults \in 0 .. MaxFaults

Init ==
  /\ log \in [Partition -> [1 .. LogLen -> Kind]]
  /\ registered = Partition
  /\ busUp = TRUE
  /\ owner = [p \in Partition |-> NoMember]
  /\ committed = [p \in Partition |-> 0]
  /\ ctx = [m \in Member |-> "down"]
  /\ loop = [m \in Member |-> "stopped"]
  /\ position = [m \in Member |-> [p \in Partition |-> 0]]
  /\ polled = [m \in Member |-> <<>>]
  /\ batch = [m \in Member |-> <<>>]
  /\ marked = [m \in Member |-> [p \in Partition |-> 0]]
  /\ dirty = [m \in Member |-> {}]
  /\ delivered = [p \in Partition |-> {}]
  /\ dropped = [p \in Partition |-> {}]
  /\ missed = [p \in Partition |-> {}]
  /\ faults = 0

-----------------------------------------------------------------------------
(* The group and the client library.                                       *)

Fault == faults < MaxFaults /\ faults' = faults + 1

\* Everything a Consumer object holds is gone: crash, or after client.Close.
Discard(m) ==
  /\ ctx' = [ctx EXCEPT ![m] = "down"]
  /\ loop' = [loop EXCEPT ![m] = "stopped"]
  /\ polled' = [polled EXCEPT ![m] = <<>>]
  /\ batch' = [batch EXCEPT ![m] = <<>>]
  /\ marked' = [marked EXCEPT ![m] = [p \in Partition |-> 0]]
  /\ dirty' = [dirty EXCEPT ![m] = {}]
  /\ UNCHANGED position

Owned(m) == {p \in Partition : owner[p] = m}

\* NewConsumer and Start.
Start(m) ==
  /\ ctx[m] = "down"
  /\ ctx' = [ctx EXCEPT ![m] = "live"]
  /\ loop' = [loop EXCEPT ![m] = "select"]
  /\ UNCHANGED <<brokerVars, position, polled, batch, marked, dirty, historyVars, envVars>>

\* The coordinator gives p to m; m fetches from the committed offset on.
Assign(m, p) ==
  /\ ctx[m] = "live" /\ owner[p] = NoMember
  /\ owner' = [owner EXCEPT ![p] = m]
  /\ position' = [position EXCEPT ![m][p] = committed[p]]
  /\ marked' = [marked EXCEPT ![m][p] = committed[p]]
  /\ dirty' = [dirty EXCEPT ![m] = @ \ {p}]
  /\ UNCHANGED <<log, committed, ctx, loop, polled, batch, historyVars, envVars>>

\* CommitMarkedOffsets: the heads of all partitions marked since the last commit.
CommittedBy(m) == [p \in Partition |-> IF p \in dirty[m] THEN marked[m][p] ELSE committed[p]]

\* The periodic auto-commit of the marked offsets (kgo.AutoCommitMarks).
AutoCommit(m) ==
  /\ dirty[m] # {}
  /\ committed' = CommittedBy(m)
  /\ dirty' = [dirty EXCEPT ![m] = {}]
  /\ UNCHANGED <<log, owner, ctx, loop, position, polled, batch, marked, historyVars, envVars>>

\* handleRevoke: commit what is marked before the partitions S go.  A failed or
\* timed-out commit is only logged.
handleRevoke(m, S, ok) ==
  /\ committed' = IF ok THEN CommittedBy(m) ELSE committed
  /\ owner' = [p \in Partition |-> IF p \in S THEN NoMember ELSE owner[p]]

\* A rebalance takes S from a running member.  The client forgets the marks of S;
\* records of S that were already polled stay in the loop.
Revoke(m, S, ok) ==
  /\ Fault
  /\ ctx[m] # "down" /\ S # {} /\ S \subseteq Owned(m)
  /\ handleRevoke(m, S, ok)
  /\ dirty' = [dirty EXCEPT ![m] = IF ok THEN {} ELSE @ \ S]
  /\ marked' = [marked EXCEPT ![m] = [p \in Partition |-> IF p \in S THEN 0 ELSE @[p]]]
  /\ UNCHANGED <<log, ctx, loop, position, polled, batch, historyVars, registered, busUp>>

Crash(m) ==
  /\ Fault
  /\ ctx[m] # "down"
  /\ Discard(m)
  /\ owner' = [p \in Partition |-> IF owner[p] = m THEN NoMember ELSE owner[p]]
  /\ UNCHANGED <<log, committed, historyVars, registered, busUp>>

\* Mutant of Poll: the last record is not recognised as the last.
PollPastEnd(m, p, n) ==
  /\ ctx[m] = "live" /\ owner[p] = m /\ loop[m] # "stopped"
  /\ Len(polled[m]) <= BatchSize /\ position[m][p] <= LogLen
  /\ polled' = [polled EXCEPT ![m] = Append(@, [part |-> p, off |-> position[m][p]])]
  /\ position' = [position EXCEPT ![m][p] = @ + 1]
  /\ UNCHANGED <<brokerVars, ctx, loop, batch, marked, dirty, historyVars, envVars>>

\* PollFetches returns the next n records of p.  It is called again only once the
\* previous fetch has gone into recordCh (batched) or has been processed.
Poll(m, p, n) ==
  /\ ctx[m] = "live" /\ owner[p] = m
  /\ loop[m] # "stopped"
  /\ IF BatchEnabled THEN Len(polled[m]) <= BatchSize
                     ELSE polled[m] = <<>> /\ loop[m] = "select"
  /\ position[m][p] + n <= LogLen
  /\ polled' = [polled EXCEPT ![m] =
                  @ \o [i \in 1 .. n |-> [part |-> p, off |-> position[m][p] + i - 1]]]
  /\ position' = [position EXCEPT ![m][p] = @ + n]
  /\ UNCHANGED <<brokerVars, ctx, loop, batch, marked, dirty, historyVars, envVars>>

-----------------------------------------------------------------------------
(* The consume loop.  With batching off, consumeLoopUnbatched and          *)
(* processRecord are the same steps with a batch of one that is flushed at *)
(* once and a poller that is the loop itself.                              *)

\* MarkCommitRecords(r): the head only moves forward.
Mark(m, r) ==
  LET head == r.off + 1 IN
  IF head > marked[m][r.part]
  THEN /\ marked' = [marked EXCEPT ![m][r.part] = head]
       /\ dirty' = [dirty EXCEPT ![m] = @ \cup {r.part}]
  ELSE UNCHANGED <<marked, dirty>>

KindOf(r) == log[r.part][r.off + 1]

\* The loop receives the next record; pacing and the CPU brake are delays.
Take(m) ==
  /\ loop[m] = "select" /\ polled[m] # <<>>
  /\ polled' = [polled EXCEPT ![m] = Tail(@)]

\* Mutant of TakeValid: the record is marked when it is taken, not when broadcast.
TakeValidMarked(m) ==
  /\ Take(m)
  /\ Head(polled[m]).part \in registered /\ KindOf(Head(polled[m])) = "valid"
  /\ batch' = [batch EXCEPT ![m] = Append(@, Head(polled[m]))]
  /\ loop' = [loop EXCEPT ![m] =
                IF ~BatchEnabled \/ Len(batch'[m]) >= BatchSize THEN "flush" ELSE "select"]
  /\ Mark(m, Head(polled[m]))
  /\ UNCHANGED <<brokerVars, ctx, position, historyVars, envVars>>

\* prepareMessage returned a message: append it, and flush a full batch.
TakeValid(m) ==
  /\ Take(m)
  /\ Head(polled[m]).part \in registered /\ KindOf(Head(polled[m])) = "valid"
  /\ batch' = [batch EXCEPT ![m] = Append(@, Head(polled[m]))]
  /\ loop' = [loop EXCEPT ![m] =
                IF ~BatchEnabled \/ Len(batch'[m]) >= BatchSize THEN "flush" ELSE "select"]
  /\ UNCHANGED <<brokerVars, ctx, position, marked, dirty, historyVars, envVars>>

\* A record extractChannel rejects goes to the DLQ and is marked on the spot,
\* whatever the batch still holds.
TakeMalformed(m) ==
  /\ Take(m)
  /\ Head(polled[m]).part \in registered /\ KindOf(Head(polled[m])) = "malformed"
  /\ dropped' = [dropped EXCEPT ![Head(polled[m]).part] = @ \cup {Head(polled[m]).off}]
  /\ Mark(m, Head(polled[m]))
  /\ UNCHANGED <<brokerVars, ctx, loop, position, batch, delivered, missed, envVars>>

\* A topic the registry does not know: skipped, not marked.
TakeMiss(m) ==
  /\ Take(m)
  /\ Head(polled[m]).part \notin registered
  /\ BatchEnabled => ctx[m] = "live"
  /\ missed' = [missed EXCEPT ![Head(polled[m]).part] = @ \cup {Head(polled[m]).off}]
  /\ UNCHANGED <<brokerVars, ctx, loop, position, batch, marked, dirty, delivered, dropped, envVars>>

\* Mutant of TakeInterrupted: the loop goes on with the next record.
TakeInterruptedGoesOn(m) ==
  /\ ctx[m] = "canceled"
  /\ Take(m)
  /\ UNCHANGED <<brokerVars, ctx, loop, position, batch, marked, dirty, historyVars, envVars>>

\* The context ends while the record is paced or braked (or, with batching, when
\* it is a registry miss): the record is abandoned unmarked and the loop leaves,
\* delivering first what it had batched.
TakeInterrupted(m) ==
  /\ ctx[m] = "canceled"
  /\ Take(m)
  /\ loop' = [loop EXCEPT ![m] = IF batch[m] = <<>> THEN "stopped" ELSE "final"]
  /\ UNCHANGED <<brokerVars, ctx, position, batch, marked, dirty, historyVars, envVars>>

\* Mutant of FlushTimer: only a full batch is flushed.
FlushTimerFullOnly(m) ==
  /\ BatchEnabled /\ loop[m] = "select" /\ Len(batch[m]) >= BatchSize
  /\ loop' = [loop EXCEPT ![m] = "flush"]
  /\ UNCHANGED <<brokerVars, ctx, position, polled, batch, marked, dirty, historyVars, envVars>>

\* The flush timer.
FlushTimer(m) ==
  /\ BatchEnabled /\ loop[m] = "select" /\ batch[m] # <<>>
  /\ loop' = [loop EXCEPT ![m] = "flush"]
  /\ UNCHANGED <<brokerVars, ctx, position, polled, batch, marked, dirty, historyVars, envVars>>

\* The ctx.Done arm.  Without batching it is only looked at between two fetches.
CtxDone(m) ==
  /\ ctx[m] = "canceled" /\ loop[m] = "select"
  /\ ~BatchEnabled => polled[m] = <<>>
  /\ loop' = [loop EXCEPT ![m] = IF batch[m] = <<>> THEN "stopped" ELSE "final"]
  /\ UNCHANGED <<brokerVars, ctx, position, polled, batch, marked, dirty, historyVars, envVars>>

AfterFlush(l) == IF l = "flush" THEN "select" ELSE "stopped"

\* deliverBatch, one record: broadcastWithRetry succeeds, then the record is marked.
Deliver(m) ==
  /\ loop[m] \in {"flush", "final"} /\ busUp
  /\ delivered' = [delivered EXCEPT ![Head(batch[m]).part] = @ \cup {Head(batch[m]).off}]
  /\ Mark(m, Head(batch[m]))
  /\ batch' = [batch EXCEPT ![m] = Tail(@)]
  /\ loop' = [loop EXCEPT ![m] = IF Tail(batch[m]) # <<>> THEN @ ELSE AfterFlush(@)]
  /\ UNCHANGED <<brokerVars, ctx, position, polled, dropped, missed, envVars>>

\* Mutant: the abandoned record is marked.
DeliverInterruptedMarks(m) ==
  /\ loop[m] \in {"flush", "final"} /\ ~busUp /\ ctx[m] = "canceled"
  /\ Mark(m, Head(batch[m]))
  /\ batch' = [batch EXCEPT ![m] = <<>>]
  /\ loop' = [loop EXCEPT ![m] = "stopped"]
  /\ UNCHANGED <<brokerVars, ctx, position, polled, historyVars, envVars>>

\* broadcastWithRetry is waiting out a failure when the context ends: the rest of
\* the batch is abandoned unmarked and nothing is consumed any more.
DeliverInterrupted(m) ==
  /\ loop[m] \in {"flush", "final"} /\ ~busUp /\ ctx[m] = "canceled"
  /\ batch' = [batch EXCEPT ![m] = <<>>]
  /\ loop' = [loop EXCEPT ![m] = "stopped"]
  /\ UNCHANGED <<brokerVars, ctx, position, polled, marked, dirty, historyVars, envVars>>

\* Stop, first half: cancel the context.
Cancel(m) ==
  /\ Fault
  /\ ctx[m] = "live"
  /\ ctx' = [ctx EXCEPT ![m] = "canceled"]
  /\ UNCHANGED <<brokerVars, loop, position, polled, batch, marked, dirty, historyVars, registered, busUp>>

\* Stop, second half: the loop has returned; client.Close revokes everything.
Close(m, ok) ==
  /\ ctx[m] = "canceled" /\ loop[m] = "stopped"
  /\ handleRevoke(m, Owned(m), ok)
  /\ Discard(m)
  /\ UNCHANGED <<log, historyVars, envVars>>

-----------------------------------------------------------------------------
(* The environment: the bus and the pool's registry snapshot.              *)

BusFails    == Fault /\ busUp /\ busUp' = FALSE
               /\ UNCHANGED <<brokerVars, sessionVars, historyVars, registered>>
BusRecovers == ~busUp /\ busUp' = TRUE
               /\ UNCHANGED <<brokerVars, sessionVars, historyVars, registered, faults>>

Unregister(p) == Fault /\ p \in registered /\ registered' = registered \ {p}
                 /\ UNCHANGED <<brokerVars, sessionVars, historyVars, busUp>>
Register(p)   == p \notin registered /\ registered' = registered \cup {p}
                 /\ UNCHANGED <<brokerVars, sessionVars, historyVars, busUp, faults>>

LoopStep(m) ==
  \/ TakeValid(m) \/ TakeMalformed(m) \/ TakeMiss(m) \/ TakeInterrupted(m)
  \/ FlushTimer(m) \/ CtxDone(m) \/ Deliver(m) \/ DeliverInterrupted(m)

Next ==
  \/ \E m \in Member :
       \/ Start(m) \/ AutoCommit(m) \/ Crash(m) \/ Cancel(m) \/ LoopStep(m)
       \/ \E p \in Partition : Assign(m, p) \/ \E n \in 1 .. LogLen : Poll(m, p, n)
       \/ \E ok \in BOOLEAN : Close(m, ok) \/ \E S \in SUBSET Partition : Revoke(m, S, ok)
  \/ BusFails \/ BusRecovers
  \/ \E p \in Partition : Unregister(p) \/ Register(p)

Spec == Init /\ [][Next]_vars

\* The goroutines of a member keep running, a group hands out free partitions, pods
\* are restarted, and an outage ends.  Faults and commits owe nothing.
Fairness ==
  /\ WF_vars(BusRecovers)
  /\ \A m \in Member :
       /\ WF_vars(Start(m)) /\ WF_vars(LoopStep(m))
       /\ WF_vars(\E ok \in BOOLEAN : Close(m, ok))
       /\ WF_vars(\E p \in Partition : \E n \in 1 .. LogLen : Poll(m, p, n))
  /\ \A p \in Partition : WF_vars(\E m \in Member : Assign(m, p))

FairSpec == Spec /\ Fairness

-----------------------------------------------------------------------------
(* Properties.                                                             *)

\* o of p needs no further delivery: it was broadcast, dead-lettered or skipped.
Settled(p, o) == o \in delivered[p] \cup dropped[p] \cup missed[p]

\* ... or, with batching, a later malformed record of p was marked on the spot.
Accounted(p, o) == Settled(p, o) \/ (BatchEnabled /\ \E d \in dropped[p] : d > o)

\* deliverBatch's promise (consumer.go 1076-1083) as far as the code keeps it: over
\* every crash, rebalance, outage and shutdown the committed offset passes an
\* unsettled record only where TakeMalformed marked a later one past it.
CommittedAccounted == \A p \in Partition : \A o \in 0 .. committed[p] - 1 : Accounted(p, o)

\* Retry-in-place keeps a partition in order: once a record was broadcast, every
\* earlier one is accounted for, so a client's cursor never passes a record that
\* is still to come.
NoOvertaking == \A p \in Partition : \A d \in delivered[p] : \A o \in 0 .. d - 1 : Accounted(p, o)

\* Blocking on an outage is not a way to lose: once faults cease, every produced
\* record is broadcast, dead-lettered or skipped, or was overtaken by a marked drop.
EventuallyAccounted == <>(\A p \in Partition : \A o \in Offset : Accounted(p, o))

\* The inductive invariant behind them.  What is still in a member's hands is held
\* in order: behind each record it will broadcast or mark, every earlier record of
\* the partition is accounted for or comes first.
AccountedBelow(p, c) == \A o \in 0 .. c - 1 : Accounted(p, o)

Holds(s, k, p, o) == \E j \in 1 .. k : s[j] = [part |-> p, off |-> o]

BatchInOrder(m) ==
  \A i \in 1 .. Len(batch[m]) : \A o \in 0 .. batch[m][i].off - 1 :
    Accounted(batch[m][i].part, o) \/ Holds(batch[m], i - 1, batch[m][i].part, o)

PolledInOrder(m) ==
  \A i \in 1 .. Len(polled[m]) : \A o \in 0 .. polled[m][i].off - 1 :
    \/ Accounted(polled[m][i].part, o)
    \/ Holds(batch[m], Len(batch[m]), polled[m][i].part, o)
    \/ Holds(polled[m], i - 1, polled[m][i].part, o)

PositionInOrder(m) ==
  \A p \in Partition : owner[p] = m => \A o \in 0 .. position[m][p] - 1 :
    \/ Accounted(p, o)
    \/ Holds(batch[m], Len(batch[m]), p, o)
    \/ Holds(polled[m], Len(polled[m]), p, o)

MemberInv(m) ==
  /\ \A p \in Partition : AccountedBelow(p, marked[m][p])
  /\ BatchInOrder(m)
  /\ loop[m] \in {"select", "flush"} => PolledInOrder(m) /\ PositionInOrder(m)
  /\ loop[m] \in {"flush", "final"} => batch[m] # <<>>
  /\ ~BatchEnabled /\ loop[m] = "select" => batch[m] = <<>>
  /\ ctx[m] = "down" => /\ loop[m] = "stopped" /\ polled[m] = <<>> /\ batch[m] = <<>>
                        /\ \A p \in Partition : owner[p] # m

IndInv == CommittedAccounted /\ NoOvertaking /\ \A m \in Member : MemberInv(m)

\* The promise as deliverBatch's comment states it, with no exception.
CommittedSettled == \A p \in Partition : \A o \in 0 .. committed[p] - 1 : Settled(p, o)

\* The consume path implements the at-least-once contract of AtLeastOnce: every
\* broadcast is in partition order and every commit is covered, whatever members
\* crash, lose partitions or keep working on partitions they no longer own.
Contract == INSTANCE AtLeastOnce WITH Overtaking <- BatchEnabled

\* The consume path implements the contract, with the committed offset and the history
\* of records as its variables.
ImplementsAtLeastOnce == Contract!Spec

=============================================================================
