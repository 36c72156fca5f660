--------------------------- MODULE ClientDelivery ---------------------------
(***************************************************************************)
(* One connected client of a shard: Server.Broadcast numbers a message and *)
(* offers it to the client's bounded send buffer without ever blocking     *)
(* (server/broadcast.go); the WriteLoop writes batches to the transport    *)
(* and turns drops into gap notifications (server/pump.go).                *)
(*                                                                         *)
(* A shard has one broadcast listener, so the calls of Broadcast for a     *)
(* client are sequential.  The position of a message is its number: within *)
(* a channel, positions grow as the client's sequence numbers do.          *)
(***************************************************************************)
EXTENDS Integers, Sequences

CONSTANTS
  Channel,                \* channels the client is subscribed to
  SendCap,                \* capacity of Client.send
  GapCap,                 \* capacity of Client.gapChan
  SlowClientMaxAttempts,
  MaxMsgs                 \* bound on broadcasts

ConstantsAssumption ==
  /\ SendCap \in Nat \ {0} /\ GapCap \in Nat \ {0}
  /\ SlowClientMaxAttempts \in Nat \ {0} /\ MaxMsgs \in Nat

VARIABLES
  seqGen,    \* numbers issued to this client
  attempts,  \* sendAttempts: consecutive failures
  open,      \* the transport is open
  gone,      \* disconnectClient has taken the client out of the subscription index
  send,      \* Seq(Item): Client.send
  gapChan,   \* Seq(Item): Client.gapChan
  writer,    \* where WriteLoop is
  inflight,  \* Seq(Item): the batch handed to the transport
  merged,    \* at most one Item: the gap being coalesced
  overflow,  \* at most one Item: the other channel's gap met while coalescing
  wire,      \* history: Seq(Item) the transport has accepted
  dropped    \* history: set of messages that did not fit the buffer

readerVars == <<open, gone>>
gapVars    == <<merged, overflow>>
vars       == <<seqGen, attempts, readerVars, send, gapChan, writer, inflight, gapVars, wire, dropped>>

\* A broadcast message (from = to = its number) or a gap notification.
Item == [kind : {"msg", "gap"}, chan : Channel, from : 1 .. MaxMsgs, to : 1 .. MaxMsgs,
         pos : 1 .. MaxMsgs]

\* The buffers hold what they are made for and never more than their capacity.
TypeOK ==
  /\ seqGen \in 0 .. MaxMsgs /\ attempts \in 0 .. MaxMsgs
  /\ open \in BOOLEAN /\ gone \in BOOLEAN
  /\ writer \in {"top", "select", "write", "coalesce", "forward", "done"}
  /\ {send, gapChan, inflight, merged, overflow, wire} \subseteq Seq(Item)
  /\ Len(send) <= SendCap /\ Len(inflight) <= SendCap /\ Len(gapChan) <= GapCap
  /\ Len(merged) <= 1 /\ Len(overflow) <= 1
  /\ dropped \subseteq Item

Init ==
  /\ seqGen = 0 /\ attempts = 0
  /\ open = TRUE /\ gone = FALSE
  /\ send = <<>> /\ gapChan = <<>>
  /\ writer = "top"
  /\ inflight = <<>> /\ merged = <<>> /\ overflow = <<>>
  /\ wire = <<>> /\ dropped = {}

-----------------------------------------------------------------------------
(* Broadcast.                                                              *)

\* A non-blocking channel send: the value is lost when the buffer is full.
Offer(q, cap, x) == IF Len(q) < cap THEN Append(q, x) ELSE q

\* The sequence number is consumed whatever happens to the message.
Message(c) == [kind |-> "msg", chan |-> c, from |-> seqGen + 1, to |-> seqGen + 1, pos |-> seqGen + 1]

Gap(m) == [m EXCEPT !.kind = "gap"]

\* The buffer takes the message.
BroadcastSent(c) ==
  /\ ~gone /\ seqGen < MaxMsgs /\ Len(send) < SendCap
  /\ seqGen' = seqGen + 1
  /\ send' = Append(send, Message(c))
  /\ attempts' = 0
  /\ UNCHANGED <<readerVars, gapChan, writer, inflight, gapVars, wire, dropped>>

\* Mutant: a dropped message gives its number to the next one.
BroadcastDroppedUnnumbered(c) ==
  /\ ~gone /\ seqGen < MaxMsgs /\ Len(send) = SendCap
  /\ dropped' = dropped \cup {Message(c)}
  /\ gapChan' = Offer(gapChan, GapCap, Gap(Message(c)))
  /\ attempts' = attempts + 1
  /\ open' = (open /\ attempts' < SlowClientMaxAttempts)
  /\ UNCHANGED <<seqGen, gone, send, writer, inflight, gapVars, wire>>

\* The buffer is full: count, enqueue a gap notification if there is room, and close
\* the transport of a client that failed SlowClientMaxAttempts times in a row.
BroadcastDropped(c) ==
  /\ ~gone /\ seqGen < MaxMsgs /\ Len(send) = SendCap
  /\ seqGen' = seqGen + 1
  /\ dropped' = dropped \cup {Message(c)}
  /\ gapChan' = Offer(gapChan, GapCap, Gap(Message(c)))
  /\ attempts' = attempts + 1
  /\ open' = (open /\ attempts' < SlowClientMaxAttempts)
  /\ UNCHANGED <<gone, send, writer, inflight, gapVars, wire>>

-----------------------------------------------------------------------------
(* WriteLoop.  Pongs and pings carry no state and are left out; a failing  *)
(* one ends the loop as a failing write does.                              *)

\* Mutant: the first message is appended after the ones drained behind it.
TakeBatchFirstLast ==
  /\ send # <<>>
  /\ inflight' = Append(Tail(send), Head(send)) /\ send' = <<>>
  /\ writer' = "write"
  /\ UNCHANGED <<seqGen, attempts, readerVars, gapChan, gapVars, wire, dropped>>

\* handleSendMsg: the first message and whatever else is in the buffer.
TakeBatch ==
  /\ send # <<>>
  /\ inflight' = send /\ send' = <<>>
  /\ writer' = "write"
  /\ UNCHANGED <<seqGen, attempts, readerVars, gapChan, gapVars, wire, dropped>>

\* Priority 2: the send buffer alone, then the blocking select.
TopSend == writer = "top" /\ TakeBatch

TopEmpty ==
  /\ writer = "top" /\ send = <<>>
  /\ writer' = "select"
  /\ UNCHANGED <<seqGen, attempts, readerVars, send, gapChan, inflight, gapVars, wire, dropped>>

SelectSend == writer = "select" /\ TakeBatch

Written ==
  /\ writer = "write" /\ open
  /\ wire' = wire \o inflight /\ inflight' = <<>>
  /\ writer' = "top"
  /\ UNCHANGED <<seqGen, attempts, readerVars, send, gapChan, gapVars, dropped>>

\* Mutant: the loop goes on after a failed write.
WriteFailsGoesOn ==
  /\ writer = "write"
  /\ writer' = "top" /\ inflight' = <<>>
  /\ UNCHANGED <<seqGen, attempts, readerVars, send, gapChan, gapVars, wire, dropped>>

\* Mutant: the loop ends without closing the transport.
WriteFailsLeavesOpen ==
  /\ writer = "write"
  /\ writer' = "done"
  /\ inflight' = <<>> /\ send' = <<>>
  /\ UNCHANGED <<seqGen, attempts, readerVars, gapChan, gapVars, wire, dropped>>

\* recordSendTimeoutDrops drains the buffer; the deferred closeOnce closes the transport.
WriteFails ==
  /\ writer = "write"
  /\ writer' = "done" /\ open' = FALSE
  /\ inflight' = <<>> /\ send' = <<>>
  /\ UNCHANGED <<seqGen, attempts, gone, gapChan, gapVars, wire, dropped>>

\* A failing ping or the server's shutdown ends the loop in the select.
SelectEnds ==
  /\ writer = "select"
  /\ writer' = "done" /\ open' = FALSE
  /\ UNCHANGED <<seqGen, attempts, gone, send, gapChan, inflight, gapVars, wire, dropped>>

\* The gapChan arm: coalesceGapNotifications starts from the first notification,
GapTake ==
  /\ writer = "select" /\ gapChan # <<>>
  /\ merged' = <<Head(gapChan)>> /\ gapChan' = Tail(gapChan)
  /\ writer' = "coalesce"
  /\ UNCHANGED <<seqGen, attempts, readerVars, send, inflight, overflow, wire, dropped>>

\* ... widens it by each further one of the same channel, keeping the first position,
Merge(m, g) == [m EXCEPT !.from = IF g.from < @ THEN g.from ELSE @,
                         !.to = IF g.to > @ THEN g.to ELSE @]

GapMerge ==
  /\ writer = "coalesce" /\ gapChan # <<>>
  /\ Head(gapChan).chan = merged[1].chan
  /\ merged' = <<Merge(merged[1], Head(gapChan))>> /\ gapChan' = Tail(gapChan)
  /\ UNCHANGED <<seqGen, attempts, readerVars, send, writer, inflight, overflow, wire, dropped>>

\* ... and stops at an empty channel or at a notification of another channel.
GapStop ==
  /\ writer = "coalesce"
  /\ IF gapChan = <<>>
     THEN UNCHANGED <<gapChan, overflow>>
     ELSE /\ Head(gapChan).chan # merged[1].chan
          /\ overflow' = <<Head(gapChan)>> /\ gapChan' = Tail(gapChan)
  /\ writer' = "forward"
  /\ UNCHANGED <<seqGen, attempts, readerVars, send, inflight, merged, wire, dropped>>

\* The other channel's notification goes back to the end of gapChan, the merged one
\* into the send buffer; either is lost if there is no room.
GapForward ==
  /\ writer = "forward"
  /\ gapChan' = IF overflow = <<>> THEN gapChan ELSE Offer(gapChan, GapCap, overflow[1])
  /\ send' = Offer(send, SendCap, merged[1])
  /\ merged' = <<>> /\ overflow' = <<>>
  /\ writer' = "top"
  /\ UNCHANGED <<seqGen, attempts, readerVars, inflight, wire, dropped>>

-----------------------------------------------------------------------------
(* The other side.                                                         *)

\* The client, or the network, ends the connection.
PeerCloses ==
  /\ open /\ open' = FALSE
  /\ UNCHANGED <<seqGen, attempts, gone, send, gapChan, writer, inflight, gapVars, wire, dropped>>

\* ReadLoop sees a closed transport: disconnectClient takes the client out.
Disconnected ==
  /\ ~open /\ ~gone /\ gone' = TRUE
  /\ UNCHANGED <<seqGen, attempts, open, send, gapChan, writer, inflight, gapVars, wire, dropped>>

Broadcast(c) == BroadcastSent(c) \/ BroadcastDropped(c)

WriteLoop ==
  \/ TopSend \/ TopEmpty \/ SelectSend \/ Written \/ WriteFails \/ SelectEnds
  \/ GapTake \/ GapMerge \/ GapStop \/ GapForward

Next ==
  \/ \E c \in Channel : Broadcast(c)
  \/ WriteLoop \/ PeerCloses \/ Disconnected

Spec == Init /\ [][Next]_vars

\* The WriteLoop goroutine keeps running, and a write ends within its deadline.
Fairness ==
  /\ WF_vars(TopSend \/ TopEmpty \/ Written \/ WriteFails)
  /\ WF_vars(SelectSend \/ GapTake) /\ WF_vars(GapMerge \/ GapStop \/ GapForward)

FairSpec == Spec /\ Fairness

-----------------------------------------------------------------------------
(* Properties.                                                             *)

\* The client can trust the numbers: messages reach the wire in strictly increasing
\* order, so a hole it sees is a message that will not come later.
WireInOrder ==
  \A i, j \in 1 .. Len(wire) :
    i < j /\ wire[i].kind = "msg" /\ wire[j].kind = "msg" => wire[i].to < wire[j].from

\* A message the client lost is not also delivered, and every number below one on the
\* wire was delivered, dropped, or lost with a failing connection.
HolesAreDrops ==
  open => \A i \in 1 .. Len(wire) : wire[i].kind = "msg" =>
    \A n \in 1 .. wire[i].from - 1 :
      (\E d \in dropped : d.from = n) # (\E j \in 1 .. i : wire[j].kind = "msg" /\ wire[j].from = n)

\* A gap notification names a range that starts and ends with a drop of its channel.
GapEndsAreDrops ==
  \A i \in 1 .. Len(wire) : wire[i].kind = "gap" =>
    \A n \in {wire[i].from, wire[i].to} : \E d \in dropped : d.chan = wire[i].chan /\ d.from = n

\* What the buffer drops can be told from the wire: while the connection is open, the
\* numbers missing below one on the wire are those of dropped messages, and a gap
\* notification, merged with others or not, names a range that starts and ends with one
\* of its channel (Broadcast, coalesceGap).
WireTellsLosses == HolesAreDrops /\ GapEndsAreDrops

Buffered(n) == \E q \in {send, inflight} : \E i \in 1 .. Len(q) : q[i].kind = "msg" /\ q[i].from = n
OnWire(n)   == \E i \in 1 .. Len(wire) : wire[i].kind = "msg" /\ wire[i].from = n

\* A message the buffer accepted reaches the wire unless the connection ends.
AcceptedIsWritten == \A n \in 1 .. MaxMsgs : Buffered(n) ~> OnWire(n) \/ ~open

-----------------------------------------------------------------------------
(* What comments of the code say and the model refutes.                    *)

\* GapNotification.LastPos is a conservative replay anchor (gap_protocol.go 10): of the
\* messages of its channel in its range, none was dropped at an earlier position.
AnchorConservative ==
  \A i \in 1 .. Len(wire) : wire[i].kind = "gap" =>
    \A d \in dropped :
      d.chan = wire[i].chan /\ d.from \in wire[i].from .. wire[i].to => wire[i].pos <= d.pos

\* Broadcast "never drops messages silently (either deliver or disconnect client)":
\* a client that stays connected learns of a drop by a notification or a later number.
NoSilentDrop ==
  \A n \in 1 .. MaxMsgs :
    (\E d \in dropped : d.from = n) ~> (\E i \in 1 .. Len(wire) : wire[i].to >= n) \/ ~open

=============================================================================
