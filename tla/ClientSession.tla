--------------------------- MODULE ClientSession ----------------------------
(***************************************************************************)
(* The requests of one client of a shard: subscribe, reconnect with a      *)
(* cursor, live replay of a gap, message history and publish, for a        *)
(* WebSocket (server/handlers_message.go and handler_*.go) and for an SSE  *)
(* stream (server/grpc_service.go).  A request runs in the client's        *)
(* ReadLoop or Subscribe call; a live replay and a history delivery run in *)
(* a goroutine per channel.  The broadcast listener and retention run beside *)
(* all of them; the history stream holds some prefix of the log.           *)
(*                                                                         *)
(* The channels of the client live in one partition: a record is its       *)
(* offset, and a position is the offset it encodes.  Numbering and the     *)
(* WriteLoop are those of ClientDelivery and reduced to a buffer here.     *)
(***************************************************************************)
EXTENDS Integers, Sequences, FiniteSets, FiniteSetsExt

CONSTANTS
  Channel,               \* channels of the client's tenant
  Foreign,               \* a channel of another tenant
  Bad,                   \* a position DecodePos rejects
  SendCap,               \* capacity of Client.send
  MaxChannelsPerClient,
  MaxReplayMessages,
  HistoryMaxLimit,
  MaxLog,                \* bound on produced records
  MaxRequests,           \* bound on requests
  MaxFaults              \* bound on failing calls and timeouts

ConstantsAssumption ==
  /\ Foreign \notin Channel /\ Bad \notin Nat
  /\ {SendCap, MaxChannelsPerClient, MaxReplayMessages, HistoryMaxLimit} \subseteq Nat \ {0}
  /\ {MaxLog, MaxRequests, MaxFaults} \subseteq Nat

VARIABLES
  log,       \* Seq(Channel): the partition; a record's offset is its index
  logStart,  \* first offset retention has kept
  live,      \* records broadcast to this shard
  synced,    \* the routing snapshot has been received: ChannelTopic answers
  transport, \* "ws" or "sse"
  open,      \* the transport is open
  subs,      \* subscriptions, in the client's set and in the index
  pc,        \* where the ReadLoop or the Subscribe call is
  job,       \* the reconnect it works on
  send,      \* items in Client.send
  offered,   \* offsets offered to the client, those a full buffer dropped and counted among them
  replay,    \* [Channel -> Task]: the live replay of a channel
  hist,      \* [Channel -> Task]: the history delivery of a channel
  recent,    \* channels whose replayLastAt is within the rate limit
  requests, faults

pipeVars   == <<log, logStart, live, synced>>
clientVars == <<transport, open, subs>>
taskVars   == <<replay, hist, recent>>
vars == <<pipeVars, clientVars, pc, job, send, offered, taskVars, requests, faults>>

\* A goroutine: where it is, its first offset, its snapshot of the end, what it has left
\* to send, and whether it fetched anything.
Idle == [at |-> "none", start |-> 0, end |-> 0, msgs |-> <<>>, any |-> FALSE]

\* A reconnect: the channels asked for, the cursor, what was authorized, the replay, and
\* the control frames still to send and those sent.
NoJob == [chans |-> {}, cursor |-> <<>>, auth |-> {}, start |-> 0, end |-> 0, msgs |-> <<>>,
          full |-> FALSE, truncated |-> FALSE, err |-> FALSE, frames |-> <<>>, queued |-> {}, gap |-> {}]

Init ==
  /\ log = <<>> /\ logStart = 1 /\ live = 0 /\ synced \in BOOLEAN
  /\ transport \in {"ws", "sse"} /\ open = TRUE
  /\ subs \in {s \in SUBSET Channel : Cardinality(s) <= IF transport = "ws" THEN MaxChannelsPerClient ELSE 0}
  /\ pc = IF transport = "ws" THEN "idle" ELSE "connect"
  /\ job = NoJob
  /\ send = 0 /\ offered = {}
  /\ replay = [c \in Channel |-> Idle] /\ hist = [c \in Channel |-> Idle] /\ recent = {}
  /\ requests = 0 /\ faults = 0

-----------------------------------------------------------------------------
(* The send buffer.                                                        *)

Room == send < SendCap

\* sendErrorToClient, the acks and the completions never block: a full buffer loses them.
SendReply == send' = Min({send + 1, SendCap})
SendReplies == send' = Min({send + 2, SendCap})

\* A record that found room.
Offer(o) == send' = send + 1 /\ offered' = offered \cup {o}

WriterTakes ==
  /\ send > 0 /\ open
  /\ send' = send - 1
  /\ UNCHANGED <<pipeVars, clientVars, pc, job, offered, taskVars, requests, faults>>

-----------------------------------------------------------------------------
(* What goes on beside the client.                                         *)

\* Records and retention are followed while the client is there.
Produce(c) ==
  /\ open /\ Len(log) < MaxLog
  /\ log' = Append(log, c)
  /\ UNCHANGED <<logStart, live, synced, clientVars, pc, job, send, offered, taskVars,
                 requests, faults>>

Retain ==
  /\ open /\ logStart <= Len(log) /\ faults < MaxFaults
  /\ logStart' = logStart + 1 /\ faults' = faults + 1
  /\ UNCHANGED <<log, live, synced, clientVars, pc, job, send, offered, taskVars, requests>>

\* Broadcast: the next record goes to the clients in the index, without blocking.
Broadcast ==
  /\ live < Len(log)
  /\ live' = live + 1
  /\ IF log[live + 1] \in subs
     THEN IF Room THEN Offer(live + 1) ELSE offered' = offered \cup {live + 1} /\ UNCHANGED send
     ELSE UNCHANGED <<send, offered>>
  /\ UNCHANGED <<log, logStart, synced, clientVars, pc, job, taskVars, requests, faults>>

RulesSynced ==
  /\ ~synced /\ synced' = TRUE
  /\ UNCHANGED <<log, logStart, live, clientVars, pc, job, send, offered, taskVars, requests, faults>>

ReplayIntervalOver(c) ==
  /\ c \in recent /\ recent' = recent \ {c}
  /\ UNCHANGED <<pipeVars, clientVars, pc, job, send, offered, replay, hist, requests, faults>>

-----------------------------------------------------------------------------
(* ReplayFromOffsets: a group-less consumer reads from start to the log    *)
(* end listed first; a record produced since may come with the last batch. *)

Offsets(s, e, chans) ==
  SelectSeq([i \in 1 .. Len(log) |-> i], LAMBDA i : s <= i /\ i <= e /\ log[i] \in chans)

\* Filtered to the channels asked for, the oldest first, up to the cap.
Capped(s, e, chans) ==
  LET q == Offsets(s, e, chans) IN SubSeq(q, 1, Min({Len(q), MaxReplayMessages}))

End == Len(log) + 1

-----------------------------------------------------------------------------
(* Requests.                                                               *)

Ready(t) == /\ pc = "idle" /\ transport = t /\ open /\ requests < MaxRequests
            /\ requests' = requests + 1

\* Heartbeats, unknown messages, invalid ones and those over the message rate are only
\* answered.
Answered ==
  /\ Ready("ws") /\ SendReply
  /\ UNCHANGED <<pipeVars, clientVars, pc, job, offered, taskVars, faults>>

\* Mutant: a channel the client holds counts against the limit a second time, once.
WithinLimitOffByOne(chs) == Cardinality(subs \cup chs) <= MaxChannelsPerClient + 1

\* Only channels the client does not hold count against the limit.
WithinLimit(chs) == Cardinality(subs \cup chs) <= MaxChannelsPerClient

\* The client's set and the index its channels are broadcast by change together.
AddMultiple(chs)    == subs' = subs \cup chs
RemoveMultiple(chs) == subs' = subs \ chs

Subscribe(chs) ==
  /\ Ready("ws")
  /\ IF WithinLimit(chs) THEN AddMultiple(chs) ELSE UNCHANGED subs
  /\ SendReply
  /\ UNCHANGED <<pipeVars, transport, open, pc, job, offered, taskVars, faults>>

Unsubscribe(chs) ==
  /\ Ready("ws")
  /\ RemoveMultiple(chs)
  /\ SendReply
  /\ UNCHANGED <<pipeVars, transport, open, pc, job, offered, taskVars, faults>>

\* handleClientPublish: rejected, or written to Kafka and acknowledged.
PublishAccepted(c) ==
  /\ Ready("ws") /\ Len(log) < MaxLog
  /\ log' = Append(log, c)
  /\ SendReply
  /\ UNCHANGED <<logStart, live, synced, clientVars, pc, job, offered, taskVars, faults>>

\* authorizeLastPos: the tenant's channels with a decodable position and a known topic;
\* of those the client does not hold, in any order, as many as the limit admits.
Valid(cursor) == {c \in DOMAIN cursor \cap Channel : synced /\ cursor[c] # Bad}

Authorized(cursor, held) ==
  LET new  == Valid(cursor) \ held
      room == Max({0, MaxChannelsPerClient - Cardinality(held)})
  IN {(Valid(cursor) \cap held) \cup n :
        n \in {m \in SUBSET new : Cardinality(m) = Min({Cardinality(new), room})}}

\* Mutant: the highest position of the channels wins.
StartOfHighest(cursor, auth) == Max({cursor[c] + 1 : c \in auth})

\* One start per partition: the lowest position wins.
StartOf(cursor, auth) == Min({cursor[c] + 1 : c \in auth})

Reconnecting(chs, cursor, auth) ==
  job' = [NoJob EXCEPT !.chans = chs, !.cursor = [c \in auth |-> cursor[c]], !.auth = auth,
                       !.start = IF auth = {} THEN 0 ELSE StartOf(cursor, auth)]

\* handleReconnect: nothing authorized is acknowledged at once; otherwise live delivery
\* is registered before the replay starts.
Reconnect(cursor) ==
  /\ Ready("ws")
  /\ \E auth \in Authorized(cursor, subs) :
       IF auth = {}
       THEN SendReply /\ UNCHANGED <<subs, pc, job>>
       ELSE /\ AddMultiple(auth)
            /\ pc' = "snapshot" /\ Reconnecting({}, cursor, auth)
            /\ UNCHANGED send
  /\ UNCHANGED <<pipeVars, transport, open, offered, taskVars, faults>>

\* The Subscribe RPC: channels are registered as they come (the gateway has checked
\* them); a cursor, even one that the gateway emptied, asks for a verdict.
SubscribeFresh(chs) ==
  /\ pc = "connect" /\ chs # {}
  /\ subs' = chs /\ pc' = "idle"
  /\ UNCHANGED <<pipeVars, transport, open, job, send, offered, taskVars, requests, faults>>

SubscribeWithCursor(chs, cursor) ==
  /\ pc = "connect" /\ chs # {} /\ DOMAIN cursor \subseteq chs
  /\ subs' = chs
  /\ \E auth \in Authorized(cursor, chs) :
       /\ Reconnecting(chs, cursor, auth)
       /\ pc' = IF auth = {} THEN "answer" ELSE "snapshot"
  /\ UNCHANGED <<pipeVars, transport, open, send, offered, taskVars, requests, faults>>

-----------------------------------------------------------------------------
(* The replay of a reconnect.                                              *)

JobStep == UNCHANGED <<pipeVars, clientVars, offered, taskVars, requests>>

\* ListEndOffsets.  A cursor past the end is out of range.
Snapshot ==
  /\ pc = "snapshot"
  /\ IF job.start > End
     THEN job' = [job EXCEPT !.err = TRUE] /\ pc' = "answer"
     ELSE /\ job' = [job EXCEPT !.end = End]
          /\ pc' = IF job.start = End THEN "forward" ELSE "fetch"
  /\ JobStep /\ UNCHANGED <<send, faults>>

\* The polls, up to the end or to the cap.  A start that retention has passed is out of
\* range, and nothing is delivered.
Fetch ==
  /\ pc = "fetch"
  /\ IF job.start < logStart
     THEN job' = [job EXCEPT !.err = TRUE] /\ pc' = "answer"
     ELSE /\ \E e \in job.end - 1 .. Len(log) :
               LET q == Capped(job.start, e, job.auth)
               IN job' = [job EXCEPT !.msgs = q, !.full = Len(q) >= MaxReplayMessages]
          /\ pc' = "forward"
  /\ JobStep /\ UNCHANGED <<send, faults>>

\* A broker error, or polls that end before the snapshot's end.
ReplayFails ==
  /\ pc \in {"snapshot", "fetch"} /\ faults < MaxFaults
  /\ faults' = faults + 1
  /\ job' = [job EXCEPT !.err = TRUE] /\ pc' = "answer"
  /\ JobStep /\ UNCHANGED send

\* Each record is offered to the buffer; the first that finds no room ends the replay.
Forward ==
  /\ pc = "forward" /\ job.msgs # <<>>
  /\ IF Room
     THEN Offer(Head(job.msgs)) /\ job' = [job EXCEPT !.msgs = Tail(@)] /\ UNCHANGED pc
     ELSE /\ job' = [job EXCEPT !.truncated = TRUE, !.msgs = <<>>] /\ pc' = "answer"
          /\ UNCHANGED <<send, offered>>
  /\ UNCHANGED <<pipeVars, clientVars, taskVars, requests, faults>>

\* Mutant: a batch that was cut at the cap counts as complete.
ForwardedCapIgnored ==
  /\ pc = "forward" /\ job.msgs = <<>>
  /\ \E late \in BOOLEAN :
       /\ late => faults < MaxFaults
       /\ faults' = IF late THEN faults + 1 ELSE faults
       /\ job' = [job EXCEPT !.truncated = late, !.full = FALSE]
  /\ pc' = "answer"
  /\ JobStep /\ UNCHANGED send

\* A full batch or an expired replay timeout may have left records behind.
Forwarded ==
  /\ pc = "forward" /\ job.msgs = <<>>
  /\ \E late \in BOOLEAN :
       /\ late => faults < MaxFaults
       /\ faults' = IF late THEN faults + 1 ELSE faults
       /\ job' = [job EXCEPT !.truncated = job.full \/ late, !.full = FALSE]
  /\ pc' = "answer"
  /\ JobStep /\ UNCHANGED send

\* recoveryOutcome: recovered is what was authorized and replayed to the end.
PossibleGap == job.chans \ (IF job.err \/ job.truncated THEN {} ELSE job.auth)

Frames ==
  (IF PossibleGap # {} THEN <<"no_replay">> ELSE <<>>)
    \o (IF job.truncated /\ ~job.err THEN <<"replay_truncated">> ELSE <<>>)
    \o <<"recovery_complete">>

\* The WebSocket is told the count or an error; the stream gets its verdict.
Answer ==
  /\ pc = "answer"
  /\ IF transport = "ws"
     THEN SendReply /\ pc' = "idle" /\ UNCHANGED job
     ELSE job' = [job EXCEPT !.gap = PossibleGap, !.frames = Frames] /\ pc' = "control" /\ UNCHANGED send
  /\ JobStep /\ UNCHANGED faults

\* sendReplayControl waits for room, or for the end of the stream.
SendReplayControl ==
  /\ pc = "control" /\ job.frames # <<>>
  /\ IF open THEN Room /\ send' = send + 1 ELSE UNCHANGED send
  /\ job' = [job EXCEPT !.frames = Tail(@), !.queued = IF open THEN @ \cup {Head(job.frames)} ELSE @]
  /\ UNCHANGED pc
  /\ JobStep /\ UNCHANGED faults

ControlSent ==
  /\ pc = "control" /\ job.frames = <<>>
  /\ pc' = "idle"
  /\ JobStep /\ UNCHANGED <<job, send, faults>>

-----------------------------------------------------------------------------
(* Live replay (handler_replay.go).                                        *)

\* handleReplayRequest: subscribed, a position, no replay running for the channel, not
\* too soon after the last one, a known topic; else an error.
ReplayAdmitted(c, from) ==
  /\ c \in subs /\ from # Bad /\ replay[c] = Idle /\ c \notin recent /\ synced

ReplayRequest(c, from) ==
  /\ Ready("ws")
  /\ IF ReplayAdmitted(c, from)
     THEN replay' = [replay EXCEPT ![c] = [Idle EXCEPT !.at = "snapshot", !.start = from]] /\ UNCHANGED send
     ELSE SendReply /\ UNCHANGED replay
  /\ UNCHANGED <<pipeVars, clientVars, pc, job, offered, hist, recent, faults>>

ReplayStep == UNCHANGED <<pipeVars, clientVars, pc, job, offered, hist, requests>>

\* The goroutine ends: replay_complete or an error is offered, then the flag is cleared.
ReplayEnds(c) == replay' = [replay EXCEPT ![c] = Idle] /\ SendReply

LiveSnapshot(c) ==
  /\ replay[c].at = "snapshot"
  /\ IF replay[c].start > End
     THEN ReplayEnds(c)
     ELSE /\ replay' = [replay EXCEPT ![c].end = End,
                                      ![c].at = IF replay[c].start = End THEN "send" ELSE "fetch"]
          /\ UNCHANGED send
  /\ ReplayStep /\ UNCHANGED <<recent, faults>>

LiveFetch(c) ==
  /\ replay[c].at = "fetch"
  /\ IF replay[c].start < logStart
     THEN ReplayEnds(c)
     ELSE /\ \E e \in replay[c].end - 1 .. Len(log) :
               LET q == Capped(replay[c].start, e, {c})
               IN replay' = [replay EXCEPT ![c].msgs = q, ![c].any = q # <<>>, ![c].at = "send"]
          /\ UNCHANGED send
  /\ ReplayStep /\ UNCHANGED <<recent, faults>>

\* The send blocks until there is room.
LiveSend(c) ==
  /\ replay[c].at = "send" /\ replay[c].msgs # <<>> /\ Room
  /\ Offer(Head(replay[c].msgs))
  /\ replay' = [replay EXCEPT ![c].msgs = Tail(@)]
  /\ UNCHANGED <<pipeVars, clientVars, pc, job, hist, recent, requests, faults>>

\* Only a replay that sent everything it fetched counts for the rate limit; an empty one
\* does not.
LiveSent(c) ==
  /\ replay[c].at = "send" /\ replay[c].msgs = <<>>
  /\ recent' = IF replay[c].any THEN recent \cup {c} ELSE recent
  /\ ReplayEnds(c)
  /\ ReplayStep /\ UNCHANGED faults

\* Mutant: the goroutine waits for room whatever happens to its context.
ReplayStopsNever(c) ==
  /\ replay[c].at \in {"snapshot", "fetch"} /\ (pc = "ending" \/ faults < MaxFaults)
  /\ faults' = IF pc = "ending" THEN faults ELSE faults + 1
  /\ ReplayEnds(c)
  /\ ReplayStep /\ UNCHANGED recent

\* deliveryCtx: ReplayTimeout expires, a broker call fails, or the client is going.
ReplayStops(c) ==
  /\ replay[c].at # "none" /\ (pc = "ending" \/ faults < MaxFaults)
  /\ faults' = IF pc = "ending" THEN faults ELSE faults + 1
  /\ ReplayEnds(c)
  /\ ReplayStep /\ UNCHANGED recent

-----------------------------------------------------------------------------
(* Message history (handler_history.go).                                   *)

\* handleHistoryRequest: subscribed, a limit in range, no delivery running.
HistoryAdmitted(c, limit) ==
  /\ c \in subs /\ limit \in 1 .. HistoryMaxLimit /\ hist[c] = Idle

HistoryRequest(c, limit) ==
  /\ Ready("ws")
  /\ IF HistoryAdmitted(c, limit)
     THEN hist' = [hist EXCEPT ![c] = [Idle EXCEPT !.at = "head", !.start = limit]] /\ UNCHANGED send
     ELSE SendReply /\ UNCHANGED hist
  /\ UNCHANGED <<pipeVars, clientVars, pc, job, offered, replay, recent, faults>>

\* Subscribe with history: the acknowledgement, then handleHistoryRequest.
SubscribeHistory(c, limit) ==
  /\ Ready("ws")
  /\ IF ~WithinLimit({c})
     THEN SendReply /\ UNCHANGED <<subs, hist>>
     ELSE /\ AddMultiple({c})
          /\ IF limit \in 1 .. HistoryMaxLimit /\ hist[c] = Idle
             THEN hist' = [hist EXCEPT ![c] = [Idle EXCEPT !.at = "head", !.start = limit]] /\ SendReply
             ELSE SendReplies /\ UNCHANGED hist
  /\ UNCHANGED <<pipeVars, transport, open, pc, job, offered, replay, recent, faults>>

HistStep == UNCHANGED <<pipeVars, clientVars, pc, job, offered, replay, recent, requests>>

HistoryEnds(c) == hist' = [hist EXCEPT ![c] = Idle] /\ SendReply

\* fetchStreamHeadID anchors the fetch; an error or an empty stream leaves it open ("+").
HistoryHead(c) ==
  /\ hist[c].at = "head"
  /\ \E head \in 0 .. Len(log) :
       hist' = [hist EXCEPT ![c].at = "fetch", ![c].end = IF head = 0 THEN Len(log) ELSE head]
  /\ HistStep /\ UNCHANGED <<send, faults>>

\* The newest entries up to the head, at most limit, turned to chronological order.
Newest(c, head, limit) ==
  LET q == Offsets(1, head, {c})
  IN SubSeq(q, Max({1, Len(q) - limit + 1}), Len(q))

HistoryFetch(c) ==
  /\ hist[c].at = "fetch"
  /\ hist' = [hist EXCEPT ![c].msgs = Newest(c, hist[c].end, hist[c].start), ![c].at = "deliver"]
  /\ HistStep /\ UNCHANGED <<send, faults>>

\* An entry that finds no room is skipped; the others take a place like a reply.
HistoryDeliver(c) ==
  /\ hist[c].at = "deliver" /\ hist[c].msgs # <<>>
  /\ SendReply
  /\ hist' = [hist EXCEPT ![c].msgs = Tail(@)]
  /\ HistStep /\ UNCHANGED faults

HistoryDelivered(c) ==
  /\ hist[c].at = "deliver" /\ hist[c].msgs = <<>>
  /\ HistoryEnds(c)
  /\ HistStep /\ UNCHANGED faults

\* HistoryDeliveryTimeout, a failing fetch, or the end of the client.
HistoryStops(c) ==
  /\ hist[c].at \in {"fetch", "deliver"} /\ (pc = "ending" \/ faults < MaxFaults)
  /\ faults' = IF pc = "ending" THEN faults ELSE faults + 1
  /\ HistoryEnds(c)
  /\ HistStep

-----------------------------------------------------------------------------
(* The end of the connection.                                              *)

PeerCloses ==
  /\ open /\ open' = FALSE
  /\ UNCHANGED <<pipeVars, transport, subs, pc, job, send, offered, taskVars, requests, faults>>

\* disconnectClient: out of the index, clientCancel, then the wait for the goroutines.  The
\* request handled last is of no further interest.
Disconnect ==
  /\ pc = "idle" /\ ~open
  /\ pc' = "ending" /\ subs' = {} /\ job' = NoJob /\ offered' = {}
  /\ UNCHANGED <<pipeVars, transport, open, send, taskVars, requests, faults>>

\* closeSend, and Put clears the client for its next use.
CloseSend ==
  /\ pc = "ending"
  /\ \A c \in Channel : replay[c] = Idle /\ hist[c] = Idle
  /\ pc' = "closed" /\ send' = 0 /\ offered' = {}
  /\ UNCHANGED <<pipeVars, clientVars, job, taskVars, requests, faults>>

-----------------------------------------------------------------------------
(* The specification.                                                      *)

\* Positions a client may hold: of a record, of none yet, past the end, or garbage.
Position == (0 .. Len(log) + 1) \cup {Bad}
Cursors  == UNION {[s -> Position] : s \in SUBSET Channel} \cup {[c \in {Foreign} |-> 0]}

WSRequest ==
  \/ Answered
  \/ \E chs \in SUBSET Channel \ {{}} : Subscribe(chs) \/ Unsubscribe(chs)
  \/ \E c \in Channel : PublishAccepted(c)
  \/ \E cursor \in Cursors : Reconnect(cursor)
  \/ \E c \in Channel, p \in Position : ReplayRequest(c, p)
  \/ \E c \in Channel, n \in 0 .. HistoryMaxLimit : HistoryRequest(c, n) \/ SubscribeHistory(c, n)

StreamRequest ==
  \E chs \in SUBSET Channel :
    SubscribeFresh(chs) \/ \E cursor \in Cursors : SubscribeWithCursor(chs, cursor)

ClientRequest == (pc = "idle" /\ WSRequest) \/ (pc = "connect" /\ StreamRequest)

Handler == Snapshot \/ Fetch \/ ReplayFails \/ Forward \/ Forwarded \/ Answer \/ SendReplayControl
           \/ ControlSent \/ Disconnect \/ CloseSend

Replaying(c) == LiveSnapshot(c) \/ LiveFetch(c) \/ LiveSend(c) \/ LiveSent(c) \/ ReplayStops(c)
Historic(c)  == HistoryHead(c) \/ HistoryFetch(c) \/ HistoryDeliver(c) \/ HistoryDelivered(c)
                \/ HistoryStops(c)

Next ==
  \/ \E c \in Channel : Produce(c) \/ ReplayIntervalOver(c) \/ Replaying(c) \/ Historic(c)
  \/ Retain \/ Broadcast \/ RulesSynced \/ WriterTakes \/ PeerCloses
  \/ ClientRequest \/ Handler

Spec == Init /\ [][Next]_vars

\* The goroutines run; every wait of theirs has a timeout or ends with the client.
Fairness ==
  /\ WF_vars(Handler)
  /\ \A c \in Channel : WF_vars(Replaying(c)) /\ WF_vars(Historic(c))

FairSpec == Spec /\ Fairness

-----------------------------------------------------------------------------
(* Properties.                                                             *)

\* The replay and the live window overlap (ADR-0026): once a reconnect has replayed
\* without error or truncation, every record after the cursor that the shard has broadcast
\* was offered to the client by one of the two, or counted as a drop of a full buffer.
NoSeam ==
  pc \in {"answer", "control", "idle"} /\ open /\ job.auth # {} /\ ~job.err /\ ~job.truncated =>
    \A c \in job.auth \cap subs : \A o \in job.cursor[c] + 1 .. live :
      log[o] = c => o \in offered

\* recovery_complete can be trusted (ADR-0031): when it is queued, every channel of the
\* stream that no_replay did not name has all its records after the cursor, and no_replay
\* was queued if there was a channel to name.
VerdictIsTrue ==
  "recovery_complete" \in job.queued =>
    /\ \A c \in job.chans \ job.gap :
         /\ c \in job.auth
         /\ \A o \in job.cursor[c] + 1 .. job.end - 1 : log[o] = c => o \in offered
    /\ job.gap # {} => "no_replay" \in job.queued

\* A WebSocket client never holds more channels than the limit, by whatever path.
ChannelLimit == transport = "ws" => Cardinality(subs) <= MaxChannelsPerClient

\* disconnectClient's clientWg.Wait returns: a replay blocked on a full buffer that nobody
\* drains any more ends with the client's context.
DisconnectReturns == ~open ~> pc \in {"closed", "connect"}

=============================================================================
