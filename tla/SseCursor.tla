----------------------------- MODULE SseCursor -----------------------------
(***************************************************************************)
(* The reconnect cursor of a Server-Sent-Events client: the gateway's      *)
(* handler (ws/internal/gateway/sse.go, sse_cursor.go) and the server's    *)
(* Subscribe stream behind it (server/grpc_service.go, replay_shared.go).  *)
(*                                                                         *)
(* Neither keeps anything for an SSE client between two connections: the   *)
(* position reached on every channel travels in the opaque id: line of an  *)
(* event, which the browser sends back as Last-Event-ID.  The module       *)
(* follows one client over several connections, with a different set of    *)
(* channels on each, and the connection lost at any point.                 *)
(*                                                                         *)
(* Subscribe registers live delivery, starts the write pump and only then  *)
(* replays what the cursor says was missed, so live and replayed records   *)
(* reach the gateway in any interleaving of the two.  It ends the recovery *)
(* with its verdict: no_replay, replay_truncated and recovery_complete.    *)
(*                                                                         *)
(* The token is the function it encodes (encodeSSECursor/decodeSSECursor:  *)
(* a version prefix and base64 of the JSON map).  What the pump, the gRPC  *)
(* stream and the socket hold is one queue, send: an event written and     *)
(* never read is lost with the connection, as one never written.           *)
(***************************************************************************)
EXTENDS Integers, Sequences, FiniteSets, FiniteSetsExt, Functions

CONSTANTS
    Channel,
    MaxPos,             \* bound: messages published, over all channels
    MaxConnects,        \* bound: connections of the client
    SendCap,            \* capacity of Client.send
    MaxReplayMessages,
    EveryN              \* SSECursorEveryN

VARIABLES
    log,         \* Channel -> messages published so far (positions 1..log[ch])
    conn,        \* the connection, see Down
    batch,       \* Channel -> positions the replay has fetched and not sent
    count,       \* messages replayed
    due,         \* the verdict's frames not yet sent
    send,        \* Client.send
    lost,        \* records dropped on a full buffer since the last numbered frame
    cursor,      \* HandleSSE's cursor
    since,       \* sinceCursor
    dirty,       \* cursorDirty
    sent,        \* cursorSent
    token,       \* the client's last event id, decoded
    known,       \* Channel -> positions the client has, or knows it may have missed
    cut,         \* Channel -> its position in the token of a connection lost before its verdict
    connects

vars == <<log, conn, batch, count, due, send, lost, cursor, since, dirty, sent, token, known, cut,
          connects>>

serverVars == <<batch, count, due, send, lost>>
handlerVars == <<cursor, since, dirty, sent>>
clientVars == <<token, known, cut>>

Empty == <<>>

NoBatch == [ch \in Channel |-> {}]

\* requested: the channels registered for live delivery, from their positions
\* in from; stage: where Subscribe is; told: recovery_complete has been read.
Down == [stage |-> "down", requested |-> {}, lastPos |-> Empty, authorized |-> {},
         presented |-> FALSE, told |-> FALSE, from |-> [ch \in Channel |-> 0]]

Init ==
    /\ log = [ch \in Channel |-> 0]
    /\ conn = Down
    /\ batch = NoBatch /\ count = 0 /\ due = <<>> /\ send = <<>> /\ lost = {}
    /\ cursor = Empty /\ since = 0 /\ dirty = FALSE /\ sent = FALSE
    /\ token = Empty
    /\ known = [ch \in Channel |-> {}]
    /\ cut = [ch \in Channel |-> 0]
    /\ connects = 0

Control(type, channels) == [type |-> type, channels |-> channels]

\* A record's frame has a number of the connection's own sequence, in which
\* the client sees what was dropped before it.
Record(ch, pos) == [type |-> "message", ch |-> ch, pos |-> pos, dropped |-> lost]

Full == Len(send) >= SendCap

\* A record is published and broadcast: never waiting for a client's buffer.
Publish(ch) ==
    /\ FoldFunction(+, 0, log) < MaxPos
    /\ log' = [log EXCEPT ![ch] = @ + 1]
    /\ IF ch \notin conn.requested THEN UNCHANGED <<send, lost>>
       ELSE IF Full THEN lost' = lost \cup {<<ch, log[ch] + 1>>} /\ UNCHANGED send
       ELSE send' = Append(send, Record(ch, log[ch] + 1)) /\ lost' = {}
    /\ UNCHANGED <<conn, batch, count, due, handlerVars, clientVars, connects>>

----------------------------------------------------------------------------
(* Connecting                                                              *)

\* Only the cursor's entries for the channels of this request.
intersectCursorChannels(cur, channels) == Restrict(cur, DOMAIN cur \cap channels)

seedCursor(lastPos) == lastPos

\* HandleSSE up to its event loop, and Subscribe up to the start of the pump:
\* live delivery begins here.  A client without a token knows that it starts
\* with what comes.
HandleSSE(channels) ==
    /\ conn.stage = "down" /\ connects < MaxConnects
    /\ connects' = connects + 1
    /\ LET lastPos == intersectCursorChannels(token, channels)
           presented == token # Empty
       IN /\ conn' = [stage |-> IF presented THEN "fetch" ELSE "live", requested |-> channels,
                      lastPos |-> lastPos, authorized |-> {}, presented |-> presented,
                      told |-> ~presented, from |-> log]
          /\ cursor' = seedCursor(lastPos)
          /\ known' = [ch \in Channel |-> IF ch \in channels /\ ~presented
                                          THEN known[ch] \cup 1 .. log[ch] ELSE known[ch]]
    /\ since' = 0 /\ dirty' = FALSE /\ sent' = FALSE
    /\ UNCHANGED <<log, serverVars, token, cut>>

\* The stream ends, the client goes, a write fails, or ctx is cancelled.
Drop ==
    /\ conn.stage # "down"
    /\ conn' = Down
    /\ batch' = NoBatch /\ count' = 0 /\ due' = <<>> /\ send' = <<>> /\ lost' = {}
    /\ cursor' = Empty /\ since' = 0 /\ dirty' = FALSE /\ sent' = FALSE
    /\ cut' = [ch \in Channel |-> IF ~conn.told /\ ch \in DOMAIN token
                                  THEN Max({cut[ch], token[ch]}) ELSE cut[ch]]
    /\ UNCHANGED <<log, token, known, connects>>

----------------------------------------------------------------------------
(* The recovery of Subscribe                                               *)

\* Mutant: only channels of the cursor are reported.
recoveryOutcomeOfCursor(requested, authorized, complete) ==
    IF complete THEN {} ELSE authorized

\* The possible gaps: what was requested and is not known to be recovered.
recoveryOutcome(requested, authorized, complete) ==
    IF complete THEN requested \ authorized ELSE requested

\* The replay is over: its verdict is due.
Outcome(authorized, truncated, failed) ==
    LET gap == recoveryOutcome(conn.requested, authorized, ~truncated /\ ~failed) IN
    /\ due' = (IF gap = {} THEN <<>> ELSE <<Control("no_replay", gap)>>)
              \o (IF truncated THEN <<Control("replay_truncated", {})>> ELSE <<>>)
              \o <<Control("recovery_complete", {})>>
    /\ conn' = [conn EXCEPT !.stage = "verdict", !.authorized = {}]
    /\ batch' = NoBatch /\ count' = 0

\* authorizeLastPos keeps the channels it can map to a topic, and the backend
\* is asked for their records up to the end of the log.
ReplayFetch(authorized) ==
    /\ conn.stage = "fetch"
    /\ batch' = [ch \in Channel |-> IF ch \in authorized THEN conn.lastPos[ch] + 1 .. log[ch] ELSE {}]
    /\ conn' = [conn EXCEPT !.stage = "replay", !.authorized = authorized]
    /\ UNCHANGED <<log, count, due, send, lost, handlerVars, clientVars, connects>>

\* The backend is asked, and fails.
ReplayFails ==
    /\ conn.stage = "fetch" /\ conn.lastPos # Empty
    /\ Outcome(DOMAIN conn.lastPos, FALSE, TRUE)
    /\ UNCHANGED <<log, send, lost, handlerVars, clientVars, connects>>

\* One fetched record is sent; a full buffer ends the replay.
ReplaySend(ch) ==
    /\ conn.stage = "replay" /\ batch[ch] # {} /\ count < MaxReplayMessages
    /\ IF Full
       THEN Outcome(conn.authorized, TRUE, FALSE) /\ UNCHANGED <<send, lost>>
       ELSE /\ send' = Append(send, Record(ch, Min(batch[ch])))
            /\ lost' = {}
            /\ batch' = [batch EXCEPT ![ch] = @ \ {Min(@)}]
            /\ count' = count + 1
            /\ UNCHANGED <<conn, due>>
    /\ UNCHANGED <<log, handlerVars, clientVars, connects>>

\* The fetch stopped here: at its end, at the cap, or at the timeout.
ReplayEnds(truncated) ==
    /\ conn.stage = "replay"
    /\ IF truncated THEN conn.authorized # {} ELSE batch = NoBatch /\ count < MaxReplayMessages
    /\ Outcome(conn.authorized, truncated, FALSE)
    /\ UNCHANGED <<log, send, lost, handlerVars, clientVars, connects>>

\* The verdict waits for room in the buffer.
sendReplayControl ==
    /\ due # <<>> /\ ~Full
    /\ send' = Append(send, Head(due))
    /\ due' = Tail(due)
    /\ conn' = [conn EXCEPT !.stage = IF Len(due) = 1 THEN "live" ELSE @]
    /\ UNCHANGED <<log, batch, count, lost, handlerVars, clientVars, connects>>

----------------------------------------------------------------------------
(* The event loop of HandleSSE, and the client behind it                   *)

\* At the first message with a position, then every EveryN messages.
EmitsId(d, n) == d /\ (~sent \/ (EveryN > 0 /\ n >= EveryN))

\* Any frame with a position moves the cursor there, a live one past records
\* still to be replayed and a replayed one back again.
Moved(f) == IF f.type = "message"
            THEN [c \in DOMAIN cursor \cup {f.ch} |-> IF c = f.ch THEN f.pos ELSE cursor[c]]
            ELSE cursor

\* What a frame tells the client about the positions of a channel.
Learned(f, ch) ==
    CASE f.type = "message" -> {p \in 1 .. MaxPos : <<ch, p>> \in f.dropped \cup {<<f.ch, f.pos>>}}
      [] f.type = "no_replay" -> IF ch \in f.channels THEN 1 .. conn.from[ch] ELSE {}
      [] OTHER -> {}

\* A frame is written, with the cursor as its id if it is due, and read.
Deliver ==
    /\ send # <<>>
    /\ send' = Tail(send)
    /\ LET f == Head(send)
           d == dirty \/ f.type = "message"
           n == since + 1
           id == EmitsId(d, n) /\ Moved(f) # Empty
       IN /\ cursor' = Moved(f)
          /\ since' = IF id THEN 0 ELSE IF n > EveryN THEN EveryN ELSE n
          /\ dirty' = (d /\ ~id)
          /\ sent' = (sent \/ id)
          /\ token' = IF id THEN Moved(f) ELSE token
          /\ known' = [ch \in Channel |-> known[ch] \cup Learned(f, ch)]
          /\ conn' = [conn EXCEPT !.told = @ \/ f.type = "recovery_complete"]
    /\ UNCHANGED <<log, batch, count, due, lost, cut, connects>>

\* The keepalive tick: a bare id if the cursor advanced, else a comment.
Keepalive ==
    /\ conn.stage # "down" /\ dirty /\ cursor # Empty
    /\ token' = cursor
    /\ since' = 0 /\ dirty' = FALSE /\ sent' = TRUE
    /\ UNCHANGED <<log, conn, serverVars, cursor, known, cut, connects>>

Next ==
    \/ \E ch \in Channel : Publish(ch) \/ ReplaySend(ch)
    \/ \E channels \in SUBSET Channel \ {{}} : HandleSSE(channels)
    \/ \E authorized \in SUBSET DOMAIN conn.lastPos : ReplayFetch(authorized)
    \/ \E truncated \in BOOLEAN : ReplayEnds(truncated)
    \/ ReplayFails \/ sendReplayControl \/ Deliver \/ Keepalive \/ Drop

Spec == Init /\ [][Next]_vars

----------------------------------------------------------------------------
(* Properties                                                              *)

TypeOK ==
    /\ log \in [Channel -> 0 .. MaxPos]
    /\ conn.requested \subseteq Channel /\ DOMAIN cursor \subseteq Channel
    /\ DOMAIN token \subseteq Channel /\ Len(send) <= SendCap
    /\ since \in 0 .. EveryN /\ connects \in 0 .. MaxConnects

\* No position before the last one of the set is missing from it.
Whole(positions) == \A p \in positions : 1 .. p \subseteq positions

\* recovery_complete can be believed: a client that has read it on its present
\* connection (or came without a token) lacks no record of a channel it
\* requested but those no_replay, or the frames' numbers, told it about, over
\* any number of dropped connections and however quiet a channel was on some
\* of them (ADR-0031, MsgTypeRecoveryComplete).
RecoveredIsWhole ==
    conn.told => \A ch \in conn.requested : Whole(known[ch])

\* The same for a client that has read the verdict of every reconnect: all
\* that recovery_complete leaves unsaid are positions that the token had
\* already passed when an earlier connection was lost before its own verdict.
NoSilentLoss ==
    conn.told => \A ch \in conn.requested : Whole(known[ch] \cup 1 .. cut[ch])

=============================================================================
