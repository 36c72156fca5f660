----------------------------- MODULE ShardProxy -----------------------------
(***************************************************************************)
(* The load balancer's path to a shard: the least-connections choice       *)
(* (server/orchestration/loadbalancer.go), the upgrade and the dial, and   *)
(* the two copy loops of a proxied connection with the error channel and   *)
(* the wait that joins them (server/orchestration/proxy.go).               *)
(*                                                                         *)
(* The choice reads counters that the shard updates only when its own      *)
(* handler registers the client, so several connections may choose on the  *)
(* same counts.  Frames have no content: a read waits for the source to    *)
(* send, a write for the destination to make room, and neither has to.     *)
(***************************************************************************)
EXTENDS Integers, FiniteSets

CONSTANTS
  Conn,       \* client connections
  NumShards,  \* shards are 1 .. NumShards
  MaxConns,   \* per-shard capacity
  ErrCap      \* capacity of errChan

VARIABLES
  proxied,  \* [Conn -> [stage, shard, client, backend, errs]]
  loops,    \* [Conn -> [Dir -> where the copy loop is]]
  current   \* [shard -> CurrentConnections]

vars == <<proxied, loops, current>>

Shard == 1 .. NumShards
Dir == {"up", "down"}

Source(d) == IF d = "up" THEN "client" ELSE "backend"
Dest(d) == IF d = "up" THEN "backend" ELSE "client"

\* Nothing is counted beyond its bound but the shards' connections.
TypeOK ==
  /\ proxied \in [Conn -> [stage : {"idle", "chosen", "dialled", "first", "closed", "over"},
                           shard : 0 .. NumShards, client : BOOLEAN, backend : BOOLEAN, errs : 0 .. 2]]
  /\ loops \in [Conn -> [Dir -> {"off", "read", "write", "close", "report", "done"}]]
  /\ current \in [Shard -> Nat]

Init ==
  /\ proxied = [c \in Conn |-> [stage |-> "idle", shard |-> 0, client |-> FALSE, backend |-> FALSE, errs |-> 0]]
  /\ loops = [c \in Conn |-> [d \in Dir |-> "off"]]
  /\ current = [s \in Shard |-> 0]

-----------------------------------------------------------------------------
(* Choosing and dialling *)

\* Shards below capacity whose count is least; the first of them is taken.
Candidates == {s \in Shard : /\ current[s] < MaxConns
                             /\ \A t \in Shard : current[t] < MaxConns => current[s] <= current[t]}

SelectShardByMetrics == IF Candidates = {} THEN 0
                        ELSE CHOOSE s \in Candidates : \A t \in Candidates : s <= t

\* No shard: 503.  Otherwise the client is upgraded before the shard is dialled.
handleWebSocket(c) ==
  /\ proxied[c].stage = "idle"
  /\ \E ok \in BOOLEAN :
       proxied' = [proxied EXCEPT ![c] =
         IF SelectShardByMetrics = 0 \/ ~ ok THEN [@ EXCEPT !.stage = "over"]
         ELSE [@ EXCEPT !.stage = "chosen", !.shard = SelectShardByMetrics, !.client = TRUE]]
  /\ UNCHANGED <<loops, current>>

\* Mutant: the shard trusts the balancer's choice.
ShardAcceptsAll(s) == TRUE

\* The shard's own admission: its slot semaphore.
ShardAccepts(s) == current[s] < MaxConns

\* The dial succeeds if the shard takes the connection; a refusal, a failure or
\* the timeout sends the client a close frame and ends the request.
Dial(c) ==
  /\ proxied[c].stage = "chosen"
  /\ \E ok \in BOOLEAN :
       IF ok /\ ShardAccepts(proxied[c].shard)
       THEN /\ proxied' = [proxied EXCEPT ![c].stage = "dialled", ![c].backend = TRUE]
            /\ loops' = [loops EXCEPT ![c] = [d \in Dir |-> "read"]]
            /\ current' = [current EXCEPT ![proxied[c].shard] = @ + 1]
       ELSE /\ proxied' = [proxied EXCEPT ![c].stage = "over", ![c].client = FALSE]
            /\ UNCHANGED <<loops, current>>

-----------------------------------------------------------------------------
(* copyMessages, one loop per direction *)

Up(c, side) == proxied[c][side]

\* A peer's end of a socket closes: the client leaves or the shard drops it.
PeerCloses(c, side) ==
  /\ proxied[c].stage = "dialled" /\ Up(c, side)
  /\ proxied' = [proxied EXCEPT ![c][side] = FALSE]
  /\ UNCHANGED <<loops, current>>

\* A frame is read; a close frame sends the loop to its last write.
ReadFrame(c, d) ==
  /\ loops[c][d] = "read" /\ Up(c, Source(d))
  /\ \E next \in {"write", "close"} : loops' = [loops EXCEPT ![c][d] = next]
  /\ UNCHANGED <<proxied, current>>

\* The frame is written once the destination has room; a close frame ends the loop.
WriteFrame(c, d) ==
  /\ loops[c][d] \in {"write", "close"} /\ Up(c, Dest(d))
  /\ loops' = [loops EXCEPT ![c][d] = IF @ = "write" THEN "read" ELSE "report"]
  /\ UNCHANGED <<proxied, current>>

\* A read or a write on a closed connection fails.
CopyFails(c, d) ==
  /\ \/ loops[c][d] = "read" /\ ~ Up(c, Source(d))
     \/ loops[c][d] \in {"write", "close"} /\ ~ Up(c, Dest(d))
  /\ loops' = [loops EXCEPT ![c][d] = "report"]
  /\ UNCHANGED <<proxied, current>>

\* errChan has room; both loops may report without a receiver.
HasRoom(c) == proxied[c].errs < ErrCap

\* errChan <- err, then the goroutine is done.
Report(c, d) ==
  /\ loops[c][d] = "report"
  /\ HasRoom(c)
  /\ loops' = [loops EXCEPT ![c][d] = "done"]
  /\ proxied' = [proxied EXCEPT ![c].errs = @ + 1]
  /\ UNCHANGED current

-----------------------------------------------------------------------------
(* proxyMessages *)

\* The first report is received.
FirstError(c) ==
  /\ proxied[c].stage = "dialled" /\ proxied[c].errs > 0
  /\ proxied' = [proxied EXCEPT ![c].stage = "first", ![c].errs = @ - 1]
  /\ UNCHANGED <<loops, current>>

\* Mutant: only the client's connection is closed.
ClosedClient(p) == [p EXCEPT !.client = FALSE]

\* Both connections are closed, which unblocks the other loop.
Closed(p) == [p EXCEPT !.client = FALSE, !.backend = FALSE]

CloseBoth(c) ==
  /\ proxied[c].stage = "first"
  /\ proxied' = [proxied EXCEPT ![c] = [Closed(@) EXCEPT !.stage = "closed"]]
  /\ UNCHANGED <<loops, current>>

\* wg.Wait returns and the handler with it; the shard sees its client gone.
Join(c) ==
  /\ proxied[c].stage = "closed"
  /\ \A d \in Dir : loops[c][d] = "done"
  /\ proxied' = [proxied EXCEPT ![c].stage = "over"]
  /\ current' = [current EXCEPT ![proxied[c].shard] = @ - 1]
  /\ UNCHANGED loops

ProxyStep(c) ==
  \/ handleWebSocket(c) \/ Dial(c) \/ FirstError(c) \/ CloseBoth(c) \/ Join(c)
  \/ \E d \in Dir : ReadFrame(c, d) \/ CopyFails(c, d) \/ Report(c, d) \/ WriteFrame(c, d)

Next == \E c \in Conn :
  \/ ProxyStep(c)
  \/ \E side \in {"client", "backend"} : PeerCloses(c, side)

\* Each goroutine of the proxy is scheduled; no peer has to send or to read.
Fairness == \A c \in Conn :
  /\ WF_vars(Dial(c) \/ FirstError(c) \/ CloseBoth(c) \/ Join(c))
  /\ \A d \in Dir : WF_vars(CopyFails(c, d) \/ Report(c, d))

Spec == Init /\ [][Next]_vars /\ Fairness

-----------------------------------------------------------------------------

\* Connections that chose a shard on the same stale counts cannot together take
\* it past its capacity, because the shard decides again.
ShardWithinCapacity == \A s \in Shard : current[s] <= MaxConns

\* Once either loop has reported, the proxied request returns, even if the
\* other loop is blocked in a write to a peer that never reads.
ProxyReturns == \A c \in Conn : (proxied[c].errs > 0) ~> (proxied[c].stage = "over")
=============================================================================
