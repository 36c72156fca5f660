---------------------------- MODULE ConnRegistry ----------------------------
(***************************************************************************)
(* The connection registry: the pod's writer that turns connect, subscribe *)
(* and disconnect events into Valkey hashes and indexes                    *)
(* (server/registry/writer.go), the listeners of the pod's admin channel   *)
(* (admin_listener.go, health_writer.go), and the provisioning handlers    *)
(* that list connections and force them closed (connections_handler.go,    *)
(* connections_valkey.go).                                                 *)
(*                                                                         *)
(* One pod, one tenant, one API key.  A pipeline is not a transaction: a   *)
(* failing one leaves any prefix of its commands executed.  The connections *)
(* of the module stand among others of their tenant, and which channels a  *)
(* connection has is left out: that it changes them is not.                *)
(***************************************************************************)
EXTENDS Integers, FiniteSets, Sequences, SequencesExt, FiniteSetsExt

CONSTANTS
  Conn, Shard,
  ShardOf,      \* [Conn -> Shard]
  Buffer,       \* ConnectionsRegistryBuffer: capacity of workChan
  MsgChanSize,  \* AdminMsgChanSize
  MaxFailures   \* bound: failing pipelines and admin channel outages

None == "none"

\* A key that does not exist.
NoHash == [here |-> FALSE, full |-> FALSE, ttl |-> FALSE]

\* about: the connections open when it was asked for; healthy: its health map;
\* told: its answer counts an error or says its page was full; skipped: the
\* same of the re-query, which nobody hears of; flushed: the writer had written
\* out its events when the re-query listed.
NoBulk == [step |-> "idle", items |-> {}, about |-> {}, healthy |-> FALSE, told |-> FALSE,
           skipped |-> FALSE, flushed |-> FALSE]

VARIABLES
  life, moved,  \* [Conn -> "new", "on", "closed", "off"], those that changed their channels
  workChan,
  faulty,       \* an event or an admin message was dropped, or a pipeline or a listener failed
  stage,        \* of runOnce: "run", "backoff", "drain", "stopped"
  batch, owned, failures,
  hash, index,  \* Valkey: [Conn -> fields], tenant and key index
  health,       \* Valkey: the pod's health hash says its listeners are up
  subscribed, msgCh,  \* shards whose listener is up (and reported healthy); their messages
  bulk          \* the bulk disconnect, see NoBulk

clients == <<life, moved>>
writer == <<stage, batch, owned, failures>>
valkey == <<hash, index, health>>
admin == <<subscribed, msgCh>>
vars == <<clients, workChan, faulty, writer, valkey, admin, bulk>>

\* The queues keep within their capacity.
TypeOK ==
  /\ life \in [Conn -> {"new", "on", "closed", "off"}] /\ moved \subseteq Conn
  /\ Len(workChan) <= Buffer /\ faulty \in BOOLEAN /\ health \in BOOLEAN
  /\ stage \in {"run", "backoff", "drain", "stopped"}
  /\ owned \subseteq Conn /\ index \subseteq Conn /\ failures \in 0 .. MaxFailures
  /\ \A s \in Shard : Len(msgCh[s]) <= MsgChanSize

Init ==
  /\ life = [c \in Conn |-> "new"] /\ moved = {}
  /\ workChan = <<>> /\ faulty = FALSE
  /\ stage = "run" /\ batch = <<>> /\ owned = {} /\ failures = 0
  /\ hash = [c \in Conn |-> NoHash] /\ index = {} /\ health = FALSE
  /\ subscribed = Shard /\ msgCh = [s \in Shard |-> <<>>]
  /\ bulk = NoBulk

-----------------------------------------------------------------------------
(* Events *)

\* A full channel drops the event; how many is a figure of the health hash.
push(e) ==
  IF Len(workChan) < Buffer
  THEN workChan' = Append(workChan, e) /\ UNCHANGED faulty
  ELSE faulty' = TRUE /\ UNCHANGED workChan

Event(kind, c) == [kind |-> kind, conn |-> c]

PushConnect(c) ==
  /\ life[c] = "new" /\ life' = [life EXCEPT ![c] = "on"]
  /\ push(Event("connect", c))
  /\ UNCHANGED <<moved, writer, valkey, admin, bulk>>

\* PushSubscribe and PushUnsubscribe carry the channels after the change; one
\* change of a connection is enough.
PushChannels(c) ==
  /\ life[c] = "on" /\ c \notin moved /\ moved' = moved \cup {c}
  /\ push(Event("channels", c))
  /\ UNCHANGED <<life, writer, valkey, admin, bulk>>

\* The peer leaves, or the read loop notices a forced close.
PushDisconnect(c) ==
  /\ life[c] \in {"on", "closed"} /\ life' = [life EXCEPT ![c] = "off"]
  /\ push(Event("disconnect", c))
  /\ UNCHANGED <<moved, writer, valkey, admin, bulk>>

-----------------------------------------------------------------------------
(* The writer *)

\* The local bookkeeping of a batch, done before the pipeline is sent.
Owned(b) ==
  FoldLeft(LAMBDA o, e : CASE e.kind = "connect" -> o \cup {e.conn}
                          [] e.kind = "disconnect" -> o \ {e.conn}
                          [] OTHER -> o, owned, b)

\* Channel changes of connections not owned at that point send no command.
Sends(b, i) ==
  b[i].kind \in {"connect", "disconnect"} \/ b[i].conn \in Owned(SubSeq(b, 1, i - 1))

Commands(b) == SelectSeq([i \in 1 .. Len(b) |-> [b[i] EXCEPT !.kind = IF Sends(b, i) THEN @ ELSE None]],
                         LAMBDA e : e.kind # None)

\* HSET of a missing hash creates it, without a TTL; EXPIRE follows only a connect.
Fields(h, e) ==
  CASE e.kind = "connect" -> [here |-> TRUE, full |-> TRUE, ttl |-> TRUE]
    [] e.kind = "disconnect" -> NoHash
    [] ~ h[e.conn].here -> [here |-> TRUE, full |-> FALSE, ttl |-> FALSE]
    [] OTHER -> h[e.conn]

Hashes(b) == FoldLeft(LAMBDA h, e : [h EXCEPT ![e.conn] = Fields(h, e)], hash, b)
Index(b) ==
  FoldLeft(LAMBDA x, e : CASE e.kind = "connect" -> x \cup {e.conn}
                          [] e.kind = "disconnect" -> x \ {e.conn}
                          [] OTHER -> x, index, b)

\* The pipeline of b runs to the end, or breaks off after some of its commands.
Pipeline(b, ok) ==
  LET cmds == Commands(b)
  IN \E n \in (IF ok THEN {Len(cmds)} ELSE 0 .. Len(cmds) - 1) :
       hash' = Hashes(SubSeq(cmds, 1, n)) /\ index' = Index(SubSeq(cmds, 1, n))

\* A call to Valkey fails.
Fails == failures < MaxFailures /\ failures' = failures + 1 /\ faulty' = TRUE

Receive ==
  /\ stage = "run" /\ workChan # <<>>
  /\ batch' = Append(batch, Head(workChan)) /\ workChan' = Tail(workChan)
  /\ UNCHANGED <<clients, faulty, stage, owned, failures, valkey, admin, bulk>>

flushBatch ==
  /\ stage = "run" /\ batch # <<>>
  /\ owned' = Owned(batch) /\ batch' = <<>>
  /\ \/ Pipeline(batch, TRUE) /\ UNCHANGED <<stage, failures, faulty>>
     \/ Fails /\ Pipeline(batch, FALSE) /\ stage' = "backoff"
  /\ UNCHANGED <<clients, workChan, health, admin, bulk>>

\* The batch goes first; TTLs of owned hashes are renewed and the health hash is
\* written.
handleHeartbeat ==
  /\ stage = "run" /\ batch = <<>>
  /\ \/ /\ hash' = [c \in Conn |-> IF c \in owned /\ hash[c].here THEN [hash[c] EXCEPT !.ttl = TRUE] ELSE hash[c]]
        /\ health' = (subscribed = Shard)
        /\ UNCHANGED <<stage, failures, faulty>>
     \/ Fails /\ stage' = "backoff" /\ UNCHANGED <<hash, health>>
  /\ UNCHANGED <<clients, workChan, batch, owned, index, admin, bulk>>

\* Run restarts runOnce with an empty batch.
Restart ==
  /\ stage = "backoff" /\ stage' = "run"
  /\ UNCHANGED <<clients, workChan, faulty, batch, owned, failures, valkey, admin, bulk>>

\* A hash that is no longer renewed expires.
Expire(c) ==
  /\ hash[c].here /\ hash[c].ttl /\ (c \notin owned \/ stage = "backoff")
  /\ hash' = [hash EXCEPT ![c] = NoHash]
  /\ UNCHANGED <<clients, workChan, faulty, writer, index, health, admin, bulk>>

\* The context ends: what was batched is gone, the channel is drained; in the
\* pause after a failure Run just returns.
Cancel ==
  /\ \/ stage = "run" /\ stage' = "drain"
     \/ stage = "backoff" /\ stage' = "stopped"
  /\ batch' = <<>>
  /\ UNCHANGED <<clients, workChan, faulty, owned, failures, valkey, admin, bulk>>

drainWithTimeout ==
  /\ stage = "drain" /\ workChan # <<>>
  /\ batch' = Append(batch, Head(workChan)) /\ workChan' = Tail(workChan)
  /\ UNCHANGED <<clients, faulty, stage, owned, failures, valkey, admin, bulk>>

\* Everything owned after the final flush is swept.
Swept(b) == Owned(b)

\* finalDrainFlush, then shutdownSweep.
shutdownSweep ==
  /\ stage = "drain" /\ stage' = "stopped"
  /\ hash' = [c \in Conn |-> IF c \in Swept(batch) THEN NoHash ELSE Hashes(Commands(batch))[c]]
  /\ index' = Index(Commands(batch)) \ Swept(batch)
  /\ owned' = {} /\ batch' = <<>>
  /\ UNCHANGED <<clients, workChan, faulty, failures, health, admin, bulk>>

-----------------------------------------------------------------------------
(* The admin channel *)

\* The subscription breaks; the shard reports itself unhealthy and subscribes again.
AdminDisconnect(s) ==
  /\ s \in subscribed /\ subscribed' = subscribed \ {s} /\ Fails
  /\ UNCHANGED <<clients, workChan, stage, batch, owned, valkey, msgCh, bulk>>

AdminSubscribe(s) ==
  /\ s \notin subscribed /\ subscribed' = subscribed \cup {s}
  /\ UNCHANGED <<clients, workChan, faulty, writer, valkey, msgCh, bulk>>

\* OnMessage: every subscribed shard receives it, unless its buffer is full.
publishDisconnect(c) ==
  /\ msgCh' = [s \in Shard |-> IF s \in subscribed /\ Len(msgCh[s]) < MsgChanSize
                               THEN Append(msgCh[s], c) ELSE msgCh[s]]
  /\ faulty' = (faulty \/ ShardOf[c] \notin subscribed \/ Len(msgCh[ShardOf[c]]) = MsgChanSize)

\* The shard of the connection closes it; elsewhere the message is a miss.
handleMessage(s) ==
  /\ msgCh[s] # <<>>
  /\ LET c == Head(msgCh[s])
     IN life' = [life EXCEPT ![c] = IF ShardOf[c] = s /\ @ = "on" THEN "closed" ELSE @]
  /\ msgCh' = [msgCh EXCEPT ![s] = Tail(@)]
  /\ UNCHANGED <<moved, workChan, faulty, writer, valkey, subscribed, bulk>>

-----------------------------------------------------------------------------
(* The provisioning handlers *)

\* listTenantConnections: members of the index whose hash exists; the others are
\* removed from the index.
Listed == {c \in index : hash[c].here}

\* A read that fails makes its connection look expired: it leaves the index too.
HandleListConnections ==
  /\ \/ index' = Listed /\ index # Listed /\ UNCHANGED <<failures, faulty>>
     \/ Fails /\ \E c \in Listed : index' = Listed \ {c}
  /\ UNCHANGED <<clients, workChan, stage, batch, owned, hash, health, admin, bulk>>

\* The writer holds no event back.
Flushed == workChan = <<>> /\ batch = <<>> /\ stage = "run"

\* isAdminHealthy and the health map of a bulk.
AdminHealthy == health

HandleDeleteConnection(c) ==
  /\ hash[c].here /\ hash[c].full /\ AdminHealthy
  /\ publishDisconnect(c)
  /\ UNCHANGED <<clients, workChan, writer, valkey, subscribed, bulk>>

\* A page of the listing: with maxAdminConnectionsPageLimit entries it is full,
\* and leaves any of them out.
Page(items, full) == items \in SUBSET Listed /\ (~ full => items = Listed)

\* The bulk lists one page and reads the health of its pods.
HandleBulkDisconnect(items, full) ==
  /\ bulk.step = "idle" /\ Page(items, full)
  /\ bulk' = [NoBulk EXCEPT !.step = "publish", !.items = items, !.healthy = AdminHealthy,
                            !.about = {c \in Conn : life[c] = "on"}, !.told = full]
  /\ index' = Listed
  /\ UNCHANGED <<clients, workChan, faulty, writer, hash, health, admin>>

\* An item of an unhealthy pod is skipped, and a publish may fail: an error of
\* the answer, and of the re-query nothing.
BulkPublish(c, reached) ==
  /\ bulk.step \in {"publish", "republish"} /\ c \in bulk.items
  /\ reached => bulk.healthy
  /\ bulk' = [bulk EXCEPT !.items = @ \ {c},
                          !.told = @ \/ (bulk.step = "publish" /\ ~ reached),
                          !.skipped = @ \/ (bulk.step = "republish" /\ ~ reached)]
  /\ IF reached THEN publishDisconnect(c) ELSE UNCHANGED <<msgCh, faulty>>
  /\ UNCHANGED <<clients, workChan, writer, valkey, subscribed>>

\* Mutant: only a bulk whose answer told of an error or a full page looks again.
LaunchesIfTold(told) == told

\* The re-query is launched whatever the first listing found.
Launches(told) == TRUE

BulkAnswered ==
  /\ bulk.step = "publish" /\ bulk.items = {}
  /\ bulk' = [bulk EXCEPT !.step = IF Launches(bulk.told) THEN "delay" ELSE "done",
                          !.flushed = Flushed]
  /\ UNCHANGED <<clients, workChan, faulty, writer, valkey, admin>>

\* After the delay it lists again.  The delay is a constant of provisioning's
\* and the flush interval a setting of the pod's: the writer may not have
\* flushed, or not have sent its first heartbeat.
ReQuery(items, full) ==
  /\ bulk.step = "delay" /\ Page(items, full)
  /\ bulk' = [bulk EXCEPT !.step = "republish", !.items = items, !.healthy = AdminHealthy,
                          !.skipped = full, !.flushed = Flushed]
  /\ index' = Listed
  /\ UNCHANGED <<clients, workChan, faulty, writer, hash, health, admin>>

\* The service stops in the delay, or the second listing fails.
ReQueryGivenUp ==
  /\ bulk.step = "delay" /\ bulk' = [bulk EXCEPT !.step = "done", !.healthy = FALSE, !.skipped = TRUE]
  /\ UNCHANGED <<clients, workChan, faulty, writer, valkey, admin>>

BulkDone ==
  /\ bulk.step = "republish" /\ bulk.items = {} /\ bulk' = [bulk EXCEPT !.step = "done", !.healthy = FALSE]
  /\ UNCHANGED <<clients, workChan, faulty, writer, valkey, admin>>

-----------------------------------------------------------------------------

Writer == Receive \/ flushBatch \/ handleHeartbeat \/ Restart \/ Cancel \/ drainWithTimeout \/ shutdownSweep
Operator ==
  \/ HandleListConnections \/ BulkAnswered \/ ReQueryGivenUp \/ BulkDone
  \/ \E items \in SUBSET Conn, full \in BOOLEAN : HandleBulkDisconnect(items, full) \/ ReQuery(items, full)

Next ==
  \/ \E c \in Conn : PushConnect(c) \/ PushChannels(c) \/ PushDisconnect(c)
                       \/ Expire(c) \/ HandleDeleteConnection(c)
                       \/ \E reached \in BOOLEAN : BulkPublish(c, reached)
  \/ \E s \in Shard : AdminDisconnect(s) \/ AdminSubscribe(s) \/ handleMessage(s)
  \/ Writer \/ Operator

Spec == Init /\ [][Next]_vars

\* A bulk disconnect reaches the connections its first listing could not see yet:
\* once the re-query has published, every connection open when the bulk was
\* issued is closed or its close is on its way, unless the answer told of an
\* error or of a full page.  Silently left are only those the re-query came too
\* early for (before the writer's flush) or could not tell (an unhealthy pod, a
\* failed publish, its own page, a stop of the service).
BulkReaches ==
  bulk.step = "done" /\ ~ faulty /\ ~ bulk.told /\ ~ bulk.skipped /\ bulk.flushed
    => \A c \in bulk.about : life[c] # "on" \/ Contains(msgCh[ShardOf[c]], c)

\* Stale entries survive at most until their TTL: a hash the pod no longer owns
\* has one.
EntriesExpire == \A c \in Conn : hash[c].here => c \in owned \/ hash[c].ttl
=============================================================================
