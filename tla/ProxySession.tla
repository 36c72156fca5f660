---------------------------- MODULE ProxySession ----------------------------
(***************************************************************************)
(* The WebSocket proxy of the gateway (ws/internal/gateway/proxy.go).      *)
(*                                                                         *)
(* Two pumps share a connection.  proxyClientToBackend reads the client's  *)
(* messages one at a time: it filters subscriptions by the claims'         *)
(* channel rules, checks publications, and handles an auth refresh on the  *)
(* spot, in phases between which claimsMu is free.  proxyBackendToClient   *)
(* forwards what the server sends and takes the channels the connection is *)
(* subscribed to from the acknowledgements that pass by.  Both directions  *)
(* are FIFO.  Behind them is the server's handleClientMessage, reduced to  *)
(* what it does to the subscriptions (ClientSession has the rest): it may  *)
(* drop an acknowledgement when the client's buffer is full, and it        *)
(* registers the channels of a reconnect's cursor, whose acknowledgement   *)
(* names none of them.                                                     *)
(*                                                                         *)
(* claims is a member of Claim; Allowed gives the channels its patterns    *)
(* match under the tenant's rules (TenantPermissionChecker), which do not  *)
(* change here.  Public is the claim of an API-key-only connection.        *)
(***************************************************************************)
EXTENDS Integers, Sequences, FiniteSets, SequencesExt

CONSTANTS
    Channel, Claim, Public,
    Allowed,      \* Claim -> channels its patterns match
    MaxMsgs,      \* bound: messages the client sends
    MaxLost       \* bound: acknowledgements the server drops

VARIABLES
    claims,       \* Proxy.claims
    apiKeyOnly,   \* Proxy.apiKeyOnly
    tracked,      \* Proxy.subscribedChannels
    refresh,      \* the refresh in progress on the read loop
    up,           \* frames on the way to the server
    server,       \* the server's subscriptions of this connection
    down,         \* acknowledgements on the way back
    late,         \* subscriptions on their way when the last refresh took its snapshot
    untold,       \* channels the server serves and no acknowledgement has named
    lost,         \* acknowledgements dropped
    sent          \* messages sent by the client

vars == <<claims, apiKeyOnly, tracked, refresh, up, server, down, late, untold, lost, sent>>

NoRefresh == [at |-> "none", new |-> Public, seen |-> {}, revoked |-> {}]

Init ==
    /\ claims \in Claim
    /\ apiKeyOnly = (claims = Public)
    /\ tracked = {} /\ late = {} /\ untold = {} /\ server = {}
    /\ refresh = NoRefresh
    /\ up = <<>> /\ down = <<>>
    /\ lost = 0 /\ sent = 0

Frame(type, channels) == [type |-> type, channels |-> channels]

\* The read loop is free and the client sends another message.
ClientSends ==
    /\ refresh = NoRefresh
    /\ sent < MaxMsgs
    /\ sent' = sent + 1

----------------------------------------------------------------------------
(* proxyClientToBackend                                                    *)

\* filterSubscribeChannels: the tenant's own channels that the rules allow.
filterSubscribe(channels, cl) == channels \cap Allowed[cl]

interceptSubscribe(channels) ==
    /\ ClientSends
    /\ up' = Append(up, Frame("subscribe", filterSubscribe(channels, claims)))
    /\ UNCHANGED <<claims, apiKeyOnly, tracked, refresh, server, down, late, untold, lost>>

\* Any other message is passed through as it came: the channels of an
\* unsubscription and of a reconnect's cursor, and requests that leave the
\* subscriptions alone (replay, history, heartbeat, what cannot be parsed).
PassThrough(type, channels) ==
    /\ ClientSends
    /\ up' = Append(up, Frame(type, channels))
    /\ UNCHANGED <<claims, apiKeyOnly, tracked, refresh, server, down, late, untold, lost>>

\* Read-only until a token is presented; then the limiter (RestPublish has one),
\* then the rules.  A publication leaves the subscriptions alone.
interceptPublish(ch, limited) ==
    /\ ClientSends
    /\ up' = IF ~apiKeyOnly /\ ~limited /\ ch \in Allowed[claims]
             THEN Append(up, Frame("other", {})) ELSE up
    /\ UNCHANGED <<claims, apiKeyOnly, tracked, refresh, server, down, late, untold, lost>>

\* interceptAuthRefresh, after validation: phase A of
\* forceUnsubscribeRevokedChannels takes the tracked channels.
RefreshSnapshot(new) ==
    /\ ClientSends
    /\ new \notin {claims, Public}
    /\ refresh' = [at |-> "filter", new |-> new, seen |-> tracked, revoked |-> {}]
    /\ late' = UNION {f.channels : f \in {g \in ToSet(up) \cup ToSet(down) : g.type = "subscribe"}}
    /\ UNCHANGED <<claims, apiKeyOnly, tracked, up, server, down, untold, lost>>

\* A token refused (rate limited, invalid, of another tenant) changes nothing.
RefreshRefused ==
    /\ ClientSends
    /\ UNCHANGED <<claims, apiKeyOnly, tracked, refresh, up, server, down, late, untold, lost>>

\* Phases B and C: what the new claims do not allow is no longer tracked.
RefreshDelete ==
    /\ refresh.at = "filter"
    /\ LET revoked == refresh.seen \ filterSubscribe(refresh.seen, refresh.new) IN
       /\ tracked' = tracked \ revoked
       /\ refresh' = [refresh EXCEPT !.at = "send", !.revoked = revoked]
    /\ UNCHANGED <<claims, apiKeyOnly, up, server, down, late, untold, lost, sent>>

\* Mutant: the removal stays in the proxy's own map.
ForcedFramesNot(revoked) == <<>>

\* The synthetic unsubscription, in the order of the client's own messages.
ForcedFrames(revoked) == IF revoked = {} THEN <<>> ELSE <<Frame("unsubscribe", revoked)>>

\* The synthetic unsubscription and its acknowledgement to the client, then
\* the new claims.
RefreshSwap ==
    /\ refresh.at = "send"
    /\ up' = up \o ForcedFrames(refresh.revoked)
    /\ claims' = refresh.new
    /\ apiKeyOnly' = FALSE
    /\ refresh' = NoRefresh
    /\ UNCHANGED <<tracked, server, down, late, untold, lost, sent>>

----------------------------------------------------------------------------
(* The server, and proxyBackendToClient                                    *)

\* handleClientMessage of the server: the change and its acknowledgement,
\* dropped when the connection's buffer is full.  A subscription without
\* channels is refused; nothing is written back that names a reconnect's.
ServerHandles ==
    /\ up # <<>>
    /\ up' = Tail(up)
    /\ LET f == Head(up)
           acknowledged == f.type \in {"subscribe", "unsubscribe"} /\ f.channels # {}
       IN \E dropped \in BOOLEAN :
          /\ dropped => acknowledged /\ lost < MaxLost
          /\ server' = CASE f.type \in {"subscribe", "reconnect"} -> server \cup f.channels
                         [] f.type = "unsubscribe" -> server \ f.channels
                         [] OTHER -> server
          /\ untold' = IF f.type = "reconnect" \/ (f.type = "subscribe" /\ dropped)
                       THEN untold \cup (f.channels \ server)
                       ELSE IF acknowledged THEN untold \ f.channels ELSE untold
          /\ down' = IF acknowledged /\ ~dropped THEN Append(down, f) ELSE down
          /\ lost' = IF dropped THEN lost + 1 ELSE lost
    /\ UNCHANGED <<claims, apiKeyOnly, tracked, refresh, late, sent>>

trackSubscriptionResponse(set, f) ==
    IF f.type = "subscribe" THEN set \cup f.channels ELSE set \ f.channels

\* The acknowledgement is tracked under claimsMu and forwarded.
Acknowledged ==
    /\ down # <<>>
    /\ down' = Tail(down)
    /\ tracked' = trackSubscriptionResponse(tracked, Head(down))
    /\ UNCHANGED <<claims, apiKeyOnly, refresh, up, server, late, untold, lost, sent>>

\* A refresh is refused or begins; the rest of it is forceUnsubscribeRevokedChannels.
interceptAuthRefresh == RefreshRefused \/ \E new \in Claim : RefreshSnapshot(new)

forceUnsubscribeRevokedChannels == RefreshDelete \/ RefreshSwap

\* The dispatch on the type of the client's message.
interceptClientMessage ==
    \/ \E channels \in SUBSET Channel \ {{}} :
          \/ interceptSubscribe(channels)
          \/ \E type \in {"unsubscribe", "reconnect"} : PassThrough(type, channels)
    \/ PassThrough("other", {})
    \/ \E ch \in Channel, limited \in BOOLEAN : interceptPublish(ch, limited)
    \/ interceptAuthRefresh

proxyClientToBackend == interceptClientMessage \/ forceUnsubscribeRevokedChannels

proxyBackendToClient == Acknowledged

Next == proxyClientToBackend \/ proxyBackendToClient \/ ServerHandles

Spec == Init /\ [][Next]_vars

----------------------------------------------------------------------------
(* Properties                                                              *)

TypeOK ==
    /\ claims \in Claim /\ tracked \subseteq Channel /\ server \subseteq Channel
    /\ lost \in 0 .. MaxLost /\ sent \in 0 .. MaxMsgs

Quiet == refresh = NoRefresh /\ up = <<>> /\ down = <<>>

\* After a refresh, with nothing in flight, the server serves no channel the
\* current claims do not allow, whatever subscriptions, unsubscriptions,
\* reconnects and further refreshes ran beside it.  The exceptions are the
\* proxy's own blind spots, as it learns its subscriptions from the
\* acknowledgements only: a subscription on its way when the last refresh
\* took its snapshot, until the next refresh, and a channel registered without
\* an acknowledgement that names it.
RefreshConverges == Quiet => server \subseteq Allowed[claims] \cup late \cup untold

=============================================================================
