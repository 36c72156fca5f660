---------------------------- MODULE BroadcastBus ----------------------------
(***************************************************************************)
(* One pod's Valkey broadcast bus (server/broadcast/valkey.go): callers    *)
(* change the desired subscriptions, one management goroutine makes the    *)
(* dedicated connection's subscriptions match them, and publishers decide  *)
(* what a PUBLISH that reached nobody means.                               *)
(*                                                                         *)
(* The Valkey server is external: it holds the subscriptions of the        *)
(* current dedicated connection, forgets them when the connection is lost, *)
(* and may refuse a command, miss it, or (ReplyLoss) run it while the      *)
(* reply is lost to the command timeout.                                   *)
(***************************************************************************)
EXTENDS Integers, FiniteSets

CONSTANTS
  Tenant,      \* tenants with a channel of their own
  All,         \* the SubscribeAll pattern subscription
  MaxRefs,     \* bound on the callers subscribed to one key
  MaxCalls,    \* bound on Subscribe and Unsubscribe calls
  MaxFaults,   \* bound on lost connections and lost commands
  ReplyLoss    \* a command may take effect although issueSubCommand fails

ASSUME ConstantsAssumption ==
  /\ All \notin Tenant
  /\ MaxRefs \in Nat /\ MaxCalls \in Nat /\ MaxFaults \in Nat
  /\ ReplyLoss \in BOOLEAN

Key == Tenant \cup {All}

VARIABLES
  refs,          \* [Key -> Nat]: subRefCounts and subscribeAllRefCount
  desiredGen,
  confirmedGen,
  confirmed,     \* confirmedTenants and confirmedAll
  wake,          \* subWakeCh holds its one element
  unsignalled,   \* callers between releasing subRefMu and signalling
  mgmt,          \* "idle", "wiped" (inside reinit), "pass" (inside converge), "stopped"
  pass,          \* the running converge: snapshot generation and set, failed keys, abort
  retry,         \* retryCh is armed
  disrupted,     \* disruptedSince # 0
  held,          \* heldSince: "none", or set with the window "open" or "expired"
  server,        \* subscriptions the Valkey server holds for the dedicated connection
  lost,          \* the dedicated connection is lost and disconnectCh has not been read
  pub,           \* one publisher: "idle", "send" (about to PUBLISH), "check" (has the count)
  calls, faults  \* bounded counters

callerVars == <<refs, desiredGen, wake, unsignalled, calls>>
mgmtVars   == <<confirmedGen, confirmed, mgmt, pass, retry>>
episode    == <<disrupted, held>>
connVars   == <<server, lost, faults>>
vars       == <<callerVars, mgmtVars, episode, connVars, pub>>

Desired == {k \in Key : refs[k] > 0}

NoPass == [gen |-> 0, want |-> {}, failed |-> {}, abort |-> FALSE]

\* The counts stay within their bounds, and the generation a pass confirms exists.
TypeOK ==
  /\ refs \in [Key -> 0 .. MaxRefs]
  /\ desiredGen \in 0 .. MaxCalls + MaxFaults /\ confirmedGen \in 0 .. desiredGen
  /\ confirmed \subseteq Key /\ server \subseteq Key
  /\ wake \in BOOLEAN /\ retry \in BOOLEAN /\ lost \in BOOLEAN
  /\ unsignalled \in 0 .. MaxCalls
  /\ mgmt \in {"idle", "wiped", "pass", "stopped"}
  /\ pass \in [gen : 0 .. desiredGen, want : SUBSET Key, failed : SUBSET Key, abort : BOOLEAN]
  /\ disrupted \in BOOLEAN /\ held \in {"none", "open", "expired"}
  /\ pub \in [at : {"idle", "send", "check"}, key : Tenant, count : 0 .. 2]
  /\ calls \in 0 .. MaxCalls /\ faults \in 0 .. MaxFaults

Init ==
  /\ refs = [k \in Key |-> 0]
  /\ desiredGen = 0 /\ confirmedGen = 0
  /\ confirmed = {} /\ server = {}
  /\ wake = FALSE /\ retry = FALSE /\ lost = FALSE
  /\ unsignalled = 0
  /\ mgmt = "idle" /\ pass = NoPass
  /\ disrupted = FALSE /\ held = "none"
  /\ pub \in [at : {"idle"}, key : Tenant, count : {0}]
  /\ calls = 0 /\ faults = 0

-----------------------------------------------------------------------------
(* Callers.  The count and the generation change together under subRefMu;  *)
(* the wakeup is sent after the lock is released.                          *)

\* noteDesiredChangedLocked, when the first reference comes or the last one goes.
noteDesiredChanged(changed) ==
  /\ desiredGen' = IF changed THEN desiredGen + 1 ELSE desiredGen
  /\ unsignalled' = IF changed THEN unsignalled + 1 ELSE unsignalled

\* Subscribe and SubscribeAll.
Subscribe(k) ==
  /\ calls < MaxCalls /\ refs[k] < MaxRefs
  /\ refs' = [refs EXCEPT ![k] = @ + 1]
  /\ noteDesiredChanged(refs[k] = 0)
  /\ calls' = calls + 1
  /\ UNCHANGED <<wake, mgmtVars, episode, connVars, pub>>

\* Unsubscribe and UnsubscribeAll of an entry that is there.
Unsubscribe(k) ==
  /\ calls < MaxCalls /\ refs[k] > 0
  /\ refs' = [refs EXCEPT ![k] = @ - 1]
  /\ noteDesiredChanged(refs[k] = 1)
  /\ calls' = calls + 1
  /\ UNCHANGED <<wake, mgmtVars, episode, connVars, pub>>

\* A non-blocking send into a channel of capacity one.
signalSubscriptionChange ==
  /\ unsignalled > 0
  /\ unsignalled' = unsignalled - 1
  /\ wake' = TRUE
  /\ UNCHANGED <<refs, desiredGen, calls, mgmtVars, episode, connVars, pub>>

-----------------------------------------------------------------------------
(* The management goroutine.                                               *)

\* converge's snapshot of generation and desired set, under subRefMu.
Snapshot == /\ mgmt' = "pass"
            /\ pass' = [gen |-> desiredGen', want |-> Desired, failed |-> {}, abort |-> FALSE]

\* Mutant: the confirmed set survives the new connection.
OnDisconnectKeepsConfirmed ==
  /\ mgmt = "idle" /\ lost
  /\ lost' = FALSE /\ server' = {}
  /\ mgmt' = "wiped"
  /\ UNCHANGED <<callerVars, confirmed, confirmedGen, pass, retry, episode, faults, pub>>

\* The disconnectCh arm, first half: reinitDedicatedClient takes a new connection,
\* which has no subscriptions, and clears the confirmed set.
OnDisconnect ==
  /\ mgmt = "idle" /\ lost
  /\ lost' = FALSE /\ server' = {} /\ confirmed' = {}
  /\ mgmt' = "wiped"
  /\ UNCHANGED <<callerVars, confirmedGen, pass, retry, episode, faults, pub>>

\* armDisruptionEpisode: only a fresh episode resets the hold window.
armDisruptionEpisode == /\ disrupted' = TRUE
                        /\ held' = IF disrupted THEN held ELSE "none"

\* ... second half: bump the generation, open the episode, start a pass.
Reinitialised ==
  /\ mgmt = "wiped"
  /\ desiredGen' = desiredGen + 1
  /\ armDisruptionEpisode
  /\ Snapshot
  /\ UNCHANGED <<refs, wake, unsignalled, calls, confirmedGen, confirmed, retry, connVars, pub>>

\* The wakeup, retry-timer and reconcile-tick arms: each starts a full pass.
OnWake ==
  /\ mgmt = "idle" /\ wake
  /\ wake' = FALSE /\ UNCHANGED desiredGen
  /\ Snapshot
  /\ UNCHANGED <<refs, unsignalled, calls, confirmedGen, confirmed, retry, episode, connVars, pub>>

OnRetry ==
  /\ mgmt = "idle" /\ retry
  /\ retry' = FALSE /\ UNCHANGED desiredGen
  /\ Snapshot
  /\ UNCHANGED <<refs, wake, unsignalled, calls, confirmedGen, confirmed, episode, connVars, pub>>

OnTick ==
  /\ mgmt = "idle" /\ UNCHANGED desiredGen
  /\ Snapshot
  /\ UNCHANGED <<refs, wake, unsignalled, calls, confirmedGen, confirmed, retry, episode, connVars, pub>>

\* Keys the pass still has to act on, in converge's order: missing tenants, stale
\* tenants, then the pattern.
Diff == ((pass.want \ confirmed) \cup (confirmed \ pass.want)) \ pass.failed
Due == LET missing == (Diff \cap pass.want) \ {All}
           stale   == Diff \ (pass.want \cup {All})
       IN IF pass.abort THEN {} ELSE IF missing # {} THEN missing ELSE IF stale # {} THEN stale ELSE Diff

\* What the command for k does to a set of subscriptions.
Toggle(S, k) == IF k \in pass.want THEN S \cup {k} ELSE S \ {k}

\* One command, acknowledged.
CommandOk(k) ==
  /\ mgmt = "pass" /\ k \in Due /\ ~lost
  /\ server' = Toggle(server, k) /\ confirmed' = Toggle(confirmed, k)
  /\ UNCHANGED <<callerVars, confirmedGen, mgmt, pass, retry, episode, lost, faults, pub>>

\* A server-class failure: the pass goes on with the other keys.
CommandRefused(k) ==
  /\ mgmt = "pass" /\ k \in Due /\ ~lost
  /\ pass' = [pass EXCEPT !.failed = @ \cup {k}]
  /\ UNCHANGED <<callerVars, confirmedGen, confirmed, mgmt, retry, episode, connVars, pub>>

\* A transport-class failure aborts the pass.  The command may have run (ran).
CommandFailed(k, ran) ==
  /\ mgmt = "pass" /\ k \in Due
  /\ lost \/ (faults < MaxFaults)
  /\ faults' = IF lost THEN faults ELSE faults + 1
  /\ ran => ReplyLoss /\ ~lost
  /\ server' = IF ran THEN Toggle(server, k) ELSE server
  /\ pass' = [pass EXCEPT !.failed = @ \cup {k}, !.abort = TRUE]
  /\ UNCHANGED <<callerVars, confirmedGen, confirmed, mgmt, retry, episode, lost, pub>>

\* Mutant: the generation is read again at the end of the pass.
EndPassCurrentGen ==
  /\ mgmt = "pass" /\ Due = {}
  /\ mgmt' = "idle" /\ pass' = NoPass
  /\ IF pass.failed = {}
     THEN /\ confirmedGen' = desiredGen
          /\ disrupted' = FALSE /\ held' = "none"
          /\ retry' = FALSE
     ELSE /\ retry' = TRUE
          /\ UNCHANGED <<confirmedGen, episode>>
  /\ UNCHANGED <<callerVars, confirmed, connVars, pub>>

\* Mutant: a failed pass arms no retry.
EndPassNoRetry ==
  /\ mgmt = "pass" /\ Due = {}
  /\ mgmt' = "idle" /\ pass' = NoPass
  /\ IF pass.failed = {}
     THEN /\ confirmedGen' = pass.gen
          /\ disrupted' = FALSE /\ held' = "none"
     ELSE UNCHANGED <<confirmedGen, episode>>
  /\ retry' = FALSE
  /\ UNCHANGED <<callerVars, confirmed, connVars, pub>>

\* The end of converge: on full success record the generation and close the episode,
\* otherwise arm the retry timer.
EndPass ==
  /\ mgmt = "pass" /\ Due = {}
  /\ mgmt' = "idle" /\ pass' = NoPass
  /\ IF pass.failed = {}
     THEN /\ confirmedGen' = pass.gen
          /\ disrupted' = FALSE /\ held' = "none"
          /\ retry' = FALSE
     ELSE /\ retry' = TRUE
          /\ UNCHANGED <<confirmedGen, episode>>
  /\ UNCHANGED <<callerVars, confirmed, connVars, pub>>

\* ShutdownWithContext cancels the context; the loop leaves at its next check.
Shutdown ==
  /\ mgmt \in {"idle", "pass"}
  /\ mgmt' = "stopped" /\ pass' = NoPass
  /\ UNCHANGED <<callerVars, confirmedGen, confirmed, retry, episode, connVars, pub>>

\* The dedicated connection drops.
Disconnect ==
  /\ faults < MaxFaults /\ ~lost /\ mgmt # "stopped"
  /\ faults' = faults + 1
  /\ lost' = TRUE /\ server' = {}
  /\ UNCHANGED <<callerVars, mgmtVars, episode, pub>>

-----------------------------------------------------------------------------
(* Publishers.  PUBLISH runs on the pooled connection; its answer is read  *)
(* before the episode is looked at.  A failed PUBLISH is a retry and needs *)
(* no step.                                                                *)

\* Mutant: the hold window has no end.
inRecoveryEpisodeUnbounded == disrupted

\* inRecoveryEpisode: an episode is open and its hold window has not run out.
inRecoveryEpisode == disrupted /\ held # "expired"

PublishStart(t) ==
  /\ pub.at = "idle" /\ mgmt # "stopped"
  /\ pub' = [at |-> "send", key |-> t, count |-> 0]
  /\ UNCHANGED <<callerVars, mgmtVars, episode, connVars>>

\* The server counts the channel's and the pattern's subscriptions.
PublishSend ==
  /\ pub.at = "send" /\ mgmt # "stopped"
  /\ pub' = [pub EXCEPT !.at = "check", !.count = Cardinality(server \cap {pub.key, All})]
  /\ UNCHANGED <<callerVars, mgmtVars, episode, connVars>>

\* After Shutdown the PUBLISH fails on the cancelled context.
PublishStopped ==
  /\ pub.at = "send" /\ mgmt = "stopped"
  /\ pub' = [pub EXCEPT !.at = "idle"]
  /\ UNCHANGED <<callerVars, mgmtVars, episode, connVars>>

\* Held: ErrPublishUnavailable, the caller tries again.  The first one opens the window.
PublishHeld ==
  /\ pub.at = "check" /\ pub.count = 0 /\ inRecoveryEpisode
  /\ held' = IF held = "none" THEN "open" ELSE held
  /\ pub' = [pub EXCEPT !.at = "send"]
  /\ UNCHANGED <<callerVars, mgmtVars, disrupted, connVars>>

\* Accepted: somebody received it, the channel is taken to be empty, or the window is over.
PublishAccepted ==
  /\ pub.at = "check" /\ ~(pub.count = 0 /\ inRecoveryEpisode)
  /\ pub' = [pub EXCEPT !.at = "idle", !.count = 0]
  /\ UNCHANGED <<callerVars, mgmtVars, episode, connVars>>

WindowExpires ==
  /\ held = "open" /\ held' = "expired"
  /\ UNCHANGED <<callerVars, mgmtVars, disrupted, connVars, pub>>

Command == \E k \in Key : CommandOk(k) \/ CommandRefused(k) \/ \E ran \in BOOLEAN : CommandFailed(k, ran)

Next ==
  \/ \E k \in Key : Subscribe(k) \/ Unsubscribe(k)
  \/ signalSubscriptionChange
  \/ OnDisconnect \/ Reinitialised \/ OnWake \/ OnRetry \/ OnTick
  \/ Command \/ EndPass \/ Shutdown \/ Disconnect
  \/ \E t \in Tenant : PublishStart(t)
  \/ PublishSend \/ PublishStopped \/ PublishHeld \/ PublishAccepted \/ WindowExpires

Spec == Init /\ [][Next]_vars

\* The goroutines run on, time passes, callers finish, and the loop's select does not
\* pass over a ready arm forever.  Nothing is owed by the server.
Fairness ==
  /\ WF_vars(signalSubscriptionChange)
  /\ SF_vars(OnDisconnect) /\ SF_vars(OnWake) /\ WF_vars(Reinitialised) /\ WF_vars(OnRetry)
  /\ WF_vars(Command) /\ WF_vars(EndPass)
  /\ WF_vars(PublishSend \/ PublishStopped) /\ WF_vars(PublishHeld \/ PublishAccepted) /\ WF_vars(WindowExpires)

FairSpec == Spec /\ Fairness

\* The server answers a command it is sent again and again.
ServerAnswers == \A k \in Key : SF_vars(CommandOk(k))

-----------------------------------------------------------------------------
(* Properties.                                                             *)

subscriptionsConverged == confirmedGen = desiredGen

\* subscriptionsConverged never reads true while the confirmed set differs from the
\* desired one, whatever callers do during a pass, except inside reinitDedicatedClient.
ConvergedIsConfirmed == subscriptionsConverged /\ mgmt # "wiped" => confirmed = Desired

\* Discarding a wakeup when one is pending loses nothing (signalSubscriptionChange):
\* when the loop rests with no wakeup, caller, retry or disconnect outstanding, the
\* server holds exactly the desired subscriptions.
RestIsConverged ==
  mgmt = "idle" /\ ~wake /\ unsignalled = 0 /\ ~retry /\ ~lost
    => subscriptionsConverged /\ confirmed = Desired /\ (~ReplyLoss => server = Desired)

\* A bus that is not shut down ends up subscribed to exactly what is desired, through
\* any finite number of lost connections, lost commands and refusals, if the server
\* answers in the end.
EventuallyConverged ==
  ServerAnswers => <>(mgmt = "stopped") \/ <>[](subscriptionsConverged /\ server = Desired)

\* ADR-0019's hold is bounded: even if the server refuses subscriptions forever, a held
\* publish is flushed once the window is over, so the consume loop cannot livelock.
PublishCompletes == pub.at # "idle" ~> pub.at = "idle"

-----------------------------------------------------------------------------
(* What comments of the code say and the model refutes.                    *)

\* subscriptionsConverged as its comment states it (valkey.go 976-979).
NeverFalselyConverged == subscriptionsConverged => confirmed = Desired

\* The confirmed set is what the pod has subscribed on the current connection
\* (valkey.go 78-81), so a converged bus misses no desired subscription.
ConvergedIsSubscribed == subscriptionsConverged /\ mgmt = "idle" /\ ~lost => Desired \subseteq server

=============================================================================
