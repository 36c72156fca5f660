----------------------------- MODULE MCSession ------------------------------
(***************************************************************************)
(* What a client sees of one ws-server, for TLC: the admission of its      *)
(* upgrade and the session that follows.  They share no state in these     *)
(* models, so a behaviour is a behaviour of one of them, chosen at the     *)
(* start, with the other at rest: the reachable states are the union of    *)
(* theirs and not the product.                                             *)
(***************************************************************************)
EXTENDS Integers, TLC

CONSTANTS Channel, Foreign, Bad, SendCap, MaxChannelsPerClient, MaxReplayMessages,
          HistoryMaxLimit, MaxLog, MaxRequests, MaxFaults, IP, Upgrade, IPBurst, GlobalBurst,
          IPTTL, AdmitTime, MaxAdmits

VARIABLES which, csLog, csLogStart, csLive, csSynced, csTransport, csOpen, csSubs, csPc, csJob,
          csSend, csOffered, csReplay, csHist, csRecent, csRequests, csFaults, adNow,
          adGlobal, adBuckets, adTracked, adLastAccess, adReqs, adAdmits, adRaw, adSmoothed,
          adHot, adRejecting

sessionVars == <<csLog, csLogStart, csLive, csSynced, csTransport, csOpen, csSubs, csPc, csJob,
    csSend, csOffered, csReplay, csHist, csRecent, csRequests, csFaults>>
admissionVars == <<adNow, adGlobal, adBuckets, adTracked, adLastAccess, adReqs, adAdmits, adRaw,
    adSmoothed, adHot, adRejecting>>

Part == {"session", "admission"}

Session == INSTANCE ClientSession WITH log <- csLog, logStart <- csLogStart, live <- csLive,
    synced <- csSynced, transport <- csTransport, open <- csOpen, subs <- csSubs, pc <- csPc,
    job <- csJob, send <- csSend, offered <- csOffered, replay <- csReplay,
    hist <- csHist, recent <- csRecent, requests <- csRequests, faults <- csFaults

Admit == INSTANCE Admission WITH now <- adNow, global <- adGlobal, buckets <- adBuckets,
    tracked <- adTracked, lastAccess <- adLastAccess, reqs <- adReqs, admits <- adAdmits,
    raw <- adRaw, smoothed <- adSmoothed, hot <- adHot, rejecting <- adRejecting,
    Request <- Upgrade, MaxTime <- AdmitTime

ASSUME SessionAssumption == Session!ConstantsAssumption

allVars == <<which, sessionVars, admissionVars>>

\* A component at rest has one initial state.
MCInit ==
    /\ which \in Part
    /\ Session!Init /\ Admit!Init
    /\ which # "session" => csSynced /\ csTransport = "sse"
    /\ which # "admission" => adRaw = Admit!Low

\* One component takes the steps and the other rests.
MCNext ==
    /\ which' = which
    /\ \/ which = "session" /\ Session!Next /\ UNCHANGED admissionVars
       \/ which = "admission" /\ Admit!Next /\ UNCHANGED sessionVars

MCSpec == MCInit /\ [][MCNext]_allVars

\* Channels differ in nothing but their names.
Channels == Permutations(Channel)

-----------------------------------------------------------------------------
\* The replay of a reconnect and the live window overlap: no broadcast record
\* after the cursor is missed unnoticed (Server.handleReconnect).
NoSeam == Session!NoSeam

\* recovery_complete can be trusted: it is queued only when every channel that
\* no_replay did not name is replayed to its end (GRPCService.Subscribe).
VerdictIsTrue == Session!VerdictIsTrue

\* The connection rate of an address is bounded while its limiter is cleaned
\* up and made anew (ConnectionRateLimiter).
RateBounded == Admit!RateBounded
=============================================================================
