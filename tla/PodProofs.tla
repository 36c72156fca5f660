----------------------------- MODULE PodProofs ------------------------------
(***************************************************************************)
(* What a ws-server pod holds, for every value of the constants: a shard   *)
(* counts its clients exactly, serves the connected ones and leaks neither *)
(* subscription nor forwarder; a bus that reads as converged has confirmed *)
(* what is desired; a license is never lowered.                            *)
(*                                                                         *)
(* ShardTenants is not inductive as it stands: a rollback or a late        *)
(* Unsubscribe may name the channel of the entry, were it not for where    *)
(* its owner is.  A channel is named after the client whose slow path made *)
(* it, and once it is installed that client is past the installation for   *)
(* good (Owned).                                                           *)
(*                                                                         *)
(* The bus compares two generations, and a pass that ends writes the one   *)
(* it read at its start.  What makes the comparison mean something is that *)
(* the snapshot of a pass is the desired set as long as its generation is  *)
(* the desired one (Generations).                                          *)
(*                                                                         *)
(* Only two steps change the key of a process that has resolved its        *)
(* license, Apply and a later Receive, and both go through                 *)
(* ReloadNoDowngrade.  That one compares with the key that runs, so the    *)
(* invariant has to say that there is one (Running).                       *)
(***************************************************************************)
EXTENDS MCPod, Sequences, FiniteSetTheorems, TLAPS

-----------------------------------------------------------------------------
(* The tenants of a shard: the inductive invariant.                       *)

\* Types, as far as the proofs use them.
ShardTypes ==
  /\ shPhase \in [Client -> {"off", "slow", "subscribed", "rollback", "on", "leaving", "gone"}]
  /\ shLeaving \in [Client -> Client \cup {None}]
  /\ shEntry \in [ch : Client \cup {None}, refCount : Nat]
  /\ shSubscribers \subseteq Client /\ shCancelled \subseteq Client
  /\ shForwarder \in [Client -> {"off", "recv", "hold", "done"}]
  /\ shStopping \in BOOLEAN

\* Where the owner of a channel is that is installed or being given back; before that the
\* channel has neither forwarder nor a cancelled context.
Owned ==
  /\ \A k \in Client : shPhase[k] = "subscribed" => k \in shSubscribers
  /\ \A k \in Client : shPhase[k] \in {"off", "slow", "subscribed"} => shForwarder[k] = "off" /\ k \notin shCancelled
  /\ shEntry.ch # None => shPhase[shEntry.ch] \in {"on", "gone"}
  /\ \A k \in Client : shLeaving[k] # None => /\ shPhase[k] = "leaving"
                                              /\ shPhase[shLeaving[k]] \in {"on", "leaving", "gone"}
                                              /\ shLeaving[k] # shEntry.ch

\* Every subscription on the bus is somebody's to use or to give back.
Accounted ==
  \A s \in shSubscribers : \/ shPhase[s] \in {"subscribed", "rollback"}
                           \/ s = shEntry.ch
                           \/ \E k \in Client : shLeaving[k] = s

ShardChannels == Owned /\ Accounted /\ Shard!ConnectedIsForwarded /\ Shard!OneLiveForwarder

ShardInv == ShardTypes /\ ShardChannels

\* The initial state has neither entry nor subscription nor forwarder.
LEMMA ShardInit == Shard!ConstantsAssumption /\ Shard!Init => ShardInv
<1> SUFFICES ASSUME Shard!ConstantsAssumption, Shard!Init PROVE ShardInv
  OBVIOUS
<1>1. ShardTypes
  BY Zenon DEF Shard!ConstantsAssumption, Shard!Init, ShardTypes, Shard!NoEntry
<1>2. Owned /\ Accounted /\ Shard!OneLiveForwarder
  BY DEF Shard!Init, Owned, Accounted, Shard!OneLiveForwarder, Shard!NoEntry
<1>3. Shard!ConnectedIsForwarded
  BY DEF Shard!Init, Shard!ConnectedIsForwarded, Shard!NoEntry
<1> QED
  BY <1>1, <1>2, <1>3 DEF ShardInv, ShardChannels

\* Installing an entry: there was none, so no other channel's forwarder goes on, and the
\* channel installed is nobody's to give back, since its owner has been connecting.
LEMMA InstallKeeps ==
  ASSUME Shard!ConstantsAssumption, ShardInv, NEW k \in Client, Shard!Install(k)
  PROVE  ShardInv'
<1> USE DEF ShardInv, ShardChannels, Shard!ConstantsAssumption, Shard!Install, Shard!Goto, Shard!busVars,
            Shard!stopVars
<1>1. /\ shEntry'.ch = k /\ shEntry.ch = None /\ k # None
      /\ shPhase' = [shPhase EXCEPT ![k] = "on"] /\ shPhase[k] = "subscribed"
  OBVIOUS
<1>2. ShardTypes'
  BY DEF ShardTypes
<1>3. Owned'
  BY <1>1, <1>2 DEF ShardTypes, Owned
<1>4. Accounted'
  BY <1>1 DEF ShardTypes, Accounted
<1>5. Shard!ConnectedIsForwarded' /\ Shard!OneLiveForwarder'
  BY <1>1 DEF ShardTypes, Owned, Shard!ConnectedIsForwarded, Shard!OneLiveForwarder
<1> QED
  BY <1>2, <1>3, <1>4, <1>5

\* Every step of a connecting client keeps the invariant.
LEMMA ConnectKeeps ==
  ASSUME Shard!ConstantsAssumption, ShardInv, NEW k \in Client, Shard!Connect(k)
  PROVE  ShardInv'
<1> USE DEF ShardInv, ShardChannels, ShardTypes, Owned, Accounted, Shard!ConnectedIsForwarded,
            Shard!OneLiveForwarder,
            Shard!ConstantsAssumption, Shard!Goto, Shard!busVars, Shard!fwdVars, Shard!stopVars
<1>1. CASE Shard!ConnectFast(k)
  BY <1>1 DEF Shard!ConnectFast
<1>2. CASE Shard!ConnectSlow(k)
  BY <1>2 DEF Shard!ConnectSlow
<1>3. CASE Shard!BusSubscribe(k)
  BY <1>3 DEF Shard!BusSubscribe
<1>4. CASE Shard!Install(k)
  BY <1>4, InstallKeeps
<1>5. CASE Shard!Join(k)
  BY <1>5 DEF Shard!Join
<1>6. CASE Shard!Rollback(k)
  BY <1>6 DEF Shard!Rollback
<1> QED
  BY <1>1, <1>2, <1>3, <1>4, <1>5, <1>6, Zenon DEF Shard!Connect

\* So does every step of a leaving one.  The last to leave hands the entry's channel to its
\* own Unsubscribe; that channel is not the entry's any more, and never will be again.
LEMMA LeaveKeeps ==
  ASSUME Shard!ConstantsAssumption, ShardInv, NEW k \in Client, Shard!Leave(k),
         shEntry.ch # None \/ shPhase[k] # "on"
  PROVE  ShardInv'
<1> USE DEF ShardInv, ShardChannels, ShardTypes, Owned, Accounted, Shard!ConnectedIsForwarded,
            Shard!OneLiveForwarder,
            Shard!ConstantsAssumption, Shard!Goto, Shard!busVars, Shard!fwdVars, Shard!stopVars
<1>1. CASE Shard!Disconnect(k)
  BY <1>1 DEF Shard!Disconnect
<1>2. CASE Shard!DisconnectLast(k)
  BY <1>2 DEF Shard!DisconnectLast, Shard!NoEntry
<1>3. CASE Shard!BusUnsubscribe(k)
  BY <1>3 DEF Shard!BusUnsubscribe
<1> QED
  BY <1>1, <1>2, <1>3 DEF Shard!Leave

\* The bus, the forwarders, the listener and the shutdown leave the entry alone; a forwarder
\* ends only when it is cancelled, the entry's only when the shard stops.
LEMMA ShardRestKeeps ==
  ASSUME Shard!ConstantsAssumption, ShardInv,
         \/ \E k \in Client : Shard!FanOutSend(k) \/ Shard!Forwarder(k)
         \/ Shard!FanOut \/ Shard!Listen \/ Shard!ListenerStops \/ Shard!Shutdown \/ UNCHANGED Shard!vars
  PROVE  ShardInv'
<1> USE DEF ShardInv, ShardChannels, ShardTypes, Owned, Accounted, Shard!ConnectedIsForwarded,
            Shard!OneLiveForwarder,
            Shard!ConstantsAssumption, Shard!connVars, Shard!busVars, Shard!fwdVars, Shard!stopVars
<1>1. ASSUME NEW k \in Client, Shard!FanOutSend(k) PROVE ShardInv'
  BY <1>1 DEF Shard!FanOutSend
<1>2. ASSUME NEW k \in Client, Shard!ForwarderTakes(k) PROVE ShardInv'
  BY <1>2 DEF Shard!ForwarderTakes
<1>3. ASSUME NEW k \in Client, Shard!ForwarderPuts(k) PROVE ShardInv'
  BY <1>3 DEF Shard!ForwarderPuts
<1>4. ASSUME NEW k \in Client, Shard!ForwarderEnds(k) PROVE ShardInv'
  BY <1>4 DEF Shard!ForwarderEnds
<1>5. CASE Shard!FanOut
  BY <1>5 DEF Shard!FanOut
<1>6. CASE Shard!Listen \/ Shard!ListenerStops
  BY <1>6 DEF Shard!Listen, Shard!ListenerStops
<1>7. CASE Shard!Shutdown
  BY <1>7 DEF Shard!Shutdown
<1>8. CASE UNCHANGED Shard!vars
  BY <1>8 DEF Shard!vars
<1> QED
  BY <1>1, <1>2, <1>3, <1>4, <1>5, <1>6, <1>7, <1>8, Zenon DEF Shard!Forwarder

-----------------------------------------------------------------------------
(* The reference count.                                                    *)

\* The cardinality the shard counts with is the one of FiniteSets.
LEMMA OneCardinality ==
  ASSUME NEW S
  PROVE  Shard!Cardinality(S) = Cardinality(S)
BY DEF Shard!Cardinality, Cardinality

\* One client more is counted, or one client less.
LEMMA Recount ==
  ASSUME IsFiniteSet(Client), NEW k \in Client, Shard!RefCountExact
  PROVE  /\ IsFiniteSet(Shard!Counted)
         /\ k \notin Shard!Counted => Cardinality(Shard!Counted \cup {k}) = shEntry.refCount + 1
         /\ k \in Shard!Counted => Cardinality(Shard!Counted \ {k}) = shEntry.refCount - 1
         /\ shEntry.refCount \in Nat /\ (shEntry.refCount = 0 <=> Shard!Counted = {})
<1>1. IsFiniteSet(Shard!Counted)
  <2>1. Shard!Counted \subseteq Client
    BY DEF Shard!Counted
  <2> QED
    BY <2>1, FS_Subset
<1>2. k \notin Shard!Counted => Cardinality(Shard!Counted \cup {k}) = Cardinality(Shard!Counted) + 1
  BY <1>1, FS_AddElement, Zenon
<1>3. k \in Shard!Counted => Cardinality(Shard!Counted \ {k}) = Cardinality(Shard!Counted) - 1
  BY <1>1, FS_RemoveElement, Zenon
<1>4. Cardinality(Shard!Counted) \in Nat /\ (Cardinality(Shard!Counted) = 0 <=> Shard!Counted = {})
  BY <1>1, FS_CardinalityType, FS_EmptySet
<1> QED
  BY <1>1, <1>2, <1>3, <1>4, OneCardinality DEF Shard!RefCountExact

\* Every step keeps the count exact, whatever the races of connects and disconnects.
LEMMA StepRefCount ==
  ASSUME Shard!ConstantsAssumption, IsFiniteSet(Client), ShardTypes, Shard!RefCountExact,
         [Shard!Next]_(Shard!vars)
  PROVE  Shard!RefCountExact'
<1>1. CASE UNCHANGED <<shPhase, shEntry>>
  BY <1>1 DEF Shard!RefCountExact, Shard!Counted
<1>2. ASSUME NEW k \in Client, k \notin Shard!Counted, Shard!Counted' = Shard!Counted \cup {k}, shEntry'.ch # None,
             shEntry'.refCount = shEntry.refCount + 1
      PROVE  Shard!RefCountExact'
  BY <1>2, Recount, OneCardinality DEF Shard!RefCountExact
<1>3. ASSUME NEW k \in Client, Shard!ConnectFast(k) \/ Shard!Join(k) PROVE Shard!RefCountExact'
  <2>1. k \notin Shard!Counted /\ Shard!Counted' = Shard!Counted \cup {k}
    BY <1>3 DEF Shard!ConnectFast, Shard!Join, Shard!Goto, Shard!Counted, ShardTypes
  <2>2. shEntry'.ch # None /\ shEntry'.refCount = shEntry.refCount + 1
    BY <1>3 DEF Shard!ConnectFast, Shard!Join, ShardTypes
  <2> QED
    BY <1>2, <2>1, <2>2
<1>4. ASSUME NEW k \in Client, Shard!Install(k) PROVE Shard!RefCountExact'
  <2>1. k \notin Shard!Counted /\ Shard!Counted' = Shard!Counted \cup {k}
    BY <1>4 DEF Shard!Install, Shard!Goto, Shard!Counted, ShardTypes
  <2>2. shEntry'.ch = k /\ k # None /\ shEntry'.refCount = 1 /\ shEntry.ch = None
    BY <1>4 DEF Shard!Install, Shard!ConstantsAssumption
  <2>3. shEntry.refCount = 0
    BY <2>2, Recount, Zenon DEF Shard!RefCountExact
  <2> QED
    BY <1>2, <2>1, <2>2, <2>3
<1>5. ASSUME NEW k \in Client, Shard!ConnectSlow(k) \/ Shard!BusSubscribe(k) \/ Shard!Rollback(k) \/ Shard!BusUnsubscribe(k)
      PROVE  Shard!RefCountExact'
  <2>1. Shard!Counted' = Shard!Counted /\ shEntry' = shEntry
    BY <1>5 DEF Shard!ConnectSlow, Shard!BusSubscribe, Shard!Rollback, Shard!BusUnsubscribe, Shard!Goto,
                Shard!Counted, ShardTypes
  <2> QED
    BY <2>1 DEF Shard!RefCountExact
<1>6. ASSUME NEW k \in Client, Shard!Disconnect(k) \/ Shard!DisconnectLast(k) PROVE Shard!RefCountExact'
  <2>1. k \in Shard!Counted /\ Shard!Counted' = Shard!Counted \ {k} /\ shEntry.ch # None
    BY <1>6 DEF Shard!Disconnect, Shard!DisconnectLast, Shard!Goto, Shard!Counted, ShardTypes,
                Shard!RefCountExact
  <2>2. Cardinality(Shard!Counted') = shEntry.refCount - 1 /\ shEntry.refCount \in Nat
    BY <2>1, Recount
  <2>3. Cardinality(Shard!Counted') = 0 <=> Shard!Counted' = {}
    BY <2>1, Recount, FS_RemoveElement, FS_EmptySet, Zenon
  <2>4. shEntry'.refCount = shEntry.refCount - 1 /\ (shEntry'.ch = None <=> shEntry.refCount = 1)
    BY <1>6, <2>1 DEF Shard!Disconnect, Shard!DisconnectLast, Shard!NoEntry, ShardTypes
  <2> QED
    BY <2>2, <2>3, <2>4, OneCardinality DEF Shard!RefCountExact
<1>7. ASSUME NEW k \in Client, Shard!FanOutSend(k) \/ Shard!Forwarder(k) PROVE Shard!RefCountExact'
  BY <1>1, <1>7 DEF Shard!FanOutSend, Shard!Forwarder, Shard!ForwarderTakes, Shard!ForwarderPuts,
                    Shard!ForwarderEnds, Shard!connVars
<1>8. CASE Shard!FanOut \/ Shard!Listen \/ Shard!ListenerStops \/ Shard!Shutdown \/ UNCHANGED Shard!vars
  BY <1>1, <1>8 DEF Shard!FanOut, Shard!Listen, Shard!ListenerStops, Shard!Shutdown, Shard!vars,
                    Shard!connVars
<1> QED
  BY <1>3, <1>4, <1>5, <1>6, <1>7, <1>8 DEF Shard!Next, Shard!Connect, Shard!Leave

-----------------------------------------------------------------------------
(* The theorems.                                                           *)

\* The reference count of a tenant is exactly the clients that connected and did not
\* disconnect (OnTenantClientConnect, OnTenantClientDisconnect); a client that leaves
\* therefore finds an entry, which the invariant of the channels rests on.
THEOREM CountIsExact ==
  ASSUME Shard!ConstantsAssumption, IsFiniteSet(Client)
  PROVE  Shard!Spec => [](ShardInv /\ Shard!RefCountExact)
<1>1. Shard!Init => ShardInv /\ Shard!RefCountExact
  <2> SUFFICES ASSUME Shard!Init PROVE Shard!RefCountExact
    BY ShardInit
  <2>1. Shard!Counted = {}
    BY DEF Shard!Init, Shard!Counted
  <2> QED
    BY <2>1, FS_EmptySet, OneCardinality DEF Shard!Init, Shard!NoEntry, Shard!RefCountExact
<1>2. ShardInv /\ Shard!RefCountExact /\ [Shard!Next]_(Shard!vars) => ShardInv'
  <2> SUFFICES ASSUME ShardInv, Shard!RefCountExact, [Shard!Next]_(Shard!vars) PROVE ShardInv'
    OBVIOUS
  <2>1. ASSUME NEW k \in Client, Shard!Leave(k) PROVE ShardInv'
    <3>1. shPhase[k] = "on" => shEntry.ch # None
      BY DEF Shard!RefCountExact, Shard!Counted
    <3> QED
      BY <2>1, <3>1, LeaveKeeps
  <2> QED
    BY <2>1, ConnectKeeps, ShardRestKeeps DEF Shard!Next
<1>3. ShardInv /\ Shard!RefCountExact /\ [Shard!Next]_(Shard!vars) => Shard!RefCountExact'
  BY StepRefCount DEF ShardInv
<1> QED
  BY <1>1, <1>2, <1>3, PTL DEF Shard!Spec

\* While a client is connected, the entry's channel is subscribed and forwarded: no other
\* client's rollback or late Unsubscribe takes it away.
THEOREM ConnectedAreForwarded ==
  ASSUME Shard!ConstantsAssumption, IsFiniteSet(Client)
  PROVE  Shard!Spec => []ConnectedIsForwarded
<1>1. ShardInv => ConnectedIsForwarded
  BY DEF ConnectedIsForwarded, ShardInv, ShardChannels
<1> QED
  BY <1>1, CountIsExact, PTL

\* Nothing leaks: at rest the bus holds the entry's channel alone, and every forwarder but
\* the entry's has been told to stop.
THEOREM NothingLeaks ==
  ASSUME Shard!ConstantsAssumption, IsFiniteSet(Client)
  PROVE  Shard!Spec => [](Shard!NoLeakedSubscription /\ Shard!OneLiveForwarder)
<1>1. ShardInv => Shard!OneLiveForwarder
  BY DEF ShardInv, ShardChannels
<1>2. ShardInv => Shard!NoLeakedSubscription
  BY DEF ShardInv, ShardChannels, ShardTypes, Owned, Accounted, Shard!ConnectedIsForwarded,
         Shard!NoLeakedSubscription, Shard!ConstantsAssumption
<1> QED
  BY <1>1, <1>2, CountIsExact, PTL

-----------------------------------------------------------------------------
(* The broadcast bus.                                                      *)

\* Types, as far as the proof uses them.
BusTypes ==
  /\ refs \in [Key -> Nat] /\ desiredGen \in Nat /\ confirmedGen \in Nat
  /\ confirmed \subseteq Key
  /\ mgmt \in {"idle", "wiped", "pass", "stopped"}
  /\ pass \in [gen : Nat, want : SUBSET Key, failed : SUBSET Key, abort : BOOLEAN]

\* A pass confirms a generation no older than the one confirmed and no newer than the desired one;
\* if it is the desired one, the pass works towards what is desired now.
Generations ==
  /\ confirmedGen <= desiredGen
  /\ mgmt = "pass" => /\ confirmedGen <= pass.gen /\ pass.gen <= desiredGen
                      /\ pass.gen = desiredGen => pass.want = Desired
                      /\ pass.abort => pass.failed # {}

BusInv == BusTypes /\ Generations /\ ConvergedIsConfirmed

\* A new bus wants nothing and has confirmed nothing (newValkeyBus).
LEMMA BusInit == Init => BusInv
BY DEF Init, BusInv, BusTypes, Generations, ConvergedIsConfirmed, Desired, NoPass, subscriptionsConverged

\* A change of the desired set is a new generation.
LEMMA CallerChanges ==
  ASSUME BusInv, NEW k \in Key, Subscribe(k) \/ Unsubscribe(k)
  PROVE  BusInv'
<1> USE DEF BusInv, BusTypes, mgmtVars
<1>1. UNCHANGED <<confirmedGen, confirmed, mgmt, pass>>
  BY DEF Subscribe, Unsubscribe
<1>2. refs' \in [Key -> Nat]
  BY DEF Subscribe, Unsubscribe
<1>3. \/ desiredGen' = desiredGen + 1
      \/ desiredGen' = desiredGen /\ Desired' = Desired
  <2>1. CASE Subscribe(k)
    <3>1. CASE refs[k] = 0
      BY <2>1, <3>1 DEF Subscribe, noteDesiredChanged
    <3>2. CASE refs[k] # 0
      <4>1. \A j \in Key : refs'[j] > 0 <=> refs[j] > 0
        BY <2>1, <3>2 DEF Subscribe
      <4> QED
        BY <2>1, <3>2, <4>1 DEF Subscribe, noteDesiredChanged, Desired
    <3> QED
      BY <3>1, <3>2
  <2>2. CASE Unsubscribe(k)
    <3>1. CASE refs[k] = 1
      BY <2>2, <3>1 DEF Unsubscribe, noteDesiredChanged
    <3>2. CASE refs[k] # 1
      <4>1. \A j \in Key : refs'[j] > 0 <=> refs[j] > 0
        BY <2>2, <3>2 DEF Unsubscribe
      <4> QED
        BY <2>2, <3>2, <4>1 DEF Unsubscribe, noteDesiredChanged, Desired
    <3> QED
      BY <3>1, <3>2
  <2> QED
    BY <2>1, <2>2
<1>4. CASE desiredGen' = desiredGen + 1
  BY <1>1, <1>2, <1>4 DEF Generations, ConvergedIsConfirmed, subscriptionsConverged
<1>5. CASE desiredGen' = desiredGen /\ Desired' = Desired
  BY <1>1, <1>2, <1>5 DEF Generations, ConvergedIsConfirmed, subscriptionsConverged
<1> QED
  BY <1>3, <1>4, <1>5

\* A pass starts from the generation and the set of one instant.
LEMMA PassStarts ==
  ASSUME BusInv, Reinitialised \/ OnWake \/ OnRetry \/ OnTick
  PROVE  BusInv'
<1> USE DEF BusInv, BusTypes
<1>1. /\ mgmt' = "pass" /\ UNCHANGED <<refs, confirmedGen, confirmed>>
      /\ pass' = [gen |-> desiredGen', want |-> Desired, failed |-> {}, abort |-> FALSE]
      /\ desiredGen' = desiredGen + 1 \/ (desiredGen' = desiredGen /\ mgmt = "idle")
  BY DEF Reinitialised, OnWake, OnRetry, OnTick, Snapshot
<1>2. Desired' = Desired /\ Desired \subseteq Key
  BY <1>1 DEF Desired
<1>3. BusTypes'
  BY <1>1, <1>2
<1>4. Generations'
  BY <1>1, <1>2 DEF Generations
<1>5. ConvergedIsConfirmed'
  BY <1>1, <1>2 DEF Generations, ConvergedIsConfirmed, subscriptionsConverged
<1> QED
  BY <1>3, <1>4, <1>5

\* A command changes the confirmed set, so there was something to do: the set was not the desired
\* one, or the generation of the pass is an old one.
LEMMA CommandSteps ==
  ASSUME BusInv, Command
  PROVE  BusInv'
<1> USE DEF BusInv, BusTypes
<1>1. PICK k \in Key : CommandOk(k) \/ CommandRefused(k) \/ \E ran \in BOOLEAN : CommandFailed(k, ran)
  BY DEF Command
<1>2. CASE CommandOk(k)
  <2>1. /\ mgmt = "pass" /\ k \in Due /\ confirmed' \subseteq Key
        /\ UNCHANGED <<refs, desiredGen, confirmedGen, mgmt, pass>>
    BY <1>2 DEF CommandOk, callerVars, Toggle
  <2>2. pass.want # confirmed
    BY <2>1 DEF Due, Diff
  <2>3. confirmedGen # desiredGen
    BY <2>1, <2>2 DEF Generations, ConvergedIsConfirmed, subscriptionsConverged
  <2> QED
    BY <2>1, <2>3 DEF Generations, ConvergedIsConfirmed, subscriptionsConverged, Desired
<1>3. CASE CommandRefused(k) \/ \E ran \in BOOLEAN : CommandFailed(k, ran)
  <2>1. UNCHANGED <<refs, desiredGen, confirmedGen, confirmed, mgmt>>
    BY <1>3 DEF CommandRefused, CommandFailed, callerVars
  <2>2. pass'.failed # {} /\ pass'.gen = pass.gen /\ pass'.want = pass.want
    BY <1>3, Zenon DEF CommandRefused, CommandFailed
  <2>3. pass' \in [gen : Nat, want : SUBSET Key, failed : SUBSET Key, abort : BOOLEAN]
    <3>1. CASE CommandRefused(k)
      BY <3>1 DEF CommandRefused
    <3>2. CASE \E ran \in BOOLEAN : CommandFailed(k, ran)
      <4>1. pass' = [[pass EXCEPT !.failed = pass.failed \cup {k}] EXCEPT !.abort = TRUE]
        BY <3>2 DEF CommandFailed
      <4> QED
        BY <4>1, Zenon
    <3> QED
      BY <1>3, <3>1, <3>2
  <2> QED
    BY <2>1, <2>2, <2>3 DEF Generations, ConvergedIsConfirmed, subscriptionsConverged, Desired
<1> QED
  BY <1>1, <1>2, <1>3

\* A pass that ends with nothing failed has done all its snapshot asked for.
LEMMA PassEnds ==
  ASSUME BusInv, EndPass
  PROVE  BusInv'
<1> USE DEF BusInv, BusTypes
<1>1. /\ mgmt = "pass" /\ Due = {} /\ mgmt' = "idle" /\ pass' = NoPass
      /\ UNCHANGED <<refs, desiredGen, confirmed>>
  BY DEF EndPass, callerVars
<1>2. CASE pass.failed = {}
  <2>1. confirmedGen' = pass.gen /\ confirmed = pass.want
    BY <1>1, <1>2 DEF EndPass, Due, Diff, Generations
  <2> QED
    BY <1>1, <2>1, Zenon DEF NoPass, Generations, ConvergedIsConfirmed, subscriptionsConverged, Desired
<1>3. CASE pass.failed # {}
  <2>1. UNCHANGED confirmedGen
    BY <1>3, SMTT(60), ZenonT(60) DEF EndPass
  <2> QED
    BY <1>1, <2>1 DEF NoPass, Generations, ConvergedIsConfirmed, subscriptionsConverged, Desired
<1> QED
  BY <1>2, <1>3

\* Everything else leaves the sets and the generations alone, but for the wipe.
LEMMA OtherSteps ==
  ASSUME BusInv,
         \/ signalSubscriptionChange \/ OnDisconnect \/ Shutdown \/ Disconnect
         \/ \E t \in Tenant : PublishStart(t)
         \/ PublishSend \/ PublishStopped \/ PublishHeld \/ PublishAccepted \/ WindowExpires
         \/ UNCHANGED vars
  PROVE  BusInv'
<1> USE DEF BusInv, BusTypes, Generations, ConvergedIsConfirmed, subscriptionsConverged, Desired
<1>1. CASE UNCHANGED <<refs, desiredGen, confirmedGen, confirmed, mgmt, pass>>
  BY <1>1
<1>2. CASE OnDisconnect
  BY <1>2 DEF OnDisconnect, callerVars
<1>3. CASE Shutdown
  BY <1>3 DEF Shutdown, callerVars, NoPass
<1>4. CASE signalSubscriptionChange \/ Disconnect \/ \E t \in Tenant : PublishStart(t)
  BY <1>1, <1>4, ZenonT(60) DEF signalSubscriptionChange, Disconnect, PublishStart, callerVars, mgmtVars
<1>5. CASE PublishSend \/ PublishStopped \/ PublishHeld \/ PublishAccepted \/ WindowExpires
  BY <1>1, <1>5 DEF PublishSend, PublishStopped, PublishHeld, PublishAccepted, WindowExpires,
                    callerVars, mgmtVars
<1>6. CASE UNCHANGED vars
  BY <1>1, <1>6 DEF vars, callerVars, mgmtVars
<1> QED
  BY <1>2, <1>3, <1>4, <1>5, <1>6

\* While IsHealthy finds the generations equal, what the current connection has confirmed is
\* what the callers want, but for the moment in which reinitDedicatedClient has cleared the
\* one and not yet changed the other (converge, subscriptionsConverged).
THEOREM ConvergedMeansConfirmed == Spec => []ConvergedIsConfirmed
<1>1. BusInv /\ [Next]_vars => BusInv'
  <2> SUFFICES ASSUME BusInv, [Next]_vars PROVE BusInv'
    OBVIOUS
  <2> QED
    BY CallerChanges, PassStarts, CommandSteps, PassEnds, OtherSteps DEF Next
<1>2. BusInv => ConvergedIsConfirmed
  BY DEF BusInv
<1> QED
  BY BusInit, <1>1, <1>2, PTL DEF Spec

-----------------------------------------------------------------------------
(* The license.                                                            *)

\* A process that is up runs a key; a request that is under way has one.
Running ==
  /\ liProv \in [up : BOOLEAN, live : Lic!MaybeKey, current : Lic!MaybeKey, accepted : Nat]
  /\ liProv.up => liProv.live # NoKey
  /\ liService \in [up : BOOLEAN, live : Lic!MaybeKey, first : BOOLEAN]
  /\ liService.up => liService.live # NoKey
  /\ liReqs \in [Request -> [pc : Lic!Step, key : Lic!MaybeKey]]
  /\ \A r \in Request : liReqs[r].pc # "idle" => liReqs[r].key \in LicenseKey

\* What NeverLowered says of one process whose key was old and is new.
Kept(old, new) ==
  /\ Lic!editionRank[EditionOf[new]] >= Lic!editionRank[EditionOf[old]]
  /\ ~Lic!LowersCapacity(old, new)

\* Editions are ranked and capacities are numbers.
LEMMA Ranked ==
  ASSUME Lic!ConstantsAssumption, NEW k \in LicenseKey
  PROVE  Lic!editionRank[EditionOf[k]] \in Nat /\ Lic!resolveLimits(k) \in Nat
<1>1. EditionOf[k] \in {"community", "pro", "enterprise"} /\ Override[k] \in Nat
  BY DEF Lic!ConstantsAssumption
<1>2. \A e \in {"community", "pro", "enterprise"} : Lic!editionRank[e] \in Nat /\ Lic!DefaultLimits[e] \in Nat
  BY DEF Lic!editionRank, Lic!DefaultLimits
<1> QED
  BY <1>1, <1>2 DEF Lic!resolveLimits

\* A key that stays is not lower than itself.
LEMMA SameKept ==
  ASSUME Lic!ConstantsAssumption, NEW k \in LicenseKey
  PROVE  Kept(k, k)
BY Ranked DEF Kept, Lic!LowersCapacity

\* What ReloadNoDowngrade returns is a key and not lower than the one that runs: zero is
\* unlimited on either side (dimensionCovers).
LEMMA ReloadKept ==
  ASSUME Lic!ConstantsAssumption, NEW old \in LicenseKey, NEW k
  PROVE  Lic!ReloadNoDowngrade(old, k) \in LicenseKey /\ Kept(old, Lic!ReloadNoDowngrade(old, k))
<1>1. CASE Lic!Accepts(old, k) /\ Lic!Applies(old, k)
  <2>1. k \in LicenseKey /\ Lic!ReloadNoDowngrade(old, k) = k
    BY <1>1 DEF Lic!Accepts, Lic!parseAndVerify, Lic!ReloadNoDowngrade
  <2>2. Lic!dimensionCovers(Lic!resolveLimits(k), Lic!resolveLimits(old))
    BY <1>1 DEF Lic!Applies, Lic!CoversAtLeast
  <2>3. ~Lic!LowersCapacity(old, k)
    BY <2>1, <2>2, Ranked DEF Lic!dimensionCovers, Lic!IsUnlimited, Lic!LowersCapacity
  <2>4. Lic!editionRank[EditionOf[k]] >= Lic!editionRank[EditionOf[old]]
    BY <1>1 DEF Lic!Applies, Lic!IsAtLeast
  <2> QED
    BY <2>1, <2>3, <2>4 DEF Kept
<1>2. CASE ~(Lic!Accepts(old, k) /\ Lic!Applies(old, k))
  BY <1>2, SameKept DEF Lic!ReloadNoDowngrade
<1> QED
  BY <1>1, <1>2

\* Provisioning: every step keeps a key running, and one that leaves it up lowers nothing.
LEMMA ProvStep ==
  ASSUME Lic!ConstantsAssumption, Running, [Lic!Next]_(Lic!vars)
  PROVE  /\ liProv' \in [up : BOOLEAN, live : Lic!MaybeKey, current : Lic!MaybeKey, accepted : Nat]
         /\ liProv'.up => liProv'.live # NoKey
         /\ liProv.up /\ liProv'.up => Kept(liProv.live, liProv'.live)
<1> USE DEF Running
<1>1. liProv.up => liProv.live \in LicenseKey /\ Kept(liProv.live, liProv.live)
  BY SameKept DEF Lic!MaybeKey
<1>2. CASE UNCHANGED liProv
  BY <1>1, <1>2
<1>3. CASE Lic!Boot
  <2>1. PICK stored \in {liDb, NoKey} :
           LET k == Lic!resolveProvisioningLicense(stored)
           IN /\ k # NoKey
              /\ liProv' = [up |-> TRUE, live |-> k, current |-> k, accepted |-> 0]
    BY <1>3, Zenon DEF Lic!Boot
  <2>2. Lic!resolveProvisioningLicense(stored) \in Lic!MaybeKey
    BY DEF Lic!resolveProvisioningLicense, Lic!NewManager, Lic!Reload, Lic!Accepts, Lic!parseAndVerify,
           Lic!MaybeKey
  <2> QED
    BY <1>3, <2>1, <2>2 DEF Lic!Boot
<1>4. CASE Lic!ProvStops
  BY <1>4 DEF Lic!ProvStops, Lic!Down, Lic!MaybeKey
<1>5. ASSUME NEW r \in Request, Lic!Apply(r)
      PROVE  /\ liProv' \in [up : BOOLEAN, live : Lic!MaybeKey, current : Lic!MaybeKey, accepted : Nat]
             /\ liProv'.up => liProv'.live # NoKey
             /\ liProv.up /\ liProv'.up => Kept(liProv.live, liProv'.live)
  <2>1. liProv' = [liProv EXCEPT !.live = Lic!ReloadNoDowngrade(liProv.live, liReqs[r].key)]
    BY <1>5 DEF Lic!Apply
  <2>2. Lic!ReloadNoDowngrade(liProv.live, liReqs[r].key) \in Lic!MaybeKey
    BY DEF Lic!ReloadNoDowngrade, Lic!Accepts, Lic!parseAndVerify, Lic!MaybeKey
  <2>3. liProv.up => /\ Lic!ReloadNoDowngrade(liProv.live, liReqs[r].key) \in LicenseKey
                     /\ Kept(liProv.live, Lic!ReloadNoDowngrade(liProv.live, liReqs[r].key))
    BY <1>1, ReloadKept
  <2> QED
    BY <2>1, <2>2, <2>3 DEF Lic!ConstantsAssumption
<1>6. ASSUME NEW r \in Request, Lic!Anchor(r) \/ Lic!Announce(r)
      PROVE  /\ liProv' \in [up : BOOLEAN, live : Lic!MaybeKey, current : Lic!MaybeKey, accepted : Nat]
             /\ liProv'.up = liProv.up /\ liProv'.live = liProv.live
  <2>1. liReqs[r].key \in LicenseKey /\ Iat[liReqs[r].key] \in Nat
    BY <1>6 DEF Lic!Anchor, Lic!Announce, Lic!ConstantsAssumption
  <2> QED
    BY <1>6, <2>1 DEF Lic!Anchor, Lic!Announce, Lic!MaybeKey
<1>7. ASSUME NEW r \in Request, Lic!RequestArrives(r) \/ Lic!Check(r) \/ Lic!Store(r) PROVE UNCHANGED liProv
  BY <1>7 DEF Lic!RequestArrives, Lic!Check, Lic!Store
<1>8. CASE \/ Lic!ServiceBoots \/ Lic!ServiceStops \/ Lic!Dial \/ Lic!SendSnapshot \/ Lic!Subscribe \/ Lic!SendUpdate
           \/ Lic!Receive \/ Lic!Break \/ UNCHANGED Lic!vars
  BY <1>2, <1>8 DEF Lic!ServiceBoots, Lic!ServiceStops, Lic!Dial, Lic!SendSnapshot, Lic!Subscribe,
                    Lic!SendUpdate, Lic!Send,
                    Lic!Receive, Lic!Break, Lic!vars
<1>9. ASSUME NEW k \in Perishable, Lic!Expires(k) PROVE UNCHANGED liProv
  BY <1>9 DEF Lic!Expires
<1> QED
  BY <1>1, <1>2, <1>3, <1>4, <1>5, <1>6, <1>7, <1>8, <1>9 DEF Lic!Next

\* The service: likewise, once the first key of the stream has been applied.
LEMMA ServiceStep ==
  ASSUME Lic!ConstantsAssumption, Running, [Lic!Next]_(Lic!vars)
  PROVE  /\ liService' \in [up : BOOLEAN, live : Lic!MaybeKey, first : BOOLEAN]
         /\ liService'.up => liService'.live # NoKey
         /\ liService.up /\ liService.first /\ liService'.up => Kept(liService.live, liService'.live)
<1> USE DEF Running
<1>1. liService.up => liService.live \in LicenseKey /\ Kept(liService.live, liService.live)
  BY SameKept DEF Lic!MaybeKey
<1>2. CASE UNCHANGED liService
  BY <1>1, <1>2
<1>3. CASE Lic!ServiceBoots
  <2>1. liEnv.service \in LicenseKey
    BY <1>3 DEF Lic!ServiceBoots, Lic!NewManager, Lic!parseAndVerify
  <2> QED
    BY <1>3, <2>1, Zenon DEF Lic!ServiceBoots, Lic!MaybeKey, Lic!ConstantsAssumption
<1>4. CASE Lic!ServiceStops
  BY <1>4 DEF Lic!ServiceStops, Lic!MaybeKey
<1>5. CASE Lic!Receive
  <2>1. liService.live \in LicenseKey
    BY <1>1, <1>5 DEF Lic!Receive
  <2> DEFINE k == Head(liWire)
  <2>2. CASE k = NoKey
    BY <1>2, <1>5, <2>2 DEF Lic!Receive
  <2>3. CASE k # NoKey /\ ~liService.first
    <3>1. liService' = [liService EXCEPT !.first = TRUE, !.live = Lic!Reload(liService.live, k)]
      BY <1>5, <2>3 DEF Lic!Receive
    <3>2. Lic!Reload(liService.live, k) \in LicenseKey
      BY <2>1 DEF Lic!Reload, Lic!Accepts, Lic!parseAndVerify
    <3> QED
      BY <2>3, <3>1, <3>2, Zenon DEF Lic!MaybeKey, Lic!ConstantsAssumption
  <2>4. CASE k # NoKey /\ liService.first
    <3>1. liService' = [liService EXCEPT !.live = Lic!ReloadNoDowngrade(liService.live, k)]
      BY <1>5, <2>4 DEF Lic!Receive
    <3>2. Lic!ReloadNoDowngrade(liService.live, k) \in LicenseKey /\ Kept(liService.live, Lic!ReloadNoDowngrade(liService.live, k))
      BY <2>1, ReloadKept
    <3> QED
      BY <3>1, <3>2 DEF Lic!MaybeKey, Lic!ConstantsAssumption
  <2> QED
    BY <2>2, <2>3, <2>4
<1>6. ASSUME NEW r \in Request, Lic!RequestArrives(r) \/ Lic!Check(r) \/ Lic!Apply(r) \/ Lic!Anchor(r) \/ Lic!Store(r) \/ Lic!Announce(r)
      PROVE  UNCHANGED liService
  BY <1>6 DEF Lic!RequestArrives, Lic!Check, Lic!Apply, Lic!Anchor, Lic!Store, Lic!Announce
<1>7. CASE \/ Lic!Boot \/ Lic!ProvStops \/ Lic!Dial \/ Lic!SendSnapshot \/ Lic!Subscribe \/ Lic!SendUpdate \/ Lic!Break
           \/ UNCHANGED Lic!vars
  BY <1>2, <1>7 DEF Lic!Boot, Lic!ProvStops, Lic!Dial, Lic!SendSnapshot, Lic!Subscribe, Lic!SendUpdate,
                    Lic!Send, Lic!Break, Lic!vars
<1>8. ASSUME NEW k \in Perishable, Lic!Expires(k) PROVE UNCHANGED liService
  BY <1>8 DEF Lic!Expires
<1> QED
  BY <1>2, <1>3, <1>4, <1>5, <1>6, <1>7, <1>8, Zenon DEF Lic!Next

\* The requests keep the key they came with.
LEMMA RequestStep ==
  ASSUME Running, [Lic!Next]_(Lic!vars)
  PROVE  /\ liReqs' \in [Request -> [pc : Lic!Step, key : Lic!MaybeKey]]
         /\ \A r \in Request : liReqs'[r].pc # "idle" => liReqs'[r].key \in LicenseKey
<1> USE DEF Running, Lic!Step
<1>1. CASE UNCHANGED liReqs
  BY <1>1
<1>2. ASSUME NEW r \in Request, Lic!RequestArrives(r)
      PROVE  /\ liReqs' \in [Request -> [pc : Lic!Step, key : Lic!MaybeKey]]
             /\ \A q \in Request : liReqs'[q].pc # "idle" => liReqs'[q].key \in LicenseKey
  <2>1. PICK k \in LicenseKey : liReqs' = [liReqs EXCEPT ![r] = [pc |-> "check", key |-> k]]
    BY <1>2, Zenon DEF Lic!RequestArrives
  <2>2. [pc |-> "check", key |-> k] \in [pc : Lic!Step, key : Lic!MaybeKey]
    BY Zenon DEF Lic!MaybeKey
  <2> QED
    BY <2>1, <2>2, SMTT(60), ZenonT(60)
<1>3. ASSUME NEW r \in Request, NEW next \in Lic!Step, liReqs[r].pc # "idle", Lic!Goto(r, next)
      PROVE  /\ liReqs' \in [Request -> [pc : Lic!Step, key : Lic!MaybeKey]]
             /\ \A q \in Request : liReqs'[q].pc # "idle" => liReqs'[q].key \in LicenseKey
  BY <1>3 DEF Lic!Goto
<1>4. ASSUME NEW r \in Request, Lic!Check(r) \/ Lic!Apply(r) \/ Lic!Anchor(r) \/ Lic!Store(r) \/ Lic!Announce(r)
      PROVE  liReqs[r].pc # "idle" /\ \E next \in Lic!Step : Lic!Goto(r, next)
  BY <1>4 DEF Lic!Check, Lic!Apply, Lic!Anchor, Lic!Store, Lic!Announce
<1>5. CASE Lic!ProvStops
  BY <1>5 DEF Lic!ProvStops
<1>6. CASE \/ Lic!Boot \/ Lic!ServiceBoots \/ Lic!ServiceStops \/ Lic!Dial \/ Lic!SendSnapshot \/ Lic!Subscribe \/ Lic!SendUpdate
           \/ Lic!Receive \/ Lic!Break \/ UNCHANGED Lic!vars
  BY <1>1, <1>6 DEF Lic!Boot, Lic!ServiceBoots, Lic!ServiceStops, Lic!Dial, Lic!SendSnapshot,
                    Lic!Subscribe, Lic!SendUpdate, Lic!Send,
                    Lic!Receive, Lic!Break, Lic!vars
<1>7. ASSUME NEW k \in Perishable, Lic!Expires(k) PROVE UNCHANGED liReqs
  BY <1>7 DEF Lic!Expires
<1> QED
  BY <1>1, <1>2, <1>3, <1>4, <1>5, <1>6, <1>7, ZenonT(60) DEF Lic!Next

\* A process that has resolved its license never runs a lower edition or a smaller capacity
\* before it restarts, whatever is pushed, breaks, restarts or expires.
THEOREM NothingIsLowered ==
  ASSUME Lic!ConstantsAssumption
  PROVE  Lic!Spec => NeverLowered
<1> DEFINE Keeps == /\ liProv.up /\ liProv'.up => Kept(liProv.live, liProv'.live)
                    /\ liService.up /\ liService.first /\ liService'.up => Kept(liService.live, liService'.live)
<1>1. Lic!Init => Running
  <2> SUFFICES ASSUME Lic!Init PROVE Running
    OBVIOUS
  <2>1. liProv \in [up : BOOLEAN, live : Lic!MaybeKey, current : Lic!MaybeKey, accepted : Nat] /\ ~liProv.up
    BY DEF Lic!Init, Lic!Down, Lic!MaybeKey
  <2>2. liService \in [up : BOOLEAN, live : Lic!MaybeKey, first : BOOLEAN] /\ ~liService.up
    BY DEF Lic!Init, Lic!MaybeKey
  <2>3. /\ liReqs \in [Request -> [pc : Lic!Step, key : Lic!MaybeKey]]
        /\ \A r \in Request : liReqs[r].pc = "idle"
    BY DEF Lic!Init, Lic!MaybeKey, Lic!Step
  <2> QED
    BY <2>1, <2>2, <2>3 DEF Running
<1>2. Running /\ [Lic!Next]_(Lic!vars) => Running' /\ Keeps
  <2> SUFFICES ASSUME Running, [Lic!Next]_(Lic!vars) PROVE Running' /\ Keeps
    BY Zenon
  <2> QED
    BY ProvStep, ServiceStep, RequestStep DEF Running
<1> QED
  BY <1>1, <1>2, PTL DEF Lic!Spec, NeverLowered, Lic!NeverLowered, Kept
=============================================================================
