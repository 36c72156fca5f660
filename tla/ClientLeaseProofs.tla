------------------------- MODULE ClientLeaseProofs -------------------------
(***************************************************************************)
(* Proofs about ClientLease, for any number of pooled objects, connections *)
(* and slots: connectionsSem is balanced on every path, an object has one  *)
(* connection at a time, a delivery goroutine never works on an object of  *)
(* another connection, and no object goes back to the pool while the index *)
(* names it.                                                               *)
(***************************************************************************)
EXTENDS ClientLease, FiniteSetTheorems, TLAPS

\* The phases in which the send channel of the lease's object is open, and those in which
\* the object carries the lease's id.  A WebSocket leaves the index before it closes the
\* channel, an SSE stream after.
ChannelOpen(l) ==
  \/ phase[l] \in {"got", "attached", "live"}
  \/ kind[l] = "ws" /\ phase[l] \in {"unindex", "closeSend"}
Named(l) == phase[l] \in {"attached", "live", "unindex", "closeSend", "put"}

\* The phases in which the index may name the lease.
Listed(l) ==
  \/ phase[l] \in {"live", "unindex"}
  \/ kind[l] = "sse" /\ phase[l] \in {"attached", "closeSend"}

\* What holds of one lease: its object is its own.
Held(l) ==
  /\ HasObject(l) => holds[l] \in Client /\ holds[l] \notin pool
  /\ ChannelOpen(l) => ~obj[holds[l]].sendClosed
  /\ Named(l) => obj[holds[l]].id = l
  /\ l \in helper => kind[l] = "ws" /\ phase[l] \in {"live", "unindex", "closeSend"}
  /\ \A c \in Client : <<c, l>> \in indexed => holds[l] = c /\ Listed(l)

\* No two leases have one object.
Alone == \A l, m \in Lease : l # m /\ HasObject(l) /\ HasObject(m) => holds[l] # holds[m]

Slots == {l \in Lease : HasSlot(l)}

Types ==
  /\ obj \in [Client -> Fields] /\ pool \subseteq Client
  /\ phase \in [Lease -> Phase] /\ kind \in [Lease -> {"ws", "sse"}]
  /\ holds \in [Lease -> Client \cup {None}]
  /\ helper \subseteq Lease /\ indexed \subseteq Client \X Lease
  /\ sem \in Nat

\* The inductive invariant.
IInv ==
  /\ Types /\ Alone
  /\ \A l \in Lease : Held(l)
  /\ IsFiniteSet(Slots) /\ sem = Cardinality(Slots)

-----------------------------------------------------------------------------
(* What a step leaves alone.                                               *)

\* A lease keeps what is said of it when its own state stays, its object keeps its id and
\* its channel, and nobody puts the object back.
LEMMA HeldStays ==
  ASSUME NEW m \in Lease, Held(m),
         phase'[m] = phase[m], kind'[m] = kind[m], holds'[m] = holds[m],
         m \in helper' => m \in helper,
         \A c \in Client : <<c, m>> \in indexed' => <<c, m>> \in indexed,
         HasObject(m) => /\ holds[m] \notin pool'
                         /\ obj'[holds[m]].id = obj[holds[m]].id
                         /\ obj'[holds[m]].sendClosed = obj[holds[m]].sendClosed
  PROVE  Held(m)'
<1>1. /\ HasObject(m)' <=> HasObject(m)
      /\ ChannelOpen(m)' <=> ChannelOpen(m)
      /\ Named(m)' <=> Named(m)
      /\ Listed(m)' <=> Listed(m)
  BY DEF HasObject, HasSlot, ChannelOpen, Named, Listed
<1>2. (ChannelOpen(m) => HasObject(m)) /\ (Named(m) => HasObject(m))
  BY DEF HasObject, HasSlot, ChannelOpen, Named
<1> QED
  BY <1>1, <1>2 DEF Held

\* The slots as a lease moves to phase p: sem follows if it counts the move.
LEMMA Counted ==
  ASSUME IInv, NEW l \in Lease, NEW p \in Phase, Goto(l, p),
         LET after == p \notin {"none", "rejected", "limiter", "gone"} IN
           /\ after /\ ~HasSlot(l) => sem' = sem + 1
           /\ ~after /\ HasSlot(l) => sem' = sem - 1
           /\ (after <=> HasSlot(l)) => sem' = sem
  PROVE  sem' \in Nat /\ IsFiniteSet(Slots)' /\ sem' = Cardinality(Slots)'
<1> DEFINE after == p \notin {"none", "rejected", "limiter", "gone"}
           S == Slots
<1>1. \A m \in Lease : HasSlot(m)' <=> IF m = l THEN after ELSE HasSlot(m)
  BY DEF IInv, Types, Goto, HasSlot
<1>2. Slots' = IF after THEN S \cup {l} ELSE S \ {l}
  BY <1>1 DEF Slots
<1>3. l \in S <=> HasSlot(l)
  BY DEF Slots
<1>4. IsFiniteSet(S) /\ sem = Cardinality(S) /\ Cardinality(S) \in Nat
  BY FS_CardinalityType DEF IInv
<1> HIDE DEF S
<1>5. CASE after /\ ~HasSlot(l)
  <2>1. IsFiniteSet(S \cup {l}) /\ Cardinality(S \cup {l}) = Cardinality(S) + 1
    BY <1>3, <1>4, <1>5, FS_AddElement
  <2> QED
    BY <1>2, <1>4, <1>5, <2>1
<1>6. CASE ~after /\ HasSlot(l)
  <2>1. IsFiniteSet(S \ {l}) /\ Cardinality(S \ {l}) = Cardinality(S) - 1
    BY <1>3, <1>4, <1>6, FS_RemoveElement
  <2>2. Cardinality(S \ {l}) \in Nat
    BY <2>1, FS_CardinalityType
  <2> QED
    BY <1>2, <1>4, <1>6, <2>1, <2>2
<1>7. CASE after <=> HasSlot(l)
  <2>1. Slots' = S /\ sem' = sem
    BY <1>2, <1>3, <1>7
  <2> QED
    BY <1>4, <2>1
<1> QED
  BY <1>5, <1>6, <1>7

\* A step of lease l changes its own state, its own object or a pooled one, and takes no
\* object but its own or a pooled one.
LEMMA LeaseStep ==
  ASSUME IInv, Types', NEW l \in Lease, Held(l)',
         \A m \in Lease \ {l} :
           /\ phase'[m] = phase[m] /\ kind'[m] = kind[m] /\ holds'[m] = holds[m]
           /\ m \in helper' => m \in helper
           /\ \A c \in Client : <<c, m>> \in indexed' => <<c, m>> \in indexed,
         HasObject(l)' => holds'[l] \in pool \/ (HasObject(l) /\ holds'[l] = holds[l]),
         \A c \in Client : (c \notin pool /\ (HasObject(l) => c # holds[l])) =>
           /\ c \notin pool'
           /\ obj'[c].id = obj[c].id /\ obj'[c].sendClosed = obj[c].sendClosed,
         IsFiniteSet(Slots)', sem' = Cardinality(Slots)'
  PROVE  IInv'
<1>1. ASSUME NEW m \in Lease \ {l} PROVE Held(m)' /\ (HasObject(m)' <=> HasObject(m))
  <2>1. HasObject(m) => /\ holds[m] \in Client /\ holds[m] \notin pool
                        /\ HasObject(l) => holds[m] # holds[l]
    BY <1>1 DEF IInv, Alone, Held
  <2>2. HasObject(m) => /\ holds[m] \notin pool'
                        /\ obj'[holds[m]].id = obj[holds[m]].id
                        /\ obj'[holds[m]].sendClosed = obj[holds[m]].sendClosed
    BY <2>1
  <2>3. Held(m)
    BY <1>1 DEF IInv
  <2>4. HasObject(m)' <=> HasObject(m)
    BY <1>1 DEF HasObject, HasSlot
  <2> QED
    BY <1>1, <2>2, <2>3, <2>4, HeldStays
<1>2. ASSUME NEW m \in Lease \ {l}, HasObject(m)', HasObject(l)' PROVE holds'[m] # holds'[l]
  <2>1. HasObject(m) /\ holds'[m] = holds[m] /\ holds[m] \notin pool
    BY <1>1, <1>2 DEF IInv, Held
  <2> QED
    BY <1>2, <2>1 DEF IInv, Alone
<1>3. ASSUME NEW m \in Lease \ {l}, NEW n \in Lease \ {l}, m # n, HasObject(m)', HasObject(n)'
      PROVE  holds'[m] # holds'[n]
  BY <1>1, <1>3 DEF IInv, Alone
<1>4. Alone'
  BY <1>2, <1>3 DEF Alone
<1>5. \A m \in Lease : Held(m)'
  BY <1>1
<1> QED
  BY <1>4, <1>5 DEF IInv

\* A step of a writer, of the listener or of a delivery goroutine: no lease moves, and an
\* object keeps its id and the state of its channel.
LEMMA QuietStep ==
  ASSUME IInv, UNCHANGED <<pool, leaseVars, indexed>>, helper' \subseteq helper,
         obj' \in [Client -> Fields],
         \A c \in Client : obj'[c].id = obj[c].id /\ obj'[c].sendClosed = obj[c].sendClosed
  PROVE  IInv'
<1>1. Types'
  BY DEF IInv, Types, leaseVars
<1>2. \A m \in Lease : Held(m)'
  <2> TAKE m \in Lease
  <2>1. Held(m) /\ (HasObject(m) => holds[m] \in Client /\ holds[m] \notin pool)
    BY DEF IInv, Held
  <2> QED
    BY <2>1, HeldStays DEF leaseVars
<1>3. Alone' /\ Slots' = Slots
  BY DEF IInv, Alone, Slots, HasObject, HasSlot, leaseVars
<1> QED
  BY <1>1, <1>2, <1>3 DEF IInv, leaseVars

-----------------------------------------------------------------------------
(* The steps of a connection.                                              *)

\* Admission and refusal: the lease has no object yet.
LEMMA AdmitInv ==
  ASSUME IInv, NEW l \in Lease,
         (\E k \in {"ws", "sse"} : Admit(l, k)) \/ Reject(l) \/ UpgradeFails(l)
  PROVE  IInv'
<1>1. PICK p \in {"admitted", "rejected", "gone"} : Goto(l, p)
  BY DEF Admit, Reject, UpgradeFails
<1>2. /\ phase[l] \in {"none", "admitted"} /\ phase'[l] = p /\ p \in Phase
      /\ UNCHANGED <<obj, pool, holds, indexed, helper>>
      /\ kind' \in [Lease -> {"ws", "sse"}] /\ \A m \in Lease \ {l} : kind'[m] = kind[m] /\ phase'[m] = phase[m]
  BY <1>1 DEF Admit, Reject, UpgradeFails, Goto, IInv, Types, Phase
<1>3. Held(l)
  BY DEF IInv
<1>4. Held(l)' /\ ~HasObject(l)'
  BY <1>2, <1>3 DEF Held, HasObject, HasSlot, ChannelOpen, Named, Listed
<1>5. sem' \in Nat /\ IsFiniteSet(Slots)' /\ sem' = Cardinality(Slots)'
  <2>1. CASE \E k \in {"ws", "sse"} : Admit(l, k)
    <3>1. phase[l] = "none" /\ sem' = sem + 1 /\ Goto(l, "admitted")
      BY <2>1 DEF Admit
    <3> QED
      BY <3>1, Counted DEF HasSlot, Phase
  <2>2. CASE Reject(l)
    <3>1. phase[l] = "none" /\ sem' = sem /\ Goto(l, "rejected")
      BY <2>2 DEF Reject
    <3> QED
      BY <3>1, Counted DEF HasSlot, Phase
  <2>3. CASE UpgradeFails(l)
    <3>1. phase[l] = "admitted" /\ sem' = sem - 1 /\ Goto(l, "gone")
      BY <2>3 DEF UpgradeFails
    <3> QED
      BY <3>1, Counted DEF HasSlot, Phase
  <2> QED
    BY <2>1, <2>2, <2>3
<1>6. Types'
  BY <1>1, <1>2, <1>5, Zenon DEF IInv, Types, Goto
<1> QED
  BY <1>2, <1>4, <1>5, <1>6, LeaseStep

\* ConnectionPool.Get: the object comes from the pool and its channel is open.
LEMMA GetInv ==
  ASSUME IInv, NEW l \in Lease, NEW c \in Client, Get(l, c)
  PROVE  IInv'
<1>1. /\ phase[l] = "admitted" /\ c \in pool /\ pool' = pool \ {c} /\ Goto(l, "got")
      /\ holds' = [holds EXCEPT ![l] = c]
      /\ UNCHANGED <<sem, kind, indexed, helper>>
  BY DEF Get
<1>2. /\ phase'[l] = "got" /\ holds'[l] = c
      /\ \A m \in Lease \ {l} : phase'[m] = phase[m] /\ holds'[m] = holds[m]
  BY <1>1 DEF Goto, IInv, Types
<1>3. /\ obj' \in [Client -> Fields] /\ ~obj'[c].sendClosed
      /\ \A d \in Client \ {c} : obj'[d] = obj[d]
  <2>1. obj[c] \in Fields /\ obj \in [Client -> Fields] /\ l \in Chan
    BY DEF IInv, Types, Chan
  <2>2. CASE obj[c].sendClosed
    <3>1. obj' = [obj EXCEPT ![c].send = l, ![c].sendClosed = FALSE, ![c].closeOnce = FALSE]
      BY <2>2 DEF Get
    <3> QED
      BY <2>1, <3>1, Zenon DEF Fields
  <2>3. CASE ~obj[c].sendClosed
    <3>1. obj' = [obj EXCEPT ![c].closeOnce = FALSE]
      BY <2>3 DEF Get
    <3> QED
      BY <2>1, <2>3, <3>1, Zenon DEF Fields
  <2> QED
    BY <2>2, <2>3
<1>4. Held(l)
  BY DEF IInv
<1>5. Held(l)'
  BY <1>1, <1>2, <1>3, <1>4 DEF Held, HasObject, HasSlot, ChannelOpen, Named, Listed
<1>6. sem' \in Nat /\ IsFiniteSet(Slots)' /\ sem' = Cardinality(Slots)'
  BY <1>1, Counted DEF HasSlot, Phase
<1>7. Types'
  BY <1>1, <1>3, <1>6 DEF IInv, Types, Goto, Phase
<1> QED
  BY <1>1, <1>2, <1>3, <1>5, <1>6, <1>7, LeaseStep

\* The handler fills in the object; the hook succeeds.
LEMMA AttachInv ==
  ASSUME IInv, NEW l \in Lease, Attach(l) \/ HookOk(l)
  PROVE  IInv'
<1> DEFINE c == holds[l]
<1>1. PICK p \in {"attached", "live"} : Goto(l, p)
  BY DEF Attach, HookOk
<1>2. /\ HasObject(l) /\ Held(l) /\ c \in Client /\ c \notin pool /\ obj[c] \in Fields
      /\ phase'[l] = p /\ p \in Phase /\ \A m \in Lease \ {l} : phase'[m] = phase[m]
      /\ UNCHANGED <<pool, sem, kind, holds, helper>>
  BY <1>1 DEF Attach, HookOk, IInv, Types, Held, HasObject, HasSlot, Goto, Phase
<1>3. CASE Attach(l)
  <2>1. /\ phase[l] = "got" /\ Goto(l, "attached")
        /\ obj' = [obj EXCEPT ![c].transport = l, ![c].id = l]
        /\ indexed' = IF kind[l] = "sse" THEN indexed \cup {<<c, l>>} ELSE indexed
    BY <1>3 DEF Attach
  <2>2. /\ obj' \in [Client -> Fields] /\ obj'[c].id = l /\ obj'[c].sendClosed = obj[c].sendClosed
        /\ \A d \in Client \ {c} : obj'[d] = obj[d]
    BY <1>2, <2>1 DEF IInv, Types, Fields
  <2>3. phase'[l] = "attached"
    BY <2>1 DEF Goto, IInv, Types
  <2>4. \A d \in Client : <<d, l>> \in indexed' => d = c /\ kind[l] = "sse"
    BY <1>2, <2>1 DEF Held, Listed
  <2>5. Held(l)'
    BY <1>2, <2>1, <2>2, <2>3, <2>4 DEF Held, HasObject, HasSlot, ChannelOpen, Named, Listed
  <2>6. sem' \in Nat /\ IsFiniteSet(Slots)' /\ sem' = Cardinality(Slots)'
    BY <1>2, <2>1, Counted DEF HasSlot, Phase
  <2>7. Types'
    BY <1>1, <1>2, <2>1, <2>2, <2>6 DEF IInv, Types, Goto
  <2>8. \A m \in Lease \ {l}, d \in Client : <<d, m>> \in indexed' => <<d, m>> \in indexed
    BY <2>1
  <2> QED
    BY <1>2, <2>2, <2>5, <2>6, <2>7, <2>8, LeaseStep
<1>4. CASE HookOk(l)
  <2>1. phase[l] = "attached" /\ Goto(l, "live") /\ UNCHANGED <<obj, indexed>>
    BY <1>4 DEF HookOk
  <2>2. phase'[l] = "live"
    BY <2>1 DEF Goto, IInv, Types
  <2>3. Held(l)'
    BY <1>2, <2>1, <2>2 DEF Held, HasObject, HasSlot, ChannelOpen, Named, Listed
  <2>4. sem' \in Nat /\ IsFiniteSet(Slots)' /\ sem' = Cardinality(Slots)'
    BY <1>2, <2>1, Counted DEF HasSlot, Phase
  <2>5. Types'
    BY <1>1, <1>2, <2>1, <2>4 DEF IInv, Types, Goto
  <2> QED
    BY <1>2, <2>1, <2>3, <2>4, <2>5, LeaseStep
<1> QED
  BY <1>3, <1>4

\* closeOnce changes neither the id nor the channel of an object, whoever calls it.
LEMMA CloseOnceKeeps ==
  ASSUME Types, NEW c, CloseOnce(c)
  PROVE  /\ obj' \in [Client -> Fields]
         /\ \A d \in Client : obj'[d].id = obj[d].id /\ obj'[d].sendClosed = obj[d].sendClosed
<1>1. obj' = [obj EXCEPT ![c].closeOnce = TRUE]
  BY DEF CloseOnce
<1>2. \A d \in Client : obj[d] \in Fields /\ obj'[d] = IF d = c THEN [obj[d] EXCEPT !.closeOnce = TRUE] ELSE obj[d]
  BY <1>1, Zenon DEF Types
<1>3. \A d \in Client : obj'[d] \in Fields /\ obj'[d].id = obj[d].id /\ obj'[d].sendClosed = obj[d].sendClosed
  BY <1>2, Zenon DEF Fields
<1> QED
  BY <1>1, <1>3, Zenon DEF Types

\* ConnectionPool.Put clears the id and keeps the channel.
LEMMA PutKeeps ==
  ASSUME Types, NEW c \in Client, obj' = [obj EXCEPT ![c] = PutFields(@)]
  PROVE  /\ obj' \in [Client -> Fields]
         /\ \A d \in Client \ {c} : obj'[d] = obj[d]
<1>1. obj[c] \in Fields
  BY DEF Types
<1>2. PutFields(obj[c]) \in Fields
  BY <1>1, Zenon DEF PutFields, Fields
<1> QED
  BY <1>2 DEF Types

\* The hook fails: a WebSocket gives back its object and its slot at once.
LEMMA HookFailsInv ==
  ASSUME IInv, NEW l \in Lease, HookFails(l)
  PROVE  IInv'
<1> DEFINE c == holds[l]
<1>1. /\ phase[l] = "attached" /\ HasObject(l) /\ Held(l) /\ c \in Client /\ c \notin pool
      /\ UNCHANGED <<kind, holds, indexed, helper>>
  BY DEF HookFails, IInv, Types, Held, HasObject, HasSlot
<1>2. CASE kind[l] = "ws"
  <2>1. /\ obj' = [obj EXCEPT ![c] = PutFields(@)] /\ pool' = pool \cup {c} /\ sem' = sem - 1
        /\ Goto(l, "gone")
    BY <1>2 DEF HookFails
  <2>2. phase'[l] = "gone" /\ \A m \in Lease \ {l} : phase'[m] = phase[m]
    BY <2>1 DEF Goto, IInv, Types
  <2>3. obj' \in [Client -> Fields] /\ \A d \in Client \ {c} : obj'[d] = obj[d]
    BY <1>1, <2>1, PutKeeps, Zenon DEF IInv
  <2>4. Held(l)' /\ ~HasObject(l)'
    BY <1>1, <1>2, <2>2 DEF Held, HasObject, HasSlot, ChannelOpen, Named, Listed
  <2>5. sem' \in Nat /\ IsFiniteSet(Slots)' /\ sem' = Cardinality(Slots)'
    BY <1>1, <2>1, Counted DEF HasSlot, Phase
  <2>6. Types'
    BY <1>1, <2>1, <2>3, <2>5 DEF IInv, Types, Goto, Phase
  <2> QED
    BY <1>1, <2>1, <2>2, <2>3, <2>4, <2>5, <2>6, LeaseStep
<1>3. CASE kind[l] = "sse"
  <2>1. CloseOnce(c) /\ Goto(l, "closeSend") /\ UNCHANGED <<pool, sem>>
    BY <1>3 DEF HookFails
  <2>2. phase'[l] = "closeSend" /\ \A m \in Lease \ {l} : phase'[m] = phase[m]
    BY <2>1 DEF Goto, IInv, Types
  <2>3. /\ obj' \in [Client -> Fields]
        /\ \A d \in Client : obj'[d].id = obj[d].id /\ obj'[d].sendClosed = obj[d].sendClosed
    BY <2>1, CloseOnceKeeps DEF IInv
  <2>4. Held(l)'
    BY <1>1, <1>3, <2>1, <2>2, <2>3 DEF Held, HasObject, HasSlot, ChannelOpen, Named, Listed
  <2>5. sem' \in Nat /\ IsFiniteSet(Slots)' /\ sem' = Cardinality(Slots)'
    BY <1>1, <2>1, Counted DEF HasSlot, Phase
  <2>6. Types'
    BY <1>1, <2>1, <2>3, <2>5 DEF IInv, Types, Goto, Phase
  <2> QED
    BY <1>1, <2>1, <2>2, <2>3, <2>4, <2>5, <2>6, LeaseStep
<1> QED
  BY <1>2, <1>3 DEF IInv, Types

\* A live WebSocket subscribes or starts a delivery goroutine.
LEMMA LiveInv ==
  ASSUME IInv, NEW l \in Lease, Subscribe(l) \/ HelperStarts(l)
  PROVE  IInv'
<1>1. /\ phase[l] = "live" /\ kind[l] = "ws" /\ Held(l) /\ holds[l] \in Client /\ holds[l] \notin pool
      /\ UNCHANGED <<obj, pool, sem, phase, kind, holds>>
      /\ helper \subseteq helper' /\ helper' \subseteq helper \cup {l}
      /\ indexed \subseteq indexed' /\ indexed' \subseteq indexed \cup {<<holds[l], l>>}
  BY DEF Subscribe, HelperStarts, leaseVars, IInv, Held, HasObject, HasSlot
<1>2. Held(l)'
  BY <1>1 DEF Held, HasObject, HasSlot, ChannelOpen, Named, Listed
<1>3. Slots' = Slots
  BY <1>1 DEF Slots, HasSlot
<1>4. Types'
  BY <1>1 DEF IInv, Types
<1>5. HasObject(l) /\ HasObject(l)'
  BY <1>1 DEF HasObject, HasSlot
<1>6. \A m \in Lease \ {l}, d \in Client : <<d, m>> \in indexed' => <<d, m>> \in indexed
  BY <1>1
<1>7. IsFiniteSet(Slots)' /\ sem' = Cardinality(Slots)'
  BY <1>1, <1>3 DEF IInv
<1> QED
  BY <1>1, <1>2, <1>4, <1>5, <1>6, <1>7, LeaseStep

\* The reader ends: a WebSocket leaves the index first, an SSE stream closes its channel first.
LEMMA ReadEndsInv ==
  ASSUME IInv, NEW l \in Lease, ReadEnds(l) \/ Unindex(l)
  PROVE  IInv'
<1>1. PICK p \in {"unindex", "closeSend", "put"} : Goto(l, p)
  BY DEF ReadEnds, Unindex
<1>2. /\ phase[l] \in {"live", "unindex"} /\ HasObject(l) /\ Held(l)
      /\ holds[l] \in Client /\ holds[l] \notin pool
      /\ phase'[l] = p /\ p \in Phase /\ \A m \in Lease \ {l} : phase'[m] = phase[m]
      /\ UNCHANGED <<pool, sem, kind, holds, helper>>
  BY <1>1 DEF ReadEnds, Unindex, IInv, Types, Held, HasObject, HasSlot, Goto, Phase
<1>3. sem' \in Nat /\ IsFiniteSet(Slots)' /\ sem' = Cardinality(Slots)'
  BY <1>1, <1>2, Counted, SMTT(60), ZenonT(60) DEF HasSlot
<1>4. CASE ReadEnds(l)
  <2>1. /\ phase[l] = "live" /\ CloseOnce(holds[l]) /\ indexed' = indexed
        /\ Goto(l, IF kind[l] = "ws" THEN "unindex" ELSE "closeSend")
    BY <1>4 DEF ReadEnds
  <2>2. /\ obj' \in [Client -> Fields]
        /\ \A d \in Client : obj'[d].id = obj[d].id /\ obj'[d].sendClosed = obj[d].sendClosed
    BY <2>1, CloseOnceKeeps DEF IInv
  <2>3. phase'[l] = IF kind[l] = "ws" THEN "unindex" ELSE "closeSend"
    BY <2>1 DEF Goto, IInv, Types
  <2>4. kind[l] \in {"ws", "sse"}
    BY DEF IInv, Types
  <2>5. Held(l)' /\ HasObject(l)'
    BY <1>2, <2>1, <2>2, <2>3, <2>4 DEF Held, HasObject, HasSlot, ChannelOpen, Named, Listed
  <2>6. Types'
    BY <1>1, <1>2, <1>3, <2>1, <2>2 DEF IInv, Types, Goto
  <2> QED
    BY <1>2, <1>3, <2>1, <2>2, <2>5, <2>6, LeaseStep
<1>5. CASE Unindex(l)
  <2>1. /\ phase[l] = "unindex" /\ indexed' = indexed \ {<<holds[l], l>>} /\ obj' = obj
        /\ Goto(l, IF kind[l] = "ws" THEN "closeSend" ELSE "put")
    BY <1>5 DEF Unindex
  <2>2. phase'[l] = IF kind[l] = "ws" THEN "closeSend" ELSE "put"
    BY <2>1 DEF Goto, IInv, Types
  <2>3. \A d \in Client : <<d, l>> \notin indexed'
    BY <1>2, <2>1 DEF Held
  <2>4. Held(l)' /\ HasObject(l)'
    BY <1>2, <2>1, <2>2, <2>3 DEF Held, HasObject, HasSlot, ChannelOpen, Named
  <2>5. Types'
    BY <1>1, <1>2, <1>3, <2>1 DEF IInv, Types, Goto
  <2>6. \A m \in Lease \ {l}, d \in Client : <<d, m>> \in indexed' => <<d, m>> \in indexed
    BY <2>1
  <2> QED
    BY <1>2, <1>3, <2>1, <2>4, <2>5, <2>6, LeaseStep
<1> QED
  BY <1>4, <1>5

\* clientWg.Wait has returned: no delivery goroutine is left when the channel is closed.
LEMMA CloseSendInv ==
  ASSUME IInv, NEW l \in Lease, CloseSend(l)
  PROVE  IInv'
<1> DEFINE c == holds[l]
           p == IF kind[l] = "ws" THEN "put" ELSE "unindex"
<1>1. /\ phase[l] = "closeSend" /\ l \notin helper
      /\ obj' = [obj EXCEPT ![c].sendClosed = TRUE] /\ Goto(l, p)
      /\ UNCHANGED <<pool, sem, kind, holds, indexed, helper>>
  BY DEF CloseSend
<1>2. HasObject(l) /\ Held(l) /\ c \in Client /\ c \notin pool /\ obj[c] \in Fields
  BY <1>1 DEF IInv, Types, Held, HasObject, HasSlot
<1>3. phase'[l] = p /\ p \in Phase /\ \A m \in Lease \ {l} : phase'[m] = phase[m]
  BY <1>1 DEF Goto, IInv, Types, Phase
<1>4. obj' \in [Client -> Fields] /\ obj'[c].id = obj[c].id /\ \A d \in Client \ {c} : obj'[d] = obj[d]
  BY <1>1, <1>2, Zenon DEF IInv, Types, Fields
<1>5. kind[l] \in {"ws", "sse"}
  BY DEF IInv, Types
<1>6. Held(l)' /\ HasObject(l)'
  BY <1>1, <1>2, <1>3, <1>4, <1>5 DEF Held, HasObject, HasSlot, ChannelOpen, Named, Listed
<1>7. sem' \in Nat /\ IsFiniteSet(Slots)' /\ sem' = Cardinality(Slots)'
  BY <1>1, <1>3, Counted DEF HasSlot
<1>8. Types'
  BY <1>1, <1>3, <1>4, <1>7 DEF IInv, Types, Goto
<1> QED
  BY <1>1, <1>2, <1>3, <1>4, <1>6, <1>7, <1>8, LeaseStep, Zenon

\* The object goes back, then the slot, then the limiter's entry.
LEMMA PutInv ==
  ASSUME IInv, NEW l \in Lease, Put(l)
  PROVE  IInv'
<1> DEFINE c == holds[l]
<1>1. /\ phase[l] = "put" /\ obj' = [obj EXCEPT ![c] = PutFields(@)] /\ pool' = pool \cup {c}
      /\ Goto(l, "release") /\ UNCHANGED <<sem, kind, holds, indexed, helper>>
  BY DEF Put
<1>2. HasObject(l) /\ Held(l) /\ c \in Client /\ c \notin pool
  BY <1>1 DEF IInv, Held, HasObject, HasSlot
<1>3. phase'[l] = "release" /\ \A m \in Lease \ {l} : phase'[m] = phase[m]
  BY <1>1 DEF Goto, IInv, Types
<1>4. obj' \in [Client -> Fields] /\ \A d \in Client \ {c} : obj'[d] = obj[d]
  BY <1>1, <1>2, PutKeeps, Zenon DEF IInv
<1>5. Held(l)' /\ ~HasObject(l)'
  BY <1>1, <1>2, <1>3 DEF Held, HasObject, HasSlot, ChannelOpen, Named, Listed
<1>6. sem' \in Nat /\ IsFiniteSet(Slots)' /\ sem' = Cardinality(Slots)'
  BY <1>1, Counted DEF HasSlot, Phase
<1>7. Types'
  BY <1>1, <1>2, <1>4, <1>6 DEF IInv, Types, Goto, Phase
<1> QED
  BY <1>1, <1>2, <1>3, <1>4, <1>5, <1>6, <1>7, LeaseStep

LEMMA ReleaseInv ==
  ASSUME IInv, NEW l \in Lease, Release(l) \/ RemoveClient(l)
  PROVE  IInv'
<1>1. PICK p \in {"limiter", "gone"} : Goto(l, p)
  BY DEF Release, RemoveClient
<1>2. /\ phase[l] \in {"release", "limiter"} /\ Held(l)
      /\ phase'[l] = p /\ p \in Phase /\ \A m \in Lease \ {l} : phase'[m] = phase[m]
      /\ UNCHANGED <<obj, pool, kind, holds, indexed, helper>>
      /\ IF phase[l] = "release" THEN sem' = sem - 1 ELSE sem' = sem
  BY <1>1 DEF Release, RemoveClient, IInv, Types, Goto, Phase
<1>3. Held(l)' /\ ~HasObject(l)' /\ ~HasObject(l)
  BY <1>2 DEF Held, HasObject, HasSlot, ChannelOpen, Named, Listed
<1>4. sem' \in Nat /\ IsFiniteSet(Slots)' /\ sem' = Cardinality(Slots)'
  BY <1>1, <1>2, Counted DEF HasSlot
<1>5. Types'
  BY <1>1, <1>2, <1>4 DEF IInv, Types, Goto
<1> QED
  BY <1>2, <1>3, <1>4, <1>5, LeaseStep

\* The peer, the delivery goroutines, the writers and the listener move no lease.
LEMMA OthersInv ==
  ASSUME IInv,
         \/ \E l \in Lease : \/ PeerCloses(l) \/ HelperSends(l) \/ HelperEnds(l)
                             \/ WriteLoop(l)
         \/ \E c \in Client, l \in Lease : Snapshot(c, l)
         \/ Broadcast
  PROVE  IInv'
<1>0. obj \in [Client -> Fields]
  BY DEF IInv, Types
<1>1. CASE UNCHANGED <<obj, pool, leaseVars, indexed>> /\ helper' \subseteq helper
  BY <1>0, <1>1, QuietStep, SMTT(60), ZenonT(60)
<1>2. ASSUME NEW l \in Lease, PeerCloses(l) \/ HelperSends(l) \/ HelperEnds(l) PROVE IInv'
  BY <1>1, <1>2, ZenonT(60) DEF PeerCloses, HelperSends, HelperEnds
<1>3. ASSUME NEW l \in Lease, WriterTop(l) \/ WriterSelect(l) \/ WriterStops(l) PROVE IInv'
  BY <1>1, <1>3, SMTT(60), ZenonT(60) DEF WriterTop, WriterSelect, WriterStops
<1>4. ASSUME NEW l \in Lease, WriterSends(l) \/ WriterFails(l) PROVE IInv'
  BY <1>1, <1>4, ZenonT(60) DEF WriterSends, WriterFails
<1>5. ASSUME NEW l \in Lease, WriterExits(l) PROVE IInv'
  <2>1. CloseOnce(holds[l]) /\ UNCHANGED <<pool, leaseVars, indexed, helper>>
    BY <1>5, SMTT(60), ZenonT(60) DEF WriterExits
  <2>2. /\ obj' \in [Client -> Fields]
        /\ \A d \in Client : obj'[d].id = obj[d].id /\ obj'[d].sendClosed = obj[d].sendClosed
    BY <2>1, CloseOnceKeeps, ZenonT(60) DEF IInv
  <2> QED
    BY <2>1, <2>2, QuietStep, Zenon
<1>6. CASE (\E c \in Client, l \in Lease : Snapshot(c, l)) \/ Broadcast
  BY <1>1, <1>6, Zenon DEF Snapshot, Broadcast, CheckTransport, BroadcastSend, BroadcastDrop
<1> QED
  BY <1>2, <1>3, <1>4, <1>5, <1>6 DEF WriteLoop

-----------------------------------------------------------------------------
(* The theorems.                                                           *)

\* The invariant holds at the start and every step keeps it.
LEMMA InitInv == Init => IInv
<1> SUFFICES ASSUME Init PROVE IInv
  OBVIOUS
<1>1. Slots = {}
  BY DEF Init, Slots, HasSlot
<1>2. IsFiniteSet(Slots) /\ Cardinality(Slots) = 0
  BY <1>1, FS_EmptySet
<1>3. Types
  BY DEF Init, Types, Fields, Phase, Chan
<1>4. Alone /\ \A l \in Lease : Held(l)
  BY DEF Init, Alone, Held, HasObject, HasSlot, ChannelOpen, Named, Listed
<1> QED
  BY <1>2, <1>3, <1>4 DEF IInv, Init

LEMMA NextInv == IInv /\ [Next]_vars => IInv'
<1> SUFFICES ASSUME IInv, [Next]_vars PROVE IInv'
  OBVIOUS
<1>1. CASE UNCHANGED vars
  BY <1>1 DEF vars, leaseVars, IInv, Types, Alone, Held, Slots, HasObject, HasSlot, ChannelOpen, Named, Listed
<1>2. ASSUME NEW l \in Lease, Connect(l) PROVE IInv'
  BY <1>2, AdmitInv, GetInv, AttachInv, HookFailsInv, Zenon DEF Connect
<1>3. ASSUME NEW l \in Lease, Reader(l) PROVE IInv'
  BY <1>3, ReadEndsInv, CloseSendInv, PutInv, ReleaseInv, Zenon DEF Reader
<1>4. ASSUME NEW l \in Lease, Subscribe(l) \/ HelperStarts(l) PROVE IInv'
  BY <1>4, LiveInv, Zenon
<1> QED
  BY <1>1, <1>2, <1>3, <1>4, OthersInv, Zenon DEF Next, Helper

\* The invariant holds in every reachable state.
THEOREM Invariance == Spec => []IInv
BY InitInv, NextInv, PTL DEF Spec

\* connectionsSem is the number of connections between admission and release, on every
\* path out of the handlers (handleWebSocket, Subscribe, disconnectClient).
THEOREM SlotsAreBalanced == Spec => []SlotsBalanced
<1>1. IInv => SlotsBalanced
  BY SMTT(60), ZenonT(60) DEF IInv, SlotsBalanced, Slots
<1> QED
  BY <1>1, Invariance, PTL

\* ConnectionPool.Get hands an object to one connection at a time: what is in the pool is
\* leased by none, what is leased by one.
THEOREM LeasesAreExclusive == Spec => []Exclusive
<1>1. IInv => Exclusive
  BY ZenonT(60) DEF IInv, Exclusive, Alone, Held
<1> QED
  BY <1>1, Invariance, PTL

\* A delivery goroutine works on an object its own connection has, with an open channel
\* and the connection's id (disconnectClient waits for clientWg).
THEOREM HelpersOwnTheirClient == Spec => []HelperOwnsClient
<1>1. IInv => HelperOwnsClient
  <2> SUFFICES ASSUME IInv, NEW l \in helper
               PROVE  HasObject(l) /\ ~obj[holds[l]].sendClosed /\ obj[holds[l]].id = l
    BY DEF HelperOwnsClient
  <2>1. l \in Lease /\ Held(l)
    BY DEF IInv, Types
  <2> QED
    BY <2>1, Zenon DEF Held, HasObject, HasSlot, ChannelOpen, Named
<1> QED
  BY <1>1, Invariance, PTL

\* The subscription index names an object only while the connection that subscribed has
\* it: no object is in the pool and in the index (disconnectClient, the end of Subscribe).
THEOREM IndexedAreLeased == Spec => []IndexedIsLeased
<1>1. IInv => IndexedIsLeased
  <2> SUFFICES ASSUME IInv, NEW p \in indexed PROVE HasObject(p[2]) /\ holds[p[2]] = p[1]
    BY DEF IndexedIsLeased
  <2>1. p[1] \in Client /\ p[2] \in Lease /\ p = <<p[1], p[2]>>
    BY DEF IInv, Types
  <2>2. holds[p[2]] = p[1] /\ Listed(p[2])
    BY <2>1 DEF IInv, Held
  <2> QED
    BY <2>2 DEF Listed, HasObject, HasSlot
<1> QED
  BY <1>1, Invariance, PTL

\* No more connections are between admission and release than connectionsSem has slots:
\* the semaphore is taken without blocking before anything else is done for a connection.
AtMostMaxConns == Cardinality({l \in Lease : HasSlot(l)}) <= MaxConns

THEOREM ConnectionsAreBounded == Spec => []AtMostMaxConns
<1> DEFINE Fits == sem <= MaxConns
<1>1. Init => Fits
  BY ConstantsAssumption DEF Init
<1>2. IInv /\ Fits /\ [Next]_vars => Fits'
  <2> SUFFICES ASSUME IInv, Fits, [Next]_vars PROVE Fits'
    OBVIOUS
  <2>1. sem \in Nat /\ MaxConns \in Nat
    BY ConstantsAssumption DEF IInv, Types
  <2>2. CASE sem' \in {sem, sem - 1} \/ (sem < MaxConns /\ sem' = sem + 1)
    BY <2>1, <2>2, SMTT(60), ZenonT(60)
  <2>3. ASSUME NEW l \in Lease, Connect(l) PROVE Fits'
    BY <2>2, <2>3, Zenon DEF Connect, Admit, Reject, UpgradeFails, Attach, HookOk, HookFails, Get
  <2>4. ASSUME NEW l \in Lease, Reader(l) PROVE Fits'
    BY <2>2, <2>4 DEF Reader, ReadEnds, Unindex, CloseSend, Put, Release, RemoveClient
  <2>5. ASSUME NEW l \in Lease, WriteLoop(l) PROVE Fits'
    BY <2>2, <2>5, SMTT(60), ZenonT(60) DEF WriteLoop, WriterTop, WriterSelect, WriterStops, WriterSends, WriterFails,
                      WriterExits, leaseVars
  <2>6. ASSUME NEW l \in Lease, Subscribe(l) \/ Helper(l) \/ PeerCloses(l) PROVE Fits'
    BY <2>2, <2>6, ZenonT(60) DEF Subscribe, Helper, HelperStarts, HelperSends, HelperEnds, PeerCloses, leaseVars
  <2>7. CASE (\E c \in Client, l \in Lease : Snapshot(c, l)) \/ Broadcast \/ UNCHANGED vars
    BY <2>2, <2>7, Zenon DEF Snapshot, Broadcast, CheckTransport, BroadcastSend, BroadcastDrop, vars, leaseVars
  <2> QED
    BY <2>3, <2>4, <2>5, <2>6, <2>7 DEF Next
<1>3. IInv /\ Fits => AtMostMaxConns
  BY DEF IInv, Slots, AtMostMaxConns
<1> QED
  BY <1>1, <1>2, <1>3, Invariance, PTL DEF Spec

=============================================================================
