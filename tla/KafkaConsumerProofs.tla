------------------------- MODULE KafkaConsumerProofs -------------------------
(***************************************************************************)
(* Proofs about KafkaConsumer, for any number of partitions, members,      *)
(* records and faults and any batch size, with batching on or off: the     *)
(* steps of the consume loop, and the theorems.                            *)
(***************************************************************************)
EXTENDS KafkaConsumerSteps, TLAPS

-----------------------------------------------------------------------------
(* The steps of the loop.                                                  *)

\* Taking the head of a sequence of records.
LEMMA TailHolds ==
  ASSUME NEW s \in Seq(Record), s # <<>>
  PROVE  /\ Len(Tail(s)) = Len(s) - 1 /\ Len(s) \in Nat \ {0} /\ Head(s) = s[1]
         /\ Head(s) \in Record /\ Tail(s) \in Seq(Record)
         /\ \A i \in 1 .. Len(s) - 1 : Tail(s)[i] = s[i + 1]
         /\ \A k \in 0 .. Len(s) : \A p, o :
              Holds(s, k, p, o) => Head(s) = [part |-> p, off |-> o] \/ Holds(Tail(s), k - 1, p, o)
<1>1. /\ Len(Tail(s)) = Len(s) - 1 /\ Len(s) \in Nat \ {0} /\ Head(s) = s[1]
      /\ Head(s) \in Record /\ Tail(s) \in Seq(Record)
      /\ \A i \in 1 .. Len(s) - 1 : Tail(s)[i] = s[i + 1]
  OBVIOUS
<1>2. ASSUME NEW k \in 0 .. Len(s), NEW p, NEW o, Holds(s, k, p, o), Head(s) # [part |-> p, off |-> o]
      PROVE  Holds(Tail(s), k - 1, p, o)
  <2>1. PICK j \in 1 .. k : s[j] = [part |-> p, off |-> o]
    BY <1>2 DEF Holds
  <2>2. j - 1 \in 1 .. k - 1 /\ Tail(s)[j - 1] = [part |-> p, off |-> o]
    BY <1>1, <1>2, <2>1
  <2> QED BY <2>2, Zenon DEF Holds
<1> QED BY <1>1, <1>2, Zenon

\* Appending a record to a sequence.
LEMMA AppendHolds ==
  ASSUME NEW s \in Seq(Record), NEW r \in Record
  PROVE  /\ Append(s, r) \in Seq(Record) /\ Len(Append(s, r)) = Len(s) + 1 /\ Len(s) \in Nat
         /\ Append(s, r)[Len(s) + 1] = r
         /\ \A i \in 1 .. Len(s) : Append(s, r)[i] = s[i]
         /\ \A k \in 0 .. Len(s) : \A p, o : Holds(Append(s, r), k, p, o) <=> Holds(s, k, p, o)
         /\ \A p, o : Holds(s, Len(s), p, o) => Holds(Append(s, r), Len(s) + 1, p, o)
         /\ Holds(Append(s, r), Len(s) + 1, r.part, r.off)
<1>1. /\ Append(s, r) \in Seq(Record) /\ Len(Append(s, r)) = Len(s) + 1 /\ Len(s) \in Nat
      /\ Append(s, r)[Len(s) + 1] = r
      /\ \A i \in 1 .. Len(s) : Append(s, r)[i] = s[i]
  OBVIOUS
<1>2. r = [part |-> r.part, off |-> r.off]
  BY DEF Record
<1> QED BY <1>1, <1>2 DEF Holds

\* The loop takes a record that is accounted for afterwards (dropped or skipped).
LEMMA TakeSettled ==
  ASSUME TypeOK, NEW m \in Member, MemberInv(m), Take(m), Grows,
         NEW h, h = Head(polled[m]), Accounted(h.part, h.off)',
         UNCHANGED <<owner, position, batch>>
  PROVE  PolledInOrder(m)' /\ PositionInOrder(m)'
<1>1. \A p \in Partition : \A o : Accounted(p, o) => Accounted(p, o)'
  BY AccountedStays
<1>2. PICK s, t : s = polled[m] /\ t = polled'[m]
  OBVIOUS
<1>3. /\ s \in Seq(Record) /\ s # <<>> /\ t = Tail(s) /\ h = Head(s)
      /\ PolledInOrder(m) /\ PositionInOrder(m)
  BY <1>2 DEF Take, TypeOK, MemberInv
<1>4. /\ Len(t) = Len(s) - 1 /\ Len(s) \in Nat \ {0} /\ t \in Seq(Record)
      /\ \A i \in 1 .. Len(s) - 1 : t[i] = s[i + 1]
  BY <1>3, TailHolds
<1>h. \A k \in 0 .. Len(s) : \A p, o :
        Holds(s, k, p, o) => h = [part |-> p, off |-> o] \/ Holds(t, k - 1, p, o)
  BY <1>3, TailHolds
<1>5. \A p \in Partition : \A o : h = [part |-> p, off |-> o] => Accounted(p, o)'
  <2> SUFFICES ASSUME NEW p \in Partition, NEW o, h = [part |-> p, off |-> o]
               PROVE  Accounted(p, o)'
    OBVIOUS
  <2>1. h.part = p /\ h.off = o
    OBVIOUS
  <2> QED BY <2>1 DEF Accounted, Settled
<1>6. ASSUME NEW i \in 1 .. Len(t), NEW o \in 0 .. t[i].off - 1
      PROVE  \/ Accounted(t[i].part, o)'
             \/ Holds(batch[m], Len(batch[m]), t[i].part, o)
             \/ Holds(t, i - 1, t[i].part, o)
  <2>1. i + 1 \in 1 .. Len(s) /\ t[i] = s[i + 1] /\ i \in 0 .. Len(s) /\ t[i].part \in Partition
    BY <1>4, ElementType
  <2>2. \/ Accounted(t[i].part, o)
        \/ Holds(batch[m], Len(batch[m]), t[i].part, o)
        \/ Holds(s, i, t[i].part, o)
    <3>1. (i + 1) - 1 = i
      BY <1>4
    <3> QED BY <1>2, <1>3, <2>1, <3>1, Zenon DEF PolledInOrder
  <2> QED BY <1>1, <1>h, <1>5, <2>1, <2>2, Zenon
<1>7. PolledInOrder(m)'
  <2> SUFFICES ASSUME NEW i \in 1 .. Len(polled'[m]), NEW o \in 0 .. polled'[m][i].off - 1
               PROVE  (\/ Accounted(polled[m][i].part, o)
                       \/ Holds(batch[m], Len(batch[m]), polled[m][i].part, o)
                       \/ Holds(polled[m], i - 1, polled[m][i].part, o))'
    BY DEF PolledInOrder
  <2>1. Accounted(t[i].part, o)' => Accounted(polled[m][i].part, o)'
    BY <1>2 DEF Accounted, Settled
  <2> QED BY <1>2, <1>6, <2>1, Zenon
<1>8. PositionInOrder(m)'
  <2> SUFFICES ASSUME NEW p \in Partition, owner[p] = m, NEW o \in 0 .. position[m][p] - 1
               PROVE  \/ Accounted(p, o)'
                      \/ Holds(batch[m], Len(batch[m]), p, o)
                      \/ Holds(t, Len(t), p, o)
    BY <1>2 DEF PositionInOrder
  <2>1. \/ Accounted(p, o)
        \/ Holds(batch[m], Len(batch[m]), p, o)
        \/ Holds(s, Len(s), p, o)
    BY <1>2, <1>3 DEF PositionInOrder
  <2>2. Len(s) \in 0 .. Len(s) /\ Len(t) = Len(s) - 1
    BY <1>4
  <2> QED BY <1>1, <1>h, <1>5, <2>1, <2>2, Zenon
<1> QED BY <1>7, <1>8

\* A dropped record is marked on the spot: what the batch still holds is before it.
LEMMA TakeMalformedInv ==
  ASSUME TypeOK, IndInv, NEW m \in Member, TakeMalformed(m)
  PROVE  IndInv'
<1>1. PICK h : h = Head(polled[m])
  OBVIOUS
<1>2. /\ Take(m) /\ h \in Record /\ h.part \in Partition /\ h.off \in Int /\ h.off >= 0
      /\ h = [part |-> h.part, off |-> h.off] /\ loop[m] = "select" /\ MemberInv(m)
  <2>1. Take(m) /\ loop[m] = "select" /\ MemberInv(m)
    BY DEF TakeMalformed, Take, IndInv
  <2>2. h \in Record /\ h.part \in Partition /\ h.off \in Offset
    BY <1>1, <2>1, TakeType
  <2> QED BY <2>1, <2>2, ConstantsAssumption DEF Offset, Record
<1>3. /\ Mark(m, h) /\ dropped' = [dropped EXCEPT ![h.part] = dropped[h.part] \cup {h.off}]
      /\ UNCHANGED <<owner, committed, ctx, loop, position, batch, delivered, missed>>
  BY <1>1 DEF TakeMalformed, brokerVars
<1>4. Grows
  BY <1>3 DEF Grows, TypeOK
<1>5. \A p \in Partition : \A o : Accounted(p, o) => Accounted(p, o)'
  BY <1>4, AccountedStays
<1>6. CommittedAccounted' /\ NoOvertaking'
  BY <1>3, <1>5 DEF IndInv, CommittedAccounted, NoOvertaking
<1>7. h.off \in dropped'[h.part]
  BY <1>2, <1>3 DEF TypeOK
<1>8. \A o \in 0 .. h.off : Accounted(h.part, o)'
  <2> SUFFICES ASSUME NEW o \in 0 .. h.off PROVE Accounted(h.part, o)'
    OBVIOUS
  <2>1. CASE o = h.off
    BY <1>7, <2>1 DEF Accounted, Settled
  <2>2. CASE o # h.off /\ BatchEnabled
    BY <1>2, <1>7, <2>2 DEF Accounted
  <2>3. CASE o # h.off /\ ~BatchEnabled
    <3>1. PolledInOrder(m) /\ batch[m] = <<>> /\ polled[m] # <<>> /\ polled[m] \in Seq(Record)
      BY <1>2, <2>3 DEF MemberInv, Take, TypeOK
    <3>2. 1 \in 1 .. Len(polled[m]) /\ polled[m][1] = h /\ o \in 0 .. h.off - 1 /\ Len(batch[m]) = 0
      BY <1>1, <1>2, <2>3, <3>1
    <3>3. \/ Accounted(h.part, o)
          \/ Holds(batch[m], 0, h.part, o)
          \/ Holds(polled[m], 0, h.part, o)
      BY <3>1, <3>2 DEF PolledInOrder
    <3> QED BY <1>2, <1>5, <3>3 DEF Holds
  <2> QED BY <2>1, <2>2, <2>3
<1>9. /\ \A p \in Partition : \A o \in 0 .. marked'[m][p] - 1 : Accounted(p, o)'
      /\ \A q \in Member \ {m} : marked'[q] = marked[q]
  <2>1. \A p \in Partition : AccountedBelow(p, marked[m][p])
    BY <1>2, Zenon DEF MemberInv
  <2> QED BY <1>2, <1>3, <1>4, <1>8, <2>1, MarkAccounted
<1>10. ASSUME NEW q \in Member, q # m PROVE MemberInv(q)'
  <2>1. Untouched(q)
    BY <1>2, <1>3, <1>9, <1>10 DEF Untouched, Take, TypeOK
  <2> QED BY <1>4, <2>1, UntouchedMember DEF IndInv
<1>11. MemberInv(m)'
  <2>1. BatchInOrder(m)'
    BY <1>2, <1>3, <1>4, BatchStays DEF MemberInv
  <2>2. PolledInOrder(m)' /\ PositionInOrder(m)'
    <3>1. Accounted(h.part, h.off)'
      BY <1>2, <1>8
    <3> QED BY <1>1, <1>2, <1>3, <1>4, <3>1, TakeSettled
  <2>3. /\ ctx'[m] # "down" /\ loop'[m] = "select"
        /\ ~BatchEnabled => batch'[m] = <<>>
    BY <1>2, <1>3 DEF MemberInv
  <2>4. \A p \in Partition : AccountedBelow(p, marked[m][p])'
    BY <1>9 DEF AccountedBelow
  <2> QED BY <2>1, <2>2, <2>3, <2>4, Zenon DEF MemberInv
<1> QED BY <1>6, <1>10, <1>11 DEF IndInv

\* A skipped record is settled and marks nothing.
LEMMA TakeMissInv ==
  ASSUME TypeOK, IndInv, NEW m \in Member, TakeMiss(m)
  PROVE  IndInv'
<1>1. PICK h : h = Head(polled[m])
  OBVIOUS
<1>2. Take(m) /\ h.part \in Partition /\ loop[m] = "select" /\ MemberInv(m)
  BY <1>1, TakeType, Zenon DEF TakeMiss, Take, IndInv
<1>3. /\ missed' = [missed EXCEPT ![h.part] = missed[h.part] \cup {h.off}]
      /\ UNCHANGED <<owner, committed, ctx, loop, position, batch, marked, delivered, dropped>>
  BY <1>1 DEF TakeMiss, brokerVars
<1>4. Grows
  BY <1>3 DEF Grows, TypeOK
<1>5. \A p \in Partition : \A o : Accounted(p, o) => Accounted(p, o)'
  BY <1>4, AccountedStays
<1>6. CommittedAccounted' /\ NoOvertaking'
  BY <1>3, <1>5, Zenon DEF IndInv, CommittedAccounted, NoOvertaking
<1>7. Accounted(h.part, h.off)'
  BY <1>2, <1>3 DEF Accounted, Settled, TypeOK
<1>8. ASSUME NEW q \in Member, q # m PROVE MemberInv(q)'
  <2>1. Untouched(q)
    BY <1>2, <1>3, <1>8 DEF Untouched, Take, TypeOK
  <2> QED BY <1>4, <2>1, UntouchedMember DEF IndInv
<1>9. MemberInv(m)'
  <2>1. BatchInOrder(m)'
    BY <1>2, <1>3, <1>4, BatchStays DEF MemberInv
  <2>2. PolledInOrder(m)' /\ PositionInOrder(m)'
    BY <1>1, <1>2, <1>3, <1>4, <1>7, TakeSettled, Zenon
  <2>3. \A p \in Partition : AccountedBelow(p, marked[m][p])'
    <3>1. \A p \in Partition : AccountedBelow(p, marked[m][p]) /\ marked'[m][p] = marked[m][p]
      BY <1>2, <1>3 DEF MemberInv
    <3> QED BY <1>4, <3>1, MarksStay
  <2>4. /\ ctx'[m] # "down" /\ loop'[m] = "select"
        /\ ~BatchEnabled => batch'[m] = <<>>
    BY <1>2, <1>3 DEF MemberInv
  <2> QED BY <2>1, <2>2, <2>3, <2>4 DEF MemberInv
<1> QED BY <1>6, <1>8, <1>9 DEF IndInv

\* An interrupted loop abandons a record and takes no further one.
LEMMA TakeInterruptedInv ==
  ASSUME TypeOK, IndInv, NEW m \in Member, TakeInterrupted(m)
  PROVE  IndInv'
<1>1. /\ Take(m) /\ ctx[m] = "canceled" /\ MemberInv(m)
      /\ loop' = [loop EXCEPT ![m] = IF batch[m] = <<>> THEN "stopped" ELSE "final"]
      /\ UNCHANGED <<owner, committed, ctx, position, batch, marked, delivered, dropped, missed>>
  BY DEF TakeInterrupted, IndInv, brokerVars, historyVars
<1>2. Grows
  BY <1>1 DEF Grows
<1>3. \A p \in Partition : \A o : Accounted(p, o) => Accounted(p, o)'
  BY <1>2, AccountedStays
<1>4. CommittedAccounted' /\ NoOvertaking'
  BY <1>1, <1>3 DEF IndInv, CommittedAccounted, NoOvertaking
<1>5. ASSUME NEW q \in Member, q # m PROVE MemberInv(q)'
  <2>1. Untouched(q)
    BY <1>1, <1>5 DEF Untouched, Take, TypeOK
  <2> QED BY <1>2, <2>1, UntouchedMember DEF IndInv
<1>6. MemberInv(m)'
  <2>1. BatchInOrder(m)'
    BY <1>1, <1>2, BatchStays DEF MemberInv
  <2>2. \A p \in Partition : AccountedBelow(p, marked[m][p])'
    <3>1. \A p \in Partition : AccountedBelow(p, marked[m][p]) /\ marked'[m][p] = marked[m][p]
      BY <1>1 DEF MemberInv
    <3> QED BY <1>2, <3>1, MarksStay
  <2>3. /\ loop'[m] = "stopped" \/ (loop'[m] = "final" /\ batch'[m] # <<>>)
        /\ ctx'[m] = "canceled"
    BY <1>1 DEF TypeOK
  <2> QED BY <2>1, <2>2, <2>3 DEF MemberInv
<1> QED BY <1>4, <1>5, <1>6 DEF IndInv

\* The loop appends the taken record to its batch: the order is kept.
LEMMA TakeValidInv ==
  ASSUME TypeOK, IndInv, NEW m \in Member, TakeValid(m)
  PROVE  IndInv'
<1>1. PICK s, t, b, c, h : /\ s = polled[m] /\ t = polled'[m] /\ b = batch[m] /\ c = batch'[m]
                           /\ h = Head(polled[m])
  OBVIOUS
<1>2. /\ Take(m) /\ loop[m] = "select" /\ MemberInv(m) /\ s \in Seq(Record) /\ s # <<>>
      /\ t = Tail(s) /\ h = Head(s) /\ b \in Seq(Record) /\ c = Append(b, h)
      /\ batch' = [batch EXCEPT ![m] = c]
      /\ loop' = [loop EXCEPT ![m] = IF ~BatchEnabled \/ Len(c) >= BatchSize THEN "flush" ELSE "select"]
      /\ UNCHANGED <<owner, committed, ctx, position, marked, delivered, dropped, missed>>
  BY <1>1 DEF TakeValid, Take, IndInv, TypeOK, brokerVars, historyVars
<1>3. /\ Len(t) = Len(s) - 1 /\ Len(s) \in Nat \ {0} /\ h = s[1] /\ h \in Record /\ t \in Seq(Record)
      /\ \A i \in 1 .. Len(s) - 1 : t[i] = s[i + 1]
  BY <1>2, TailHolds
<1>t. \A k \in 0 .. Len(s) : \A p, o :
        Holds(s, k, p, o) => h = [part |-> p, off |-> o] \/ Holds(t, k - 1, p, o)
  BY <1>2, TailHolds
<1>4. /\ c \in Seq(Record) /\ Len(c) = Len(b) + 1 /\ Len(b) \in Nat /\ c[Len(b) + 1] = h
      /\ \A i \in 1 .. Len(b) : c[i] = b[i]
  BY <1>2, <1>3, AppendHolds
<1>a. /\ \A k \in 0 .. Len(b) : \A p, o : Holds(c, k, p, o) <=> Holds(b, k, p, o)
      /\ \A p, o : Holds(b, Len(b), p, o) => Holds(c, Len(c), p, o)
      /\ Holds(c, Len(c), h.part, h.off)
  BY <1>2, <1>3, <1>4, AppendHolds
<1>5. Grows
  BY <1>2 DEF Grows
<1>6. \A p \in Partition : \A o : Accounted(p, o) => Accounted(p, o)'
  BY <1>5, AccountedStays
<1>7. CommittedAccounted' /\ NoOvertaking'
  BY <1>2, <1>6 DEF IndInv, CommittedAccounted, NoOvertaking
<1>8. ASSUME NEW q \in Member, q # m PROVE MemberInv(q)'
  <2>1. Untouched(q)
    BY <1>2, <1>8 DEF Untouched, Take, TypeOK
  <2> QED BY <1>5, <2>1, UntouchedMember DEF IndInv
<1>9. \A p, o : h = [part |-> p, off |-> o] => Holds(c, Len(c), p, o)
  BY <1>a
<1>10. PolledInOrder(m) /\ PositionInOrder(m) /\ BatchInOrder(m)
  BY <1>2 DEF MemberInv
<1>11. BatchInOrder(m)'
  <2>1. ASSUME NEW i \in 1 .. Len(c), NEW o \in 0 .. c[i].off - 1
        PROVE  c[i].part \in Partition /\ (Accounted(c[i].part, o) \/ Holds(c, i - 1, c[i].part, o))
    <3>1. c[i].part \in Partition
      BY <1>4, ElementType
    <3>2. CASE i \in 1 .. Len(b)
      <4>1. c[i] = b[i] /\ i - 1 \in 0 .. Len(b)
        BY <1>4, <3>2
      <4>2. Accounted(b[i].part, o) \/ Holds(b, i - 1, b[i].part, o)
        BY <1>1, <1>10, <3>2, <4>1, SMTT(30), ZenonT(60) DEF BatchInOrder
      <4> QED BY <1>a, <3>1, <4>1, <4>2
    <3>3. CASE i = Len(b) + 1
      <4>1. c[i] = h /\ i - 1 = Len(b) /\ Len(b) \in 0 .. Len(b)
        BY <1>4, <3>3
      <4>2. 1 \in 1 .. Len(s) /\ s[1] = h /\ 1 - 1 = 0
        BY <1>3
      <4>3. \/ Accounted(h.part, o)
            \/ Holds(b, Len(b), h.part, o)
            \/ Holds(s, 0, h.part, o)
        BY <1>1, <1>10, <4>1, <4>2 DEF PolledInOrder
      <4>4. ~Holds(s, 0, h.part, o)
        BY DEF Holds
      <4>5. Holds(b, Len(b), h.part, o) => Holds(c, Len(b), h.part, o)
        BY <1>a, <4>1
      <4> QED BY <3>1, <4>1, <4>3, <4>4, <4>5
    <3> QED BY <1>4, <3>2, <3>3
  <2> SUFFICES ASSUME NEW i \in 1 .. Len(batch'[m]), NEW o \in 0 .. batch'[m][i].off - 1
               PROVE  (Accounted(batch[m][i].part, o) \/ Holds(batch[m], i - 1, batch[m][i].part, o))'
    BY SMTT(30), ZenonT(60) DEF BatchInOrder
  <2>2. Accounted(c[i].part, o) => Accounted(batch[m][i].part, o)'
    BY <1>1, <1>2 DEF Accounted, Settled
  <2> QED BY <1>1, <2>1, <2>2
<1>12. PolledInOrder(m)'
  <2>1. ASSUME NEW i \in 1 .. Len(t), NEW o \in 0 .. t[i].off - 1
        PROVE  \/ Accounted(t[i].part, o)
               \/ Holds(c, Len(c), t[i].part, o)
               \/ Holds(t, i - 1, t[i].part, o)
    <3>1. i + 1 \in 1 .. Len(s) /\ t[i] = s[i + 1] /\ i \in 0 .. Len(s) /\ (i + 1) - 1 = i
      BY <1>3
    <3>2. \/ Accounted(t[i].part, o)
          \/ Holds(b, Len(b), t[i].part, o)
          \/ Holds(s, i, t[i].part, o)
      BY <1>1, <1>10, <3>1 DEF PolledInOrder
    <3>3. Holds(b, Len(b), t[i].part, o) => Holds(c, Len(c), t[i].part, o)
      BY <1>a
    <3>4. Holds(s, i, t[i].part, o) =>
            h = [part |-> t[i].part, off |-> o] \/ Holds(t, i - 1, t[i].part, o)
      BY <1>t, <3>1
    <3> QED BY <1>9, <3>2, <3>3, <3>4, Zenon
  <2> SUFFICES ASSUME NEW i \in 1 .. Len(polled'[m]), NEW o \in 0 .. polled'[m][i].off - 1
               PROVE  (\/ Accounted(polled[m][i].part, o)
                       \/ Holds(batch[m], Len(batch[m]), polled[m][i].part, o)
                       \/ Holds(polled[m], i - 1, polled[m][i].part, o))'
    BY SMTT(30), ZenonT(60) DEF PolledInOrder
  <2>2. Accounted(t[i].part, o) => Accounted(polled[m][i].part, o)'
    BY <1>1, <1>2 DEF Accounted, Settled
  <2> QED BY <1>1, <2>1, <2>2
<1>13. PositionInOrder(m)'
  <2> SUFFICES ASSUME NEW p \in Partition, owner[p] = m, NEW o \in 0 .. position[m][p] - 1
               PROVE  \/ Accounted(p, o)' \/ Holds(c, Len(c), p, o) \/ Holds(t, Len(t), p, o)
    BY <1>1, <1>2 DEF PositionInOrder
  <2>1. Accounted(p, o) \/ Holds(b, Len(b), p, o) \/ Holds(s, Len(s), p, o)
    BY <1>1, <1>10 DEF PositionInOrder
  <2>2. Holds(b, Len(b), p, o) => Holds(c, Len(c), p, o)
    BY <1>a
  <2>3. Len(s) \in 0 .. Len(s) /\ Len(t) = Len(s) - 1
    BY <1>3
  <2>4. Holds(s, Len(s), p, o) => h = [part |-> p, off |-> o] \/ Holds(t, Len(t), p, o)
    BY <1>t, <2>3
  <2> QED BY <1>6, <1>9, <2>1, <2>2, <2>4
<1>14. MemberInv(m)'
  <2>1. \A p \in Partition : AccountedBelow(p, marked[m][p])'
    <3>1. \A p \in Partition : AccountedBelow(p, marked[m][p]) /\ marked'[m][p] = marked[m][p]
      BY <1>2 DEF MemberInv
    <3> QED BY <1>5, <3>1, MarksStay
  <2>2. batch'[m] # <<>>
    <3>1. Len(c) # 0
      BY <1>4
    <3> QED BY <1>1, <3>1
  <2>3. ctx'[m] # "down" /\ (loop'[m] = "flush" \/ (BatchEnabled /\ loop'[m] = "select"))
    BY <1>2 DEF MemberInv, TypeOK
  <2> QED BY <1>11, <1>12, <1>13, <2>1, <2>2, <2>3 DEF MemberInv
<1> QED BY <1>7, <1>8, <1>14 DEF IndInv

\* The record at the head of a batch has nothing pending before it.
LEMMA HeadOfBatch ==
  ASSUME TypeOK, IndInv, NEW m \in Member, loop[m] \in {"flush", "final"}
  PROVE  /\ batch[m] \in Seq(Record) /\ batch[m] # <<>>
         /\ Head(batch[m]) \in Record
         /\ Head(batch[m]).part \in Partition /\ Head(batch[m]).off \in Offset
         /\ \A o \in 0 .. Head(batch[m]).off - 1 : Accounted(Head(batch[m]).part, o)
<1>1. batch[m] \in Seq(Record) /\ batch[m] # <<>> /\ BatchInOrder(m)
  BY DEF IndInv, MemberInv, TypeOK
<1>2. 1 \in 1 .. Len(batch[m]) /\ Head(batch[m]) = batch[m][1] /\ 1 - 1 = 0
  BY <1>1
<1>3. \A o \in 0 .. Head(batch[m]).off - 1 :
        Accounted(Head(batch[m]).part, o) \/ Holds(batch[m], 0, Head(batch[m]).part, o)
  BY <1>1, <1>2 DEF BatchInOrder
<1>4. /\ Head(batch[m]) \in Record /\ Head(batch[m]).part \in Partition
      /\ Head(batch[m]).off \in Offset
  BY <1>1, <1>2, ElementType, Zenon
<1>5. ASSUME NEW o PROVE ~Holds(batch[m], 0, Head(batch[m]).part, o)
  BY DEF Holds
<1> QED BY <1>1, <1>3, <1>4, <1>5, Zenon

\* A broadcast record is marked; what is behind it in the pipeline stays in order.
LEMMA DeliverInv ==
  ASSUME TypeOK, IndInv, NEW m \in Member, Deliver(m)
  PROVE  IndInv'
<1>1. PICK s, b, c, h : s = polled[m] /\ b = batch[m] /\ c = batch'[m] /\ h = Head(batch[m])
  OBVIOUS
<1>2. /\ loop[m] \in {"flush", "final"} /\ MemberInv(m) /\ Mark(m, h)
      /\ delivered' = [delivered EXCEPT ![h.part] = delivered[h.part] \cup {h.off}]
      /\ batch' = [batch EXCEPT ![m] = Tail(b)]
      /\ loop' = [loop EXCEPT ![m] = IF Tail(b) # <<>> THEN @ ELSE AfterFlush(@)]
      /\ UNCHANGED <<owner, committed, ctx, position, polled, dropped, missed>>
  BY <1>1 DEF Deliver, IndInv, brokerVars
<1>3. /\ b \in Seq(Record) /\ b # <<>> /\ h \in Record /\ h.part \in Partition /\ h.off \in Offset
      /\ \A o \in 0 .. h.off - 1 : Accounted(h.part, o)
      /\ h = Head(b) /\ c = Tail(b)
  BY <1>1, <1>2, HeadOfBatch, Zenon DEF TypeOK
<1>4. /\ Len(c) = Len(b) - 1 /\ Len(b) \in Nat \ {0} /\ c \in Seq(Record)
      /\ \A i \in 1 .. Len(b) - 1 : c[i] = b[i + 1]
  BY <1>3, TailHolds
<1>h. \A k \in 0 .. Len(b) : \A p, o :
        Holds(b, k, p, o) => h = [part |-> p, off |-> o] \/ Holds(c, k - 1, p, o)
  BY <1>3, TailHolds
<1>5. Grows
  BY <1>2 DEF Grows, TypeOK
<1>6. \A p \in Partition : \A o : Accounted(p, o) => Accounted(p, o)'
  BY <1>5, AccountedStays
<1>7. \A o \in 0 .. h.off : Accounted(h.part, o)'
  <2>1. h.off \in delivered'[h.part]
    BY <1>2, <1>3 DEF TypeOK
  <2>2. Accounted(h.part, h.off)'
    BY <2>1 DEF Accounted, Settled
  <2>3. \A o \in 0 .. h.off - 1 : Accounted(h.part, o)'
    BY <1>3, <1>6
  <2>4. h.off \in Int
    BY <1>3 DEF Offset
  <2> QED BY <2>2, <2>3, <2>4
<1>8. CommittedAccounted' /\ NoOvertaking'
  <2>1. CommittedAccounted'
    BY <1>2, <1>6 DEF IndInv, CommittedAccounted
  <2>2. ASSUME NEW p \in Partition, NEW d \in delivered'[p], NEW o \in 0 .. d - 1
        PROVE  Accounted(p, o)'
    <3>1. CASE d \in delivered[p]
      BY <1>6, <3>1 DEF IndInv, NoOvertaking
    <3>2. CASE p = h.part /\ d = h.off
      BY <1>3, <1>6, <3>2
    <3> QED BY <1>2, <1>3, <3>1, <3>2 DEF TypeOK
  <2> QED BY <2>1, <2>2 DEF NoOvertaking
<1>9. /\ \A p \in Partition : \A o \in 0 .. marked'[m][p] - 1 : Accounted(p, o)'
      /\ \A q \in Member \ {m} : marked'[q] = marked[q]
  <2>1. \A p \in Partition : AccountedBelow(p, marked[m][p])
    BY <1>2 DEF MemberInv
  <2> QED BY <1>2, <1>3, <1>5, <1>7, <2>1, MarkAccounted
<1>10. ASSUME NEW q \in Member, q # m PROVE MemberInv(q)'
  <2>1. Untouched(q)
    BY <1>2, <1>9, <1>10, Zenon DEF Untouched, TypeOK
  <2> QED BY <1>5, <2>1, UntouchedMember DEF IndInv
<1>11. \A p \in Partition : \A o : h = [part |-> p, off |-> o] => Accounted(p, o)'
  <2> SUFFICES ASSUME NEW p \in Partition, NEW o, h = [part |-> p, off |-> o]
               PROVE  Accounted(p, o)'
    OBVIOUS
  <2>1. h.part = p /\ h.off = o /\ h.off \in 0 .. h.off
    BY <1>3, ConstantsAssumption DEF Offset
  <2> QED BY <1>7, <2>1
<1>12. ASSUME NEW p \in Partition, NEW o, Holds(b, Len(b), p, o)
       PROVE  Accounted(p, o)' \/ Holds(c, Len(c), p, o)
  <2>1. Len(b) \in 0 .. Len(b) /\ Len(c) = Len(b) - 1
    BY <1>4
  <2>2. h = [part |-> p, off |-> o] \/ Holds(c, Len(c), p, o)
    BY <1>h, <1>12, <2>1
  <2> QED BY <1>11, <2>2
<1>13. BatchInOrder(m)'
  <2>1. ASSUME NEW i \in 1 .. Len(c), NEW o \in 0 .. c[i].off - 1
        PROVE  Accounted(c[i].part, o)' \/ Holds(c, i - 1, c[i].part, o)
    <3>1. /\ i + 1 \in 1 .. Len(b) /\ c[i] = b[i + 1] /\ i \in 0 .. Len(b) /\ (i + 1) - 1 = i
          /\ c[i].part \in Partition
      BY <1>4, ElementType
    <3>2. Accounted(c[i].part, o) \/ Holds(b, i, c[i].part, o)
      <4>1. BatchInOrder(m)
        BY <1>2 DEF MemberInv
      <4> QED BY <1>1, <3>1, <4>1, Zenon DEF BatchInOrder
    <3>3. Holds(b, i, c[i].part, o) =>
            h = [part |-> c[i].part, off |-> o] \/ Holds(c, i - 1, c[i].part, o)
      BY <1>h, <3>1, Zenon
    <3> QED BY <1>6, <1>11, <3>1, <3>2, <3>3, Zenon
  <2> SUFFICES ASSUME NEW i \in 1 .. Len(batch'[m]), NEW o \in 0 .. batch'[m][i].off - 1
               PROVE  (Accounted(batch[m][i].part, o) \/ Holds(batch[m], i - 1, batch[m][i].part, o))'
    BY DEF BatchInOrder
  <2>2. Accounted(c[i].part, o)' => Accounted(batch[m][i].part, o)'
    BY <1>1 DEF Accounted, Settled
  <2> QED BY <1>1, <2>1, <2>2
<1>14. loop[m] = "flush" => PolledInOrder(m)' /\ PositionInOrder(m)'
  <2> SUFFICES ASSUME loop[m] = "flush" PROVE PolledInOrder(m)' /\ PositionInOrder(m)'
    OBVIOUS
  <2>1. PolledInOrder(m) /\ PositionInOrder(m) /\ s \in Seq(Record)
    BY <1>1, <1>2 DEF MemberInv, TypeOK
  <2>2. PolledInOrder(m)'
    <3>1. ASSUME NEW i \in 1 .. Len(s), NEW o \in 0 .. s[i].off - 1
          PROVE  \/ Accounted(s[i].part, o)'
                 \/ Holds(c, Len(c), s[i].part, o)
                 \/ Holds(s, i - 1, s[i].part, o)
      <4>1. s[i].part \in Partition
        BY <2>1, ElementType
      <4>2. \/ Accounted(s[i].part, o)
            \/ Holds(b, Len(b), s[i].part, o)
            \/ Holds(s, i - 1, s[i].part, o)
        BY <1>1, <2>1 DEF PolledInOrder
      <4> QED BY <1>6, <1>12, <4>1, <4>2
    <3> SUFFICES ASSUME NEW i \in 1 .. Len(polled'[m]), NEW o \in 0 .. polled'[m][i].off - 1
                 PROVE  (\/ Accounted(polled[m][i].part, o)
                         \/ Holds(batch[m], Len(batch[m]), polled[m][i].part, o)
                         \/ Holds(polled[m], i - 1, polled[m][i].part, o))'
      BY Zenon DEF PolledInOrder
    <3>2. Accounted(s[i].part, o)' => Accounted(polled[m][i].part, o)'
      BY <1>1, <1>2 DEF Accounted, Settled
    <3> QED BY <1>1, <1>2, <3>1, <3>2
  <2>3. PositionInOrder(m)'
    <3> SUFFICES ASSUME NEW p \in Partition, owner[p] = m, NEW o \in 0 .. position[m][p] - 1
                 PROVE  \/ Accounted(p, o)' \/ Holds(c, Len(c), p, o) \/ Holds(s, Len(s), p, o)
      BY <1>1, <1>2 DEF PositionInOrder
    <3>1. Accounted(p, o) \/ Holds(b, Len(b), p, o) \/ Holds(s, Len(s), p, o)
      BY <1>1, <2>1 DEF PositionInOrder
    <3> QED BY <1>6, <1>12, <3>1, Zenon
  <2> QED BY <2>2, <2>3
<1>15. MemberInv(m)'
  <2>1. /\ c # <<>> => loop'[m] = loop[m]
        /\ c = <<>> => loop'[m] = IF loop[m] = "flush" THEN "select" ELSE "stopped"
    BY <1>2, <1>3, SMTT(30), ZenonT(60) DEF AfterFlush, TypeOK
  <2>2. ctx'[m] # "down"
    BY <1>2 DEF MemberInv
  <2>3. \A p \in Partition : AccountedBelow(p, marked[m][p])'
    BY <1>9 DEF AccountedBelow
  <2>4. loop[m] \in {"flush", "final"} /\ batch'[m] = c
    BY <1>1, <1>2
  <2> QED BY <1>13, <1>14, <2>1, <2>2, <2>3, <2>4, Zenon DEF MemberInv
<1> QED BY <1>8, <1>10, <1>15 DEF IndInv

\* An abandoned batch marks nothing and the loop takes no further record.
LEMMA DeliverInterruptedInv ==
  ASSUME TypeOK, IndInv, NEW m \in Member, DeliverInterrupted(m)
  PROVE  IndInv'
<1>1. /\ MemberInv(m) /\ ctx[m] = "canceled"
      /\ batch' = [batch EXCEPT ![m] = <<>>] /\ loop' = [loop EXCEPT ![m] = "stopped"]
      /\ UNCHANGED <<owner, committed, ctx, position, polled, marked, delivered, dropped, missed>>
  BY DEF DeliverInterrupted, IndInv, brokerVars, historyVars
<1>2. Grows
  BY <1>1 DEF Grows
<1>3. \A p \in Partition : \A o : Accounted(p, o) => Accounted(p, o)'
  BY <1>2, AccountedStays
<1>4. CommittedAccounted' /\ NoOvertaking'
  BY <1>1, <1>3 DEF IndInv, CommittedAccounted, NoOvertaking
<1>5. ASSUME NEW q \in Member, q # m PROVE MemberInv(q)'
  <2>1. Untouched(q)
    BY <1>1, <1>5 DEF Untouched, TypeOK
  <2> QED BY <1>2, <2>1, UntouchedMember DEF IndInv
<1>6. MemberInv(m)'
  <2>1. batch'[m] = <<>> /\ loop'[m] = "stopped"
    BY <1>1 DEF TypeOK
  <2>2. \A p \in Partition : AccountedBelow(p, marked[m][p])'
    <3>1. \A p \in Partition : AccountedBelow(p, marked[m][p]) /\ marked'[m][p] = marked[m][p]
      BY <1>1, Zenon DEF MemberInv
    <3> QED BY <1>2, <3>1, MarksStay
  <2>3. BatchInOrder(m)'
    BY <2>1 DEF BatchInOrder
  <2>4. ctx'[m] = "canceled"
    BY <1>1
  <2> QED BY <2>1, <2>2, <2>3, <2>4, Zenon DEF MemberInv
<1> QED BY <1>4, <1>5, <1>6 DEF IndInv

-----------------------------------------------------------------------------
(* The theorems.                                                           *)

\* Every step preserves the inductive invariant.
LEMMA NextInv ==
  ASSUME TypeOK, IndInv, [Next]_vars
  PROVE  IndInv'
<1> USE DEF brokerVars, sessionVars, historyVars, envVars
<1>1. ASSUME NEW m \in Member, LoopStep(m) PROVE IndInv'
  <2>1. CASE FlushTimer(m)
    BY <2>1, ControlStep, SMTT(30), ZenonT(60) DEF FlushTimer, TypeOK, IndInv, MemberInv
  <2>2. CASE CtxDone(m)
    BY <2>2, ControlStep, Zenon DEF CtxDone, TypeOK
  <2> QED BY <1>1, <2>1, <2>2, TakeValidInv, TakeMalformedInv, TakeMissInv, TakeInterruptedInv,
             DeliverInv, DeliverInterruptedInv, SMTT(30), ZenonT(60) DEF LoopStep
<1>2. ASSUME NEW m \in Member, Cancel(m) PROVE IndInv'
  BY <1>2, ControlStep DEF Cancel, TypeOK, IndInv, MemberInv
<1>3. ASSUME NEW m \in Member, Crash(m) PROVE IndInv'
  BY <1>3, DiscardInv, Zenon DEF Crash
<1>4. ASSUME NEW m \in Member, NEW ok \in BOOLEAN, Close(m, ok) PROVE IndInv'
  <2>1. owner' = [p \in Partition |-> IF owner[p] = m THEN NoMember ELSE owner[p]]
    BY <1>4, Zenon DEF Close, handleRevoke, Owned
  <2>2. committed' \in {committed, CommittedBy(m)} /\ Discard(m) /\ UNCHANGED historyVars
    BY <1>4 DEF Close, handleRevoke
  <2> QED BY <2>1, <2>2, DiscardInv, SMTT(30), ZenonT(60)
<1>5. ASSUME BusFails \/ BusRecovers \/ (\E p \in Partition : Unregister(p) \/ Register(p))
             \/ UNCHANGED vars
      PROVE  IndInv'
  <2>1. UNCHANGED <<brokerVars, sessionVars, historyVars>>
    BY <1>5, Zenon DEF BusFails, BusRecovers, Unregister, Register, vars
  <2>2. \A q \in Member : Untouched(q)
    BY <2>1 DEF Untouched
  <2> QED BY <2>1, <2>2, QuietStepInv
<1>6. CASE Next
  BY <1>6, <1>1, <1>2, <1>3, <1>4, <1>5, StartInv, AutoCommitInv, AssignInv, PollInv, RevokeInv, Zenon
  DEF Next
<1> QED BY <1>5, <1>6

\* Types and the inductive invariant hold in every reachable state.
THEOREM Invariance == Spec => [](TypeOK /\ IndInv)
<1>1. Init => TypeOK /\ IndInv
  BY InitType, InitInv
<1>2. TypeOK /\ IndInv /\ [Next]_vars => (TypeOK /\ IndInv)'
  <2> SUFFICES ASSUME TypeOK, IndInv, [Next]_vars PROVE (TypeOK /\ IndInv)'
    OBVIOUS
  <2>1. IndInv'
    BY NextInv
  <2>2. TypeOK'
    <3>1. \A m \in Member : loop[m] \in {"flush", "final"} => batch[m] # <<>>
      BY DEF IndInv, MemberInv
    <3> QED BY <3>1, LoopStepType, OtherStepType
  <2> QED BY <2>1, <2>2
<1> QED BY <1>1, <1>2, PTL DEF Spec

\* Every variable of the consume path keeps its type.
THEOREM TypeCorrect == Spec => []TypeOK
BY Invariance, PTL

\* For any number of members, partitions and records, whatever crashes, rebalances,
\* outages and shutdowns happen: the committed offset passes an unsettled record only
\* behind a later malformed record that was marked on the spot.
THEOREM NothingSkipped == Spec => []CommittedAccounted
<1>1. TypeOK /\ IndInv => CommittedAccounted
  BY DEF IndInv
<1> QED BY <1>1, Invariance, PTL

\* Records of a partition are broadcast in order: none is published while an earlier
\* one is unaccounted for.
THEOREM InOrder == Spec => []NoOvertaking
<1>1. TypeOK /\ IndInv => NoOvertaking
  BY DEF IndInv
<1> QED BY <1>1, Invariance, PTL

\* With batching off the promise of deliverBatch's comment holds without exception:
\* the committed offset never passes an undelivered record.
THEOREM UnbatchedNothingSkipped ==
  ASSUME ~BatchEnabled
  PROVE  Spec => []CommittedSettled
<1>1. TypeOK /\ IndInv => CommittedSettled
  BY DEF IndInv, CommittedAccounted, CommittedSettled, Accounted
<1> QED BY <1>1, Invariance, PTL

-----------------------------------------------------------------------------
(* The consume path implements AtLeastOnce.                                *)

\* The contract's notion of an accounted record is the consumer's.
LEMMA SameAccounted ==
  ASSUME NEW p \in Partition, NEW c
  PROVE  Contract!AccountedBelow(p, c) <=> AccountedBelow(p, c)
BY DEF Contract!AccountedBelow, Contract!Accounted, AccountedBelow, Accounted, Settled

\* A step of a member or of the environment is a step of the contract or a stutter.
LEMMA StepRefines ==
  ASSUME TypeOK, TypeOK', IndInv, [Next]_vars
  PROVE  [Contract!Next]_(Contract!vars)
<1> USE DEF brokerVars, sessionVars, historyVars, envVars, Contract!vars
<1>1. ASSUME NEW m \in Member, committed' \in {committed, CommittedBy(m)},
             UNCHANGED <<delivered, dropped, missed>>
      PROVE  [Contract!Next]_(Contract!vars)
  <2>1. \A p \in Partition : AccountedBelow(p, marked[m][p])
    BY Zenon DEF IndInv, MemberInv
  <2>2. \A p \in Partition : committed'[p] # committed[p] => committed'[p] = marked[m][p]
    BY <1>1 DEF CommittedBy
  <2>3. \A p \in Partition :
          committed'[p] # committed[p] => Contract!AccountedBelow(p, committed'[p])
    BY <2>1, <2>2, SameAccounted
  <2>4. committed' \in [Partition -> 0 .. LogLen]
    BY DEF TypeOK
  <2> QED BY <1>1, <2>3, <2>4 DEF Contract!Next, Contract!Commit
<1>2. ASSUME NEW m \in Member, Deliver(m) PROVE [Contract!Next]_(Contract!vars)
  <2>1. PICK h : h = Head(batch[m])
    OBVIOUS
  <2>2. /\ h.part \in Partition /\ h.off \in Offset
        /\ \A o \in 0 .. h.off - 1 : Accounted(h.part, o)
    BY <1>2, <2>1, HeadOfBatch DEF Deliver
  <2>3. Contract!AccountedBelow(h.part, h.off)
    BY <2>2, SameAccounted DEF AccountedBelow
  <2>4. Contract!Deliver(h.part, h.off)
    BY <1>2, <2>1, <2>3 DEF Deliver, Contract!Deliver
  <2> QED BY <2>2, <2>4 DEF Contract!Next, Contract!Offset, Offset
<1>3. ASSUME NEW m \in Member, TakeMalformed(m) PROVE [Contract!Next]_(Contract!vars)
  <2>1. PICK h : h = Head(polled[m])
    OBVIOUS
  <2>2. h.part \in Partition /\ h.off \in Offset
    BY <1>3, <2>1, TakeType DEF TakeMalformed
  <2>3. Contract!Drop(h.part, h.off)
    BY <1>3, <2>1 DEF TakeMalformed, Contract!Drop
  <2> QED BY <2>2, <2>3 DEF Contract!Next, Contract!Offset, Offset
<1>4. ASSUME NEW m \in Member, TakeMiss(m) PROVE [Contract!Next]_(Contract!vars)
  <2>1. PICK h : h = Head(polled[m])
    OBVIOUS
  <2>2. h.part \in Partition /\ h.off \in Offset
    BY <1>4, <2>1, TakeType DEF TakeMiss
  <2>3. Contract!Skip(h.part, h.off)
    BY <1>4, <2>1, SMTT(30), ZenonT(60) DEF TakeMiss, Contract!Skip
  <2> QED BY <2>2, <2>3 DEF Contract!Next, Contract!Offset, Offset
<1>5. ASSUME NEW m \in Member,
             TakeValid(m) \/ TakeInterrupted(m) \/ FlushTimer(m) \/ CtxDone(m)
               \/ DeliverInterrupted(m) \/ Start(m) \/ Cancel(m) \/ Crash(m)
      PROVE  [Contract!Next]_(Contract!vars)
  BY <1>5 DEF TakeValid, TakeInterrupted, FlushTimer, CtxDone, DeliverInterrupted, Start, Cancel, Crash
<1>6. ASSUME NEW m \in Member, NEW p \in Partition, Assign(m, p) \/ \E n \in 1 .. LogLen : Poll(m, p, n)
      PROVE  [Contract!Next]_(Contract!vars)
  BY <1>6 DEF Assign, Poll
<1>7. ASSUME NEW m \in Member, AutoCommit(m) PROVE [Contract!Next]_(Contract!vars)
  BY <1>1, <1>7 DEF AutoCommit
<1>8. ASSUME NEW m \in Member, NEW ok \in BOOLEAN,
             Close(m, ok) \/ \E S \in SUBSET Partition : Revoke(m, S, ok)
      PROVE  [Contract!Next]_(Contract!vars)
  BY <1>1, <1>8 DEF Close, Revoke, handleRevoke
<1>9. ASSUME BusFails \/ BusRecovers \/ (\E p \in Partition : Unregister(p) \/ Register(p))
             \/ UNCHANGED vars
      PROVE  [Contract!Next]_(Contract!vars)
  <2>1. UNCHANGED <<brokerVars, sessionVars, historyVars>>
    BY <1>9, Zenon DEF BusFails, BusRecovers, Unregister, Register, vars
  <2> QED BY <2>1
<1>10. CASE Next
  BY <1>10, <1>2, <1>3, <1>4, <1>5, <1>6, <1>7, <1>8, <1>9, Zenon DEF Next, LoopStep
<1> QED BY <1>9, <1>10

\* The consume path, with all its members, batches, rebalances, crashes and outages,
\* implements the at-least-once contract.
THEOREM Refinement == Spec => ImplementsAtLeastOnce
<1>1. Init => Contract!Init
  BY DEF Init, Contract!Init
<1>2. TypeOK /\ TypeOK' /\ IndInv /\ [Next]_vars => [Contract!Next]_(Contract!vars)
  BY StepRefines
<1> QED BY <1>1, <1>2, Invariance, PTL DEF Spec, ImplementsAtLeastOnce, Contract!Spec
=============================================================================
