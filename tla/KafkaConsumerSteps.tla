------------------------- MODULE KafkaConsumerSteps -------------------------
(***************************************************************************)
(* Type correctness of KafkaConsumer, for any number of partitions,        *)
(* members, records and faults and any batch size (a flush needs a batch,  *)
(* which the inductive invariant says); and what the steps of the group,   *)
(* of the client library and of the environment do to the inductive        *)
(* invariant, with the lemmas on what stays in order when something else   *)
(* changes.                                                                *)
(***************************************************************************)
EXTENDS KafkaConsumer, TLAPS

-----------------------------------------------------------------------------
(* Type correctness.                                                       *)

\* A valid mark keeps the marks and the dirty set well-typed.
LEMMA MarkType ==
  ASSUME TypeOK, NEW m \in Member, NEW r \in Record, Mark(m, r)
  PROVE  /\ marked' \in [Member -> [Partition -> 0 .. LogLen]]
         /\ dirty' \in [Member -> SUBSET Partition]
<1>1. r.part \in Partition /\ r.off \in Offset /\ r.off + 1 \in 0 .. LogLen
  BY ConstantsAssumption DEF Record, Offset
<1>2. CASE r.off + 1 > marked[m][r.part]
  <2>1. /\ marked' = [marked EXCEPT ![m] = [marked[m] EXCEPT ![r.part] = r.off + 1]]
        /\ dirty' = [dirty EXCEPT ![m] = dirty[m] \cup {r.part}]
    BY <1>2 DEF Mark
  <2>2. [marked[m] EXCEPT ![r.part] = r.off + 1] \in [Partition -> 0 .. LogLen]
    BY <1>1 DEF TypeOK
  <2>3. dirty[m] \cup {r.part} \in SUBSET Partition
    BY <1>1 DEF TypeOK
  <2> QED BY <2>1, <2>2, <2>3 DEF TypeOK
<1>3. CASE ~(r.off + 1 > marked[m][r.part])
  BY <1>3 DEF Mark, TypeOK
<1> QED BY <1>2, <1>3

\* The elements of a sequence of records.
LEMMA ElementType ==
  ASSUME NEW s \in Seq(Record), NEW i \in 1 .. Len(s)
  PROVE  s[i] \in Record /\ s[i].part \in Partition /\ s[i].off \in Offset
<1>1. s[i] \in Record
  OBVIOUS
<1> QED BY <1>1 DEF Record

\* What comes before an element of the first c is among the first c.
LEMMA EarlierIsBelow ==
  ASSUME NEW c \in Nat, NEW b \in 1 .. c, NEW a \in 1 .. b - 1
  PROVE  a \in 1 .. c
OBVIOUS

\* An index of two sequences put together is one of the first or one of the second.
LEMMA EitherPart ==
  ASSUME NEW c \in Nat, NEW d \in Nat, NEW i \in 1 .. c + d
  PROVE  i \in 1 .. c \/ i \in c + 1 .. c + d
OBVIOUS

\* The first sequence comes before what follows it.
LEMMA FirstIsEarlier ==
  ASSUME NEW c \in Nat, NEW d \in Nat, NEW i \in c + 1 .. c + d, NEW j \in 1 .. c
  PROVE  j \in 1 .. i - 1
OBVIOUS

\* A function on the first k indices is a sequence.
LEMMA IsSequence ==
  ASSUME NEW S, NEW k \in Nat, NEW f \in [1 .. k -> S]
  PROVE  f \in Seq(S)
OBVIOUS

\* A fetch puts n consecutive records of one partition after the ones already held.
LEMMA FetchShape ==
  ASSUME NEW old \in Seq(Record), NEW L, L = Len(old), NEW p \in Partition,
         NEW pos \in Nat, NEW n \in Nat, pos + n <= LogLen,
         NEW new, new = [i \in 1 .. n |-> [part |-> p, off |-> pos + i - 1]], NEW s, s = old \o new
  PROVE  /\ L \in Nat /\ new \in Seq(Record) /\ Len(s) = L + n
         /\ \A i \in 1 .. L : s[i] = old[i]
         /\ \A i \in L + 1 .. L + n : /\ s[i] = [part |-> p, off |-> pos + (i - L) - 1]
                                      /\ s[i].part = p /\ s[i].off = pos + (i - L) - 1
<1>1. \A i \in 1 .. n : [part |-> p, off |-> pos + i - 1] \in Record
  BY ConstantsAssumption DEF Record, Offset
<1>2. new \in [1 .. n -> Record]
  BY <1>1, Zenon
<1>3. new \in Seq(Record) /\ Len(new) = n
  <2>1. new \in Seq(Record)
    BY <1>2, IsSequence, Zenon
  <2>2. Len(new) = n
    OBVIOUS
  <2> QED BY <2>1, <2>2, Zenon
<1>4. L \in Nat /\ Len(s) = L + n
  BY <1>3
<1>5. \A i \in 1 .. L + n : s[i] = IF i <= L THEN old[i] ELSE new[i - L]
  BY <1>3, <1>4
<1>6. \A i \in L + 1 .. L + n : new[i - L] = [part |-> p, off |-> pos + (i - L) - 1]
  BY <1>4
<1>7. \A i \in 1 .. L : s[i] = old[i]
  BY <1>4, <1>5
<1>8. \A i \in L + 1 .. L + n : s[i] = new[i - L]
  BY <1>4, <1>5
<1>9. \A i \in L + 1 .. L + n : /\ s[i] = [part |-> p, off |-> pos + (i - L) - 1]
                                /\ s[i].part = p /\ s[i].off = pos + (i - L) - 1
  BY <1>6, <1>8
<1> QED BY <1>3, <1>4, <1>7, <1>9

\* What comes before the i-th of them in its partition has an index below i.
LEMMA FetchedBefore ==
  ASSUME NEW L \in Nat, NEW n \in Nat, NEW pos \in Nat, NEW i \in L + 1 .. L + n,
         NEW o \in 0 .. (pos + (i - L) - 1) - 1
  PROVE  /\ o \in 0 .. pos + n - 1 /\ o < pos + (i - L) - 1
         /\ o >= pos => L + o - pos + 1 \in 1 .. i - 1
OBVIOUS

\* What the loop takes is a record, and the rest is a sequence of records.
LEMMA TakeType ==
  ASSUME TypeOK, NEW m \in Member, Take(m)
  PROVE  /\ polled' \in [Member -> Seq(Record)]
         /\ Head(polled[m]) \in Record
         /\ Head(polled[m]).part \in Partition
         /\ Head(polled[m]).off \in Offset
<1>1. polled[m] \in Seq(Record) /\ polled[m] # <<>>
  BY DEF TypeOK, Take
<1>2. Head(polled[m]) \in Record /\ Tail(polled[m]) \in Seq(Record)
  BY <1>1
<1> QED BY <1>2, Zenon DEF TypeOK, Take, Record

\* A commit moves offsets only within the log.
LEMMA CommittedByType ==
  ASSUME TypeOK, NEW m \in Member
  PROVE  CommittedBy(m) \in [Partition -> 0 .. LogLen]
BY DEF TypeOK, CommittedBy

\* The initial state is well-typed.
LEMMA InitType == Init => TypeOK
BY ConstantsAssumption DEF Init, TypeOK, LoopState, Kind, Offset

\* The loop's own steps preserve the types.  Head(batch[m]) needs the invariant that
\* a flushing loop has something to flush.
LEMMA LoopStepType ==
  ASSUME TypeOK, NEW m \in Member, LoopStep(m),
         loop[m] \in {"flush", "final"} => batch[m] # <<>>
  PROVE  TypeOK'
<1> USE ConstantsAssumption
<1>1. CASE TakeValid(m)
  <2>1. Take(m)
    BY <1>1 DEF TakeValid
  <2>2. Append(batch[m], Head(polled[m])) \in Seq(Record)
    BY <2>1, TakeType DEF TypeOK
  <2> QED BY <1>1, <2>1, <2>2, TakeType
    DEF TakeValid, TypeOK, LoopState, brokerVars, historyVars, envVars
<1>2. CASE TakeMalformed(m)
  <2>1. Take(m) /\ Mark(m, Head(polled[m]))
    BY <1>2 DEF TakeMalformed
  <2>2. Head(polled[m]) \in Record
    BY <2>1, TakeType
  <2>3. /\ marked' \in [Member -> [Partition -> 0 .. LogLen]]
        /\ dirty' \in [Member -> SUBSET Partition]
    BY <2>1, <2>2, MarkType
  <2>4. dropped' \in [Partition -> SUBSET Offset]
    BY <1>2, <2>1, TakeType DEF TakeMalformed, TypeOK
  <2>5. polled' \in [Member -> Seq(Record)]
    BY <2>1, TakeType
  <2> QED BY <1>2, <2>3, <2>4, <2>5, SMTT(30), ZenonT(60)
    DEF TakeMalformed, TypeOK, LoopState, brokerVars, historyVars, envVars
<1>3. CASE TakeMiss(m)
  <2>1. polled' \in [Member -> Seq(Record)]
    BY <1>3, TakeType DEF TakeMiss
  <2>2. missed' \in [Partition -> SUBSET Offset]
    BY <1>3, TakeType DEF TakeMiss, TypeOK
  <2> QED BY <1>3, <2>1, <2>2 DEF TakeMiss, TypeOK, brokerVars, envVars
<1>4. CASE TakeInterrupted(m)
  BY <1>4, TakeType DEF TakeInterrupted, TypeOK, LoopState, brokerVars, historyVars, envVars
<1>5. CASE FlushTimer(m)
  BY <1>5 DEF FlushTimer, TypeOK, LoopState, brokerVars, historyVars, envVars
<1>6. CASE CtxDone(m)
  BY <1>6 DEF CtxDone, TypeOK, LoopState, brokerVars, historyVars, envVars
<1>7. CASE Deliver(m)
  <2>1. batch[m] \in Seq(Record) /\ batch[m] # <<>>
    BY <1>7 DEF Deliver, TypeOK
  <2>2. Head(batch[m]) \in Record /\ Tail(batch[m]) \in Seq(Record)
    BY <2>1
  <2>3. Head(batch[m]).part \in Partition /\ Head(batch[m]).off \in Offset
    BY <2>2 DEF Record
  <2>4. /\ marked' \in [Member -> [Partition -> 0 .. LogLen]]
        /\ dirty' \in [Member -> SUBSET Partition]
    BY <1>7, <2>2, MarkType DEF Deliver
  <2> QED BY <1>7, <2>2, <2>3, <2>4, Zenon
    DEF Deliver, AfterFlush, TypeOK, LoopState, brokerVars, historyVars, envVars
<1>8. CASE DeliverInterrupted(m)
  BY <1>8 DEF DeliverInterrupted, TypeOK, LoopState, brokerVars, historyVars, envVars
<1> QED BY <1>1, <1>2, <1>3, <1>4, <1>5, <1>6, <1>7, <1>8 DEF LoopStep

\* So do the steps of the group, the client library and the environment.
LEMMA OtherStepType ==
  ASSUME TypeOK, [Next]_vars, ~ \E m \in Member : LoopStep(m)
  PROVE  TypeOK'
<1> USE ConstantsAssumption DEF Fault, brokerVars, sessionVars, historyVars, envVars
<1>1. ASSUME NEW m \in Member, Start(m) PROVE TypeOK'
  BY <1>1 DEF Start, TypeOK, LoopState
<1>2. ASSUME NEW m \in Member, AutoCommit(m) PROVE TypeOK'
  BY <1>2, CommittedByType DEF AutoCommit, TypeOK
<1>3. ASSUME NEW m \in Member, Crash(m) PROVE TypeOK'
  <2>1. << >> \in Seq(Record)
    OBVIOUS
  <2> QED BY <1>3, <2>1 DEF Crash, Discard, TypeOK, LoopState
<1>4. ASSUME NEW m \in Member, Cancel(m) PROVE TypeOK'
  BY <1>4 DEF Cancel, TypeOK
<1>5. ASSUME NEW m \in Member, NEW p \in Partition, Assign(m, p) PROVE TypeOK'
  <2>1. [marked[m] EXCEPT ![p] = committed[p]] \in [Partition -> 0 .. LogLen]
    BY DEF TypeOK
  <2>2. [position[m] EXCEPT ![p] = committed[p]] \in [Partition -> 0 .. LogLen]
    BY DEF TypeOK
  <2> QED BY <1>5, <2>1, <2>2 DEF Assign, TypeOK
<1>6. ASSUME NEW m \in Member, NEW p \in Partition, NEW n \in 1 .. LogLen, Poll(m, p, n)
      PROVE  TypeOK'
  <2>1. position[m][p] + n \in 0 .. LogLen
    BY <1>6 DEF Poll, TypeOK
  <2>2. [position[m] EXCEPT ![p] = position[m][p] + n] \in [Partition -> 0 .. LogLen]
    BY <2>1 DEF TypeOK
  <2> DEFINE new == [i \in 1 .. n |-> [part |-> p, off |-> position[m][p] + i - 1]]
  <2>3. new \in Seq(Record)
    <3>1. \A i \in 1 .. n : [part |-> p, off |-> position[m][p] + i - 1] \in Record
      BY <2>1 DEF TypeOK, Record, Offset
    <3> QED BY <3>1
  <2>4. polled[m] \o new \in Seq(Record)
    BY <2>3 DEF TypeOK
  <2>5. /\ polled' = [polled EXCEPT ![m] = polled[m] \o new]
        /\ position' = [position EXCEPT ![m] = [position[m] EXCEPT ![p] = position[m][p] + n]]
    BY <1>6 DEF Poll
  <2> HIDE DEF new
  <2>6. polled' \in [Member -> Seq(Record)]
    BY <2>4, <2>5 DEF TypeOK
  <2>7. position' \in [Member -> [Partition -> 0 .. LogLen]]
    BY <2>2, <2>5 DEF TypeOK
  <2> QED BY <1>6, <2>6, <2>7, Zenon DEF Poll, TypeOK
<1>7. ASSUME NEW m \in Member, NEW ok \in BOOLEAN, Close(m, ok) PROVE TypeOK'
  <2>1. << >> \in Seq(Record)
    OBVIOUS
  <2> QED BY <1>7, <2>1, CommittedByType DEF Close, handleRevoke, Owned, Discard, TypeOK, LoopState
<1>8. ASSUME NEW m \in Member, NEW ok \in BOOLEAN, NEW S \in SUBSET Partition, Revoke(m, S, ok)
      PROVE  TypeOK'
  <2>1. [p \in Partition |-> IF p \in S THEN 0 ELSE marked[m][p]] \in [Partition -> 0 .. LogLen]
    BY DEF TypeOK
  <2>2. marked' \in [Member -> [Partition -> 0 .. LogLen]]
    BY <1>8, <2>1 DEF Revoke, TypeOK
  <2>3. dirty' \in [Member -> SUBSET Partition]
    BY <1>8 DEF Revoke, TypeOK
  <2> QED BY <1>8, <2>2, <2>3, CommittedByType DEF Revoke, handleRevoke, TypeOK
<1>9. ASSUME BusFails \/ BusRecovers PROVE TypeOK'
  <2>1. busUp' \in BOOLEAN
    BY <1>9, Zenon DEF BusFails, BusRecovers
  <2>2. /\ UNCHANGED <<brokerVars, sessionVars, historyVars, registered>>
        /\ faults' = faults \/ (faults < MaxFaults /\ faults' = faults + 1)
    BY <1>9, Zenon DEF BusFails, BusRecovers
  <2> QED BY <2>1, <2>2 DEF TypeOK
<1>10. ASSUME NEW p \in Partition, Unregister(p) \/ Register(p) PROVE TypeOK'
  BY <1>10 DEF Unregister, Register, TypeOK
<1>11. ASSUME UNCHANGED vars PROVE TypeOK'
  BY <1>11 DEF vars, TypeOK
<1>12. CASE Next
  BY <1>12, <1>1, <1>2, <1>3, <1>4, <1>5, <1>6, <1>7, <1>8, <1>9, <1>10, Zenon DEF Next
<1> QED BY <1>11, <1>12

-----------------------------------------------------------------------------
(* The inductive invariant.                                                *)

Grows ==
  \A p \in Partition : /\ delivered[p] \subseteq delivered'[p]
                       /\ dropped[p] \subseteq dropped'[p]
                       /\ missed[p] \subseteq missed'[p]

\* The step leaves what member q holds alone, and gives it no partition.
Untouched(q) ==
  /\ ctx'[q] = ctx[q] /\ loop'[q] = loop[q] /\ position'[q] = position[q]
  /\ polled'[q] = polled[q] /\ batch'[q] = batch[q] /\ marked'[q] = marked[q]
  /\ \A p \in Partition : owner'[p] = q => owner[p] = q

\* Records stay accounted for: the history only grows.
LEMMA AccountedStays ==
  ASSUME Grows, NEW p \in Partition, NEW o
  PROVE  Accounted(p, o) => Accounted(p, o)'
BY DEF Grows, Accounted, Settled

\* What is below a mark stays accounted for, while the mark does not rise.
LEMMA MarksStay ==
  ASSUME Grows, NEW m \in Member, \A p \in Partition : AccountedBelow(p, marked[m][p]),
         \A p \in Partition : marked'[m][p] \in {0, marked[m][p]}
  PROVE  \A p \in Partition : AccountedBelow(p, marked[m][p])'
<1> SUFFICES ASSUME NEW p \in Partition, NEW o \in 0 .. marked'[m][p] - 1
             PROVE  Accounted(p, o)'
  BY DEF AccountedBelow
<1>1. marked'[m][p] = marked[m][p]
  OBVIOUS
<1>2. Accounted(p, o)
  BY <1>1 DEF AccountedBelow
<1> QED BY <1>2, AccountedStays

\* The batch of a member is in order whatever happens to the rest, while it stays.
LEMMA BatchStays ==
  ASSUME TypeOK, NEW m \in Member, BatchInOrder(m), Grows, batch'[m] = batch[m]
  PROVE  BatchInOrder(m)'
<1> SUFFICES ASSUME NEW i \in 1 .. Len(batch'[m]), NEW o \in 0 .. batch'[m][i].off - 1
             PROVE  (Accounted(batch[m][i].part, o) \/ Holds(batch[m], i - 1, batch[m][i].part, o))'
  BY DEF BatchInOrder
<1>1. PICK b : b = batch[m]
  OBVIOUS
<1>2. b \in Seq(Record) /\ i \in 1 .. Len(b) /\ o \in 0 .. b[i].off - 1
  BY <1>1 DEF TypeOK
<1>3. b[i].part \in Partition
  BY <1>2, ElementType
<1>4. Accounted(b[i].part, o) \/ Holds(b, i - 1, b[i].part, o)
  BY <1>1, <1>2 DEF BatchInOrder
<1>5. Accounted(b[i].part, o)' \/ Holds(b, i - 1, b[i].part, o)
  BY <1>3, <1>4, AccountedStays
<1>6. Accounted(b[i].part, o)' => Accounted(batch[m][i].part, o)'
  BY <1>1 DEF Accounted, Settled
<1> QED BY <1>1, <1>5, <1>6

\* So is what is polled behind the batch, while both stay.
LEMMA PolledStays ==
  ASSUME TypeOK, NEW m \in Member, PolledInOrder(m), Grows,
         batch'[m] = batch[m], polled'[m] = polled[m]
  PROVE  PolledInOrder(m)'
<1> SUFFICES ASSUME NEW i \in 1 .. Len(polled'[m]), NEW o \in 0 .. polled'[m][i].off - 1
             PROVE  (\/ Accounted(polled[m][i].part, o)
                     \/ Holds(batch[m], Len(batch[m]), polled[m][i].part, o)
                     \/ Holds(polled[m], i - 1, polled[m][i].part, o))'
  BY DEF PolledInOrder
<1>1. PICK b, s : b = batch[m] /\ s = polled[m]
  OBVIOUS
<1>2. s \in Seq(Record) /\ i \in 1 .. Len(s) /\ o \in 0 .. s[i].off - 1
  BY <1>1 DEF TypeOK
<1>3. s[i].part \in Partition
  BY <1>2, ElementType
<1>4. Accounted(s[i].part, o) \/ Holds(b, Len(b), s[i].part, o) \/ Holds(s, i - 1, s[i].part, o)
  BY <1>1, <1>2 DEF PolledInOrder
<1>5. Accounted(s[i].part, o)' \/ Holds(b, Len(b), s[i].part, o) \/ Holds(s, i - 1, s[i].part, o)
  BY <1>3, <1>4, AccountedStays
<1>6. Accounted(s[i].part, o)' => Accounted(polled[m][i].part, o)'
  BY <1>1 DEF Accounted, Settled
<1> QED BY <1>1, <1>5, <1>6

\* And so is the position behind that, of a partition that stays or is new and starts at
\* an offset below which all is accounted for.
LEMMA PositionStays ==
  ASSUME NEW m \in Member, PositionInOrder(m), Grows,
         batch'[m] = batch[m], polled'[m] = polled[m],
         \A p \in Partition : owner'[p] = m =>
           \/ owner[p] = m /\ position'[m][p] = position[m][p]
           \/ \A o \in 0 .. position'[m][p] - 1 : Accounted(p, o)'
  PROVE  PositionInOrder(m)'
<1> SUFFICES ASSUME NEW p \in Partition, owner'[p] = m, NEW o \in 0 .. position'[m][p] - 1
             PROVE  (\/ Accounted(p, o)
                     \/ Holds(batch[m], Len(batch[m]), p, o)
                     \/ Holds(polled[m], Len(polled[m]), p, o))'
  BY DEF PositionInOrder
<1>1. PICK b, s : b = batch[m] /\ s = polled[m]
  OBVIOUS
<1>2. CASE owner[p] = m /\ position'[m][p] = position[m][p]
  <2>1. Accounted(p, o) \/ Holds(b, Len(b), p, o) \/ Holds(s, Len(s), p, o)
    BY <1>1, <1>2 DEF PositionInOrder
  <2> QED BY <1>1, <2>1, AccountedStays
<1>3. CASE \A x \in 0 .. position'[m][p] - 1 : Accounted(p, x)'
  BY <1>3
<1> QED BY <1>2, <1>3

\* A member the step does not touch keeps its invariant.
LEMMA UntouchedMember ==
  ASSUME TypeOK, Grows, NEW q \in Member, MemberInv(q), Untouched(q)
  PROVE  MemberInv(q)'
<1>1. \A p \in Partition : AccountedBelow(p, marked[q][p])'
  <2>1. \A p \in Partition : AccountedBelow(p, marked[q][p]) /\ marked'[q][p] = marked[q][p]
    BY DEF MemberInv, Untouched
  <2> QED BY <2>1, MarksStay
<1>2. BatchInOrder(q)'
  BY BatchStays DEF MemberInv, Untouched
<1>3. loop[q] \in {"select", "flush"} => PolledInOrder(q)' /\ PositionInOrder(q)'
  <2> SUFFICES ASSUME loop[q] \in {"select", "flush"}
               PROVE  PolledInOrder(q)' /\ PositionInOrder(q)'
    OBVIOUS
  <2>1. /\ PolledInOrder(q) /\ PositionInOrder(q) /\ batch'[q] = batch[q] /\ polled'[q] = polled[q]
        /\ \A p \in Partition : owner'[p] = q => owner[p] = q /\ position'[q][p] = position[q][p]
    BY DEF MemberInv, Untouched
  <2> QED BY <2>1, PolledStays, PositionStays
<1>4. /\ loop'[q] = loop[q] /\ batch'[q] = batch[q] /\ ctx'[q] = ctx[q] /\ polled'[q] = polled[q]
      /\ \A p \in Partition : owner'[p] = q => owner[p] = q
  BY DEF Untouched
<1> QED BY <1>1, <1>2, <1>3, <1>4 DEF MemberInv

\* Committing what a member marked keeps every committed offset accounted for.
LEMMA CommitAccounted ==
  ASSUME CommittedAccounted, NEW m \in Member, MemberInv(m), Grows,
         committed' \in {committed, CommittedBy(m)}
  PROVE  CommittedAccounted'
<1>1. \A p \in Partition : AccountedBelow(p, committed'[p])
  BY DEF CommittedAccounted, AccountedBelow, MemberInv, CommittedBy
<1> QED BY <1>1, AccountedStays DEF CommittedAccounted, AccountedBelow

\* Marking a record whose predecessors are accounted for keeps the marks so.
LEMMA MarkAccounted ==
  ASSUME TypeOK, NEW m \in Member, NEW r \in Record, Mark(m, r), Grows,
         \A p \in Partition : AccountedBelow(p, marked[m][p]),
         \A o \in 0 .. r.off : Accounted(r.part, o)'
  PROVE  /\ \A p \in Partition : \A o \in 0 .. marked'[m][p] - 1 : Accounted(p, o)'
         /\ \A q \in Member \ {m} : marked'[q] = marked[q]
<1>1. r.part \in Partition /\ r.off \in Int
  BY ConstantsAssumption DEF Record, Offset
<1>2. \A p \in Partition : \A o \in 0 .. marked[m][p] - 1 : Accounted(p, o)'
  BY AccountedStays DEF AccountedBelow
<1>3. CASE r.off + 1 > marked[m][r.part]
  <2>1. marked' = [marked EXCEPT ![m] = [marked[m] EXCEPT ![r.part] = r.off + 1]]
    BY <1>3 DEF Mark
  <2>2. \A p \in Partition : marked'[m][p] = IF p = r.part THEN r.off + 1 ELSE marked[m][p]
    BY <2>1, <1>1 DEF TypeOK
  <2>3. \A q \in Member \ {m} : marked'[q] = marked[q]
    BY <2>1 DEF TypeOK
  <2>4. ASSUME NEW p \in Partition, NEW o \in 0 .. marked'[m][p] - 1
        PROVE  Accounted(p, o)'
    <3>1. CASE p = r.part
      <4>1. o \in 0 .. r.off
        BY <1>1, <2>2, <3>1
      <4> QED BY <3>1, <4>1
    <3>2. CASE p # r.part
      BY <1>2, <2>2, <3>2
    <3> QED BY <3>1, <3>2
  <2> QED BY <2>3, <2>4
<1>4. CASE ~(r.off + 1 > marked[m][r.part])
  BY <1>2, <1>4 DEF Mark
<1> QED BY <1>3, <1>4

\* Nothing is committed, marked, held or owned at the start.
LEMMA InitInv == Init => IndInv
<1> SUFFICES ASSUME Init PROVE IndInv
  OBVIOUS
<1>1. CommittedAccounted /\ NoOvertaking
  BY DEF Init, CommittedAccounted, NoOvertaking
<1>2. ASSUME NEW m \in Member PROVE MemberInv(m)
  BY ConstantsAssumption, SMTT(60), ZenonT(60)
  DEF Init, MemberInv, AccountedBelow, BatchInOrder, PolledInOrder, PositionInOrder
<1> QED BY <1>1, <1>2 DEF IndInv

\* Steps that neither touch the pipeline of a member nor the history.
LEMMA QuietStepInv ==
  ASSUME TypeOK, IndInv, UNCHANGED <<committed, historyVars>>,
         \A q \in Member : Untouched(q)
  PROVE  IndInv'
<1>1. Grows
  BY DEF Grows, historyVars
<1>2. CommittedAccounted' /\ NoOvertaking'
  BY <1>1, AccountedStays DEF IndInv, CommittedAccounted, NoOvertaking, historyVars
<1>3. \A q \in Member : MemberInv(q)'
  BY <1>1, UntouchedMember DEF IndInv
<1> QED BY <1>2, <1>3 DEF IndInv

\* A fresh member holds nothing and owns nothing.
LEMMA StartInv ==
  ASSUME TypeOK, IndInv, NEW m \in Member, Start(m)
  PROVE  IndInv'
<1>1. Grows /\ CommittedAccounted' /\ NoOvertaking'
  BY DEF Start, Grows, IndInv, CommittedAccounted, NoOvertaking, Accounted, Settled,
         brokerVars, historyVars
<1>2. ASSUME NEW q \in Member, q # m PROVE MemberInv(q)'
  <2>1. Untouched(q)
    BY <1>2 DEF Start, Untouched, TypeOK, brokerVars
  <2> QED BY <1>1, <2>1, UntouchedMember DEF IndInv
<1>3. MemberInv(m)'
  <2>1. /\ MemberInv(m) /\ loop'[m] = "select" /\ ctx'[m] = "live"
        /\ polled[m] = <<>> /\ batch[m] = <<>> /\ \A p \in Partition : owner[p] # m
        /\ UNCHANGED <<owner, position, polled, batch, marked>>
    BY DEF Start, IndInv, MemberInv, TypeOK, brokerVars
  <2>2. \A p \in Partition : AccountedBelow(p, marked[m][p])'
    <3>1. \A p \in Partition : AccountedBelow(p, marked[m][p]) /\ marked'[m][p] = marked[m][p]
      BY <2>1 DEF MemberInv
    <3> QED BY <1>1, <3>1, MarksStay
  <2>3. batch'[m] = <<>> /\ polled'[m] = <<>> /\ \A p \in Partition : owner'[p] # m
    BY <2>1
  <2>4. BatchInOrder(m)' /\ PolledInOrder(m)' /\ PositionInOrder(m)'
    BY <2>3 DEF BatchInOrder, PolledInOrder, PositionInOrder
  <2>5. loop'[m] = "select" /\ ctx'[m] = "live"
    BY <2>1
  <2> QED BY <2>2, <2>3, <2>4, <2>5 DEF MemberInv
<1> QED BY <1>1, <1>2, <1>3 DEF IndInv

\* A new owner starts at the committed offset, so nothing before it is pending.
LEMMA AssignInv ==
  ASSUME TypeOK, IndInv, NEW m \in Member, NEW p \in Partition, Assign(m, p)
  PROVE  IndInv'
<1>1. Grows /\ CommittedAccounted' /\ NoOvertaking'
  BY DEF Assign, Grows, IndInv, CommittedAccounted, NoOvertaking, Accounted, Settled, historyVars
<1>2. \A r \in Partition : \A o : Accounted(r, o) => Accounted(r, o)'
  BY <1>1, AccountedStays
<1>3. ASSUME NEW q \in Member, q # m PROVE MemberInv(q)'
  <2>1. Untouched(q)
    BY <1>3 DEF Assign, Untouched, TypeOK
  <2> QED BY <1>1, <2>1, UntouchedMember DEF IndInv
<1>4. MemberInv(m)'
  <2>1. /\ MemberInv(m) /\ ctx[m] = "live"
        /\ \A r \in Partition : /\ marked'[m][r] = IF r = p THEN committed[p] ELSE marked[m][r]
                                /\ position'[m][r] = IF r = p THEN committed[p] ELSE position[m][r]
                                /\ owner'[r] = IF r = p THEN m ELSE owner[r]
        /\ UNCHANGED <<ctx, loop, polled, batch>>
    BY DEF Assign, IndInv, TypeOK
  <2>2. \A o \in 0 .. committed[p] - 1 : Accounted(p, o)'
    BY <1>2 DEF IndInv, CommittedAccounted
  <2>3. (\A r \in Partition : AccountedBelow(r, marked[m][r]))'
    <3> SUFFICES ASSUME NEW r \in Partition, NEW o \in 0 .. marked'[m][r] - 1
                 PROVE  Accounted(r, o)'
      BY DEF AccountedBelow
    <3>1. CASE r = p
      BY <2>1, <2>2, <3>1
    <3>2. CASE r # p
      <4>1. AccountedBelow(r, marked[m][r]) /\ marked'[m][r] = marked[m][r]
        BY <2>1, <3>2, SMTT(60), ZenonT(60) DEF MemberInv
      <4> QED BY <1>2, <4>1 DEF AccountedBelow
    <3> QED BY <3>1, <3>2
  <2>4. BatchInOrder(m)'
    BY <1>1, <2>1, BatchStays, ZenonT(60) DEF MemberInv
  <2>5. loop[m] \in {"select", "flush"} => PolledInOrder(m)' /\ PositionInOrder(m)'
    <3> SUFFICES ASSUME loop[m] \in {"select", "flush"}
                 PROVE  PolledInOrder(m)' /\ PositionInOrder(m)'
      OBVIOUS
    <3>1. PolledInOrder(m) /\ PositionInOrder(m) /\ batch'[m] = batch[m] /\ polled'[m] = polled[m]
      BY <2>1 DEF MemberInv
    <3>2. ASSUME NEW r \in Partition, owner'[r] = m
          PROVE  \/ owner[r] = m /\ position'[m][r] = position[m][r]
                 \/ \A o \in 0 .. position'[m][r] - 1 : Accounted(r, o)'
      BY <2>1, <2>2, <3>2, SMTT(60), ZenonT(60)
    <3> QED BY <1>1, <3>1, <3>2, PolledStays, PositionStays, Zenon
  <2>6. /\ loop'[m] = loop[m] /\ batch'[m] = batch[m] /\ ctx'[m] = "live"
        /\ loop[m] \in {"flush", "final"} => batch[m] # <<>>
        /\ ~BatchEnabled /\ loop[m] = "select" => batch[m] = <<>>
    BY <2>1, Zenon DEF MemberInv
  <2> QED BY <2>3, <2>4, <2>5, <2>6 DEF MemberInv
<1> QED BY <1>1, <1>3, <1>4 DEF IndInv

\* A commit touches no member's pipeline.
LEMMA AutoCommitInv ==
  ASSUME TypeOK, IndInv, NEW m \in Member, AutoCommit(m)
  PROVE  IndInv'
<1>1. Grows /\ NoOvertaking'
  BY DEF AutoCommit, Grows, IndInv, NoOvertaking, Accounted, Settled, historyVars
<1>2. CommittedAccounted'
  BY <1>1, CommitAccounted DEF AutoCommit, IndInv
<1>3. ASSUME NEW q \in Member PROVE MemberInv(q)'
  <2>1. Untouched(q)
    BY DEF AutoCommit, Untouched
  <2> QED BY <1>1, <2>1, UntouchedMember DEF IndInv
<1> QED BY <1>1, <1>2, <1>3 DEF IndInv

\* A member that is gone (crashed or closed) holds and owns nothing.
LEMMA DiscardInv ==
  ASSUME TypeOK, IndInv, NEW m \in Member, Discard(m), UNCHANGED historyVars,
         committed' \in {committed, CommittedBy(m)},
         owner' = [p \in Partition |-> IF owner[p] = m THEN NoMember ELSE owner[p]]
  PROVE  IndInv'
<1>1. Grows /\ NoOvertaking'
  BY DEF Grows, IndInv, NoOvertaking, Accounted, Settled, historyVars
<1>2. CommittedAccounted'
  BY <1>1, CommitAccounted DEF IndInv
<1>3. ASSUME NEW q \in Member, q # m PROVE MemberInv(q)'
  <2>1. Untouched(q)
    BY <1>3, ConstantsAssumption DEF Discard, Untouched, TypeOK
  <2> QED BY <1>1, <2>1, UntouchedMember DEF IndInv
<1>4. MemberInv(m)'
  <2>1. /\ ctx'[m] = "down" /\ loop'[m] = "stopped" /\ polled'[m] = <<>> /\ batch'[m] = <<>>
        /\ \A p \in Partition : marked'[m][p] = 0 /\ owner'[p] # m
    BY ConstantsAssumption DEF Discard, TypeOK
  <2> QED BY <2>1 DEF MemberInv, AccountedBelow, BatchInOrder
<1> QED BY <1>1, <1>2, <1>3, <1>4 DEF IndInv

\* A rebalance commits marks and takes partitions; what was polled stays in order.
LEMMA RevokeInv ==
  ASSUME TypeOK, IndInv, NEW m \in Member, NEW ok \in BOOLEAN, NEW S \in SUBSET Partition,
         Revoke(m, S, ok)
  PROVE  IndInv'
<1>1. Grows /\ NoOvertaking'
  BY DEF Revoke, Grows, IndInv, NoOvertaking, Accounted, Settled, historyVars
<1>2. CommittedAccounted'
  <2>1. committed' \in {committed, CommittedBy(m)}
    BY DEF Revoke, handleRevoke
  <2> QED BY <1>1, <2>1, CommitAccounted DEF IndInv
<1>3. \A p \in Partition, q \in Member : owner'[p] = q => owner[p] = q
  BY ConstantsAssumption DEF Revoke, handleRevoke, TypeOK
<1>4. ASSUME NEW q \in Member, q # m PROVE MemberInv(q)'
  <2>1. /\ UNCHANGED <<ctx, loop, position, polled, batch>>
        /\ marked'[q] = marked[q]
    BY <1>4 DEF Revoke, TypeOK
  <2>2. Untouched(q)
    BY <1>3, <2>1 DEF Untouched
  <2> QED BY <1>1, <2>2, UntouchedMember DEF IndInv
<1>5. MemberInv(m)'
  <2>1. /\ MemberInv(m) /\ UNCHANGED <<ctx, loop, position, polled, batch>>
        /\ \A p \in Partition : marked'[m][p] = IF p \in S THEN 0 ELSE marked[m][p]
    BY DEF Revoke, IndInv, TypeOK
  <2>2. \A p \in Partition : AccountedBelow(p, marked[m][p])'
    <3>1. \A p \in Partition : AccountedBelow(p, marked[m][p]) /\ marked'[m][p] \in {0, marked[m][p]}
      BY <2>1 DEF MemberInv
    <3> QED BY <1>1, <3>1, MarksStay
  <2>3. BatchInOrder(m)'
    BY <1>1, <2>1, BatchStays, SMTT(30), ZenonT(60) DEF MemberInv
  <2>4. loop[m] \in {"select", "flush"} => PolledInOrder(m)' /\ PositionInOrder(m)'
    <3> SUFFICES ASSUME loop[m] \in {"select", "flush"}
                 PROVE  PolledInOrder(m)' /\ PositionInOrder(m)'
      OBVIOUS
    <3>1. /\ PolledInOrder(m) /\ PositionInOrder(m) /\ batch'[m] = batch[m] /\ polled'[m] = polled[m]
          /\ \A p \in Partition : owner'[p] = m => owner[p] = m /\ position'[m][p] = position[m][p]
      BY <1>3, <2>1 DEF MemberInv
    <3> QED BY <1>1, <3>1, PolledStays, PositionStays
  <2>5. /\ loop'[m] = loop[m] /\ batch'[m] = batch[m] /\ ctx'[m] = ctx[m] /\ polled'[m] = polled[m]
        /\ \A p \in Partition : owner'[p] = m => owner[p] = m
        /\ MemberInv(m)
    BY <1>3, <2>1
  <2> QED BY <2>2, <2>3, <2>4, <2>5 DEF MemberInv
<1> QED BY <1>1, <1>2, <1>4, <1>5 DEF IndInv

\* A step that moves only the loop or the context of m, and not back into the select.
LEMMA ControlStep ==
  ASSUME TypeOK, IndInv, NEW m \in Member, UNCHANGED <<committed, historyVars>>,
         UNCHANGED <<owner, position, polled, batch, marked>>,
         \A q \in Member \ {m} : ctx'[q] = ctx[q] /\ loop'[q] = loop[q],
         ctx'[m] # "down",
         loop'[m] \in {"select", "flush"} => loop[m] \in {"select", "flush"},
         loop'[m] \in {"flush", "final"} => batch[m] # <<>>,
         loop'[m] = "select" => loop[m] = "select"
  PROVE  IndInv'
<1>1. Grows /\ CommittedAccounted' /\ NoOvertaking'
  BY DEF Grows, IndInv, CommittedAccounted, NoOvertaking, Accounted, Settled, historyVars
<1>2. \A p \in Partition : \A o : Accounted(p, o) => Accounted(p, o)'
  BY <1>1, AccountedStays
<1>3. ASSUME NEW q \in Member, q # m PROVE MemberInv(q)'
  <2>1. Untouched(q)
    BY <1>3 DEF Untouched
  <2> QED BY <1>1, <2>1, UntouchedMember DEF IndInv
<1>4. MemberInv(m)'
  <2>1. MemberInv(m)
    BY DEF IndInv
  <2>2. \A p \in Partition : AccountedBelow(p, marked[m][p])'
    <3>1. \A p \in Partition : AccountedBelow(p, marked[m][p]) /\ marked'[m][p] = marked[m][p]
      BY <2>1 DEF MemberInv
    <3> QED BY <1>1, <3>1, MarksStay
  <2>3. BatchInOrder(m)'
    BY <1>1, <2>1, BatchStays DEF MemberInv
  <2>4. loop[m] \in {"select", "flush"} => PolledInOrder(m)' /\ PositionInOrder(m)'
    <3> SUFFICES ASSUME loop[m] \in {"select", "flush"}
                 PROVE  PolledInOrder(m)' /\ PositionInOrder(m)'
      OBVIOUS
    <3>1. PolledInOrder(m) /\ PositionInOrder(m)
      BY <2>1 DEF MemberInv
    <3> QED BY <1>1, <3>1, PolledStays, PositionStays
  <2>5. ~BatchEnabled /\ loop[m] = "select" => batch[m] = <<>>
    BY <2>1 DEF MemberInv
  <2> QED BY <2>2, <2>3, <2>4, <2>5 DEF MemberInv
<1> QED BY <1>1, <1>3, <1>4 DEF IndInv

\* A fetch continues where the previous one ended.
LEMMA PollInv ==
  ASSUME TypeOK, IndInv, NEW m \in Member, NEW p \in Partition, NEW n \in 1 .. LogLen,
         Poll(m, p, n)
  PROVE  IndInv'
<1>1. Grows /\ CommittedAccounted' /\ NoOvertaking'
  BY DEF Poll, Grows, IndInv, CommittedAccounted, NoOvertaking, Accounted, Settled, brokerVars,
         historyVars
<1>2. \A r \in Partition : \A o : Accounted(r, o) => Accounted(r, o)'
  BY <1>1, AccountedStays
<1>3. ASSUME NEW q \in Member, q # m PROVE MemberInv(q)'
  <2>1. Untouched(q)
    BY <1>3 DEF Poll, Untouched, TypeOK, brokerVars
  <2> QED BY <1>1, <2>1, UntouchedMember DEF IndInv
<1>4. MemberInv(m)'
  <2>p. PICK old, L, pos, new, s :
           /\ old = polled[m] /\ L = Len(polled[m]) /\ pos = position[m][p]
           /\ new = [i \in 1 .. n |-> [part |-> p, off |-> pos + i - 1]]
           /\ s = polled'[m]
    BY Zenon
  <2>0. old \in Seq(Record) /\ pos \in Nat /\ n \in Nat /\ pos + n <= LogLen
    <3>1. old \in Seq(Record) /\ pos \in 0 .. LogLen /\ pos + n <= LogLen
      BY <2>p, Zenon DEF TypeOK, Poll
    <3>2. LogLen \in Nat
      BY ConstantsAssumption, Zenon
    <3> QED BY <3>1, <3>2
  <2>1. /\ MemberInv(m) /\ ctx[m] = "live" /\ owner[p] = m
        /\ UNCHANGED <<owner, ctx, loop, batch, marked>>
        /\ s = old \o new
        /\ \A r \in Partition : position'[m][r] = IF r = p THEN pos + n ELSE position[m][r]
    BY <2>p, Zenon DEF Poll, IndInv, TypeOK, brokerVars
  <2>2. /\ L \in Nat /\ Len(s) = L + n
        /\ \A i \in 1 .. L : s[i] = old[i]
        /\ \A i \in L + 1 .. L + n : /\ s[i] = [part |-> p, off |-> pos + (i - L) - 1]
                                     /\ s[i].part = p /\ s[i].off = pos + (i - L) - 1
    <3>1. /\ L = Len(old) /\ new = [i \in 1 .. n |-> [part |-> p, off |-> pos + i - 1]]
          /\ s = old \o new
      BY <2>p, <2>1, Zenon
    <3> QED BY <2>0, <3>1, FetchShape, SMTT(60), ZenonT(60)
  <2>n. L \in Nat /\ pos \in Nat /\ n \in Nat
    BY <2>0, <2>2, Zenon
  <2>3. (\A r \in Partition : AccountedBelow(r, marked[m][r]))'
    <3>1. \A r \in Partition : AccountedBelow(r, marked[m][r]) /\ marked'[m][r] = marked[m][r]
      <4>1. MemberInv(m) /\ marked' = marked
        BY <2>1
      <4>2. \A r \in Partition : AccountedBelow(r, marked[m][r])
        BY <4>1, Zenon DEF MemberInv
      <4> QED BY <4>1, <4>2
    <3> QED BY <1>1, <3>1, MarksStay
  <2>4. BatchInOrder(m)'
    BY <1>1, <2>1, BatchStays DEF MemberInv
  <2>5. ASSUME loop[m] \in {"select", "flush"}
        PROVE  \A o \in 0 .. pos + n - 1 :
                 \/ Accounted(p, o)'
                 \/ Holds(batch[m], Len(batch[m]), p, o)
                 \/ \E j \in 1 .. L : old[j] = [part |-> p, off |-> o]
                 \/ o >= pos /\ s[L + o - pos + 1] = [part |-> p, off |-> o]
    <3>1. \A o \in 0 .. pos - 1 :
                 \/ Accounted(p, o)
                 \/ Holds(batch[m], Len(batch[m]), p, o)
                 \/ \E j \in 1 .. L : old[j] = [part |-> p, off |-> o]
      <4>1. PositionInOrder(m) /\ owner[p] = m
        BY <2>1, <2>5, Zenon DEF MemberInv
      <4> QED BY <2>p, <4>1, ZenonT(30) DEF PositionInOrder, Holds
    <3>2. ASSUME NEW o \in pos .. pos + n - 1
          PROVE  s[L + o - pos + 1] = [part |-> p, off |-> o]
      <4>1. PICK i : i = L + o - pos + 1
        OBVIOUS
      <4>2. i \in L + 1 .. L + n /\ pos + (i - L) - 1 = o
        BY <2>n, <4>1
      <4>3. s[i] = [part |-> p, off |-> pos + (i - L) - 1]
        BY <2>2, <4>2
      <4> QED BY <4>1, <4>2, <4>3
    <3>3. \A o \in 0 .. pos + n - 1 : o \in 0 .. pos - 1 \/ (o >= pos /\ o \in pos .. pos + n - 1)
      BY <2>n
    <3> QED BY <1>2, <3>1, <3>2, <3>3, Zenon
  <2>6. (loop[m] \in {"select", "flush"} => PolledInOrder(m))'
    <3> SUFFICES ASSUME loop[m] \in {"select", "flush"},
                        NEW i \in 1 .. Len(polled'[m]), NEW o \in 0 .. polled'[m][i].off - 1
                 PROVE  (\/ Accounted(polled[m][i].part, o)
                         \/ Holds(batch[m], Len(batch[m]), polled[m][i].part, o)
                         \/ Holds(polled[m], i - 1, polled[m][i].part, o))'
      BY <2>1, Zenon DEF PolledInOrder
    <3>0. /\ i \in 1 .. L + n /\ o \in 0 .. s[i].off - 1
          /\ Accounted(s[i].part, o)' => Accounted(polled[m][i].part, o)'
      BY <2>p, <2>2, ZenonT(30) DEF Accounted, Settled
    <3> SUFFICES \/ Accounted(s[i].part, o)'
                 \/ Holds(batch[m], Len(batch[m]), s[i].part, o)
                 \/ Holds(s, i - 1, s[i].part, o)
      <4>1. s = polled'[m] /\ batch' = batch
        BY <2>p, <2>1
      <4> QED BY <3>0, <4>1, Zenon
    <3>1. CASE i \in 1 .. L
      <4>1. s[i] = old[i] /\ old[i].part \in Partition
        BY <2>p, <2>0, <2>2, <3>1, ElementType, ZenonT(60)
      <4>2. PolledInOrder(m)
        BY <2>1, ZenonT(60) DEF MemberInv
      <4>3. \/ Accounted(old[i].part, o)
            \/ Holds(batch[m], Len(batch[m]), old[i].part, o)
            \/ Holds(old, i - 1, old[i].part, o)
        BY <2>p, <3>0, <3>1, <4>1, <4>2, Zenon DEF PolledInOrder
      <4>4. Holds(old, i - 1, old[i].part, o) => Holds(s, i - 1, old[i].part, o)
        <5>1. ASSUME NEW j \in 1 .. i - 1 PROVE s[j] = old[j]
          <6>1. j \in 1 .. L
            BY <2>n, <3>1, EarlierIsBelow, ZenonT(60)
          <6> QED BY <2>2, <6>1, Zenon
        <5> QED BY <5>1, ZenonT(60) DEF Holds
      <4> QED BY <1>2, <4>1, <4>3, <4>4
    <3>2. CASE i \in L + 1 .. L + n
      <4>1. s[i].part = p /\ s[i].off = pos + (i - L) - 1
        BY <2>2, <3>2, Zenon
      <4>2. /\ o \in 0 .. pos + n - 1 /\ o < pos + (i - L) - 1
            /\ o >= pos => L + o - pos + 1 \in 1 .. i - 1
        <5>1. o \in 0 .. (pos + (i - L) - 1) - 1
          BY <3>0, <4>1, Zenon
        <5> QED BY <2>n, <3>2, <5>1, FetchedBefore, Zenon
      <4>3. (\E j \in 1 .. L : old[j] = [part |-> p, off |-> o]) => Holds(s, i - 1, p, o)
        <5>1. ASSUME NEW j \in 1 .. L PROVE j \in 1 .. i - 1 /\ s[j] = old[j]
          <6>1. j \in 1 .. i - 1
            BY <2>n, <3>2, FirstIsEarlier, Zenon
          <6> QED BY <2>2, <6>1, ZenonT(60)
        <5> QED BY <5>1, Zenon DEF Holds
      <4> QED BY <2>5, <4>1, <4>2, <4>3, ZenonT(60) DEF Holds
    <3> QED BY <2>n, <3>0, <3>1, <3>2, EitherPart, Zenon
  <2>7. (loop[m] \in {"select", "flush"} => PositionInOrder(m))'
    <3> SUFFICES ASSUME loop[m] \in {"select", "flush"}, NEW r \in Partition, owner[r] = m,
                        NEW o \in 0 .. position'[m][r] - 1
                 PROVE  \/ Accounted(r, o)'
                        \/ Holds(batch[m], Len(batch[m]), r, o)
                        \/ Holds(s, L + n, r, o)
      <4>1. s = polled'[m] /\ Len(polled'[m]) = L + n /\ UNCHANGED <<owner, loop, batch>>
        BY <2>p, <2>1, <2>2
      <4> QED BY <4>1, Zenon DEF PositionInOrder
    <3>1. (\E j \in 1 .. L : old[j] = [part |-> r, off |-> o]) => Holds(s, L + n, r, o)
      <4>1. ASSUME NEW j \in 1 .. L, old[j] = [part |-> r, off |-> o]
            PROVE  j \in 1 .. L + n /\ s[j] = [part |-> r, off |-> o]
        <5>1. j \in 1 .. L + n
          BY <2>n
        <5> QED BY <2>2, <4>1, <5>1, Zenon
      <4> QED BY <4>1, Zenon DEF Holds
    <3>2. CASE r = p
      <4>1. o \in 0 .. pos + n - 1
        <5>1. position'[m][r] = pos + n
          BY <2>1, <3>2, Zenon
        <5> QED BY <2>n, <5>1, SMTT(60), ZenonT(60)
      <4>2. o >= pos => L + o - pos + 1 \in 1 .. L + n
        BY <2>n, <4>1
      <4> QED BY <2>5, <3>1, <3>2, <4>1, <4>2, Zenon DEF Holds
    <3>3. CASE r # p
      <4>1. \/ Accounted(r, o)
            \/ Holds(batch[m], Len(batch[m]), r, o)
            \/ \E j \in 1 .. L : old[j] = [part |-> r, off |-> o]
        <5>1. PositionInOrder(m) /\ position'[m][r] = position[m][r]
          BY <2>1, <3>3, Zenon DEF MemberInv
        <5> QED BY <2>p, <5>1, Zenon DEF PositionInOrder, Holds
      <4> QED BY <1>2, <3>1, <4>1, Zenon
    <3> QED BY <3>2, <3>3
  <2> QED BY <2>1, <2>3, <2>4, <2>6, <2>7, Zenon DEF MemberInv
<1> QED BY <1>1, <1>3, <1>4 DEF IndInv
=============================================================================
