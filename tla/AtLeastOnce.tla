---------------------------- MODULE AtLeastOnce ----------------------------
(***************************************************************************)
(* What the consume path promises the rest of the system, with no members, *)
(* batches, rebalances or outages in sight: records of a partition are     *)
(* broadcast in order and possibly again, and the committed offset, which  *)
(* may also fall back, never passes a record that is not accounted for.    *)
(***************************************************************************)
EXTENDS Integers

CONSTANTS
  Partition,
  LogLen,
  Overtaking     \* a dropped record may be committed past earlier, pending ones

VARIABLES committed, delivered, dropped, missed

vars == <<committed, delivered, dropped, missed>>

Offset == 0 .. LogLen - 1

Accounted(p, o) ==
  \/ o \in delivered[p] \cup dropped[p] \cup missed[p]
  \/ Overtaking /\ \E d \in dropped[p] : d > o

AccountedBelow(p, c) == \A o \in 0 .. c - 1 : Accounted(p, o)

Init ==
  /\ committed = [p \in Partition |-> 0]
  /\ delivered = [p \in Partition |-> {}]
  /\ dropped = [p \in Partition |-> {}]
  /\ missed = [p \in Partition |-> {}]

\* A record is broadcast, in the order of its partition.
Deliver(p, o) ==
  /\ AccountedBelow(p, o)
  /\ delivered' = [delivered EXCEPT ![p] = @ \cup {o}]
  /\ UNCHANGED <<committed, dropped, missed>>

\* A record that can never be broadcast is dead-lettered.
Drop(p, o) ==
  /\ dropped' = [dropped EXCEPT ![p] = @ \cup {o}]
  /\ UNCHANGED <<committed, delivered, missed>>

\* A record of an unregistered topic is skipped.
Skip(p, o) ==
  /\ missed' = [missed EXCEPT ![p] = @ \cup {o}]
  /\ UNCHANGED <<committed, delivered, dropped>>

\* Offsets are committed, several partitions at a time.
Commit ==
  /\ committed' \in [Partition -> 0 .. LogLen]
  /\ \A p \in Partition : committed'[p] # committed[p] => AccountedBelow(p, committed'[p])
  /\ UNCHANGED <<delivered, dropped, missed>>

Next ==
  \/ \E p \in Partition : \E o \in Offset : Deliver(p, o) \/ Drop(p, o) \/ Skip(p, o)
  \/ Commit

Spec == Init /\ [][Next]_vars

=============================================================================
