----------------------- MODULE SequenceReceiverProof ------------------------
(***************************************************************************)
(* The memory accounting of the receiving half of a session is exact, for  *)
(* every size of the id space, of the limits and of the packets.           *)
(***************************************************************************)
EXTENDS SequenceReceiver, CollectionsProof

ReceiverInv ==
  /\ ReceiverTypeOK
  /\ ReservationExact /\ QuotaExact /\ SessionBounded /\ ReservedCoversStored

(* The constants, as the provers need them.                               *)
LEMMA ReceiverConstants ==
  /\ IdSpace \in Nat \ {0} /\ Est \in Nat \ {0} /\ Overhead \in Nat
  /\ QuotaMax \in Nat /\ MaxPerSession \in Nat /\ FairShare \in Nat
  /\ MaxFragments \in Nat /\ MaxClock \in Nat /\ MaxIncoming \in Nat
  /\ \A n \in OtherSizes : n \in Nat
  /\ \A m \in MessageIds : TypePrio[m] \in 0..4
  BY ReceiverAssumption DEF MessageIds

(* The fields of a packet.                                                *)
LEMMA PacketFields ==
  ASSUME NEW p \in Packets
  PROVE  p.id \in MessageIds /\ p.idx \in Nat /\ p.total \in Nat /\ p.size \in Nat
  BY ReceiverAssumption, Zenon DEF MessageIds

(* There are finitely many reassemblers.                                  *)
LEMMA IncomingFinite ==
  ASSUME NEW M \in SUBSET MessageIds
  PROVE  IsFiniteSet(M)
  <1>1. 0 \in Int /\ IdSpace - 1 \in Int
    BY ReceiverConstants
  <1>2. IsFiniteSet(MessageIds)
    BY <1>1, FS_Interval DEF MessageIds
  <1> QED
    BY <1>2, FS_Subset

(* A reassembler holds finitely many fragments.                           *)
LEMMA FragmentsFinite ==
  ASSUME NEW r \in Reassembler
  PROVE  IsFiniteSet(r.got) /\ Cardinality(r.got) \in Nat
  <1>1. 0 \in Int /\ r.total - 1 \in Int /\ r.got \in SUBSET (0..(r.total - 1))
    BY DEF Reassembler
  <1>2. IsFiniteSet(0..(r.total - 1))
    BY <1>1, FS_Interval
  <1>3. IsFiniteSet(r.got)
    BY <1>1, <1>2, FS_Subset
  <1> QED
    BY <1>3, FS_CardinalityType

(* planned_total_size is never less than what is stored.                  *)
LEMMA PlannedCovers ==
  ASSUME NEW r \in Reassembler
  PROVE  /\ Planned(r) \in Nat
         /\ r.size + Cardinality(r.got) * Overhead <= Planned(r)
  <1>1. /\ r.total \in Nat \ {0} /\ r.full \in Nat /\ r.last \in Nat
        /\ r.size \in Nat
    BY DEF Reassembler
  <1>2. Cardinality(r.got) \in Nat
    BY FragmentsFinite
  <1> DEFINE stored == r.size + Cardinality(r.got) * Overhead
             full == IF r.full = 0 THEN Est ELSE r.full
             last == IF r.last = 0 THEN full ELSE r.last
             plan == (r.total - 1) * full + last + r.total * Overhead
  <1>3. \A a, b \in Nat : a * b \in Nat
    OBVIOUS
  <1>4. stored \in Nat
    BY <1>1, <1>2, <1>3, ReceiverConstants
  <1>5. full \in Nat /\ last \in Nat
    BY <1>1, ReceiverConstants
  <1>6. r.total - 1 \in Nat
    BY <1>1
  <1> HIDE DEF full, last
  <1>7. (r.total - 1) * full \in Nat /\ r.total * Overhead \in Nat
    BY <1>1, <1>3, <1>5, <1>6, ReceiverConstants
  <1>8. plan \in Nat
    BY <1>5, <1>7
  <1>9. Planned(r) = Greater(plan, stored)
    BY DEF Planned, full, last
  <1> HIDE DEF plan, stored
  <1>10. Planned(r) \in Nat /\ stored <= Planned(r)
    BY <1>4, <1>8, <1>9 DEF Greater
  <1> QED
    BY <1>10 DEF stored

(***************************************************************************)
(* The sum of the reservations.                                           *)
(***************************************************************************)
(* One reassembler taken out of the sum.                                  *)
LEMMA ReservedWithout ==
  ASSUME ReceiverTypeOK, NEW k \in DOMAIN incoming
  PROVE  /\ Reserved(DOMAIN incoming)
              = Reserved(DOMAIN incoming \ {k}) + incoming[k].reserved
         /\ Reserved(DOMAIN incoming \ {k}) \in Nat
  <1> DEFINE D == DOMAIN incoming
             f == [m \in D |-> incoming[m].reserved]
             g == [m \in D \ {k} |-> incoming[m].reserved]
  <1>1. \A m \in D : incoming[m].reserved \in Nat
    BY DEF ReceiverTypeOK, Reassembler
  <1>2. IsFiniteSet(D) /\ IsFiniteSet(D \ {k})
    BY IncomingFinite DEF ReceiverTypeOK
  <1>3. f \in [D -> Nat] /\ g \in [D \ {k} -> Nat]
    BY <1>1
  <1>4. [m \in D \ {k} |-> f[m]] = g
    OBVIOUS
  <1>5. f[k] = incoming[k].reserved
    OBVIOUS
  <1>6. Reserved(D) = Total(f) /\ Reserved(D \ {k}) = Total(g)
    BY DEF Reserved
  <1> HIDE DEF f, g, D
  <1>7. Total(f) = Total([m \in D \ {k} |-> f[m]]) + f[k]
    BY <1>2, <1>3, TotalRemove DEF D
  <1>8. Total(g) \in Nat
    BY <1>2, <1>3, TotalType
  <1> QED
    BY <1>4, <1>5, <1>6, <1>7, <1>8 DEF D

(* What the reassemblers other than k reserve.                            *)
Rest(k) == Reserved(DOMAIN incoming \ {k})

(* The others' share is a number, whether or not k has a reassembler.     *)
LEMMA RestType ==
  ASSUME ReceiverTypeOK, NEW k
  PROVE  Rest(k) \in Nat
  <1> DEFINE D == DOMAIN incoming \ {k}
             g == [m \in D |-> incoming[m].reserved]
  <1>1. g \in [D -> Nat]
    BY DEF ReceiverTypeOK, Reassembler
  <1>2. IsFiniteSet(D)
    BY IncomingFinite DEF ReceiverTypeOK
  <1>3. Rest(k) = Total(g)
    BY DEF Rest, Reserved
  <1> HIDE DEF g, D
  <1> QED
    BY <1>1, <1>2, <1>3, TotalType

(* The sum when the entry of k is replaced or added.                      *)
LEMMA ReservedWith ==
  ASSUME ReceiverTypeOK, NEW k, NEW v, v.reserved \in Nat,
         DOMAIN incoming' = DOMAIN incoming \union {k}, incoming'[k] = v,
         \A m \in DOMAIN incoming \ {k} : incoming'[m] = incoming[m]
  PROVE  Reserved(DOMAIN incoming)' = Rest(k) + v.reserved
  <1> DEFINE D == DOMAIN incoming \ {k}
             f == [m \in D \union {k} |-> incoming'[m].reserved]
             g == [m \in D |-> incoming[m].reserved]
  <1>1. \A m \in D : incoming[m].reserved \in Nat
    BY DEF ReceiverTypeOK, Reassembler
  <1>2. f \in [D \union {k} -> Nat]
    BY <1>1
  <1>3. IsFiniteSet(D) /\ IsFiniteSet(D \union {k})
    <2>1. IsFiniteSet(D)
      BY IncomingFinite DEF ReceiverTypeOK
    <2> HIDE DEF D
    <2> QED
      BY <2>1, FS_AddElement
  <1>4. [m \in (D \union {k}) \ {k} |-> f[m]] = g
    OBVIOUS
  <1>5. f[k] = v.reserved
    OBVIOUS
  <1>6. Reserved(DOMAIN incoming)' = Total(f)
    BY DEF Reserved
  <1>7. Rest(k) = Total(g)
    BY DEF Rest, Reserved
  <1>8. k \in D \union {k}
    OBVIOUS
  <1> HIDE DEF f, g, D
  <1>9. Total(f) = Total([m \in (D \union {k}) \ {k} |-> f[m]]) + f[k]
    BY <1>2, <1>3, <1>8, TotalRemove
  <1> QED
    BY <1>4, <1>5, <1>6, <1>7, <1>9

(***************************************************************************)
(* A packet and the reassembler it finds or creates.                      *)
(***************************************************************************)
(* calculate_priority yields one of the five priorities.                  *)
LEMMA PriorityType ==
  ASSUME NEW p \in Packets, NEW n
  PROVE  CalculatePriority(p, n) \in 0..4
  BY PacketFields, ReceiverConstants
  DEF CalculatePriority, Critical, Standard, Bulk

(* The reservation for a new reassembler.                                 *)
LEMMA InitialType ==
  ASSUME NEW p \in Packets
  PROVE  InitialReservation(p) \in Nat
  <1>1. p.total \in Nat /\ p.size \in Nat
    BY PacketFields
  <1>2. Greater(p.size, Est) \in Nat
    BY <1>1, ReceiverConstants DEF Greater
  <1>3. \A a, b \in Nat : a * b \in Nat
    OBVIOUS
  <1> QED
    BY <1>1, <1>2, <1>3 DEF InitialReservation

(* The reassembler of a packet, and what the session has reserved besides. *)
LEMMA EntryType ==
  ASSUME ReceiverInv, NEW p \in Packets,
         p.id \in DOMAIN incoming \/ p.total # 0
  PROVE  /\ Entry(p) \in Reassembler /\ Cost(p) \in Nat
         /\ bufSize + Cost(p) = Rest(p.id) + Entry(p).reserved
         /\ Rest(p.id) \in Nat /\ Rest(p.id) <= bufSize
  <1>1. p.id \in MessageIds /\ p.total \in Nat /\ p.size \in Nat
    BY PacketFields
  <1>2. Rest(p.id) \in Nat
    BY RestType DEF ReceiverInv
  <1>3. CASE p.id \in DOMAIN incoming
    <2>1. incoming[p.id] \in Reassembler
      BY <1>3 DEF ReceiverInv, ReceiverTypeOK
    <2>2. CalculatePriority(p, incoming[p.id].reserved) \in 0..4
      BY PriorityType
    <2>3. Entry(p) \in Reassembler /\ Entry(p).reserved = incoming[p.id].reserved
      BY <1>3, <2>1, <2>2 DEF Entry, Reassembler
    <2>4. bufSize = Rest(p.id) + incoming[p.id].reserved
      BY <1>3, ReservedWithout DEF ReceiverInv, ReservationExact, Rest
    <2>5. Cost(p) = 0
      BY <1>3 DEF Cost
    <2>6. bufSize \in Nat
      BY DEF ReceiverInv, ReceiverTypeOK
    <2>7. incoming[p.id].reserved \in Nat
      BY <2>1 DEF Reassembler
    <2> QED
      BY <1>2, <2>3, <2>4, <2>5, <2>6, <2>7
  <1>4. CASE p.id \notin DOMAIN incoming
    <2>1. InitialReservation(p) \in Nat
      BY InitialType
    <2>2. CalculatePriority(p, InitialReservation(p)) \in 0..4
      BY PriorityType
    <2>3. Cost(p) = InitialReservation(p)
      BY <1>4 DEF Cost
    <2>4. clock \in Nat
      BY DEF ReceiverInv, ReceiverTypeOK
    <2>5. Entry(p) = [total |-> p.total, got |-> {}, size |-> 0, full |-> 0,
                      last |-> 0,
                      prio |-> CalculatePriority(p, InitialReservation(p)),
                      reserved |-> InitialReservation(p), at |-> clock]
      BY <1>4 DEF Entry
    <2>6. Entry(p) \in Reassembler /\ Entry(p).reserved = InitialReservation(p)
      BY <1>1, <1>4, <2>1, <2>2, <2>4, <2>5 DEF Reassembler
    <2>7. bufSize = Rest(p.id)
      <3>1. DOMAIN incoming \ {p.id} = DOMAIN incoming
        BY <1>4
      <3> QED
        BY <3>1 DEF ReceiverInv, ReservationExact, Rest
    <2> QED
      BY <1>2, <2>1, <2>3, <2>6, <2>7
  <1> QED
    BY <1>3, <1>4

(* A fragment added to its reassembler.                                   *)
LEMMA AddedType ==
  ASSUME ReceiverInv, NEW p \in Packets,
         p.id \in DOMAIN incoming \/ p.total # 0, ~AddFails(Entry(p), p)
  PROVE  /\ Added(p) \in Reassembler
         /\ Added(p).reserved = Entry(p).reserved
         /\ Added(p).prio = Entry(p).prio
  <1> DEFINE r == Entry(p)
  <1>1. r \in Reassembler
    BY EntryType
  <1>2. p.idx \in Nat /\ p.size \in Nat
    BY PacketFields
  <1>3. clock \in Nat
    BY DEF ReceiverInv, ReceiverTypeOK
  <1> HIDE DEF r
  <1>4. r.total \in Nat \ {0} /\ r.full \in Nat /\ r.size \in Nat
        /\ r.last \in Nat /\ r.got \subseteq 0..(r.total - 1)
    BY <1>1 DEF Reassembler
  <1>5. CASE p.idx \in r.got
    <2>1. Added(p) = [r EXCEPT !.at = clock]
      BY <1>5 DEF Added, AddFragment, r
    <2> QED
      BY <1>1, <1>3, <2>1 DEF Reassembler, r
  <1>6. CASE p.idx \notin r.got
    <2> DEFINE last == IF p.idx = r.total - 1 THEN p.size ELSE r.last
               full == IF p.idx = r.total - 1 THEN r.full
                       ELSE Greater(r.full, p.size)
    <2>1. Added(p) = [r EXCEPT !.at = clock, !.last = last, !.full = full,
                               !.size = r.size + p.size,
                               !.got = r.got \union {p.idx}]
      BY <1>6 DEF Added, AddFragment, r
    <2>2. last \in Nat /\ full \in Nat /\ r.size + p.size \in Nat
      BY <1>2, <1>4 DEF Greater
    <2>3. p.idx \in 0..(r.total - 1)
      BY <1>2, <1>4 DEF AddFails, r
    <2>4. r.got \union {p.idx} \subseteq 0..(r.total - 1)
      BY <1>4, <2>3
    <2> HIDE DEF last, full
    <2> DEFINE a == Added(p)
    <2>5. r \in [total : Nat \ {0}, got : SUBSET Nat, size : Nat, full : Nat,
                last : Nat, prio : 0..4, reserved : Nat, at : Nat]
      BY <1>1 DEF Reassembler
    <2>6. /\ a.total = r.total /\ a.got = r.got \union {p.idx}
          /\ a.reserved = r.reserved /\ a.prio = r.prio
      BY <2>1, <2>5
    <2>7. a \in [total : Nat \ {0}, got : SUBSET Nat, size : Nat, full : Nat,
                last : Nat, prio : 0..4, reserved : Nat, at : Nat]
      <3>1. a = [total |-> r.total, got |-> r.got \union {p.idx},
                 size |-> r.size + p.size, full |-> full, last |-> last,
                 prio |-> r.prio, reserved |-> r.reserved, at |-> clock]
        BY <2>1, <2>5, Zenon
      <3>2. r.got \union {p.idx} \in SUBSET Nat
        BY <1>2, <2>5
      <3>3. r.total \in Nat \ {0} /\ r.prio \in 0..4 /\ r.reserved \in Nat
        BY <2>5
      <3> HIDE DEF a
      <3> QED
        BY <1>3, <2>2, <3>1, <3>2, <3>3
    <2> QED
      BY <2>4, <2>6, <2>7 DEF Reassembler, r
  <1> QED
    BY <1>5, <1>6

(* A granted reservation stays within the hard maximum.                   *)
LEMMA GrantBounded ==
  ASSUME NEW buf \in Nat, NEW inUse \in Nat, NEW n \in Nat, NEW prio \in 0..4,
         CanReserve(buf, inUse, n, prio)
  PROVE  inUse + n <= QuotaMax
  <1>1. QuotaMax \in Nat
    BY ReceiverConstants
  <1>2. Percent[prio + 1] \in 0..99
    BY DEF Percent
  <1>3. QuotaMax * Percent[prio + 1] <= QuotaMax * 100
    BY <1>1, <1>2
  <1>4. QuotaMax * Percent[prio + 1] \in Nat
    BY <1>1, <1>2
  <1>5. Threshold(prio) \in Nat /\ Threshold(prio) <= QuotaMax
    BY <1>1, <1>3, <1>4 DEF Threshold
  <1> QED
    BY <1>1, <1>5 DEF CanReserve

(***************************************************************************)
(* The steps.                                                             *)
(***************************************************************************)
Accounts ==
  /\ DOMAIN incoming \subseteq MessageIds
  /\ \A m \in DOMAIN incoming : incoming[m] \in Reassembler
  /\ bufSize \in Nat /\ used \in Nat
  /\ ReservationExact /\ QuotaExact /\ SessionBounded /\ ReservedCoversStored

(* A reassembler that goes takes its reservation with it.                 *)
LEMMA Dropped ==
  ASSUME ReceiverInv, NEW p \in Packets,
         p.id \in DOMAIN incoming \/ p.total # 0,
         DropReassembler(p), others' = others
  PROVE  Accounts' /\ highest' \in MessageIds \union {-1}
  <1> USE DEF ReceiverInv, ReceiverTypeOK
  <1>1. /\ Entry(p) \in Reassembler /\ Cost(p) \in Nat
        /\ bufSize + Cost(p) = Rest(p.id) + Entry(p).reserved
        /\ Rest(p.id) \in Nat /\ Rest(p.id) <= bufSize
    BY EntryType
  <1>2. Entry(p).reserved \in Nat
    BY <1>1 DEF Reassembler
  <1>3. bufSize' = Rest(p.id)
    BY <1>1, <1>2 DEF DropReassembler
  <1>4. /\ DOMAIN incoming' = DOMAIN incoming \ {p.id}
        /\ \A m \in DOMAIN incoming' : incoming'[m] = incoming[m]
    BY DEF DropReassembler, Without
  <1>5. ReservationExact'
    <2>1. [m \in DOMAIN incoming' |-> incoming'[m].reserved]
            = [m \in DOMAIN incoming \ {p.id} |-> incoming[m].reserved]
      BY <1>4
    <2> QED
      BY <1>3, <2>1, Zenon DEF ReservationExact, Reserved, Rest
  <1>6. used' = Rest(p.id) + others
    <2>1. used = bufSize + others
      BY DEF QuotaExact
    <2>2. used + Cost(p) - Entry(p).reserved = Rest(p.id) + others
      <3>1. bufSize \in Nat /\ others \in Nat
        OBVIOUS
      <3> HIDE DEF ReceiverInv, ReceiverTypeOK
      <3> QED
        BY <1>1, <1>2, <2>1, <3>1
    <2> QED
      BY <1>1, <2>2 DEF DropReassembler, Saturating
  <1>7. QuotaExact' /\ SessionBounded'
    BY <1>1, <1>3, <1>6, ReceiverConstants DEF QuotaExact, SessionBounded
  <1>8. ReservedCoversStored'
    BY <1>4 DEF ReservedCoversStored
  <1>9. highest' \in MessageIds \union {-1}
    BY PacketFields DEF DropReassembler, HighestAfter
  <1>10. /\ DOMAIN incoming' \subseteq MessageIds
         /\ \A m \in DOMAIN incoming' : incoming'[m] \in Reassembler
    BY <1>4
  <1>11. bufSize' \in Nat /\ used' \in Nat
    BY <1>1, <1>3, <1>6
  <1> QED
    BY <1>5, <1>7, <1>8, <1>9, <1>10, <1>11 DEF Accounts

(* A fragment that is kept reserves what its message is now planned to    *)
(* need, within both limits.                                              *)
LEMMA Stored ==
  ASSUME ReceiverInv, NEW p \in Packets, FragmentStored(p), others' = others
  PROVE  Accounts' /\ highest' \in MessageIds \union {-1}
  <1> USE DEF ReceiverInv, ReceiverTypeOK
  <1> DEFINE a == Added(p)
             v == [a EXCEPT !.reserved = Planned(a)]
  <1>1. p.id \in MessageIds
    BY PacketFields
  <1>2. p.id \in DOMAIN incoming \/ p.total # 0
    BY DEF FragmentStored, Admitted
  <1>3. /\ Entry(p) \in Reassembler /\ Cost(p) \in Nat
        /\ bufSize + Cost(p) = Rest(p.id) + Entry(p).reserved
        /\ Rest(p.id) \in Nat /\ Rest(p.id) <= bufSize
    BY <1>2, EntryType
  <1>4. a \in Reassembler /\ a.reserved = Entry(p).reserved
    BY <1>2, AddedType DEF FragmentStored
  <1>5. /\ Planned(a) \in Nat
        /\ a.size + Cardinality(a.got) * Overhead <= Planned(a)
    BY <1>4, PlannedCovers
  <1>6. Entry(p).reserved \in Nat /\ Entry(p).prio \in 0..4
    BY <1>3 DEF Reassembler
  <1> HIDE DEF a
  <1>7. /\ v \in Reassembler /\ v.reserved = Planned(a)
        /\ v.size = a.size /\ v.got = a.got
    BY <1>4, <1>5, Zenon DEF Reassembler
  <1>8. /\ incoming' = With(incoming, p.id, v)
        /\ bufSize' = bufSize + Cost(p) + Growth(p)
        /\ used' = Saturating(used + Cost(p) + Growth(p))
        /\ Growth(p) = Planned(a) - Entry(p).reserved
        /\ GrowthGranted(p) /\ Admitted(p)
    BY DEF FragmentStored, Growth, a
  <1> HIDE DEF v
  <1>9. /\ DOMAIN incoming' = DOMAIN incoming \union {p.id}
        /\ incoming'[p.id] = v
        /\ \A m \in DOMAIN incoming \ {p.id} : incoming'[m] = incoming[m]
    BY <1>8 DEF With
  <1>10. bufSize' = Rest(p.id) + Planned(a)
    BY <1>3, <1>5, <1>6, <1>8
  <1>11. ReservationExact'
    BY <1>5, <1>7, <1>9, <1>10, ReservedWith DEF ReservationExact
  <1>12. used' = bufSize' + others'
    <2>1. used = bufSize + others
      BY DEF QuotaExact
    <2>2. used + Cost(p) + Growth(p) = Rest(p.id) + Planned(a) + others
      <3>1. bufSize \in Nat /\ others \in Nat
        OBVIOUS
      <3> HIDE DEF ReceiverInv, ReceiverTypeOK
      <3> QED
        BY <1>3, <1>5, <1>6, <1>8, <2>1, <3>1
    <2>3. others \in Nat
      OBVIOUS
    <2> QED
      BY <1>3, <1>5, <1>8, <1>10, <2>2, <2>3 DEF Saturating
  <1>13. bufSize + Cost(p) <= MaxPerSession /\ used + Cost(p) <= QuotaMax
    <2>1. CASE p.id \in DOMAIN incoming
      BY <2>1, ReceiverConstants DEF Cost, SessionBounded, QuotaExact
    <2>2. CASE p.id \notin DOMAIN incoming
      <3>1. /\ CanReserve(bufSize, used, Cost(p), Entry(p).prio)
            /\ bufSize + Cost(p) <= MaxPerSession
        BY <1>8, <2>2 DEF Admitted
      <3> QED
        BY <1>3, <1>6, <3>1, GrantBounded
    <2> QED
      BY <2>1, <2>2
  <1>14. bufSize' <= MaxPerSession /\ used' <= QuotaMax
    <2>1. bufSize \in Nat /\ used \in Nat /\ others \in Nat
          /\ used = bufSize + others
      BY DEF QuotaExact
    <2> HIDE DEF ReceiverInv, ReceiverTypeOK
    <2>2. bufSize' \in Nat /\ Growth(p) \in Int
          /\ used' = used + Cost(p) + Growth(p)
      BY <1>3, <1>5, <1>6, <1>8, <1>10, <1>12, <2>1
    <2>3. CASE Growth(p) <= 0
      BY <1>3, <1>8, <1>13, <2>1, <2>3, <2>2, ReceiverConstants
    <2>4. CASE ~(Growth(p) <= 0)
      <3>1. /\ CanReserve(bufSize + Cost(p), used + Cost(p), Growth(p),
                         Entry(p).prio)
            /\ bufSize + Cost(p) + Growth(p) <= MaxPerSession
        BY <1>8, <2>4 DEF GrowthGranted
      <3>2. /\ bufSize + Cost(p) \in Nat /\ used + Cost(p) \in Nat
            /\ Growth(p) \in Nat
        BY <1>3, <2>1, <2>4, <2>2
      <3>3. used + Cost(p) + Growth(p) <= QuotaMax
        BY <1>6, <3>1, <3>2, GrantBounded
      <3> QED
        BY <1>8, <2>1, <2>2, <3>1, <3>3
    <2> QED
      BY <2>3, <2>4
  <1>15. QuotaExact' /\ SessionBounded'
    BY <1>12, <1>14 DEF QuotaExact, SessionBounded
  <1>16. ReservedCoversStored'
    BY <1>5, <1>7, <1>9 DEF ReservedCoversStored
  <1>17. highest' \in MessageIds \union {-1}
    BY <1>1 DEF FragmentStored, HighestAfter
  <1>18. /\ DOMAIN incoming' \subseteq MessageIds
         /\ \A m \in DOMAIN incoming' : incoming'[m] \in Reassembler
    BY <1>1, <1>7, <1>9
  <1>19. bufSize' \in Nat /\ used' \in Nat
    BY <1>3, <1>5, <1>10, <1>12
  <1> QED
    BY <1>11, <1>15, <1>16, <1>17, <1>18, <1>19 DEF Accounts

(* The session's tables.                                                  *)
Tables ==
  /\ completed \in Seq([id : MessageIds, total : Nat, at : Nat])
  /\ DOMAIN packs \subseteq MessageIds /\ DOMAIN pnacks \subseteq MessageIds
  /\ highest \in MessageIds \union {-1}
  /\ delivered \in [MessageIds -> Nat]
  /\ others \in Nat /\ clock \in Nat

(* The invariant is the accounts and the tables.                          *)
LEMMA InvSplit == ReceiverInv => Accounts /\ Tables
  BY DEF ReceiverInv, ReceiverTypeOK, Accounts, Tables

(* And back, for the state after a step.                                  *)
LEMMA InvJoin == Accounts' /\ Tables' => ReceiverInv'
  BY DEF ReceiverInv, ReceiverTypeOK, Accounts, Tables

(* A step that leaves the reassemblers and the counters alone.            *)
LEMMA AccountsKept ==
  ASSUME ReceiverInv, UNCHANGED <<incoming, bufSize, used, others>>
  PROVE  Accounts'
  BY InvSplit DEF Accounts, ReservationExact, QuotaExact, SessionBounded,
                  ReservedCoversStored, Reserved

(* handle_data_packet.                                                    *)
LEMMA HandleDataInv ==
  ASSUME ReceiverInv, NEW p \in Packets, HandleData(p)
  PROVE  ReceiverInv'
  <1>1. /\ others' = others /\ clock' = clock
        /\ p.id \in MessageIds /\ p.total \in Nat
        /\ Tables
    BY PacketFields, InvSplit DEF HandleData
  <1>2. CASE DataOfCompleted(p) \/ DataRejected(p)
    <2>1. UNCHANGED <<incoming, bufSize, used, others, completed, packs, pnacks,
                      highest, delivered, clock>>
      BY <1>1, <1>2 DEF DataOfCompleted, DataRejected
    <2>2. Accounts'
      BY <2>1, AccountsKept
    <2>3. Tables'
      BY <1>1, <2>1 DEF Tables
    <2> QED
      BY <2>2, <2>3, InvJoin
  <1>3. CASE p.id \in DOMAIN incoming /\ DataMismatched(p)
    <2>1. /\ incoming' = [incoming EXCEPT ![p.id] = Entry(p)]
          /\ UNCHANGED <<bufSize, used, completed, packs, pnacks, highest,
                         delivered>>
      BY <1>3 DEF DataMismatched
    <2>2. Entry(p) = [incoming[p.id] EXCEPT
                        !.prio = IF p.idx = 0
                                 THEN CalculatePriority(p, incoming[p.id].reserved)
                                 ELSE incoming[p.id].prio]
      BY <1>3 DEF Entry
    <2>3. Entry(p) \in Reassembler /\ incoming[p.id] \in Reassembler
      BY <1>3, EntryType DEF ReceiverInv, ReceiverTypeOK
    <2>4. /\ Entry(p).reserved = incoming[p.id].reserved
          /\ Entry(p).size = incoming[p.id].size
          /\ Entry(p).got = incoming[p.id].got
      BY <2>2, <2>3 DEF Reassembler
    <2>5. /\ DOMAIN incoming' = DOMAIN incoming
          /\ \A m \in DOMAIN incoming :
               /\ incoming'[m] \in Reassembler
               /\ incoming'[m].reserved = incoming[m].reserved
               /\ incoming'[m].size = incoming[m].size
               /\ incoming'[m].got = incoming[m].got
      BY <2>1, <2>3, <2>4 DEF ReceiverInv, ReceiverTypeOK
    <2>6. [m \in DOMAIN incoming' |-> incoming'[m].reserved]
            = [m \in DOMAIN incoming |-> incoming[m].reserved]
      BY <2>5
    <2>7. ReservationExact'
      BY <2>1, <2>6 DEF ReceiverInv, ReservationExact, Reserved
    <2>8. Accounts'
      BY <1>1, <2>1, <2>5, <2>7 DEF Accounts, ReceiverInv, ReceiverTypeOK,
        QuotaExact, SessionBounded, ReservedCoversStored
    <2>9. Tables'
      BY <1>1, <2>1 DEF Tables
    <2> QED
      BY <2>8, <2>9, InvJoin
  <1>4. CASE DataRefused(p)
    <2>1. Accounts' /\ highest' \in MessageIds \union {-1}
      BY <1>1, <1>4, Dropped DEF DataRefused, Admitted
    <2>2. UNCHANGED <<completed, packs, pnacks, delivered>>
      BY <1>4 DEF DataRefused
    <2>3. Tables'
      BY <1>1, <2>1, <2>2 DEF Tables
    <2> QED
      BY <2>1, <2>3, InvJoin
  <1>5. DOMAIN PendingNacksAfter(p) \subseteq MessageIds
    BY <1>1 DEF PendingNacksAfter, With, Tables
  <1>6. CASE GrowthRefused(p)
    <2>1. Accounts' /\ highest' \in MessageIds \union {-1}
      BY <1>1, <1>6, Dropped DEF GrowthRefused, Admitted
    <2>2. pnacks' = PendingNacksAfter(p) /\ UNCHANGED <<completed, packs, delivered>>
      BY <1>6 DEF GrowthRefused
    <2>3. Tables'
      BY <1>1, <1>5, <2>1, <2>2 DEF Tables
    <2> QED
      BY <2>1, <2>3, InvJoin
  <1>7. CASE FragmentStored(p)
    <2>1. Accounts' /\ highest' \in MessageIds \union {-1}
      BY <1>1, <1>7, Stored
    <2>2. /\ pnacks' = PendingNacksAfter(p) /\ UNCHANGED <<completed, delivered>>
          /\ DOMAIN packs' = DOMAIN packs \union {p.id}
      BY <1>7 DEF FragmentStored, With
    <2>3. Tables'
      BY <1>1, <1>5, <2>1, <2>2 DEF Tables
    <2> QED
      BY <2>1, <2>3, InvJoin
  <1>8. CASE MessageComplete(p)
    <2>1. Accounts' /\ highest' \in MessageIds \union {-1}
      BY <1>1, <1>8, Dropped DEF MessageComplete, Admitted
    <2>2. /\ DOMAIN pnacks' = DOMAIN pnacks \ {p.id}
          /\ DOMAIN packs' = DOMAIN packs \union {p.id}
      BY <1>8 DEF MessageComplete, With, Without
    <2>3. delivered' \in [MessageIds -> Nat]
      <3>1. delivered \in [MessageIds -> Nat]
        BY <1>1 DEF Tables
      <3>2. \/ delivered' = delivered
            \/ delivered' = [delivered EXCEPT ![p.id] = delivered[p.id] + 1]
        BY <1>8 DEF MessageComplete
      <3> QED
        BY <1>1, <3>1, <3>2
    <2>4. completed' \in Seq([id : MessageIds, total : Nat, at : Nat])
      <3> DEFINE T == [id : MessageIds, total : Nat, at : Nat]
                 e == [id |-> p.id, total |-> p.total, at |-> clock]
                 c == Append(completed, e)
      <3>1. e \in T /\ completed \in Seq(T)
        BY <1>1 DEF Tables
      <3>2. completed' = c \/ completed' = Tail(c)
        BY <1>8 DEF MessageComplete
      <3> HIDE DEF e, T
      <3>3. c \in Seq(T) /\ c # <<>>
        <4>1. c \in Seq(T) /\ Len(c) = Len(completed) + 1 /\ Len(completed) \in Nat
          BY <3>1
        <4> HIDE DEF c
        <4> QED
          BY <4>1
      <3>4. Tail(c) \in Seq(T)
        BY <3>3
      <3>5. completed' \in Seq(T)
        BY <3>2, <3>3, <3>4, Zenon
      <3> QED
        BY <3>5 DEF T
    <2>5. Tables'
      BY <1>1, <2>1, <2>2, <2>3, <2>4 DEF Tables
    <2> QED
      BY <2>1, <2>5, InvJoin
  <1> QED
    BY <1>2, <1>3, <1>4, <1>6, <1>7, <1>8 DEF HandleData

(* cleanup gives back what idle reassemblies have reserved.               *)
LEMMA CleanupInv ==
  ASSUME ReceiverInv, ReceiverCleanup
  PROVE  ReceiverInv'
  <1> DEFINE I == IdleReassemblies
             K == DOMAIN incoming \ I
             f == [m \in DOMAIN incoming |-> incoming[m].reserved]
             g == [m \in I |-> incoming[m].reserved]
             h == [m \in K |-> incoming[m].reserved]
  <1>1. /\ incoming' = [m \in K |-> incoming[m]]
        /\ bufSize' = bufSize - Reserved(I)
        /\ used' = Saturating(used - Reserved(I))
        /\ completed' = Retain(completed, {c \in Entries(completed) : Young(c)})
        /\ UNCHANGED <<others, packs, pnacks, highest, delivered, clock>>
    BY DEF ReceiverCleanup
  <1>2. /\ DOMAIN incoming = I \union K /\ I \cap K = {}
        /\ I \subseteq MessageIds /\ K \subseteq MessageIds
    BY Zenon DEF IdleReassemblies, ReceiverInv, ReceiverTypeOK
  <1>3. \A m \in DOMAIN incoming : incoming[m].reserved \in Nat
    BY DEF ReceiverInv, ReceiverTypeOK, Reassembler
  <1>4. f \in [I \union K -> Nat] /\ g \in [I -> Nat] /\ h \in [K -> Nat]
    BY <1>2, <1>3
  <1>5. IsFiniteSet(I) /\ IsFiniteSet(K)
    BY <1>2, IncomingFinite
  <1>6. g = [m \in I |-> f[m]] /\ h = [m \in K |-> f[m]]
    BY <1>2
  <1>7. Reserved(DOMAIN incoming) = Total(f) /\ Reserved(I) = Total(g)
    BY DEF Reserved
  <1>8. Reserved(DOMAIN incoming)' = Total(h)
    <2>1. [m \in DOMAIN incoming' |-> incoming'[m].reserved] = h
      BY <1>1
    <2> QED
      BY <2>1 DEF Reserved
  <1> HIDE DEF f, g, h, I, K
  <1>9. Total(f) = Total(g) + Total(h) /\ Total(g) \in Nat /\ Total(h) \in Nat
    BY <1>2, <1>4, <1>5, <1>6, TotalSplit, TotalType
  <1>10. /\ bufSize \in Nat /\ others \in Nat /\ used = bufSize + others
         /\ bufSize = Total(f) /\ used <= QuotaMax /\ bufSize <= MaxPerSession
    BY <1>7 DEF ReceiverInv, ReceiverTypeOK, QuotaExact, ReservationExact,
                SessionBounded
  <1>11. bufSize' = Total(h) /\ used' = Total(h) + others
    BY <1>1, <1>7, <1>9, <1>10 DEF Saturating
  <1>12. ReservationExact' /\ bufSize' \in Nat /\ used' \in Nat
    BY <1>8, <1>9, <1>10, <1>11 DEF ReservationExact
  <1>13. QuotaExact' /\ SessionBounded'
    BY <1>1, <1>9, <1>10, <1>11, ReceiverConstants DEF QuotaExact, SessionBounded
  <1>14. /\ DOMAIN incoming' = K
         /\ \A m \in K : incoming'[m] = incoming[m] /\ m \in DOMAIN incoming
    BY <1>1 DEF K
  <1>15. Accounts'
    BY <1>2, <1>12, <1>13, <1>14
    DEF Accounts, ReceiverInv, ReceiverTypeOK, ReservedCoversStored
  <1>16. completed' \in Seq([id : MessageIds, total : Nat, at : Nat])
    BY <1>1, RetainEntries DEF ReceiverInv, ReceiverTypeOK
  <1>17. Tables'
    BY <1>1, <1>16 DEF Tables, ReceiverInv, ReceiverTypeOK
  <1> QED
    BY <1>15, <1>17, InvJoin

(* Nothing is reserved in a session without reassemblers.                 *)
LEMMA ReservedNothing ==
  ASSUME NEW fn, DOMAIN fn = {}
  PROVE  Total([m \in DOMAIN fn |-> fn[m].reserved]) = 0
  BY TotalEmpty

(* Drop.                                                                  *)
LEMMA SessionDropInv ==
  ASSUME ReceiverInv, SessionDrop
  PROVE  ReceiverInv'
  <1>1. /\ used' = Saturating(used - bufSize)
        /\ incoming' = <<>> /\ bufSize' = 0 /\ completed' = <<>>
        /\ packs' = <<>> /\ pnacks' = <<>> /\ highest' = -1
        /\ delivered' = [m \in MessageIds |-> 0]
        /\ UNCHANGED <<others, clock>>
    BY DEF SessionDrop
  <1>2. DOMAIN incoming' = {} /\ DOMAIN packs' = {} /\ DOMAIN pnacks' = {}
    BY <1>1
  <1>3. /\ bufSize \in Nat /\ others \in Nat /\ used = bufSize + others
        /\ used <= QuotaMax /\ clock \in Nat
    BY DEF ReceiverInv, ReceiverTypeOK, QuotaExact
  <1>4. used' = others
    BY <1>1, <1>3 DEF Saturating
  <1>5. ReservationExact'
    BY <1>1, <1>2, ReservedNothing, Zenon DEF ReservationExact, Reserved
  <1>6. QuotaExact' /\ SessionBounded'
    BY <1>1, <1>3, <1>4, ReceiverConstants DEF QuotaExact, SessionBounded
  <1>7. Accounts'
    BY <1>1, <1>2, <1>3, <1>4, <1>5, <1>6 DEF Accounts, ReservedCoversStored
  <1>8. Tables'
    BY <1>1, <1>2, <1>3 DEF Tables
  <1> QED
    BY <1>7, <1>8, InvJoin

(* The other sessions.                                                    *)
LEMMA OthersInv ==
  ASSUME ReceiverInv, NEW n \in OtherSizes, OthersReserve(n) \/ OthersRelease(n)
  PROVE  ReceiverInv'
  <1>1. UNCHANGED <<incoming, bufSize, completed, packs, pnacks, highest,
                    delivered, clock>>
    BY DEF OthersReserve, OthersRelease
  <1>2. /\ bufSize \in Nat /\ others \in Nat /\ used = bufSize + others
        /\ used <= QuotaMax /\ n \in Nat /\ QuotaMax \in Nat
    BY ReceiverConstants DEF ReceiverInv, ReceiverTypeOK, QuotaExact
  <1>3. /\ others' \in Nat /\ used' \in Nat /\ used' = bufSize + others'
        /\ used' <= QuotaMax
    BY <1>2 DEF OthersReserve, OthersRelease, Saturating
  <1>4. ReservationExact' /\ QuotaExact' /\ SessionBounded' /\ ReservedCoversStored'
    BY <1>1, <1>3 DEF ReceiverInv, ReservationExact, QuotaExact, SessionBounded,
                      ReservedCoversStored, Reserved
  <1>5. Accounts'
    BY <1>1, <1>3, <1>4, Zenon DEF Accounts, ReceiverInv, ReceiverTypeOK
  <1>6. Tables'
    BY <1>1, <1>3 DEF Tables, ReceiverInv, ReceiverTypeOK
  <1> QED
    BY <1>5, <1>6, InvJoin

(* Flushing acknowledgements.                                             *)
LEMMA FlushInv ==
  ASSUME ReceiverInv, NEW A, NEW N, FlushPending(A, N)
  PROVE  ReceiverInv'
  <1>1. /\ DOMAIN packs' \subseteq DOMAIN packs
        /\ DOMAIN pnacks' \subseteq DOMAIN pnacks
        /\ UNCHANGED <<incoming, bufSize, used, others, completed, highest,
                       delivered, clock>>
    BY DEF FlushPending
  <1>2. Accounts'
    BY <1>1, AccountsKept
  <1>3. Tables'
    BY <1>1, InvSplit DEF Tables
  <1> QED
    BY <1>2, <1>3, InvJoin

(* Time.                                                                  *)
LEMMA ReceiverTickInv ==
  ASSUME ReceiverInv, ReceiverTick
  PROVE  ReceiverInv'
  <1>1. UNCHANGED <<incoming, bufSize, used, others, completed, packs, pnacks,
                    highest, delivered>>
    BY DEF ReceiverTick
  <1>2. clock' \in Nat
    BY DEF ReceiverTick, ReceiverInv, ReceiverTypeOK
  <1>3. Accounts'
    BY <1>1, AccountsKept
  <1>4. Tables'
    BY <1>1, <1>2, InvSplit DEF Tables
  <1> QED
    BY <1>3, <1>4, InvJoin

(* A new session.                                                         *)
LEMMA ReceiverInitInv == ReceiverInit => ReceiverInv
  <1> SUFFICES ASSUME ReceiverInit PROVE ReceiverInv
    OBVIOUS
  <1>1. DOMAIN incoming = {} /\ DOMAIN packs = {} /\ DOMAIN pnacks = {}
    BY DEF ReceiverInit
  <1>2. ReservationExact
    BY <1>1, ReservedNothing, Zenon DEF ReservationExact, Reserved, ReceiverInit
  <1>3. QuotaExact /\ SessionBounded /\ ReservedCoversStored
    BY <1>1, ReceiverConstants
    DEF ReceiverInit, QuotaExact, SessionBounded, ReservedCoversStored
  <1>4. ReceiverTypeOK
    BY <1>1 DEF ReceiverInit, ReceiverTypeOK
  <1> QED
    BY <1>2, <1>3, <1>4 DEF ReceiverInv

(* Every step preserves the invariant.                                    *)
LEMMA ReceiverNextInv == ReceiverInv /\ [ReceiverNext]_receiverVars => ReceiverInv'
  <1> SUFFICES ASSUME ReceiverInv, [ReceiverNext]_receiverVars PROVE ReceiverInv'
    OBVIOUS
  <1>1. CASE UNCHANGED receiverVars
    <2>1. UNCHANGED <<incoming, bufSize, used, others, completed, packs, pnacks,
                      highest, delivered, clock>>
      BY <1>1 DEF receiverVars
    <2>2. Accounts'
      BY <2>1, AccountsKept
    <2>3. Tables'
      BY <2>1, InvSplit DEF Tables
    <2> QED
      BY <2>2, <2>3, InvJoin
  <1>2. CASE \E p \in Packets : HandleData(p)
    BY <1>2, HandleDataInv
  <1>3. CASE ReceiverStep
    BY <1>3, FlushInv, CleanupInv, OthersInv DEF ReceiverStep
  <1>4. CASE SessionDrop \/ ReceiverTick
    BY <1>4, SessionDropInv, ReceiverTickInv
  <1> QED
    BY <1>1, <1>2, <1>3, <1>4 DEF ReceiverNext

(***************************************************************************)
(* Acknowledgements.  No message is both being reassembled and completed,  *)
(* so a pending ACK describes the one table entry there is.                *)
(***************************************************************************)
AckInv ==
  /\ \A c \in Entries(completed) : c.id \notin DOMAIN incoming
  /\ EveryFragmentAcked

(* Sending only adds to what is claimed.                                  *)
LEMMA EmitClaims ==
  ASSUME NEW A, NEW N, Emit(A, N), NEW m \in MessageIds
  PROVE  /\ claimed[m] \subseteq claimed'[m]
         /\ \A a \in A : a.id = m =>
              0..(a.base - 1) \subseteq claimed'[m] /\ a.mask \subseteq claimed'[m]
  <1>1. claimed'[m] = claimed[m] \union
          UNION {(0..(a.base - 1)) \union a.mask : a \in {b \in A : b.id = m}}
    BY DEF Emit
  <1>2. claimed[m] \subseteq claimed'[m]
    BY <1>1
  <1>3. ASSUME NEW a \in A, a.id = m
        PROVE  0..(a.base - 1) \subseteq claimed'[m] /\ a.mask \subseteq claimed'[m]
    <2> DEFINE U == {(0..(x.base - 1)) \union x.mask : x \in {b \in A : b.id = m}}
    <2>1. (0..(a.base - 1)) \union a.mask \in U
      BY <1>3
    <2>2. claimed'[m] = claimed[m] \union UNION U
      BY <1>1
    <2> HIDE DEF U
    <2>3. (0..(a.base - 1)) \union a.mask \subseteq claimed'[m]
      BY <2>1, <2>2
    <2> QED
      BY <2>3
  <1> QED
    BY <1>2, <1>3

(* The first missing fragment exists.                                     *)
LEMMA BaseMissing ==
  ASSUME NEW r \in Reassembler
  PROVE  /\ BaseIndex(r) \in 0..r.total /\ BaseIndex(r) \notin r.got
         /\ \A f \in 0..(BaseIndex(r) - 1) : f \in r.got
  <1> DEFINE S == (0..r.total) \ r.got
  <1>1. r.total \in Nat \ {0} /\ r.got \subseteq 0..(r.total - 1)
    BY DEF Reassembler
  <1>2. r.total \in S /\ S \in SUBSET Nat
    BY <1>1
  <1>3. 0 \in Int /\ r.total \in Int
    BY <1>1
  <1>4. IsFiniteSet(S)
    <2>1. IsFiniteSet(0..r.total)
      BY <1>3, FS_Interval
    <2> QED
      BY <2>1, FS_Subset, Zenon
  <1>5. PICK b \in S : \A j \in S : b <= j
    BY <1>2, <1>4, LeastElement
  <1>6. b \in 0..r.total /\ b \notin r.got /\ \A f \in 0..(b - 1) : f \in r.got
    BY <1>1, <1>5
  <1> QED
    BY <1>6, Zenon DEF BaseIndex

(* The entries of the completed cache.                                    *)
LEMMA CompletedType ==
  ASSUME ReceiverInv, NEW c \in Entries(completed)
  PROVE  c.id \in MessageIds /\ c.total \in Nat
  <1> DEFINE T == [id : MessageIds, total : Nat, at : Nat]
  <1>1. completed \in Seq(T)
    BY DEF ReceiverInv, ReceiverTypeOK
  <1> HIDE DEF T
  <1>2. \A i \in DOMAIN completed : completed[i] \in T
    BY <1>1
  <1>3. c \in T
    BY <1>2 DEF Entries
  <1> QED
    BY <1>3 DEF T

(* A step that only adds to pending_acks and to the claims: every         *)
(* reassembler and every completed message it does not put there is one   *)
(* the session had before.                                                *)
LEMMA AckKept ==
  ASSUME ReceiverInv, AckInv,
         DOMAIN packs \subseteq DOMAIN packs',
         \A m \in MessageIds : claimed[m] \subseteq claimed'[m],
         \A m \in DOMAIN incoming' :
           \/ m \in DOMAIN packs'
           \/ /\ m \in DOMAIN incoming
              /\ incoming'[m].got = incoming[m].got
              /\ incoming'[m].total = incoming[m].total,
         \A i \in DOMAIN completed' :
           completed'[i].id \in DOMAIN packs' \/ completed'[i] \in Entries(completed)
  PROVE  EveryFragmentAcked'
  <1>1. ASSUME NEW m \in DOMAIN incoming', m \notin DOMAIN packs'
        PROVE  \A f \in incoming'[m].got :
                 f \in claimed'[m] \/ f > BaseIndex(incoming'[m]) + SackBits
    <2>1. /\ m \in DOMAIN incoming /\ m \in MessageIds /\ m \notin DOMAIN packs
          /\ incoming'[m].got = incoming[m].got
          /\ incoming'[m].total = incoming[m].total
      BY <1>1 DEF ReceiverInv, ReceiverTypeOK
    <2>2. BaseIndex(incoming'[m]) = BaseIndex(incoming[m])
      BY <2>1 DEF BaseIndex
    <2>3. \A f \in incoming[m].got :
            f \in claimed[m] \/ f > BaseIndex(incoming[m]) + SackBits
      BY <2>1 DEF AckInv, EveryFragmentAcked
    <2> QED
      BY <2>1, <2>2, <2>3
  <1>2. ASSUME NEW i \in DOMAIN completed', completed'[i].id \notin DOMAIN packs'
        PROVE  0..(completed'[i].total - 1) \subseteq claimed'[completed'[i].id]
    <2>1. PICK j \in DOMAIN completed : completed'[i] = completed[j]
      BY <1>2 DEF Entries
    <2>2. completed[j].id \in MessageIds /\ completed[j].id \notin DOMAIN packs
      BY <1>2, <2>1, CompletedType DEF Entries
    <2>3. 0..(completed[j].total - 1) \subseteq claimed[completed[j].id]
      BY <2>2 DEF AckInv, EveryFragmentAcked
    <2> QED
      BY <2>1, <2>2, <2>3
  <1> QED
    BY <1>1, <1>2, Zenon DEF EveryFragmentAcked

(* The fields of Entry that the acknowledgements depend on.               *)
LEMMA EntryKeeps ==
  ASSUME ReceiverInv, NEW p \in Packets, p.id \in DOMAIN incoming
  PROVE  Entry(p).got = incoming[p.id].got /\ Entry(p).total = incoming[p.id].total
  <1>1. incoming[p.id] \in Reassembler
    BY DEF ReceiverInv, ReceiverTypeOK
  <1>2. Entry(p) = [incoming[p.id] EXCEPT
                      !.prio = IF p.idx = 0
                               THEN CalculatePriority(p, incoming[p.id].reserved)
                               ELSE incoming[p.id].prio]
    BY DEF Entry
  <1> QED
    BY <1>1, <1>2 DEF Reassembler

(* handle_data_packet.                                                    *)
LEMMA HandleDataAcks ==
  ASSUME ReceiverInv, AckInv, NEW p \in Packets, HandleData(p)
  PROVE  AckInv'
  <1>1. p.id \in MessageIds
    BY PacketFields
  <1>2. \A m \in MessageIds : claimed[m] \subseteq claimed'[m]
    BY EmitClaims, Zenon
    DEF HandleData, DataOfCompleted, DataMismatched, DataRejected, DataRefused,
        GrowthRefused, FragmentStored, MessageComplete
  <1>3. CASE DataOfCompleted(p) \/ DataRejected(p)
    <2>1. UNCHANGED <<incoming, completed, packs>>
      BY <1>3 DEF DataOfCompleted, DataRejected
    <2> QED
      BY <1>2, <2>1, AckKept, SMTT(20) DEF AckInv, Entries
  <1>4. CASE p.id \in DOMAIN incoming /\ DataMismatched(p)
    <2>1. /\ incoming' = [incoming EXCEPT ![p.id] = Entry(p)]
          /\ UNCHANGED <<completed, packs>>
      BY <1>4 DEF DataMismatched
    <2>2. /\ DOMAIN incoming' = DOMAIN incoming
          /\ \A m \in DOMAIN incoming :
               incoming'[m].got = incoming[m].got /\ incoming'[m].total = incoming[m].total
      BY <1>4, <2>1, EntryKeeps
    <2> QED
      BY <1>2, <2>1, <2>2, AckKept DEF AckInv, Entries
  <1>5. CASE DataRefused(p) \/ GrowthRefused(p)
    <2>1. incoming' = Without(incoming, p.id) /\ UNCHANGED <<completed, packs>>
      BY <1>5 DEF DataRefused, GrowthRefused, DropReassembler
    <2>2. /\ DOMAIN incoming' \subseteq DOMAIN incoming
          /\ \A m \in DOMAIN incoming' : incoming'[m] = incoming[m]
      BY <2>1 DEF Without
    <2> QED
      BY <1>2, <2>1, <2>2, AckKept, Zenon DEF AckInv, Entries
  <1>6. CASE p.id \notin CompletedIds /\ FragmentStored(p)
    <2>1. /\ DOMAIN incoming' = DOMAIN incoming \union {p.id}
          /\ \A m \in DOMAIN incoming' : m # p.id => incoming'[m] = incoming[m]
          /\ DOMAIN packs' = DOMAIN packs \union {p.id}
          /\ completed' = completed
      BY <1>6 DEF FragmentStored, With
    <2>2. \A c \in Entries(completed) : c.id # p.id
      BY <1>6 DEF CompletedIds, Entries
    <2>3. EveryFragmentAcked'
      BY <1>2, <2>1, AckKept, Zenon DEF Entries
    <2> QED
      BY <2>1, <2>2, <2>3, Zenon DEF AckInv, Entries
  <1>7. CASE MessageComplete(p)
    <2> DEFINE T == [id : MessageIds, total : Nat, at : Nat]
               e == [id |-> p.id, total |-> p.total, at |-> clock]
    <2>1. /\ DOMAIN incoming' = DOMAIN incoming \ {p.id}
          /\ \A m \in DOMAIN incoming' : incoming'[m] = incoming[m]
          /\ DOMAIN packs' = DOMAIN packs \union {p.id}
      BY <1>7, Zenon DEF MessageComplete, DropReassembler, With, Without
    <2>2. completed' = Append(completed, e) \/ completed' = Tail(Append(completed, e))
      BY <1>7 DEF MessageComplete
    <2>3. e \in T /\ completed \in Seq(T) /\ e.id = p.id
      BY <1>1, PacketFields DEF ReceiverInv, ReceiverTypeOK
    <2> HIDE DEF e, T
    <2>4. Entries(completed') \subseteq Entries(completed) \union {e}
      <3> DEFINE c == Append(completed, e)
      <3>1. c \in Seq(T) /\ Entries(c) = Entries(completed) \union {e}
        BY <2>3, AppendEntries
      <3>2. c # <<>>
        BY <2>3
      <3>3. completed' = c \/ completed' = Tail(c)
        BY <2>2
      <3> HIDE DEF c
      <3>4. Entries(c) = Entries(Tail(c)) \union {Head(c)}
        BY <3>1, <3>2, TailEntries
      <3> QED
        BY <3>1, <3>3, <3>4, Zenon
    <2>5. \A i \in DOMAIN completed' : completed'[i] \in Entries(completed) \union {e}
      BY <2>4 DEF Entries
    <2>6. EveryFragmentAcked'
      BY <1>2, <2>1, <2>3, <2>5, AckKept
    <2>7. \A c \in Entries(completed') : c.id \notin DOMAIN incoming'
      BY <2>1, <2>3, <2>4 DEF AckInv
    <2> QED
      BY <2>6, <2>7, Zenon DEF AckInv
  <1> QED
    BY <1>3, <1>4, <1>5, <1>6, <1>7 DEF HandleData

(* An ACK sent for a message settles its fragments within the bitmask.    *)
LEMMA FlushAcks ==
  ASSUME ReceiverInv, AckInv, NEW A, NEW N, FlushPending(A, N)
  PROVE  AckInv'
  <1> DEFINE E == UNION {PendingAck(m) : m \in A}
  <1>1. /\ DOMAIN packs' = DOMAIN packs \ A
        /\ UNCHANGED <<incoming, completed>>
        /\ Emit(E, UNION {PendingNack(m) : m \in N})
    BY DEF FlushPending
  <1>2. ASSUME NEW m \in DOMAIN incoming, m \in A
        PROVE  \A f \in incoming[m].got :
                 f \in claimed'[m] \/ f > BaseIndex(incoming[m]) + SackBits
    <2> DEFINE r == incoming[m]
               a == AckOf(m, r, CurrentRwnd(incoming, used))
    <2>1. r \in Reassembler /\ m \in MessageIds
      BY DEF ReceiverInv, ReceiverTypeOK
    <2>2. a \in PendingAck(m)
      BY DEF PendingAck
    <2>3. a \in E
      BY <1>2, <2>2, SMTT(20)
    <2>4. /\ a.id = m /\ a.base = BaseIndex(r)
          /\ a.mask = {f \in r.got : BaseIndex(r) < f /\ f <= BaseIndex(r) + SackBits}
      BY DEF AckOf
    <2> HIDE DEF a, E
    <2>5. 0..(BaseIndex(r) - 1) \subseteq claimed'[m] /\ a.mask \subseteq claimed'[m]
      BY <1>1, <2>1, <2>3, <2>4, EmitClaims, Zenon
    <2>6. /\ BaseIndex(r) \in Nat /\ BaseIndex(r) \notin r.got
          /\ \A f \in r.got : f \in Nat
          /\ SackBits \in Nat
      <3>1. /\ BaseIndex(r) \in 0..r.total /\ BaseIndex(r) \notin r.got
            /\ r.total \in Nat /\ r.got \subseteq Nat
        BY <2>1, BaseMissing DEF Reassembler
      <3>2. SackBits \in Nat
        BY ReceiverAssumption
      <3> HIDE DEF r
      <3> QED
        BY <3>1, <3>2
    <2>7. ASSUME NEW f \in r.got
          PROVE  \/ f \in 0..(BaseIndex(r) - 1) \/ f > BaseIndex(r) + SackBits
                 \/ BaseIndex(r) < f /\ f <= BaseIndex(r) + SackBits
      BY <2>6
    <2> QED
      BY <2>4, <2>5, <2>7
  <1>3. ASSUME NEW i \in DOMAIN completed, completed[i].id \in A
        PROVE  0..(completed[i].total - 1) \subseteq claimed'[completed[i].id]
    <2> DEFINE m == completed[i].id
               a == [id |-> m, base |-> completed[i].total, mask |-> {},
                     rwnd |-> CurrentRwnd(incoming, used)]
    <2>1. m \in MessageIds /\ m \notin DOMAIN incoming
      BY CompletedType DEF Entries, AckInv
    <2>2. a \in PendingAck(m)
      BY <2>1, Zenon DEF PendingAck
    <2>3. a \in E
      BY <1>3, <2>2, Zenon
    <2>4. a.id = m /\ a.base = completed[i].total
      OBVIOUS
    <2> HIDE DEF a, E
    <2> QED
      BY <1>1, <2>1, <2>3, <2>4, EmitClaims, Zenon
  <1>4. \A m \in MessageIds : claimed[m] \subseteq claimed'[m]
    BY <1>1, EmitClaims
  <1>5. ASSUME NEW m \in DOMAIN incoming, m \notin DOMAIN packs'
        PROVE  \A f \in incoming[m].got :
                 f \in claimed'[m] \/ f > BaseIndex(incoming[m]) + SackBits
    <2>1. CASE m \in A
      BY <1>2, <2>1
    <2>2. CASE m \notin A
      <3>1. m \notin DOMAIN packs /\ m \in MessageIds
        BY <1>1, <1>5, <2>2 DEF ReceiverInv, ReceiverTypeOK
      <3> QED
        BY <1>4, <3>1 DEF AckInv, EveryFragmentAcked
    <2> QED
      BY <2>1, <2>2
  <1>6. ASSUME NEW i \in DOMAIN completed, completed[i].id \notin DOMAIN packs'
        PROVE  0..(completed[i].total - 1) \subseteq claimed'[completed[i].id]
    <2>1. CASE completed[i].id \in A
      BY <1>3, <2>1
    <2>2. CASE completed[i].id \notin A
      <3>1. completed[i].id \notin DOMAIN packs /\ completed[i].id \in MessageIds
        BY <1>1, <1>6, <2>2, CompletedType DEF Entries
      <3> QED
        BY <1>4, <3>1 DEF AckInv, EveryFragmentAcked
    <2> QED
      BY <2>1, <2>2
  <1>7. EveryFragmentAcked'
    BY <1>1, <1>5, <1>6, Zenon DEF EveryFragmentAcked
  <1> QED
    BY <1>1, <1>7 DEF AckInv, Entries

(* Every step preserves the acknowledgements' invariant.                  *)
LEMMA ReceiverNextAcks ==
  ReceiverInv /\ AckInv /\ [ReceiverNext]_receiverVars => AckInv'
  <1> SUFFICES ASSUME ReceiverInv, AckInv, [ReceiverNext]_receiverVars
               PROVE  AckInv'
    OBVIOUS
  <1>1. CASE UNCHANGED receiverVars
    <2>1. UNCHANGED <<incoming, completed, packs, claimed>>
      BY <1>1 DEF receiverVars
    <2> QED
      BY <2>1 DEF AckInv, EveryFragmentAcked, Entries
  <1>2. CASE \E p \in Packets : HandleData(p)
    BY <1>2, HandleDataAcks
  <1>3. CASE \E A \in SUBSET DOMAIN packs, N \in SUBSET DOMAIN pnacks : FlushPending(A, N)
    BY <1>3, FlushAcks
  <1>4. CASE ReceiverCleanup
    <2>1. /\ incoming' = [m \in DOMAIN incoming \ IdleReassemblies |-> incoming[m]]
          /\ completed' = Retain(completed, {c \in Entries(completed) : Young(c)})
          /\ packs' = packs
      BY <1>4 DEF ReceiverCleanup
    <2>2. \A m \in MessageIds : claimed[m] \subseteq claimed'[m]
      BY <1>4, EmitClaims DEF ReceiverCleanup
    <2>3. Entries(completed') \subseteq Entries(completed)
      BY <2>1, RetainEntries DEF ReceiverInv, ReceiverTypeOK
    <2>4. \A i \in DOMAIN completed' : completed'[i] \in Entries(completed)
      BY <2>3 DEF Entries
    <2>5. EveryFragmentAcked'
      BY <2>1, <2>2, <2>4, AckKept
    <2> QED
      BY <2>1, <2>3, <2>5 DEF AckInv
  <1>5. CASE \/ \E n \in OtherSizes : OthersReserve(n) \/ OthersRelease(n)
             \/ ReceiverTick
    <2>1. UNCHANGED <<incoming, completed, packs>>
      BY <1>5 DEF OthersReserve, OthersRelease, ReceiverTick
    <2>2. \A m \in MessageIds : claimed[m] \subseteq claimed'[m]
      BY <1>5, EmitClaims DEF OthersReserve, OthersRelease, ReceiverTick
    <2> QED
      BY <2>1, <2>2, AckKept DEF AckInv, Entries
  <1>6. CASE SessionDrop
    <2>1. DOMAIN incoming' = {} /\ DOMAIN completed' = {}
      BY <1>6 DEF SessionDrop
    <2> QED
      BY <2>1 DEF AckInv, EveryFragmentAcked, Entries
  <1> QED
    BY <1>1, <1>2, <1>3, <1>4, <1>5, <1>6 DEF ReceiverNext, ReceiverStep

(* The receiving half of session.rs keeps its books: types, exact         *)
(* reservations, the session's and the quota's limits, stored data        *)
(* covered by reservations.                                               *)
THEOREM ReceiverInvariant == ReceiverSpec => []ReceiverInv
  BY ReceiverInitInv, ReceiverNextInv, PTL DEF ReceiverSpec

(* incoming_buffer_size is the sum of the live reservations: no path of   *)
(* session.rs through creation, growth, completion, refusal, timeout or   *)
(* drop leaks or gives back too much.                                     *)
THEOREM ReceiverReservations == ReceiverSpec => []ReservationExact
  <1>1. ReceiverInv => ReservationExact
    BY DEF ReceiverInv
  <1> QED
    BY <1>1, ReceiverInvariant, PTL

(* The quota counts this session's bytes and the others', and stays below *)
(* its hard maximum.                                                      *)
THEOREM ReceiverQuota == ReceiverSpec => []QuotaExact
  <1>1. ReceiverInv => QuotaExact
    BY DEF ReceiverInv
  <1> QED
    BY <1>1, ReceiverInvariant, PTL

(* One session never reserves more than max_per_session.                  *)
THEOREM ReceiverBounded == ReceiverSpec => []SessionBounded
  <1>1. ReceiverInv => SessionBounded
    BY DEF ReceiverInv
  <1> QED
    BY <1>1, ReceiverInvariant, PTL

(* What a reassembler stores is covered by what it reserved.              *)
THEOREM ReceiverCovered == ReceiverSpec => []ReservedCoversStored
  <1>1. ReceiverInv => ReservedCoversStored
    BY DEF ReceiverInv
  <1> QED
    BY <1>1, ReceiverInvariant, PTL

(* Every fragment that session.rs has received is claimed by an ACK sent, *)
(* is about to be, or lies beyond what one ACK can name, for every width  *)
(* of the bitmask and however packets are refused, repeated or delayed.   *)
THEOREM ReceiverAcks == ReceiverSpec => []EveryFragmentAcked
  <1>1. ReceiverInit => AckInv
    <2> SUFFICES ASSUME ReceiverInit PROVE AckInv
      OBVIOUS
    <2>1. DOMAIN incoming = {} /\ DOMAIN completed = {}
      BY DEF ReceiverInit
    <2> QED
      BY <2>1 DEF AckInv, EveryFragmentAcked, Entries
  <1>2. AckInv => EveryFragmentAcked
    BY DEF AckInv
  <1> QED
    BY <1>1, <1>2, ReceiverInvariant, ReceiverNextAcks, PTL DEF ReceiverSpec
=============================================================================
