------------------------ MODULE SequenceSenderProof -------------------------
(***************************************************************************)
(* The sending half of a session never loses track of a fragment: the      *)
(* bytes in flight are counted exactly, the queues agree with the state of *)
(* the fragments and no fragment that was sent is forgotten, for every     *)
(* message length, fragment size and window.                               *)
(***************************************************************************)
EXTENDS SequenceSender, CollectionsProof

(* A record with the fields of an OutgoingMessage.                        *)
IsMessage(msg) ==
  msg = [len |-> msg.len, acked |-> msg.acked, hca |-> msg.hca,
         next |-> msg.next, rtxq |-> msg.rtxq, rtxset |-> msg.rtxset,
         ifq |-> msg.ifq, lastSent |-> msg.lastSent, ever |-> msg.ever,
         backoff |-> msg.backoff, lastAck |-> msg.lastAck, dup |-> msg.dup,
         lastBase |-> msg.lastBase, hsta |-> msg.hsta]

(* The fragments that have been sent at least once: they go out in order. *)
Started(msg) == 0..(msg.next - 1)

MessageTypeOK(msg) ==
  /\ IsMessage(msg)
  /\ msg.len \in Nat \ {0}
  /\ msg.next \in 0..NumFragments(msg.len)
  /\ msg.hca \in 0..msg.next
  /\ msg.rtxq \in Seq(Nat)
  /\ msg.ifq \in Seq(Nat \X Nat)
  /\ msg.lastSent \in [Fragments(msg.len) -> Nat]

(* What QueuesExact and NoFragmentForgotten say of one message, and that  *)
(* only fragments sent before are in a queue, in the air or acknowledged. *)
MessageInv(msg) ==
  /\ msg.acked \subseteq Started(msg)
  /\ Entries(msg.rtxq) \subseteq Started(msg)
  /\ Airborne(msg) \subseteq Started(msg) \cap msg.ever
  /\ {e[1] : e \in Entries(msg.ifq)} = Airborne(msg)
  /\ \A f \in Airborne(msg) : <<f, msg.lastSent[f]>> \in Entries(msg.ifq)
  /\ msg.rtxset = Entries(msg.rtxq) /\ Distinct(msg.rtxq)
  /\ (Airborne(msg) \union msg.rtxset) \cap msg.acked = {}
  /\ 0..(msg.hca - 1) \subseteq msg.acked
  /\ Started(msg) \subseteq msg.acked \union msg.rtxset \union Airborne(msg)

(* The inductive invariant.  The peer speaks of fragments on the wire     *)
(* only, and only fragments sent are there.                               *)
SenderInv ==
  /\ DOMAIN outgoing \subseteq Ids /\ nextId \in Ids
  /\ inFlight \in Nat /\ now \in Nat \ {0}
  /\ \A m \in DOMAIN outgoing :
       MessageTypeOK(outgoing[m]) /\ MessageInv(outgoing[m])
  /\ \A p \in wire : p.id \in DOMAIN outgoing => p.idx \in Started(outgoing[p.id])
  /\ InFlightExact

(***************************************************************************)
(* Fragments and their bytes.                                             *)
(***************************************************************************)
(* A message's fragments are numbered from 0, and none starts behind the  *)
(* end of the payload.                                                    *)
LEMMA FragmentsType ==
  ASSUME NEW len \in Nat \ {0}
  PROVE  /\ NumFragments(len) \in Nat
         /\ Fragments(len) \subseteq Nat
         /\ \A f \in Fragments(len) : FragmentLen(len, f) \in Nat
  <1> DEFINE q == NumFragments(len)
  <1>1. Mtu \in Nat \ {0}
    BY SenderAssumption
  <1>2. q \in Nat /\ q * Mtu <= len + Mtu - 1
    BY <1>1, Z3 DEF NumFragments
  <1> HIDE DEF q
  <1>3. ASSUME NEW f \in 0..(q - 1)
        PROVE  FragmentLen(len, f) \in Nat
    <2>1. f \in Nat /\ f + 1 <= q
      BY <1>2, <1>3
    <2>2. (f + 1) * Mtu <= q * Mtu
      BY <1>1, <1>2, <2>1, Z3
    <2>3. (f + 1) * Mtu = f * Mtu + Mtu /\ f * Mtu \in Nat
      BY <1>1, <2>1, Z3
    <2>4. f * Mtu <= len - 1
      BY <1>1, <1>2, <2>2, <2>3
    <2> QED
      BY <1>1, <2>1, <2>3, <2>4 DEF FragmentLen
  <1> QED
    BY <1>2, <1>3 DEF q, Fragments

(* A message has finitely many fragments.                                 *)
LEMMA FragmentsFinite ==
  ASSUME NEW len \in Nat \ {0}, NEW S \in SUBSET Fragments(len)
  PROVE  IsFiniteSet(S)
  <1>1. 0 \in Int /\ NumFragments(len) - 1 \in Int
    BY FragmentsType
  <1>2. IsFiniteSet(Fragments(len))
    BY <1>1, FS_Interval DEF Fragments
  <1> QED
    BY <1>2, FS_Subset

(* The bytes of two disjoint sets of fragments add up.                    *)
LEMMA BytesSplit ==
  ASSUME NEW len \in Nat \ {0}, NEW A \in SUBSET Fragments(len),
         NEW B \in SUBSET Fragments(len), A \cap B = {}
  PROVE  /\ BytesOf(len, A) \in Nat /\ BytesOf(len, B) \in Nat
         /\ BytesOf(len, A \union B) = BytesOf(len, A) + BytesOf(len, B)
  <1> DEFINE h == [f \in A \union B |-> FragmentLen(len, f)]
             g == [f \in A |-> FragmentLen(len, f)]
             k == [f \in B |-> FragmentLen(len, f)]
  <1>1. IsFiniteSet(A) /\ IsFiniteSet(B)
    BY FragmentsFinite
  <1>2. h \in [A \union B -> Nat] /\ g \in [A -> Nat] /\ k \in [B -> Nat]
    BY FragmentsType
  <1>3. g = [f \in A |-> h[f]] /\ k = [f \in B |-> h[f]]
    OBVIOUS
  <1>4. /\ BytesOf(len, A) = Total(g) /\ BytesOf(len, B) = Total(k)
        /\ BytesOf(len, A \union B) = Total(h)
    BY DEF BytesOf
  <1> HIDE DEF g, h, k
  <1>5. Total(g) \in Nat /\ Total(k) \in Nat
    BY <1>1, <1>2, TotalType
  <1>6. Total(h) = Total(g) + Total(k)
    BY <1>1, <1>2, <1>3, TotalSplit
  <1> QED
    BY <1>4, <1>5, <1>6

(* The bytes of one fragment.                                             *)
LEMMA BytesSingle ==
  ASSUME NEW len \in Nat \ {0}, NEW f \in Fragments(len)
  PROVE  BytesOf(len, {f}) = FragmentLen(len, f)
  <1> DEFINE g == [x \in {f} |-> FragmentLen(len, x)]
  <1>1. g \in [{f} -> Nat] /\ g[f] = FragmentLen(len, f)
    BY FragmentsType
  <1>2. BytesOf(len, {f}) = Total(g)
    BY DEF BytesOf
  <1> HIDE DEF g
  <1> QED
    BY <1>1, <1>2, TotalSingle

(* The bytes that a message has in the air.                               *)
LEMMA MessageBytesType ==
  ASSUME NEW msg, msg.len \in Nat \ {0}
  PROVE  /\ Airborne(msg) \in SUBSET Fragments(msg.len)
         /\ MessageBytes(msg) \in Nat
         /\ \A S \in SUBSET Airborne(msg) :
              /\ BytesOf(msg.len, S) \in Nat
              /\ BytesOf(msg.len, Airborne(msg) \ S) \in Nat
              /\ MessageBytes(msg) =
                   BytesOf(msg.len, S) + BytesOf(msg.len, Airborne(msg) \ S)
  <1>1. Airborne(msg) \in SUBSET Fragments(msg.len)
    BY DEF Airborne
  <1>2. ASSUME NEW S \in SUBSET Airborne(msg)
        PROVE  /\ BytesOf(msg.len, S) \in Nat
               /\ BytesOf(msg.len, Airborne(msg) \ S) \in Nat
               /\ MessageBytes(msg) =
                    BytesOf(msg.len, S) + BytesOf(msg.len, Airborne(msg) \ S)
    <2>1. /\ S \in SUBSET Fragments(msg.len)
          /\ Airborne(msg) \ S \in SUBSET Fragments(msg.len)
          /\ S \cap (Airborne(msg) \ S) = {}
          /\ S \union (Airborne(msg) \ S) = Airborne(msg)
      BY <1>1
    <2> QED
      BY <2>1, BytesSplit DEF MessageBytes
  <1>3. MessageBytes(msg) \in Nat
    <2>1. Airborne(msg) \cap {} = {} /\ {} \in SUBSET Fragments(msg.len)
      OBVIOUS
    <2>2. BytesOf(msg.len, Airborne(msg)) \in Nat
      BY <1>1, <2>1, BytesSplit, Zenon
    <2> QED
      BY <2>2 DEF MessageBytes
  <1> QED
    BY <1>1, <1>2, <1>3

(***************************************************************************)
(* The sum over the messages.                                             *)
(***************************************************************************)
(* What one message has in the air is part of in_flight, and a change of  *)
(* one message changes the sum by its bytes.                              *)
LEMMA FlightChange ==
  ASSUME SenderInv, NEW m \in DOMAIN outgoing, NEW msg, msg.len \in Nat \ {0},
         outgoing' = [outgoing EXCEPT ![m] = msg]
  PROVE  /\ MessageBytes(outgoing[m]) \in Nat /\ MessageBytes(msg) \in Nat
         /\ MessageBytes(outgoing[m]) <= inFlight
         /\ FlightBytes(DOMAIN outgoing)'
              = inFlight - MessageBytes(outgoing[m]) + MessageBytes(msg)
  <1> DEFINE D == DOMAIN outgoing
             f == [k \in D |-> MessageBytes(outgoing[k])]
             g == [k \in D |-> MessageBytes(outgoing'[k])]
  <1>1. D \subseteq Ids /\ \A k \in D : outgoing[k].len \in Nat \ {0}
    BY DEF SenderInv, MessageTypeOK
  <1>2. IsFiniteSet(D)
    <2>1. 0 \in Int /\ IdSpace - 1 \in Int
      BY SenderAssumption
    <2>2. IsFiniteSet(Ids)
      BY <2>1, FS_Interval DEF Ids
    <2> QED
      BY <1>1, <2>2, FS_Subset
  <1>3. /\ DOMAIN outgoing' = D /\ outgoing'[m] = msg
        /\ \A k \in D : k # m => outgoing'[k] = outgoing[k]
    OBVIOUS
  <1>4. \A k \in D : MessageBytes(outgoing[k]) \in Nat
    BY <1>1, MessageBytesType
  <1>5. \A k \in D : MessageBytes(outgoing'[k]) \in Nat
    BY <1>3, <1>4, MessageBytesType
  <1>6. f \in [D -> Nat] /\ g \in [D -> Nat]
    BY <1>4, <1>5
  <1>7. \A k \in D \ {m} : g[k] = f[k]
    BY <1>3
  <1>8. f[m] = MessageBytes(outgoing[m]) /\ g[m] = MessageBytes(msg)
    BY <1>3
  <1>9. inFlight = Total(f)
    BY DEF SenderInv, InFlightExact, FlightBytes
  <1>10. FlightBytes(DOMAIN outgoing)' = Total(g)
    BY <1>3 DEF FlightBytes, MessageBytes, Airborne
  <1> HIDE DEF f, g
  <1>11. f[m] <= Total(f) /\ Total(g) = Total(f) - f[m] + g[m]
    BY <1>2, <1>6, <1>7, TotalBound, TotalChange DEF D
  <1> QED
    BY <1>4, <1>5, <1>3, <1>8, <1>9, <1>10, <1>11

(* The invariant after a step that changes one message: its record keeps  *)
(* to the invariant, the packets added are of fragments that were sent,   *)
(* and in_flight follows the sum.                                         *)
LEMMA SenderJoin ==
  ASSUME SenderInv, NEW m \in DOMAIN outgoing, NEW msg,
         outgoing' = [outgoing EXCEPT ![m] = msg],
         MessageTypeOK(msg), MessageInv(msg),
         Started(outgoing[m]) \subseteq Started(msg),
         \A p \in wire' : p \in wire \/ (p.id = m /\ p.idx \in Started(msg)),
         inFlight' \in Nat, inFlight' = FlightBytes(DOMAIN outgoing)',
         UNCHANGED <<nextId, now>>
  PROVE  SenderInv'
  <1>1. /\ DOMAIN outgoing' = DOMAIN outgoing /\ outgoing'[m] = msg
        /\ \A k \in DOMAIN outgoing : k # m => outgoing'[k] = outgoing[k]
    OBVIOUS
  <1>2. \A k \in DOMAIN outgoing' :
          MessageTypeOK(outgoing'[k]) /\ MessageInv(outgoing'[k])
    BY <1>1 DEF SenderInv
  <1>3. ASSUME NEW p \in wire', p.id \in DOMAIN outgoing'
        PROVE  p.idx \in Started(outgoing'[p.id])
    <2>1. CASE p \in wire
      <3>1. p.idx \in Started(outgoing[p.id])
        BY <1>1, <1>3, <2>1 DEF SenderInv
      <3> QED
        BY <1>1, <1>3, <3>1
    <2>2. CASE p.id = m /\ p.idx \in Started(msg)
      BY <1>1, <2>2
    <2> QED
      BY <2>1, <2>2
  <1>4. InFlightExact'
    BY DEF InFlightExact
  <1>5. /\ DOMAIN outgoing' \subseteq Ids /\ nextId' \in Ids
        /\ now' \in Nat \ {0}
    BY <1>1 DEF SenderInv
  <1> QED
    BY <1>2, <1>3, <1>4, <1>5 DEF SenderInv

(***************************************************************************)
(* Sending a fragment.                                                    *)
(***************************************************************************)
(* Fragment f of a message goes out: its record becomes new, whose flight *)
(* queue ends with f, may have lost its front entry when that was of f,   *)
(* and whose retransmit queue may have lost f.  This covers every way     *)
(* try_send_fragment is called.                                           *)
Resent(msg, f, new) ==
  /\ IsMessage(new) /\ new.len = msg.len /\ new.acked = msg.acked
  /\ new.hca = msg.hca /\ new.ever = msg.ever \union {f}
  /\ new.lastSent = [msg.lastSent EXCEPT ![f] = now]
  /\ new.ifq \in Seq(Nat \X Nat)
  /\ <<f, now>> \in Entries(new.ifq)
  /\ Entries(new.ifq) \subseteq Entries(msg.ifq) \union {<<f, now>>}
  /\ \A e \in Entries(msg.ifq) : e[1] # f => e \in Entries(new.ifq)
  /\ new.rtxq \in Seq(Nat) /\ Distinct(new.rtxq) /\ new.rtxset = Entries(new.rtxq)
  /\ new.rtxset \subseteq msg.rtxset /\ msg.rtxset \subseteq new.rtxset \union {f}
  /\ \/ f \in Started(msg) \ msg.acked /\ new.next = msg.next
     \/ f = msg.next /\ new.next = msg.next + 1

(* The invariant of a message after one of its fragments was sent.        *)
LEMMA ResentInv ==
  ASSUME now \in Nat \ {0}, NEW msg, NEW f, NEW new,
         MessageTypeOK(msg), MessageInv(msg),
         f \in Fragments(msg.len), Resent(msg, f, new)
  PROVE  /\ MessageTypeOK(new) /\ MessageInv(new)
         /\ Airborne(new) = Airborne(msg) \union {f}
         /\ Started(msg) \subseteq Started(new) /\ f \in Started(new)
  <1>1. /\ msg.len \in Nat \ {0} /\ msg.next \in 0..NumFragments(msg.len)
        /\ msg.hca \in 0..msg.next
        /\ msg.lastSent \in [Fragments(msg.len) -> Nat]
        /\ NumFragments(msg.len) \in Nat
    BY FragmentsType DEF MessageTypeOK
  <1>2. /\ new.len = msg.len /\ new.acked = msg.acked /\ new.hca = msg.hca
        /\ new.ever = msg.ever \union {f}
        /\ new.lastSent = [msg.lastSent EXCEPT ![f] = now]
        /\ new.next = msg.next \/ (f = msg.next /\ new.next = msg.next + 1)
    BY DEF Resent
  <1>3. /\ new.next \in 0..NumFragments(msg.len) /\ new.hca \in 0..new.next
        /\ Started(msg) \subseteq Started(new)
        /\ Started(new) \subseteq Started(msg) \union {f}
        /\ f \in Nat
    BY <1>1, <1>2, SMTT(20) DEF Started, Fragments
  <1>4. f \in Started(new)
    BY <1>1, <1>3 DEF Resent, Started
  <1>5. new.lastSent \in [Fragments(new.len) -> Nat]
    BY <1>1, <1>2
  <1>6. MessageTypeOK(new)
    BY <1>1, <1>2, <1>3, <1>5 DEF MessageTypeOK, Resent
  <1>7. Airborne(new) = Airborne(msg) \union {f}
    <2>1. /\ new.lastSent[f] = now
          /\ \A g \in Fragments(msg.len) : g # f => new.lastSent[g] = msg.lastSent[g]
      BY <1>1, <1>2
    <2> QED
      BY <1>2, <2>1 DEF Airborne, NoTime
  <1>8. f \notin msg.acked
    BY <1>1 DEF Resent, MessageInv, Started
  <1>9. {e[1] : e \in Entries(new.ifq)} = Airborne(new)
    <2>1. {e[1] : e \in Entries(msg.ifq)} = Airborne(msg)
      BY DEF MessageInv
    <2>2. /\ <<f, now>> \in Entries(new.ifq)
          /\ Entries(new.ifq) \subseteq Entries(msg.ifq) \union {<<f, now>>}
          /\ \A e \in Entries(msg.ifq) : e[1] # f => e \in Entries(new.ifq)
          /\ <<f, now>>[1] = f
      BY DEF Resent
    <2>3. \A e \in Entries(new.ifq) : e[1] \in Airborne(msg) \union {f}
      BY <2>1, <2>2
    <2>4. \A g \in Airborne(msg) \union {f} : \E e \in Entries(new.ifq) : e[1] = g
      BY <2>1, <2>2
    <2> QED
      BY <1>7, <2>3, <2>4, Zenon
  <1>10. ASSUME NEW g \in Airborne(new)
         PROVE  <<g, new.lastSent[g]>> \in Entries(new.ifq)
    <2>1. CASE g = f
      <3>1. new.lastSent[g] = now
        BY <1>1, <1>2, <2>1
      <3> QED
        BY <2>1, <3>1, SMTT(20) DEF Resent
    <2>2. CASE g # f
      <3>1. g \in Airborne(msg) /\ new.lastSent[g] = msg.lastSent[g]
        BY <1>1, <1>2, <1>7, <2>2 DEF Airborne
      <3>2. <<g, msg.lastSent[g]>> \in Entries(msg.ifq)
        BY <3>1 DEF MessageInv
      <3>3. <<g, msg.lastSent[g]>>[1] = g
        OBVIOUS
      <3> QED
        BY <2>2, <3>1, <3>2, <3>3, Zenon DEF Resent
    <2> QED
      BY <2>1, <2>2
  <1>11. new.rtxset = Entries(new.rtxq) /\ Distinct(new.rtxq)
    BY DEF Resent
  <1>12. Entries(new.rtxq) \subseteq Started(new)
    BY <1>3 DEF Resent, MessageInv
  <1>13. (Airborne(new) \union new.rtxset) \cap new.acked = {}
    BY <1>2, <1>7, <1>8 DEF Resent, MessageInv
  <1>14. Started(new) \subseteq new.acked \union new.rtxset \union Airborne(new)
    BY <1>2, <1>3, <1>7 DEF Resent, MessageInv
  <1>15. Airborne(new) \subseteq Started(new) \cap new.ever
    BY <1>2, <1>3, <1>4, <1>7 DEF MessageInv
  <1>16. new.acked \subseteq Started(new) /\ 0..(new.hca - 1) \subseteq new.acked
    BY <1>2, <1>3 DEF MessageInv
  <1>17. MessageInv(new)
    BY <1>9, <1>10, <1>11, <1>12, <1>13, <1>14, <1>15, <1>16 DEF MessageInv
  <1> QED
    BY <1>3, <1>4, <1>6, <1>7, <1>17

(* try_send_fragment keeps the session's books.                           *)
LEMMA TrySendInv ==
  ASSUME SenderInv, NEW m \in DOMAIN outgoing, NEW f, NEW new,
         f \in Fragments(outgoing[m].len), Resent(outgoing[m], f, new),
         TrySendFragment(m, f, new), UNCHANGED <<nextId, now>>
  PROVE  SenderInv'
  <1> DEFINE msg == outgoing[m]
             l == FragmentLen(msg.len, f)
  <1>1. /\ now \in Nat \ {0} /\ inFlight \in Nat
        /\ MessageTypeOK(msg) /\ MessageInv(msg)
    BY DEF SenderInv
  <1>2. /\ MessageTypeOK(new) /\ MessageInv(new)
        /\ Airborne(new) = Airborne(msg) \union {f}
        /\ Started(msg) \subseteq Started(new) /\ f \in Started(new)
    BY <1>1, ResentInv
  <1>3. /\ outgoing' = [outgoing EXCEPT ![m] = new]
        /\ inFlight' = InFlightAfterSend(msg, f)
        /\ wire' = wire \union {DataPacket(m, msg.len, f)}
    BY DEF TrySendFragment
  <1>4. new.len = msg.len /\ msg.len \in Nat \ {0}
    BY <1>1 DEF Resent, MessageTypeOK
  <1>5. /\ MessageBytes(msg) \in Nat /\ MessageBytes(new) \in Nat
        /\ MessageBytes(msg) <= inFlight
        /\ FlightBytes(DOMAIN outgoing)' = inFlight - MessageBytes(msg) + MessageBytes(new)
    BY <1>3, <1>4, FlightChange, Zenon
  <1>6. l \in Nat
    BY <1>4, FragmentsType
  <1>7. ASSUME f \in Airborne(msg)
        PROVE  inFlight' \in Nat /\ inFlight' = FlightBytes(DOMAIN outgoing)'
    <2>1. Airborne(new) = Airborne(msg)
      BY <1>2, <1>7
    <2>2. MessageBytes(new) = MessageBytes(msg)
      BY <1>4, <2>1 DEF MessageBytes
    <2>3. l <= MessageBytes(msg)
      <3>1. {f} \in SUBSET Airborne(msg)
        BY <1>7
      <3>2. /\ BytesOf(msg.len, {f}) \in Nat
            /\ BytesOf(msg.len, Airborne(msg) \ {f}) \in Nat
            /\ MessageBytes(msg) = BytesOf(msg.len, {f})
                                     + BytesOf(msg.len, Airborne(msg) \ {f})
        BY <1>4, <3>1, MessageBytesType
      <3>3. BytesOf(msg.len, {f}) = l
        BY <1>4, BytesSingle
      <3> QED
        BY <1>6, <3>2, <3>3
    <2>4. inFlight' = inFlight
      <3>1. msg.lastSent[f] # NoTime
        BY <1>7 DEF Airborne
      <3>2. inFlight' = SaturatingSub(inFlight, l) + l
        BY <1>3, <3>1 DEF InFlightAfterSend
      <3> HIDE DEF l
      <3> QED
        BY <1>1, <1>5, <1>6, <2>3, <3>2 DEF SaturatingSub
    <2> QED
      BY <1>1, <1>5, <2>2, <2>4
  <1>8. ASSUME f \notin Airborne(msg)
        PROVE  inFlight' \in Nat /\ inFlight' = FlightBytes(DOMAIN outgoing)'
    <2>1. Airborne(msg) \cap {f} = {} /\ {f} \in SUBSET Fragments(msg.len)
      BY <1>8
    <2>2. Airborne(msg) \in SUBSET Fragments(msg.len)
      BY <1>4, MessageBytesType
    <2>3. MessageBytes(new) = MessageBytes(msg) + l
      <3>1. BytesOf(msg.len, Airborne(msg) \union {f})
              = BytesOf(msg.len, Airborne(msg)) + BytesOf(msg.len, {f})
        BY <1>4, <2>1, <2>2, BytesSplit
      <3>2. BytesOf(msg.len, {f}) = l
        BY <1>4, BytesSingle
      <3>3. MessageBytes(new) = BytesOf(msg.len, Airborne(msg) \union {f})
        BY <1>2, <1>4 DEF MessageBytes
      <3> QED
        BY <3>1, <3>2, <3>3 DEF MessageBytes
    <2>4. inFlight' = inFlight + l
      BY <1>3, <1>8 DEF InFlightAfterSend, Airborne
    <2> HIDE DEF l
    <2> QED
      BY <1>1, <1>5, <1>6, <2>3, <2>4
  <1>9. inFlight' \in Nat /\ inFlight' = FlightBytes(DOMAIN outgoing)'
    BY <1>7, <1>8
  <1>10. \A p \in wire' : p \in wire \/ (p.id = m /\ p.idx \in Started(new))
    BY <1>2, <1>3 DEF DataPacket
  <1> QED
    BY <1>2, <1>3, <1>9, <1>10, SenderJoin, Zenon

(* mark_fragment_sent, field by field.                                    *)
LEMMA MarkFields ==
  ASSUME NEW msg, MessageTypeOK(msg), NEW f \in Fragments(msg.len)
  PROVE  LET snt == MarkFragmentSent(msg, f)
         IN  /\ IsMessage(snt) /\ snt.len = msg.len /\ snt.acked = msg.acked
             /\ snt.hca = msg.hca /\ snt.next = msg.next /\ snt.rtxq = msg.rtxq
             /\ snt.rtxset = msg.rtxset /\ snt.backoff = msg.backoff
             /\ snt.ifq = Append(msg.ifq, <<f, now>>)
             /\ snt.lastSent = [msg.lastSent EXCEPT ![f] = now]
             /\ snt.ever = msg.ever \union {f}
  <1> DEFINE at == [msg.lastSent EXCEPT ![f] = now]
             q == Append(msg.ifq, <<f, now>>)
             snt == [len |-> msg.len, acked |-> msg.acked, hca |-> msg.hca,
                     next |-> msg.next, rtxq |-> msg.rtxq, rtxset |-> msg.rtxset,
                     ifq |-> q, lastSent |-> at, ever |-> msg.ever \union {f},
                     backoff |-> msg.backoff, lastAck |-> msg.lastAck,
                     dup |-> msg.dup, lastBase |-> msg.lastBase, hsta |-> msg.hsta]
  <1>1. IsMessage(msg)
    BY DEF MessageTypeOK
  <1>2. MarkFragmentSent(msg, f)
          = [msg EXCEPT !.lastSent = at, !.ever = msg.ever \union {f}, !.ifq = q]
    BY DEF MarkFragmentSent
  <1> HIDE DEF at, q
  <1>3. MarkFragmentSent(msg, f) = snt
    BY <1>1, <1>2, Zenon DEF IsMessage
  <1> HIDE DEF MarkFragmentSent
  <1> QED
    BY <1>3 DEF IsMessage, at, q

(* The flight queue after a fragment was sent.                            *)
LEMMA MarkQueue ==
  ASSUME NEW msg, MessageTypeOK(msg), NEW f \in Fragments(msg.len), now \in Nat
  PROVE  LET q == Append(msg.ifq, <<f, now>>)
         IN  /\ q \in Seq(Nat \X Nat)
             /\ Entries(q) = Entries(msg.ifq) \union {<<f, now>>}
  <1> DEFINE T == Nat \X Nat
             e == <<f, now>>
  <1>1. msg.ifq \in Seq(T) /\ e \in T
    BY FragmentsType, Zenon DEF MessageTypeOK
  <1> HIDE DEF T, e
  <1>2. Append(msg.ifq, e) \in Seq(T)
    BY <1>1
  <1>3. Entries(Append(msg.ifq, e)) = Entries(msg.ifq) \union {e}
    BY <1>1, AppendEntries
  <1> QED
    BY <1>2, <1>3, Zenon DEF T, e

(* A fragment that was sent before goes out again, in its place in the    *)
(* queues: a zero window probe, a tail loss probe.                        *)
LEMMA MarkResent ==
  ASSUME now \in Nat \ {0}, NEW msg, MessageTypeOK(msg), MessageInv(msg),
         NEW f \in Started(msg) \ msg.acked
  PROVE  /\ f \in Fragments(msg.len)
         /\ Resent(msg, f, MarkFragmentSent(msg, f))
  <1> DEFINE snt == MarkFragmentSent(msg, f)
  <1>1. f \in Fragments(msg.len)
    <2>1. msg.next \in 0..NumFragments(msg.len) /\ NumFragments(msg.len) \in Nat
      BY FragmentsType DEF MessageTypeOK
    <2> QED
      BY <2>1 DEF Started, Fragments
  <1>2. /\ IsMessage(snt) /\ snt.len = msg.len /\ snt.acked = msg.acked
        /\ snt.hca = msg.hca /\ snt.next = msg.next /\ snt.rtxq = msg.rtxq
        /\ snt.rtxset = msg.rtxset
        /\ snt.ifq = Append(msg.ifq, <<f, now>>)
        /\ snt.lastSent = [msg.lastSent EXCEPT ![f] = now]
        /\ snt.ever = msg.ever \union {f}
    BY <1>1, MarkFields
  <1>3. /\ snt.ifq \in Seq(Nat \X Nat)
        /\ Entries(snt.ifq) = Entries(msg.ifq) \union {<<f, now>>}
    BY <1>1, <1>2, MarkQueue
  <1>4. msg.rtxq \in Seq(Nat) /\ Distinct(msg.rtxq) /\ msg.rtxset = Entries(msg.rtxq)
    BY DEF MessageTypeOK, MessageInv
  <1> HIDE DEF snt
  <1>5. Resent(msg, f, snt)
    BY <1>2, <1>3, <1>4, Zenon DEF Resent
  <1> QED
    BY <1>1, <1>5 DEF snt

(* New data, in the loop or as a zero window probe.                       *)
LEMMA NextSent ==
  ASSUME now \in Nat \ {0}, NEW msg, MessageTypeOK(msg), MessageInv(msg),
         msg.next < NumFragments(msg.len)
  PROVE  /\ msg.next \in Fragments(msg.len)
         /\ Resent(msg, msg.next,
                   [MarkFragmentSent(msg, msg.next) EXCEPT !.next = @ + 1])
  <1> DEFINE f == msg.next
             snt == MarkFragmentSent(msg, f)
             new == [snt EXCEPT !.next = @ + 1]
  <1>1. f \in Fragments(msg.len)
    <2>1. msg.len \in Nat \ {0} /\ msg.next \in 0..NumFragments(msg.len)
      BY DEF MessageTypeOK
    <2>2. NumFragments(msg.len) \in Nat
      BY <2>1, FragmentsType
    <2> QED
      BY <2>1, <2>2 DEF Fragments
  <1>2. /\ IsMessage(snt) /\ snt.len = msg.len /\ snt.acked = msg.acked
        /\ snt.hca = msg.hca /\ snt.next = msg.next /\ snt.rtxq = msg.rtxq
        /\ snt.rtxset = msg.rtxset
        /\ snt.ifq = Append(msg.ifq, <<f, now>>)
        /\ snt.lastSent = [msg.lastSent EXCEPT ![f] = now]
        /\ snt.ever = msg.ever \union {f}
    BY <1>1, MarkFields
  <1> HIDE DEF snt
  <1>3. /\ IsMessage(new) /\ new.len = msg.len /\ new.acked = msg.acked
        /\ new.hca = msg.hca /\ new.next = msg.next + 1 /\ new.rtxq = msg.rtxq
        /\ new.rtxset = msg.rtxset
        /\ new.ifq = Append(msg.ifq, <<f, now>>)
        /\ new.lastSent = [msg.lastSent EXCEPT ![f] = now]
        /\ new.ever = msg.ever \union {f}
    BY <1>2 DEF IsMessage
  <1> HIDE DEF new
  <1>4. /\ new.ifq \in Seq(Nat \X Nat)
        /\ Entries(new.ifq) = Entries(msg.ifq) \union {<<f, now>>}
    BY <1>1, <1>3, MarkQueue
  <1>5. msg.rtxq \in Seq(Nat) /\ Distinct(msg.rtxq) /\ msg.rtxset = Entries(msg.rtxq)
    BY DEF MessageTypeOK, MessageInv
  <1>6. Resent(msg, f, new)
    BY <1>3, <1>4, <1>5, Zenon DEF Resent
  <1> QED
    BY <1>1, <1>6 DEF new, snt

(* An entry of the flight queue is of a fragment in the air.              *)
LEMMA FlightEntry ==
  ASSUME NEW msg, MessageTypeOK(msg), MessageInv(msg), NEW i \in DOMAIN msg.ifq
  PROVE  /\ msg.ifq[i][1] \in Airborne(msg)
         /\ msg.ifq[i][1] \in Started(msg) \ msg.acked
  <1>1. msg.ifq[i] \in Entries(msg.ifq)
    BY DEF Entries
  <1>2. msg.ifq[i][1] \in Airborne(msg)
    BY <1>1 DEF MessageInv
  <1> QED
    BY <1>2 DEF MessageInv

(* The ends of a queue that is not empty.                                 *)
LEMMA QueueEnds ==
  ASSUME NEW T, NEW q \in Seq(T), q # <<>>
  PROVE  1 \in DOMAIN q /\ Len(q) \in DOMAIN q /\ Head(q) = q[1]
  OBVIOUS

(* A retransmission takes its fragment off the retransmit queue.          *)
LEMMA RetransmissionInv ==
  ASSUME SenderInv, NEW m \in DOMAIN outgoing, SendRetransmission(m),
         UNCHANGED <<nextId, now>>
  PROVE  SenderInv'
  <1> DEFINE msg == outgoing[m]
             f == Head(msg.rtxq)
             snt == MarkFragmentSent(msg, f)
             new == [snt EXCEPT !.rtxq = Tail(msg.rtxq), !.rtxset = msg.rtxset \ {f}]
  <1>1. MessageTypeOK(msg) /\ MessageInv(msg) /\ now \in Nat \ {0}
    BY DEF SenderInv
  <1>2. msg.rtxq \in Seq(Nat) /\ msg.rtxq # <<>>
    BY <1>1 DEF MessageTypeOK, SendRetransmission
  <1>3. /\ f \in Entries(msg.rtxq) /\ Tail(msg.rtxq) \in Seq(Nat)
        /\ Entries(msg.rtxq) = Entries(Tail(msg.rtxq)) \union {f}
        /\ Distinct(msg.rtxq) => /\ Distinct(Tail(msg.rtxq))
                                 /\ f \notin Entries(Tail(msg.rtxq))
    BY <1>2, TailEntries
  <1>4. f \in Started(msg) \ msg.acked
    BY <1>1, <1>3 DEF MessageInv
  <1>5. f \in Fragments(msg.len) /\ Resent(msg, f, snt)
    BY <1>1, <1>4, MarkResent
  <1>6. snt.rtxq = msg.rtxq /\ snt.rtxset = msg.rtxset
    BY <1>1, <1>5, MarkFields, Zenon
  <1>7. TrySendFragment(m, f, new)
    BY <1>6, Zenon DEF SendRetransmission
  <1> HIDE DEF snt
  <1>8. /\ IsMessage(new) /\ new.len = snt.len /\ new.acked = snt.acked
        /\ new.hca = snt.hca /\ new.next = snt.next /\ new.ever = snt.ever
        /\ new.ifq = snt.ifq /\ new.lastSent = snt.lastSent
        /\ new.rtxq = Tail(msg.rtxq) /\ new.rtxset = msg.rtxset \ {f}
    <2> DEFINE t == Tail(msg.rtxq)
               r == msg.rtxset \ {f}
    <2> HIDE DEF t, r
    <2>1. new = [snt EXCEPT !.rtxq = t, !.rtxset = r]
      BY DEF t, r
    <2>2. IsMessage(snt)
      BY <1>5 DEF Resent
    <2> HIDE DEF new
    <2>3. /\ IsMessage(new) /\ new.len = snt.len /\ new.acked = snt.acked
          /\ new.hca = snt.hca /\ new.next = snt.next /\ new.ever = snt.ever
          /\ new.ifq = snt.ifq /\ new.lastSent = snt.lastSent
          /\ new.rtxq = t /\ new.rtxset = r
      BY <2>1, <2>2, Zenon DEF IsMessage
    <2> QED
      BY <2>3 DEF t, r
  <1>9. msg.rtxset = Entries(msg.rtxq) /\ Distinct(msg.rtxq)
    BY <1>1 DEF MessageInv
  <1> HIDE DEF new, f
  <1>10. /\ Distinct(new.rtxq) /\ new.rtxset = Entries(new.rtxq)
         /\ new.rtxset \subseteq msg.rtxset /\ msg.rtxset \subseteq new.rtxset \union {f}
         /\ new.rtxq \in Seq(Nat)
    BY <1>3, <1>8, <1>9
  <1>11. Resent(msg, f, new)
    BY <1>5, <1>8, <1>10 DEF Resent
  <1> QED
    BY <1>5, <1>7, <1>11, TrySendInv

(* A timed out fragment moves from the front of the flight queue to its   *)
(* end.                                                                   *)
LEMMA TimedOutInv ==
  ASSUME SenderInv, NEW m \in DOMAIN outgoing, SendTimedOut(m),
         UNCHANGED <<nextId, now>>
  PROVE  SenderInv'
  <1> DEFINE msg == outgoing[m]
             f == Head(msg.ifq)[1]
             snt == MarkFragmentSent(msg, f)
             b == [snt.backoff EXCEPT ![f] = snt.backoff[f] + 1]
             q == Tail(snt.ifq)
             new == [snt EXCEPT !.backoff = b, !.ifq = q]
  <1>1. MessageTypeOK(msg) /\ MessageInv(msg) /\ now \in Nat \ {0}
    BY DEF SenderInv
  <1>2. msg.ifq \in Seq(Nat \X Nat) /\ msg.ifq # <<>>
    BY <1>1 DEF MessageTypeOK, SendTimedOut, FrontTimedOut
  <1>3. f \in Started(msg) \ msg.acked
    BY <1>1, <1>2, QueueEnds, FlightEntry
  <1>4. f \in Fragments(msg.len) /\ Resent(msg, f, snt)
    BY <1>1, <1>3, MarkResent
  <1>5. snt.ifq = Append(msg.ifq, <<f, now>>)
    <2> HIDE DEF f
    <2> QED
      BY <1>1, <1>4, MarkFields, Zenon
  <1>6. TrySendFragment(m, f, new)
    BY DEF SendTimedOut
  <1> HIDE DEF snt, b
  <1>8. /\ q \in Seq(Nat \X Nat)
        /\ Entries(q) = Entries(Tail(msg.ifq)) \union {<<f, now>>}
        /\ Entries(msg.ifq) = Entries(Tail(msg.ifq)) \union {Head(msg.ifq)}
    <2> DEFINE e == <<f, now>>
               T == Nat \X Nat
               t == Tail(msg.ifq)
    <2>1. e \in T
      BY <1>1, <1>4, FragmentsType, Zenon DEF MessageTypeOK
    <2>2. msg.ifq \in Seq(T) /\ q = Tail(Append(msg.ifq, e))
      BY <1>2, <1>5
    <2> HIDE DEF e, T, q
    <2>3. q = Append(t, e)
      BY <1>2, <2>1, <2>2, TailAppend, Zenon
    <2>4. t \in Seq(T) /\ Entries(msg.ifq) = Entries(t) \union {Head(msg.ifq)}
      BY <1>2, <2>2, TailEntries
    <2> HIDE DEF t
    <2>5. q \in Seq(T) /\ Entries(q) = Entries(t) \union {e}
      BY <2>1, <2>3, <2>4, AppendEntries
    <2> QED
      BY <2>4, <2>5 DEF e, T, t
  <1> HIDE DEF q
  <1>9. /\ IsMessage(new) /\ new.len = snt.len /\ new.acked = snt.acked
        /\ new.hca = snt.hca /\ new.next = snt.next /\ new.ever = snt.ever
        /\ new.rtxq = snt.rtxq /\ new.rtxset = snt.rtxset
        /\ new.lastSent = snt.lastSent /\ new.ifq = q
    <2>1. IsMessage(snt) /\ new = [snt EXCEPT !.backoff = b, !.ifq = q]
      BY <1>4 DEF Resent
    <2> HIDE DEF new
    <2> QED
      BY <2>1, Zenon DEF IsMessage
  <1>10. /\ <<f, now>> \in Entries(q)
         /\ Entries(q) \subseteq Entries(msg.ifq) \union {<<f, now>>}
         /\ \A e \in Entries(msg.ifq) : e[1] # f => e \in Entries(q)
    BY <1>8
  <1> HIDE DEF new, f
  <1>11. Resent(msg, f, new)
    BY <1>4, <1>8, <1>9, <1>10 DEF Resent
  <1> QED
    BY <1>4, <1>6, <1>11, TrySendInv

(* The zero window probe that may open a flush_packets.                   *)
LEMMA ProbeInv ==
  ASSUME SenderInv, NEW rto, ZeroWindowProbe(rto), UNCHANGED <<nextId, now>>
  PROVE  SenderInv'
  <1>1. PICK m \in DOMAIN outgoing :
          /\ Offers(outgoing[m])
          /\ TrySendFragment(m, ProbeTarget(outgoing[m]),
               IF ProbeIsNew(outgoing[m])
               THEN [MarkFragmentSent(outgoing[m], ProbeTarget(outgoing[m]))
                       EXCEPT !.next = @ + 1]
               ELSE MarkFragmentSent(outgoing[m], ProbeTarget(outgoing[m])))
    BY DEF ZeroWindowProbe
  <1> DEFINE msg == outgoing[m]
             f == ProbeTarget(msg)
             snt == MarkFragmentSent(msg, f)
  <1>2. MessageTypeOK(msg) /\ MessageInv(msg) /\ now \in Nat \ {0}
    BY DEF SenderInv
  <1>3. CASE ProbeIsNew(msg)
    <2>1. f = msg.next /\ msg.next < NumFragments(msg.len)
      BY <1>3 DEF ProbeIsNew, ProbeTarget
    <2> QED
      BY <1>1, <1>2, <1>3, <2>1, NextSent, TrySendInv
  <1>4. CASE ~ProbeIsNew(msg)
    <2>1. f \in Started(msg) \ msg.acked
      <3>1. CASE msg.rtxq # <<>>
        <4>1. msg.rtxq \in Seq(Nat)
          BY <1>2 DEF MessageTypeOK
        <4>2. Head(msg.rtxq) \in Entries(msg.rtxq)
          BY <3>1, <4>1, TailEntries
        <4> QED
          BY <1>2, <3>1, <4>2 DEF ProbeTarget, MessageInv
      <3>2. CASE msg.rtxq = <<>>
        <4>1. f = Head(msg.ifq)[1] /\ msg.ifq # <<>>
          BY <1>1, <1>4, <3>2 DEF ProbeTarget, ProbeIsNew, Offers
        <4>2. msg.ifq \in Seq(Nat \X Nat)
          BY <1>2 DEF MessageTypeOK
        <4> QED
          BY <1>2, <4>1, <4>2, QueueEnds, FlightEntry
      <3> QED
        BY <3>1, <3>2
    <2>2. f \in Fragments(msg.len) /\ Resent(msg, f, snt)
      BY <1>2, <2>1, MarkResent
    <2>3. TrySendFragment(m, f, snt)
      BY <1>1, <1>4
    <2> QED
      BY <2>2, <2>3, TrySendInv
  <1> QED
    BY <1>3, <1>4

(* The tail loss probe that may close a flush_packets.                    *)
LEMMA TailProbeInv ==
  ASSUME SenderInv, TailLossProbe, UNCHANGED <<nextId, now>>
  PROVE  SenderInv'
  <1>1. PICK m \in DOMAIN outgoing :
          /\ TlpDue(outgoing[m])
          /\ TrySendFragment(m, outgoing[m].ifq[Len(outgoing[m].ifq)][1],
               MarkFragmentSent(outgoing[m],
                 outgoing[m].ifq[Len(outgoing[m].ifq)][1]))
    BY DEF TailLossProbe
  <1> DEFINE msg == outgoing[m]
             f == msg.ifq[Len(msg.ifq)][1]
  <1>2. MessageTypeOK(msg) /\ MessageInv(msg) /\ now \in Nat \ {0}
    BY DEF SenderInv
  <1>3. msg.ifq # <<>> /\ msg.ifq \in Seq(Nat \X Nat)
    BY <1>1, <1>2 DEF TlpDue, MessageTypeOK
  <1>4. f \in Started(msg) \ msg.acked
    BY <1>2, <1>3, QueueEnds, FlightEntry
  <1> HIDE DEF f
  <1>5. f \in Fragments(msg.len) /\ Resent(msg, f, MarkFragmentSent(msg, f))
    BY <1>2, <1>4, MarkResent
  <1>6. TrySendFragment(m, f, MarkFragmentSent(msg, f))
    BY <1>1 DEF f
  <1> QED
    BY <1>5, <1>6, TrySendInv

(* flush_packets, from its probe to its tail.                             *)
LEMMA FlushInv ==
  ASSUME SenderInv,
         \/ \E rto \in Rtos, tlp \in Tlps : FlushBegin(rto, tlp)
         \/ \E m \in DOMAIN outgoing, cwnd \in Cwnds : FlushSend(m, cwnd)
         \/ FlushEnd
  PROVE  SenderInv'
  <1>1. UNCHANGED <<nextId, now>>
    BY DEF FlushBegin, FlushSend, FlushEnd
  <1>2. CASE \E rto \in Rtos : ZeroWindowProbe(rto)
    BY <1>1, <1>2, ProbeInv
  <1>3. CASE TailLossProbe
    BY <1>1, <1>3, TailProbeInv
  <1>4. CASE \E m \in DOMAIN outgoing, cwnd \in Cwnds : FlushSend(m, cwnd)
    <2>1. PICK m \in DOMAIN outgoing :
            SendRetransmission(m) \/ SendTimedOut(m) \/ SendNew(m)
      BY <1>4 DEF FlushSend
    <2>2. CASE SendNew(m)
      <3>1. MessageTypeOK(outgoing[m]) /\ MessageInv(outgoing[m]) /\ now \in Nat \ {0}
        BY DEF SenderInv
      <3> QED
        BY <1>1, <2>2, <3>1, NextSent, TrySendInv DEF SendNew
    <2> QED
      BY <1>1, <2>1, <2>2, RetransmissionInv, TimedOutInv
  <1>5. CASE UNCHANGED <<outgoing, inFlight, wire>>
    BY <1>1, <1>5 DEF SenderInv, InFlightExact, FlightBytes
  <1> QED
    BY <1>2, <1>3, <1>4, <1>5 DEF FlushBegin, FlushEnd

(***************************************************************************)
(* Acknowledgements.                                                      *)
(***************************************************************************)
(* The peer's word settles fragments of a message: some are acknowledged, *)
(* some queued for retransmission, and those in gone leave the air.       *)
Settled(msg, gone, new) ==
  /\ IsMessage(new) /\ new.len = msg.len /\ new.next = msg.next
  /\ new.ever = msg.ever
  /\ msg.acked \subseteq new.acked /\ new.acked \subseteq Started(msg)
  /\ new.hca \in 0..msg.next /\ 0..(new.hca - 1) \subseteq new.acked
  /\ gone \subseteq Airborne(msg) /\ Airborne(msg) \cap new.acked \subseteq gone
  /\ new.lastSent = [f \in Fragments(msg.len) |->
                       IF f \in gone THEN NoTime ELSE msg.lastSent[f]]
  /\ new.ifq = Retain(msg.ifq, {e \in Entries(msg.ifq) : e[1] \notin gone})
  /\ new.rtxq \in Seq(Nat) /\ Distinct(new.rtxq) /\ new.rtxset = Entries(new.rtxq)
  /\ new.rtxset \subseteq Started(msg) \ new.acked
  /\ msg.rtxset \union gone \subseteq new.rtxset \union new.acked

(* The invariant of a message that the peer has settled fragments of.     *)
LEMMA SettledInv ==
  ASSUME NEW msg, NEW gone, NEW new, MessageTypeOK(msg), MessageInv(msg),
         Settled(msg, gone, new)
  PROVE  /\ MessageTypeOK(new) /\ MessageInv(new)
         /\ Airborne(new) = Airborne(msg) \ gone
         /\ Started(new) = Started(msg)
  <1>1. /\ new.len = msg.len /\ new.next = msg.next /\ new.ever = msg.ever
        /\ new.lastSent = [f \in Fragments(msg.len) |->
                             IF f \in gone THEN NoTime ELSE msg.lastSent[f]]
        /\ gone \subseteq Airborne(msg)
    BY DEF Settled
  <1>2. Started(new) = Started(msg)
    BY <1>1 DEF Started
  <1>3. /\ msg.lastSent \in [Fragments(msg.len) -> Nat]
        /\ msg.ifq \in Seq(Nat \X Nat)
    BY DEF MessageTypeOK
  <1>4. /\ new.lastSent \in [Fragments(msg.len) -> Nat]
        /\ \A f \in Fragments(msg.len) :
             new.lastSent[f] = IF f \in gone THEN NoTime ELSE msg.lastSent[f]
    BY <1>1, <1>3 DEF NoTime
  <1>5. Airborne(new) = Airborne(msg) \ gone
    BY <1>1, <1>4 DEF Airborne
  <1> DEFINE K == {e \in Entries(msg.ifq) : e[1] \notin gone}
  <1>6. new.ifq \in Seq(Nat \X Nat) /\ Entries(new.ifq) = K
    <2>1. new.ifq = Retain(msg.ifq, K)
      BY DEF Settled
    <2>2. Entries(msg.ifq) \cap K = K
      OBVIOUS
    <2> DEFINE T == Nat \X Nat
    <2>3. msg.ifq \in Seq(T)
      BY <1>3
    <2> HIDE DEF K, T
    <2>4. /\ Retain(msg.ifq, K) \in Seq(T)
          /\ Entries(Retain(msg.ifq, K)) = Entries(msg.ifq) \cap K
      BY <2>3, RetainEntries
    <2> QED
      BY <2>1, <2>2, <2>4, Zenon DEF T
  <1>7. MessageTypeOK(new)
    BY <1>1, <1>4, <1>6 DEF MessageTypeOK, Settled
  <1>8. {e[1] : e \in Entries(new.ifq)} = Airborne(new)
    <2>1. {e[1] : e \in Entries(msg.ifq)} = Airborne(msg)
      BY DEF MessageInv
    <2>2. \A e \in K : e[1] \in Airborne(msg) \ gone
      BY <2>1
    <2>3. \A g \in Airborne(msg) \ gone : \E e \in K : e[1] = g
      BY <2>1
    <2> QED
      BY <1>5, <1>6, <2>2, <2>3, Zenon
  <1>9. ASSUME NEW g \in Airborne(new)
        PROVE  <<g, new.lastSent[g]>> \in Entries(new.ifq)
    <2>1. /\ g \in Airborne(msg) /\ g \notin gone
          /\ new.lastSent[g] = msg.lastSent[g]
      BY <1>4, <1>5 DEF Airborne
    <2>2. <<g, msg.lastSent[g]>> \in Entries(msg.ifq) /\ <<g, msg.lastSent[g]>>[1] = g
      BY <2>1 DEF MessageInv
    <2> QED
      BY <1>6, <2>1, <2>2
  <1>10. Airborne(new) \subseteq Started(new) \cap new.ever
    BY <1>1, <1>2, <1>5 DEF MessageInv
  <1>11. /\ new.acked \subseteq Started(new) /\ Entries(new.rtxq) \subseteq Started(new)
         /\ new.rtxset = Entries(new.rtxq) /\ Distinct(new.rtxq)
         /\ 0..(new.hca - 1) \subseteq new.acked
    BY <1>2 DEF Settled
  <1>12. (Airborne(new) \union new.rtxset) \cap new.acked = {}
    BY <1>5 DEF Settled
  <1>13. Started(new) \subseteq new.acked \union new.rtxset \union Airborne(new)
    BY <1>2, <1>5 DEF Settled, MessageInv
  <1>14. MessageInv(new)
    BY <1>8, <1>9, <1>10, <1>11, <1>12, <1>13, SMTT(20) DEF MessageInv
  <1> QED
    BY <1>2, <1>5, <1>7, <1>14

(* The acknowledgements of one packet, before losses are looked for.      *)
LEMMA AfterAcksFields ==
  ASSUME NEW msg, MessageTypeOK(msg), NEW base, NEW mask
  PROVE  LET ack   == AfterAcks(msg, base, mask)
             newly == NewlyAcked(msg, base, mask)
         IN  /\ IsMessage(ack) /\ ack.len = msg.len /\ ack.next = msg.next
             /\ ack.ever = msg.ever /\ ack.rtxq = msg.rtxq /\ ack.rtxset = msg.rtxset
             /\ ack.ifq = msg.ifq /\ ack.acked = msg.acked \union newly
             /\ ack.hca = Bigger(msg.hca, base) /\ ack.dup = msg.dup
             /\ ack.lastBase = msg.lastBase
             /\ ack.lastSent = [f \in Fragments(msg.len) |->
                                  IF f \in newly THEN NoTime ELSE msg.lastSent[f]]
  <1> DEFINE newly == NewlyAcked(msg, base, mask)
             a == msg.acked \union newly
             h == Bigger(msg.hca, base)
             t == HighestSentTime(msg, newly)
             at == [f \in Fragments(msg.len) |->
                      IF f \in newly THEN NoTime ELSE msg.lastSent[f]]
             ack == AfterAcks(msg, base, mask)
  <1>1. IsMessage(msg)
    BY DEF MessageTypeOK
  <1>2. ack = [msg EXCEPT !.acked = a, !.hca = h, !.hsta = t, !.lastSent = at,
                          !.lastAck = now]
    BY DEF AfterAcks
  <1> HIDE DEF newly, a, h, t, at, ack
  <1>3. /\ IsMessage(ack) /\ ack.len = msg.len /\ ack.next = msg.next
        /\ ack.ever = msg.ever /\ ack.rtxq = msg.rtxq /\ ack.rtxset = msg.rtxset
        /\ ack.ifq = msg.ifq /\ ack.acked = a /\ ack.hca = h /\ ack.dup = msg.dup
        /\ ack.lastBase = msg.lastBase /\ ack.lastSent = at
    BY <1>1, <1>2, Zenon DEF IsMessage
  <1> QED
    BY <1>3 DEF newly, a, h, at, ack

(* The send times once the fragments in S are no longer in the air.       *)
Grounded(msg, S) ==
  [f \in Fragments(msg.len) |-> IF f \in S THEN NoTime ELSE msg.lastSent[f]]

(* The record once fast and holes are queued for retransmission.          *)
LossOf(msg, fast, holes, lost) ==
  /\ IsMessage(lost) /\ lost.len = msg.len /\ lost.next = msg.next
  /\ lost.ever = msg.ever /\ lost.acked = msg.acked
  /\ lost.hca = msg.hca /\ lost.ifq = msg.ifq
  /\ lost.rtxq = (msg.rtxq \o Ascending(fast)) \o Ascending(holes)
  /\ lost.rtxset = msg.rtxset \union fast \union holes
  /\ lost.lastSent = Grounded(msg, fast \union holes)

(* Fragments taken from the flight to the retransmit queue.               *)
LEMMA TriggerLossFields ==
  ASSUME NEW msg, IsMessage(msg), NEW fast, NEW holes
  PROVE  LossOf(msg, fast, holes, TriggerLoss(msg, fast, holes))
  <1> DEFINE q == (msg.rtxq \o Ascending(fast)) \o Ascending(holes)
             r == msg.rtxset \union fast \union holes
             at == [f \in Fragments(msg.len) |->
                      IF f \in fast \union holes THEN NoTime ELSE msg.lastSent[f]]
             lost == TriggerLoss(msg, fast, holes)
  <1>1. lost = [msg EXCEPT !.rtxq = q, !.rtxset = r, !.lastSent = at]
    BY DEF TriggerLoss
  <1> HIDE DEF q, r, at, lost
  <1>2. /\ IsMessage(lost) /\ lost.len = msg.len /\ lost.next = msg.next
        /\ lost.ever = msg.ever /\ lost.acked = msg.acked
        /\ lost.hca = msg.hca /\ lost.ifq = msg.ifq
        /\ lost.rtxq = q /\ lost.rtxset = r /\ lost.lastSent = at
    BY <1>1, Zenon DEF IsMessage
  <1> QED
    BY <1>2 DEF q, r, at, lost, Grounded, LossOf

(* on_ack settles what the ACK says and the losses that follow from it.   *)
LEMMA OnAckSettled ==
  ASSUME NEW msg, MessageTypeOK(msg), MessageInv(msg),
         NEW base \in 0..msg.next, NEW mask \in SUBSET Started(msg)
  PROVE  Settled(msg, OnAck(msg, base, mask).gone, OnAck(msg, base, mask).msg)
  <1> DEFINE newly == NewlyAcked(msg, base, mask)
             ack   == AfterAcks(msg, base, mask)
             fast  == FastRetransmit(ack, base, newly)
             based == [ack EXCEPT !.dup = DupAcks(msg, base, newly),
                                  !.lastBase = Bigger(@, base)]
             holes == LostHoles(based, based.rtxset \union fast) \ fast
             lost  == TriggerLoss(based, fast, holes)
             kept  == IF newly # {} THEN PruneRetransmits(lost) ELSE lost
             gone  == {f \in newly \cap msg.ever : msg.lastSent[f] # NoTime}
                        \union fast \union holes
             new   == CleanupInFlight(kept, gone)
  <1>1. OnAck(msg, base, mask).gone = gone /\ OnAck(msg, base, mask).msg = new
    BY DEF OnAck
  <1>2. /\ IsMessage(msg) /\ msg.len \in Nat \ {0} /\ msg.next \in 0..NumFragments(msg.len)
        /\ msg.hca \in 0..msg.next /\ msg.rtxq \in Seq(Nat)
        /\ msg.lastSent \in [Fragments(msg.len) -> Nat]
        /\ NumFragments(msg.len) \in Nat /\ Fragments(msg.len) \subseteq Nat
        /\ Started(msg) \subseteq Fragments(msg.len)
    <2>1. /\ IsMessage(msg) /\ msg.len \in Nat \ {0} /\ msg.next \in 0..NumFragments(msg.len)
          /\ msg.hca \in 0..msg.next /\ msg.rtxq \in Seq(Nat)
          /\ msg.lastSent \in [Fragments(msg.len) -> Nat]
      BY DEF MessageTypeOK
    <2>2. NumFragments(msg.len) \in Nat /\ Fragments(msg.len) \subseteq Nat
      BY <2>1, FragmentsType
    <2> QED
      BY <2>1, <2>2 DEF Started, Fragments
  <1>3. /\ newly \subseteq Started(msg) \ msg.acked
        /\ \A f \in 0..(base - 1) : f >= msg.hca => f \in msg.acked \union newly
    BY <1>2 DEF NewlyAcked, Started, Fragments
  <1>4. /\ IsMessage(ack) /\ ack.len = msg.len /\ ack.next = msg.next
        /\ ack.ever = msg.ever /\ ack.rtxq = msg.rtxq /\ ack.rtxset = msg.rtxset
        /\ ack.ifq = msg.ifq /\ ack.acked = msg.acked \union newly
        /\ ack.hca = Bigger(msg.hca, base)
        /\ ack.lastSent = [f \in Fragments(msg.len) |->
                             IF f \in newly THEN NoTime ELSE msg.lastSent[f]]
    BY AfterAcksFields
  <1>5. \A f \in Fragments(msg.len) :
          ack.lastSent[f] = IF f \in newly THEN NoTime ELSE msg.lastSent[f]
    BY <1>4
  <1> HIDE DEF newly, ack
  <1>6. fast \subseteq Airborne(msg) \ (newly \union msg.acked \union msg.rtxset)
    <2> SUFFICES ASSUME NEW f \in fast
                 PROVE  /\ f \in Airborne(msg) /\ f \notin newly
                        /\ f \notin msg.acked /\ f \notin msg.rtxset
      OBVIOUS
    <2>1. /\ f = base /\ base < NumFragments(msg.len)
          /\ f \notin ack.acked /\ f \notin ack.rtxset
          /\ ack.lastSent[f] # NoTime
      BY <1>4 DEF FastRetransmit
    <2>2. f \in Fragments(msg.len)
      BY <1>2, <2>1 DEF Fragments
    <2> QED
      BY <1>4, <1>5, <2>1, <2>2 DEF Airborne
  <1>7. /\ IsMessage(based) /\ based.len = msg.len /\ based.next = msg.next
        /\ based.ever = msg.ever /\ based.rtxq = msg.rtxq /\ based.rtxset = msg.rtxset
        /\ based.ifq = msg.ifq /\ based.acked = msg.acked \union newly
        /\ based.hca = ack.hca /\ based.lastSent = ack.lastSent
    <2> DEFINE d == DupAcks(msg, base, newly)
               b == Bigger(ack.lastBase, base)
    <2>1. based = [ack EXCEPT !.dup = d, !.lastBase = b]
      OBVIOUS
    <2> HIDE DEF d, b, based
    <2> QED
      BY <1>4, <2>1, Zenon DEF IsMessage
  <1> HIDE DEF based, fast
  <1>8. holes \subseteq Airborne(msg) \ (newly \union msg.acked \union msg.rtxset \union fast)
    <2> SUFFICES ASSUME NEW f \in holes
                 PROVE  /\ f \in Airborne(msg) /\ f \notin newly /\ f \notin fast
                        /\ f \notin msg.acked /\ f \notin msg.rtxset
      OBVIOUS
    <2>1. /\ f \in Fragments(msg.len) \ based.acked /\ f \notin based.rtxset
          /\ f \notin fast /\ ack.lastSent[f] # NoTime
      BY <1>7 DEF LostHoles
    <2> QED
      BY <1>5, <1>7, <2>1 DEF Airborne
  <1> HIDE DEF holes
  <1>9. /\ IsMessage(lost) /\ lost.len = msg.len /\ lost.next = msg.next
        /\ lost.ever = msg.ever /\ lost.acked = msg.acked \union newly
        /\ lost.hca = ack.hca /\ lost.ifq = msg.ifq
        /\ lost.rtxq = (msg.rtxq \o Ascending(fast)) \o Ascending(holes)
        /\ lost.rtxset = msg.rtxset \union fast \union holes
        /\ lost.lastSent = [f \in Fragments(msg.len) |->
                              IF f \in fast \union holes THEN NoTime
                              ELSE ack.lastSent[f]]
    <2>1. LossOf(based, fast, holes, lost)
      BY <1>7, TriggerLossFields
    <2> HIDE DEF lost
    <2> QED
      BY <1>7, <2>1 DEF Grounded, LossOf
  <1> HIDE DEF lost
  <1>10. /\ lost.rtxq \in Seq(Nat) /\ Distinct(lost.rtxq)
         /\ lost.rtxset = Entries(lost.rtxq)
    <2> DEFINE a == Ascending(fast)
               b == Ascending(holes)
               c == msg.rtxq \o a
    <2>1. /\ fast \in SUBSET Fragments(msg.len) /\ holes \in SUBSET Fragments(msg.len)
          /\ fast \in SUBSET Nat /\ holes \in SUBSET Nat
      BY <1>2, <1>6, <1>8 DEF Airborne
    <2>2. IsFiniteSet(fast) /\ IsFiniteSet(holes)
      BY <1>2, <2>1, FragmentsFinite
    <2>3. a \in Seq(fast) /\ Entries(a) = fast /\ Distinct(a)
      BY <2>1, <2>2, AscendingEntries
    <2>4. b \in Seq(holes) /\ Entries(b) = holes /\ Distinct(b)
      BY <2>1, <2>2, AscendingEntries
    <2> HIDE DEF a, b
    <2>5. a \in Seq(Nat) /\ b \in Seq(Nat)
      BY <2>1, <2>3, <2>4, SeqMonotonic, Zenon
    <2>6. msg.rtxset = Entries(msg.rtxq) /\ Distinct(msg.rtxq)
      BY DEF MessageInv
    <2>7. c \in Seq(Nat) /\ Entries(c) = msg.rtxset \union fast /\ Distinct(c)
      BY <1>2, <1>6, <2>3, <2>5, <2>6, ConcatEntries
    <2> HIDE DEF c
    <2>8. /\ c \o b \in Seq(Nat) /\ Entries(c \o b) = Entries(c) \union Entries(b)
          /\ Distinct(c \o b)
      BY <1>8, <2>4, <2>5, <2>7, ConcatEntries, SMTT(20)
    <2> QED
      BY <1>9, <2>4, <2>7, <2>8 DEF a, b, c
  <1>11. /\ IsMessage(kept) /\ kept.len = msg.len /\ kept.next = msg.next
         /\ kept.ever = msg.ever /\ kept.acked = msg.acked \union newly
         /\ kept.hca = ack.hca /\ kept.ifq = msg.ifq
         /\ kept.lastSent = lost.lastSent
         /\ kept.rtxq \in Seq(Nat) /\ Distinct(kept.rtxq)
         /\ kept.rtxset = Entries(kept.rtxq)
         /\ kept.rtxset = lost.rtxset \ kept.acked
    <2>1. CASE newly # {}
      <3> DEFINE q == Retain(lost.rtxq, Fragments(lost.len) \ lost.acked)
                 e == Entries(q)
      <3>1. kept = [lost EXCEPT !.rtxq = q, !.rtxset = e]
        BY <2>1, SMTT(20) DEF PruneRetransmits
      <3>2. /\ q \in Seq(Nat) /\ Distinct(q)
            /\ e = Entries(lost.rtxq) \cap (Fragments(lost.len) \ lost.acked)
        BY <1>10, RetainEntries, RetainDistinct, SMTT(20)
      <3>3. Entries(lost.rtxq) \subseteq Fragments(lost.len)
        <4>1. msg.rtxset \subseteq Fragments(msg.len)
          BY <1>2, Zenon DEF MessageInv
        <4>2. fast \subseteq Fragments(msg.len) /\ holes \subseteq Fragments(msg.len)
          <5>1. Airborne(msg) \subseteq Fragments(msg.len)
            BY Zenon DEF Airborne
          <5> QED
            BY <1>6, <1>8, <5>1, Zenon
        <4>3. lost.rtxset = msg.rtxset \union fast \union holes /\ lost.len = msg.len
          BY <1>9, Zenon
        <4>4. Entries(lost.rtxq) = lost.rtxset
          BY <1>10, Zenon
        <4> QED
          BY <4>1, <4>2, <4>3, <4>4, Zenon
      <3>4. e = lost.rtxset \ lost.acked
        BY <1>10, <3>2, <3>3, Zenon
      <3>5. e = Entries(q)
        OBVIOUS
      <3> HIDE DEF q, e, kept
      <3>6. /\ IsMessage(kept) /\ kept.len = lost.len /\ kept.next = lost.next
            /\ kept.ever = lost.ever /\ kept.acked = lost.acked
            /\ kept.hca = lost.hca /\ kept.ifq = lost.ifq
            /\ kept.lastSent = lost.lastSent /\ kept.rtxq = q /\ kept.rtxset = e
        BY <1>9, <3>1, Zenon DEF IsMessage
      <3> QED
        BY <1>9, <3>2, <3>4, <3>5, <3>6, Zenon
    <2>2. CASE newly = {}
      <3>1. kept = lost
        BY <2>2
      <3>2. lost.rtxset \cap lost.acked = {}
        BY <1>6, <1>8, <1>9, <2>2 DEF MessageInv
      <3> HIDE DEF kept
      <3> QED
        BY <1>9, <1>10, <3>1, <3>2, Zenon
    <2> QED
      BY <2>1, <2>2
  <1> HIDE DEF kept
  <1>12. /\ gone = (newly \cap Airborne(msg)) \union fast \union holes
    BY <1>2, <1>3, SMTT(20) DEF MessageInv, Airborne
  <1> HIDE DEF gone
  <1>13. /\ IsMessage(new) /\ new.len = msg.len /\ new.next = msg.next
         /\ new.ever = msg.ever /\ new.acked = msg.acked \union newly
         /\ new.hca = ack.hca /\ new.lastSent = lost.lastSent
         /\ new.rtxq = kept.rtxq /\ new.rtxset = kept.rtxset
         /\ new.ifq = Retain(msg.ifq, {e \in Entries(msg.ifq) : e[1] \notin gone})
    <2> DEFINE q == Retain(kept.ifq, {e \in Entries(kept.ifq) : e[1] \notin gone})
    <2>1. new = [kept EXCEPT !.ifq = q]
      BY DEF CleanupInFlight
    <2>2. q = Retain(msg.ifq, {e \in Entries(msg.ifq) : e[1] \notin gone})
      BY <1>11
    <2> HIDE DEF q, new
    <2>3. /\ IsMessage(new) /\ new.len = kept.len /\ new.next = kept.next
          /\ new.ever = kept.ever /\ new.acked = kept.acked
          /\ new.hca = kept.hca /\ new.lastSent = kept.lastSent
          /\ new.rtxq = kept.rtxq /\ new.rtxset = kept.rtxset /\ new.ifq = q
      BY <1>11, <2>1 DEF IsMessage
    <2> QED
      BY <1>11, <2>2, <2>3
  <1> HIDE DEF new
  <1>14. new.hca \in 0..msg.next /\ 0..(new.hca - 1) \subseteq new.acked
    <2>1. 0..(msg.hca - 1) \subseteq msg.acked
      BY DEF MessageInv
    <2>2. new.hca = Bigger(msg.hca, base) /\ new.acked = msg.acked \union newly
      BY <1>4, <1>13
    <2> QED
      BY <1>2, <1>3, <2>1, <2>2 DEF Bigger
  <1>15. new.lastSent = [f \in Fragments(msg.len) |->
                          IF f \in gone THEN NoTime ELSE msg.lastSent[f]]
    <2> DEFINE X(f) == IF f \in gone THEN NoTime ELSE msg.lastSent[f]
               Y(f) == IF f \in fast \union holes THEN NoTime ELSE ack.lastSent[f]
    <2>1. ASSUME NEW f \in Fragments(msg.len) PROVE X(f) = Y(f)
      BY <1>5, <1>12, <2>1 DEF Airborne
    <2>2. new.lastSent = [f \in Fragments(msg.len) |-> Y(f)]
      BY <1>9, <1>13
    <2> HIDE DEF X, Y
    <2>3. new.lastSent = [f \in Fragments(msg.len) |-> X(f)]
      BY <2>1, <2>2
    <2> QED
      BY <2>3 DEF X
  <1>16. gone \subseteq Airborne(msg) /\ Airborne(msg) \cap new.acked \subseteq gone
    BY <1>6, <1>8, <1>12, <1>13 DEF MessageInv
  <1>17. new.acked \subseteq Started(msg) /\ msg.acked \subseteq new.acked
    BY <1>3, <1>13 DEF MessageInv
  <1>18. new.rtxset \subseteq Started(msg) \ new.acked
    BY <1>6, <1>8, <1>9, <1>11, <1>13, SMTT(20) DEF MessageInv
  <1>19. msg.rtxset \union gone \subseteq new.rtxset \union new.acked
    BY <1>9, <1>11, <1>12, <1>13
  <1>20. Settled(msg, gone, new)
    BY <1>11, <1>13, <1>14, <1>15, <1>16, <1>17, <1>18, <1>19, Zenon DEF Settled
  <1> QED
    BY <1>1, <1>20

(* handle_nack_packet settles the missing fragments.                      *)
LEMMA OnNackSettled ==
  ASSUME NEW msg, MessageTypeOK(msg), MessageInv(msg),
         NEW missing \in SUBSET Started(msg)
  PROVE  Settled(msg, OnNack(msg, missing).gone, OnNack(msg, missing).msg)
  <1> DEFINE lost  == {f \in missing : f < NumFragments(msg.len)} \ msg.acked
             gone  == {f \in lost : msg.lastSent[f] # NoTime}
             fresh == lost \ msg.rtxset
             q     == msg.rtxq \o Ascending(fresh)
             r     == msg.rtxset \union fresh
             at    == [f \in Fragments(msg.len) |->
                         IF f \in lost THEN NoTime ELSE msg.lastSent[f]]
             mid   == [msg EXCEPT !.rtxq = q, !.rtxset = r, !.lastSent = at]
             new   == CleanupInFlight(mid, gone)
  <1>1. OnNack(msg, missing).gone = gone /\ OnNack(msg, missing).msg = new
    BY DEF OnNack
  <1>2. /\ IsMessage(msg) /\ msg.len \in Nat \ {0} /\ msg.next \in 0..NumFragments(msg.len)
        /\ msg.hca \in 0..msg.next /\ msg.rtxq \in Seq(Nat)
    BY DEF MessageTypeOK
  <1>3. NumFragments(msg.len) \in Nat /\ Fragments(msg.len) \subseteq Nat
    BY <1>2, FragmentsType
  <1>4. /\ Started(msg) \subseteq Fragments(msg.len)
        /\ lost \subseteq Started(msg) \ msg.acked
    <2>1. Started(msg) \subseteq Fragments(msg.len)
      BY <1>2, <1>3 DEF Started, Fragments
    <2> QED
      BY <2>1
  <1>5. gone = lost \cap Airborne(msg)
    BY <1>4 DEF Airborne
  <1>6. q \in Seq(Nat) /\ Distinct(q) /\ r = Entries(q)
    <2> DEFINE a == Ascending(fresh)
    <2>1. fresh \in SUBSET Fragments(msg.len) /\ fresh \in SUBSET Nat
      BY <1>3, <1>4
    <2>2. IsFiniteSet(fresh)
      BY <1>2, <2>1, FragmentsFinite
    <2>3. msg.rtxset = Entries(msg.rtxq) /\ Distinct(msg.rtxq)
      BY DEF MessageInv
    <2>4. fresh \cap msg.rtxset = {}
      OBVIOUS
    <2> HIDE DEF fresh
    <2>5. a \in Seq(fresh) /\ Entries(a) = fresh /\ Distinct(a)
      BY <2>1, <2>2, AscendingEntries
    <2> HIDE DEF a
    <2>6. a \in Seq(Nat)
      BY <2>1, <2>5, SeqMonotonic, Zenon
    <2>7. /\ msg.rtxq \o a \in Seq(Nat)
          /\ Entries(msg.rtxq \o a) = msg.rtxset \union fresh
          /\ Distinct(msg.rtxq \o a)
      BY <1>2, <2>3, <2>4, <2>5, <2>6, ConcatEntries
    <2> QED
      BY <2>7 DEF a
  <1>7. at = [f \in Fragments(msg.len) |->
                IF f \in gone THEN NoTime ELSE msg.lastSent[f]]
    BY <1>5 DEF Airborne
  <1>8. r = msg.rtxset \union lost
    OBVIOUS
  <1> HIDE DEF lost, gone, fresh, q, r, at
  <1>9. /\ IsMessage(mid) /\ mid.len = msg.len /\ mid.next = msg.next
        /\ mid.ever = msg.ever /\ mid.acked = msg.acked /\ mid.hca = msg.hca
        /\ mid.ifq = msg.ifq /\ mid.rtxq = q /\ mid.rtxset = r /\ mid.lastSent = at
    <2>1. mid = [msg EXCEPT !.rtxq = q, !.rtxset = r, !.lastSent = at]
      OBVIOUS
    <2> HIDE DEF mid
    <2> QED
      BY <1>2, <2>1, Zenon DEF IsMessage
  <1> HIDE DEF mid
  <1>10. /\ IsMessage(new) /\ new.len = msg.len /\ new.next = msg.next
         /\ new.ever = msg.ever /\ new.acked = msg.acked /\ new.hca = msg.hca
         /\ new.rtxq = q /\ new.rtxset = r /\ new.lastSent = at
         /\ new.ifq = Retain(msg.ifq, {e \in Entries(msg.ifq) : e[1] \notin gone})
    <2> DEFINE k == Retain(mid.ifq, {e \in Entries(mid.ifq) : e[1] \notin gone})
    <2>1. new = [mid EXCEPT !.ifq = k]
      BY DEF CleanupInFlight
    <2>2. k = Retain(msg.ifq, {e \in Entries(msg.ifq) : e[1] \notin gone})
      BY <1>9
    <2> HIDE DEF k, new
    <2>3. /\ IsMessage(new) /\ new.len = mid.len /\ new.next = mid.next
          /\ new.ever = mid.ever /\ new.acked = mid.acked /\ new.hca = mid.hca
          /\ new.rtxq = mid.rtxq /\ new.rtxset = mid.rtxset
          /\ new.lastSent = mid.lastSent /\ new.ifq = k
      BY <1>9, <2>1 DEF IsMessage
    <2> QED
      BY <1>9, <2>2, <2>3
  <1> HIDE DEF new
  <1>11. /\ gone \subseteq Airborne(msg) /\ Airborne(msg) \cap new.acked \subseteq gone
    BY <1>5, <1>10 DEF MessageInv
  <1>12. /\ new.acked \subseteq Started(msg) /\ 0..(new.hca - 1) \subseteq new.acked
    BY <1>10 DEF MessageInv
  <1>13. new.rtxset \subseteq Started(msg) \ new.acked
    BY <1>4, <1>8, <1>10 DEF MessageInv
  <1>14. msg.rtxset \union gone \subseteq new.rtxset
    BY <1>5, <1>8, <1>10
  <1>15. Settled(msg, gone, new)
    BY <1>2, <1>6, <1>7, <1>10, <1>11, <1>12, <1>13, <1>14, Zenon DEF Settled
  <1> QED
    BY <1>1, <1>15

(* The bytes of what was settled: they were counted in in_flight, and the *)
(* queue entries that cleanup_in_flight_queue counts name them all.       *)
LEMMA SettledBytes ==
  ASSUME SenderInv, NEW m \in DOMAIN outgoing, NEW gone, NEW new,
         Settled(outgoing[m], gone, new)
  PROVE  LET msg == outgoing[m]
             b   == BytesOf(msg.len, gone)
         IN  /\ b \in Nat /\ MessageBytes(msg) \in Nat /\ MessageBytes(new) \in Nat
             /\ MessageBytes(new) = MessageBytes(msg) - b
             /\ CompletedBytes(msg, gone) = b
  <1> DEFINE msg == outgoing[m]
             b   == BytesOf(msg.len, gone)
  <1>1. MessageTypeOK(msg) /\ MessageInv(msg)
    BY DEF SenderInv
  <1>2. msg.len \in Nat \ {0} /\ new.len = msg.len /\ gone \subseteq Airborne(msg)
    BY <1>1 DEF MessageTypeOK, Settled
  <1>3. Airborne(new) = Airborne(msg) \ gone
    BY <1>1, SettledInv
  <1>4. {f \in gone : \E e \in Entries(msg.ifq) : e[1] = f} = gone
    <2>1. {e[1] : e \in Entries(msg.ifq)} = Airborne(msg)
      BY <1>1 DEF MessageInv
    <2>2. \A f \in gone : \E e \in Entries(msg.ifq) : e[1] = f
      BY <1>2, <2>1
    <2> QED
      BY <2>2
  <1>5. CompletedBytes(msg, gone) = b
    BY <1>4 DEF CompletedBytes
  <1>6. /\ b \in Nat /\ MessageBytes(msg) \in Nat
        /\ BytesOf(msg.len, Airborne(msg) \ gone) \in Nat
        /\ MessageBytes(msg) = b + BytesOf(msg.len, Airborne(msg) \ gone)
    BY <1>2, MessageBytesType
  <1>7. MessageBytes(new) = BytesOf(msg.len, Airborne(msg) \ gone)
    BY <1>2, <1>3 DEF MessageBytes
  <1> HIDE DEF b
  <1>8. MessageBytes(new) \in Nat /\ MessageBytes(new) = MessageBytes(msg) - b
    BY <1>6, <1>7
  <1> QED
    BY <1>5, <1>6, <1>8 DEF b

(* The peer settles fragments of a message that stays in the table.       *)
LEMMA SettledStep ==
  ASSUME SenderInv, NEW m \in DOMAIN outgoing, NEW gone, NEW new,
         Settled(outgoing[m], gone, new),
         outgoing' = [outgoing EXCEPT ![m] = new],
         inFlight' = SaturatingSub(inFlight, BytesOf(outgoing[m].len, gone)),
         UNCHANGED <<nextId, now, wire>>
  PROVE  SenderInv'
  <1> DEFINE b == BytesOf(outgoing[m].len, gone)
  <1>1. MessageTypeOK(outgoing[m]) /\ MessageInv(outgoing[m]) /\ inFlight \in Nat
    BY DEF SenderInv
  <1>2. /\ MessageTypeOK(new) /\ MessageInv(new)
        /\ Started(new) = Started(outgoing[m])
    BY <1>1, SettledInv
  <1>3. /\ b \in Nat /\ MessageBytes(outgoing[m]) \in Nat /\ MessageBytes(new) \in Nat
        /\ MessageBytes(new) = MessageBytes(outgoing[m]) - b
    BY SettledBytes
  <1>4. /\ MessageBytes(outgoing[m]) <= inFlight
        /\ FlightBytes(DOMAIN outgoing)'
              = inFlight - MessageBytes(outgoing[m]) + MessageBytes(new)
    <2>1. new.len \in Nat \ {0}
      BY <1>2 DEF MessageTypeOK
    <2> QED
      BY <2>1, FlightChange, Zenon
  <1>5. inFlight' = SaturatingSub(inFlight, b)
    OBVIOUS
  <1> HIDE DEF b
  <1>6. inFlight' \in Nat /\ inFlight' = FlightBytes(DOMAIN outgoing)'
    BY <1>1, <1>3, <1>4, <1>5 DEF SaturatingSub
  <1> QED
    BY <1>2, <1>6, SenderJoin, Zenon

(* The peer's cumulative acknowledgement is at most one past what it got. *)
LEMMA FirstMissingType ==
  ASSUME NEW n \in Nat, NEW got \in SUBSET (0..(n - 1))
  PROVE  FirstMissing(got) \in 0..n
  <1> DEFINE S == (0..n) \ got
             C(b) == b \notin got /\ \A f \in 0..(b - 1) : f \in got
  <1>1. 0 \in Int /\ n \in Int /\ n - 1 \in Int
    OBVIOUS
  <1>2. S \in SUBSET Nat /\ n \in S
    OBVIOUS
  <1>3. IsFiniteSet(S) /\ IsFiniteSet(got)
    <2>1. IsFiniteSet(0..n) /\ IsFiniteSet(0..(n - 1))
      BY <1>1, FS_Interval
    <2>2. S \subseteq 0..n
      OBVIOUS
    <2> HIDE DEF S
    <2> QED
      BY <2>1, <2>2, FS_Subset, Zenon
  <1> HIDE DEF S
  <1>4. PICK b \in S : \A j \in S : b <= j
    BY <1>2, <1>3, LeastElement
  <1>5. b \in 0..n /\ b \notin got /\ 0..(b - 1) \subseteq got
    BY <1>4 DEF S
  <1>6. b <= Cardinality(got) /\ Cardinality(got) \in Nat
    <2>1. 0 \in Int /\ b - 1 \in Int /\ b \in Nat
      BY <1>5
    <2>2. Cardinality(0..(b - 1)) = b
      BY <2>1, FS_Interval
    <2> QED
      BY <1>3, <1>5, <2>2, FS_Subset, FS_CardinalityType
  <1>7. b \in 0..Cardinality(got) /\ C(b)
    BY <1>5, <1>6
  <1> DEFINE c == CHOOSE b_1 \in 0..Cardinality(got) : C(b_1)
  <1>8. FirstMissing(got) = c
    BY DEF FirstMissing
  <1>9. c \in 0..Cardinality(got) /\ C(c)
    <2> HIDE DEF C
    <2> QED
      BY <1>7
  <1> HIDE DEF c
  <1>10. c \in Nat /\ \A f \in 0..(c - 1) : f \in got
    BY <1>6, <1>9
  <1>11. c <= n
    <2> SUFFICES ASSUME c > n PROVE FALSE
      BY <1>10
    <2>1. n \in 0..(c - 1)
      BY <1>10
    <2> QED
      BY <1>10, <2>1
  <1> QED
    BY <1>8, <1>10, <1>11

(* Messages taken out of the table take their bytes with them.            *)
LEMMA FlightRemove ==
  ASSUME SenderInv, NEW M \in SUBSET DOMAIN outgoing,
         outgoing' = [k \in DOMAIN outgoing \ M |-> outgoing[k]]
  PROVE  /\ FlightBytes(M) \in Nat /\ FlightBytes(M) <= inFlight
         /\ FlightBytes(DOMAIN outgoing)' = inFlight - FlightBytes(M)
  <1> DEFINE D == DOMAIN outgoing
             f == [k \in D |-> MessageBytes(outgoing[k])]
             g == [k \in M |-> MessageBytes(outgoing[k])]
             h == [k \in D \ M |-> MessageBytes(outgoing[k])]
  <1>1. D \subseteq Ids /\ \A k \in D : outgoing[k].len \in Nat \ {0}
    BY DEF SenderInv, MessageTypeOK
  <1>2. IsFiniteSet(M) /\ IsFiniteSet(D \ M)
    <2>1. 0 \in Int /\ IdSpace - 1 \in Int
      BY SenderAssumption
    <2>2. IsFiniteSet(Ids)
      BY <2>1, FS_Interval DEF Ids
    <2>3. M \subseteq Ids /\ D \ M \subseteq Ids
      BY <1>1
    <2> QED
      BY <2>2, <2>3, FS_Subset
  <1>3. \A k \in D : MessageBytes(outgoing[k]) \in Nat
    BY <1>1, MessageBytesType
  <1>4. f \in [D -> Nat] /\ g \in [M -> Nat] /\ h \in [D \ M -> Nat]
    BY <1>3
  <1>5. g = [k \in M |-> f[k]] /\ h = [k \in D \ M |-> f[k]]
    OBVIOUS
  <1>6. M \union (D \ M) = D /\ M \cap (D \ M) = {}
    OBVIOUS
  <1>7. inFlight = Total(f) /\ FlightBytes(M) = Total(g)
    BY DEF SenderInv, InFlightExact, FlightBytes
  <1>8. FlightBytes(DOMAIN outgoing)' = Total(h)
    <2>1. DOMAIN outgoing' = D \ M /\ \A k \in D \ M : outgoing'[k] = outgoing[k]
      OBVIOUS
    <2> QED
      BY <2>1, Zenon DEF FlightBytes, MessageBytes, Airborne
  <1> HIDE DEF f, g, h
  <1>9. Total(f) = Total(g) + Total(h)
    <2> DEFINE B == D \ M
    <2>1. /\ IsFiniteSet(M) /\ IsFiniteSet(B) /\ M \cap B = {}
          /\ f \in [M \union B -> Nat]
          /\ g = [k \in M |-> f[k]] /\ h = [k \in B |-> f[k]]
      BY <1>2, <1>4, <1>5, <1>6
    <2> HIDE DEF B
    <2> QED
      BY <2>1, TotalSplit
  <1>10. Total(g) \in Nat /\ Total(h) \in Nat
    BY <1>2, <1>4, TotalType
  <1> QED
    BY <1>7, <1>8, <1>9, <1>10

(* The invariant after messages were taken out of the table.              *)
LEMMA RemoveInv ==
  ASSUME SenderInv, NEW M \in SUBSET DOMAIN outgoing,
         outgoing' = [k \in DOMAIN outgoing \ M |-> outgoing[k]],
         inFlight' = SaturatingSub(inFlight, FlightBytes(M)),
         UNCHANGED <<nextId, now, wire>>
  PROVE  SenderInv'
  <1>1. /\ DOMAIN outgoing' = DOMAIN outgoing \ M
        /\ \A k \in DOMAIN outgoing' : outgoing'[k] = outgoing[k]
    OBVIOUS
  <1>2. /\ FlightBytes(M) \in Nat /\ FlightBytes(M) <= inFlight /\ inFlight \in Nat
        /\ FlightBytes(DOMAIN outgoing)' = inFlight - FlightBytes(M)
    BY FlightRemove DEF SenderInv
  <1>3. inFlight' \in Nat /\ inFlight' = FlightBytes(DOMAIN outgoing)'
    BY <1>2 DEF SaturatingSub
  <1>4. InFlightExact'
    BY <1>3 DEF InFlightExact
  <1>5. \A k \in DOMAIN outgoing' :
          MessageTypeOK(outgoing'[k]) /\ MessageInv(outgoing'[k])
    BY <1>1 DEF SenderInv
  <1>6. \A p \in wire' : p.id \in DOMAIN outgoing' => p.idx \in Started(outgoing'[p.id])
    BY <1>1 DEF SenderInv
  <1>7. DOMAIN outgoing' \subseteq Ids /\ nextId' \in Ids /\ now' \in Nat \ {0}
    BY <1>1 DEF SenderInv
  <1> QED
    BY <1>3, <1>4, <1>5, <1>6, <1>7 DEF SenderInv

(* A message whose fragments are all acknowledged has none in the air, so *)
(* what its last ACK settled is all that in_flight still counted for it.  *)
LEMMA CompletionBytes ==
  ASSUME SenderInv, NEW m \in DOMAIN outgoing, NEW gone, NEW new,
         Settled(outgoing[m], gone, new),
         Cardinality(new.acked) = NumFragments(new.len)
  PROVE  BytesOf(outgoing[m].len, gone) = FlightBytes({m})
  <1> DEFINE msg == outgoing[m]
  <1>1. MessageTypeOK(msg) /\ MessageInv(msg)
    BY DEF SenderInv
  <1>2. /\ MessageTypeOK(new) /\ MessageInv(new)
        /\ Airborne(new) = Airborne(msg) \ gone
    BY <1>1, SettledInv
  <1>3. /\ gone \subseteq Airborne(msg) /\ msg.len \in Nat \ {0}
        /\ new.len \in Nat \ {0}
    BY <1>1, <1>2, Zenon DEF Settled, MessageTypeOK
  <1>4. new.acked \subseteq Fragments(new.len)
    <2>1. NumFragments(new.len) \in Nat
      BY <1>3, FragmentsType
    <2>2. new.next \in 0..NumFragments(new.len) /\ new.acked \subseteq Started(new)
      BY <1>2 DEF MessageTypeOK, MessageInv
    <2> QED
      BY <2>1, <2>2 DEF Started, Fragments
  <1>5. new.acked = Fragments(new.len)
    <2>1. /\ NumFragments(new.len) \in Nat
          /\ 0 \in Int /\ NumFragments(new.len) - 1 \in Int
      BY <1>3, FragmentsType
    <2>2. /\ IsFiniteSet(Fragments(new.len))
          /\ Cardinality(Fragments(new.len)) = NumFragments(new.len)
      BY <2>1, FS_Interval DEF Fragments
    <2> QED
      BY <1>4, <2>2, FS_Subset
  <1>6. Airborne(new) = {}
    BY <1>2, <1>5 DEF MessageInv, Airborne
  <1>7. gone = Airborne(msg)
    BY <1>2, <1>3, <1>6
  <1>8. FlightBytes({m}) = MessageBytes(msg)
    <2> DEFINE g == [k \in {m} |-> MessageBytes(outgoing[k])]
    <2>1. MessageBytes(msg) \in Nat
      BY <1>3, MessageBytesType
    <2>2. g \in [{m} -> Nat] /\ g[m] = MessageBytes(msg)
      BY <2>1
    <2>3. FlightBytes({m}) = Total(g)
      BY DEF FlightBytes
    <2> HIDE DEF g
    <2> QED
      BY <2>2, <2>3, TotalSingle
  <1> QED
    BY <1>7, <1>8 DEF MessageBytes

(* handle_ack_packet, for an ACK of fragments the peer was sent.          *)
LEMMA PeerAckInv ==
  ASSUME SenderInv, PeerAck
  PROVE  SenderInv'
  <1>1. PICK m \in {p.id : p \in wire}, rwnd \in Rwnds : \E got \in SUBSET OnWire(m) :
          HandleAck(m, FirstMissing(got), {f \in got : f > FirstMissing(got)}, rwnd)
    BY Zenon DEF PeerAck
  <1>2. PICK got \in SUBSET OnWire(m) :
          HandleAck(m, FirstMissing(got), {f \in got : f > FirstMissing(got)}, rwnd)
    BY <1>1
  <1> DEFINE base == FirstMissing(got)
             mask == {f \in got : f > base}
             gone == OnAck(outgoing[m], base, mask).gone
             new  == OnAck(outgoing[m], base, mask).msg
  <1>3. UNCHANGED <<nextId, now, wire>>
    BY <1>2 DEF HandleAck
  <1>4. CASE m \notin DOMAIN outgoing
    <2>1. UNCHANGED <<outgoing, inFlight>>
      BY <1>2, <1>4 DEF HandleAck
    <2> QED
      BY <1>3, <2>1 DEF SenderInv, InFlightExact, FlightBytes
  <1>5. CASE m \in DOMAIN outgoing
    <2>1. MessageTypeOK(outgoing[m]) /\ MessageInv(outgoing[m])
      BY <1>5 DEF SenderInv
    <2>2. OnWire(m) \subseteq Started(outgoing[m])
      BY <1>5 DEF OnWire, SenderInv
    <2>3. outgoing[m].next \in Nat /\ got \in SUBSET (0..(outgoing[m].next - 1))
      <3>1. NumFragments(outgoing[m].len) \in Nat
        BY <2>1, FragmentsType DEF MessageTypeOK
      <3>2. outgoing[m].next \in Nat
        BY <2>1, <3>1 DEF MessageTypeOK
      <3> QED
        BY <2>2, <3>2 DEF Started
    <2>4. base \in 0..outgoing[m].next /\ mask \in SUBSET Started(outgoing[m])
      BY <2>2, <2>3, FirstMissingType, Zenon
    <2>5. /\ inFlight' = SaturatingSub(inFlight, CompletedBytes(outgoing[m], gone))
          /\ IF Cardinality(new.acked) = NumFragments(new.len)
             THEN outgoing' = [k \in DOMAIN outgoing \ {m} |-> outgoing[k]]
             ELSE outgoing' = [outgoing EXCEPT ![m] = new]
      BY <1>2, <1>5 DEF HandleAck
    <2> HIDE DEF base, mask
    <2>6. Settled(outgoing[m], gone, new)
      BY <2>1, <2>4, OnAckSettled
    <2> HIDE DEF gone, new
    <2>7. CompletedBytes(outgoing[m], gone) = BytesOf(outgoing[m].len, gone)
      BY <1>5, <2>6, SettledBytes
    <2>8. CASE Cardinality(new.acked) = NumFragments(new.len)
      <3>1. BytesOf(outgoing[m].len, gone) = FlightBytes({m})
        BY <1>5, <2>6, <2>8, CompletionBytes
      <3>2. /\ outgoing' = [k \in DOMAIN outgoing \ {m} |-> outgoing[k]]
            /\ inFlight' = SaturatingSub(inFlight, FlightBytes({m}))
        BY <2>5, <2>7, <2>8, <3>1
      <3> QED
        BY <1>3, <1>5, <3>2, RemoveInv
    <2>9. CASE Cardinality(new.acked) # NumFragments(new.len)
      BY <1>3, <1>5, <2>5, <2>6, <2>7, <2>9, SettledStep
    <2> QED
      BY <2>8, <2>9
  <1> QED
    BY <1>4, <1>5

(* handle_nack_packet, for fragments below one that the peer was sent.    *)
LEMMA PeerNackInv ==
  ASSUME SenderInv, PeerNack
  PROVE  SenderInv'
  <1>1. PICK m \in DOMAIN outgoing : \E top \in OnWire(m) :
          \E missing \in SUBSET (0..(top - 1)) :
            missing # {} /\ HandleNack(m, missing)
    BY DEF PeerNack
  <1>2. PICK top \in OnWire(m) :
          \E missing \in SUBSET (0..(top - 1)) : HandleNack(m, missing)
    BY <1>1
  <1>2a. PICK missing \in SUBSET (0..(top - 1)) : HandleNack(m, missing)
    BY <1>2
  <1>3. MessageTypeOK(outgoing[m]) /\ MessageInv(outgoing[m])
    BY DEF SenderInv
  <1>4. top \in Started(outgoing[m])
    BY DEF OnWire, SenderInv
  <1>5. outgoing[m].next \in Nat
    <2>1. NumFragments(outgoing[m].len) \in Nat
      BY <1>3, FragmentsType DEF MessageTypeOK
    <2> QED
      BY <1>3, <2>1 DEF MessageTypeOK
  <1>6. missing \in SUBSET Started(outgoing[m])
    BY <1>4, <1>5 DEF Started
  <1> DEFINE gone == OnNack(outgoing[m], missing).gone
             new  == OnNack(outgoing[m], missing).msg
  <1>7. /\ outgoing' = [outgoing EXCEPT ![m] = new]
        /\ inFlight' = SaturatingSub(inFlight, BytesOf(outgoing[m].len, gone))
        /\ UNCHANGED <<nextId, now, wire>>
    BY <1>2a DEF HandleNack
  <1>8. Settled(outgoing[m], gone, new)
    BY <1>3, <1>6, OnNackSettled
  <1> HIDE DEF gone, new
  <1> QED
    BY <1>7, <1>8, SettledStep, Zenon

(* cleanup drops the messages that timed out, with their bytes.           *)
LEMMA CleanupInv ==
  ASSUME SenderInv, Cleanup
  PROVE  SenderInv'
  <1>1. TimedOut \in SUBSET DOMAIN outgoing
    BY DEF TimedOut
  <1>2. /\ outgoing' = [m \in DOMAIN outgoing \ TimedOut |-> outgoing[m]]
        /\ inFlight' = SaturatingSub(inFlight, FlightBytes(TimedOut))
        /\ UNCHANGED <<nextId, now, wire>>
    BY DEF Cleanup
  <1> QED
    BY <1>1, <1>2, RemoveInv

(* send_message_at allocates an id of the id space.                       *)
LEMMA FreeIdType ==
  ASSUME nextId \in Ids
  PROVE  FreeId \in Ids /\ (FreeId + 1) % IdSpace \in Ids
  <1> DEFINE free == {k \in 0..(MaxOutgoing - 1) :
                        (nextId + k) % IdSpace \notin DOMAIN outgoing}
             k0 == CHOOSE k \in free : \A j \in free : k <= j
  <1>1. IdSpace \in Nat \ {0} /\ MaxOutgoing \in Nat /\ nextId \in Nat
    BY SenderAssumption DEF Ids
  <1>2. \A a \in Nat : a % IdSpace \in Ids
    BY <1>1 DEF Ids
  <1>3. FreeId = IF free = {} THEN (nextId + MaxOutgoing) % IdSpace
                 ELSE (nextId + k0) % IdSpace
    BY DEF FreeId
  <1>4. free # {} => k0 \in Nat
    <2> SUFFICES ASSUME free # {} PROVE k0 \in Nat
      OBVIOUS
    <2>1. 0 \in Int /\ MaxOutgoing - 1 \in Int
      BY <1>1
    <2>2. free \in SUBSET (0..(MaxOutgoing - 1)) /\ free \in SUBSET Nat
      OBVIOUS
    <2> HIDE DEF free
    <2>3. IsFiniteSet(free)
      BY <2>1, <2>2, FS_Interval, FS_Subset, Zenon
    <2>4. \E k \in free : \A j \in free : k <= j
      BY <2>2, <2>3, LeastElement
    <2>5. k0 \in free
      BY <2>4
    <2> QED
      BY <2>2, <2>5, Zenon
  <1> HIDE DEF free, k0
  <1>5. FreeId \in Ids
    <2>1. CASE free = {}
      BY <1>1, <1>2, <1>3, <2>1
    <2>2. CASE free # {}
      <3>1. nextId + k0 \in Nat
        BY <1>1, <1>4, <2>2
      <3> QED
        BY <1>2, <1>3, <2>2, <3>1
    <2> QED
      BY <2>1, <2>2
  <1>6. FreeId + 1 \in Nat
    BY <1>1, <1>5 DEF Ids
  <1> QED
    BY <1>2, <1>5, <1>6

(* OutgoingMessage::new keeps to the invariant and has nothing in flight. *)
LEMMA NewMessageInv ==
  ASSUME NEW len \in Nat \ {0}
  PROVE  /\ MessageTypeOK(NewMessage(len)) /\ MessageInv(NewMessage(len))
         /\ MessageBytes(NewMessage(len)) = 0
  <1> DEFINE msg == NewMessage(len)
             l  == [f \in Fragments(len) |-> NoTime]
             bk == [f \in Fragments(len) |-> 0]
  <1>1. NumFragments(len) \in Nat
    BY FragmentsType
  <1>2. l \in [Fragments(len) -> Nat] /\ \A f \in Fragments(len) : l[f] = NoTime
    BY DEF NoTime
  <1>3. msg = [len |-> len, acked |-> {}, hca |-> 0, next |-> 0, rtxq |-> <<>>,
               rtxset |-> {}, ifq |-> <<>>, lastSent |-> l, ever |-> {},
               backoff |-> bk, lastAck |-> now, dup |-> 0, lastBase |-> 0,
               hsta |-> NoTime]
    BY DEF NewMessage
  <1> HIDE DEF msg, l, bk
  <1>4. /\ IsMessage(msg) /\ msg.len = len /\ msg.acked = {} /\ msg.hca = 0
        /\ msg.next = 0 /\ msg.rtxq = <<>> /\ msg.rtxset = {} /\ msg.ifq = <<>>
        /\ msg.lastSent = l
    BY <1>3 DEF IsMessage
  <1>5. Airborne(msg) = {}
    BY <1>2, <1>4 DEF Airborne
  <1>6. Entries(<<>>) = {} /\ Distinct(<<>>)
    BY DEF Entries, Distinct
  <1>7. MessageTypeOK(msg)
    <2>1. <<>> \in Seq(Nat) /\ <<>> \in Seq(Nat \X Nat)
      OBVIOUS
    <2> QED
      BY <1>1, <1>2, <1>4, <2>1 DEF MessageTypeOK
  <1>8. MessageInv(msg)
    <2>1. Started(msg) = {} /\ 0..(msg.hca - 1) = {}
      BY <1>4 DEF Started
    <2>2. {e[1] : e \in Entries(msg.ifq)} = {}
      BY <1>4, <1>6
    <2> QED
      BY <1>4, <1>5, <1>6, <2>1, <2>2 DEF MessageInv
  <1>9. MessageBytes(msg) = 0
    <2> DEFINE g == [f \in {} |-> FragmentLen(len, f)]
    <2>1. MessageBytes(msg) = Total(g) /\ DOMAIN g = {}
      BY <1>4, <1>5 DEF MessageBytes, BytesOf
    <2> HIDE DEF g
    <2> QED
      BY <2>1, TotalEmpty
  <1> QED
    BY <1>7, <1>8, <1>9 DEF msg

(* send_message_at adds a message of which nothing is on the wire yet.    *)
LEMMA SendMessageInv ==
  ASSUME SenderInv, NEW len \in Lens, SendMessage(len)
  PROVE  SenderInv'
  <1> DEFINE D == DOMAIN outgoing
             f == [k \in D |-> MessageBytes(outgoing[k])]
             g == [k \in D \union {FreeId} |-> MessageBytes(outgoing'[k])]
  <1>1. /\ FreeId \notin D /\ nextId' = (FreeId + 1) % IdSpace
        /\ \A p \in wire : p.id # FreeId
        /\ UNCHANGED <<inFlight, wire, now>>
        /\ outgoing' = [m \in D \union {FreeId} |->
                          IF m = FreeId THEN NewMessage(len) ELSE outgoing[m]]
    BY DEF SendMessage
  <1>2. /\ D \subseteq Ids /\ nextId \in Ids /\ inFlight \in Nat /\ now \in Nat \ {0}
        /\ \A k \in D : MessageTypeOK(outgoing[k]) /\ MessageInv(outgoing[k])
        /\ \A p \in wire : p.id \in D => p.idx \in Started(outgoing[p.id])
        /\ inFlight = Total(f)
    BY DEF SenderInv, InFlightExact, FlightBytes
  <1>3. /\ DOMAIN outgoing' = D \union {FreeId} /\ outgoing'[FreeId] = NewMessage(len)
        /\ \A k \in D : outgoing'[k] = outgoing[k]
    BY <1>1
  <1>4. FreeId \in Ids /\ nextId' \in Ids
    BY <1>1, <1>2, FreeIdType
  <1>5. /\ MessageTypeOK(NewMessage(len)) /\ MessageInv(NewMessage(len))
        /\ MessageBytes(NewMessage(len)) = 0
    <2>1. len \in Nat \ {0}
      BY SenderAssumption
    <2> QED
      BY <2>1, NewMessageInv
  <1>6. \A k \in DOMAIN outgoing' :
          MessageTypeOK(outgoing'[k]) /\ MessageInv(outgoing'[k])
    BY <1>2, <1>3, <1>5
  <1>7. \A p \in wire' : p.id \in DOMAIN outgoing' => p.idx \in Started(outgoing'[p.id])
    BY <1>1, <1>2, <1>3
  <1>8. \A k \in D \union {FreeId} : MessageBytes(outgoing'[k]) \in Nat
    BY <1>3, <1>6, MessageBytesType, Zenon DEF MessageTypeOK
  <1>9. /\ g \in [D \union {FreeId} -> Nat] /\ g[FreeId] = 0
        /\ f = [j \in (D \union {FreeId}) \ {FreeId} |-> g[j]]
    <2>1. (D \union {FreeId}) \ {FreeId} = D
      BY <1>1
    <2> QED
      BY <1>3, <1>5, <1>8, <2>1
  <1>10. IsFiniteSet(D \union {FreeId})
    <2>1. 0 \in Int /\ IdSpace - 1 \in Int
      BY SenderAssumption
    <2>2. IsFiniteSet(Ids) /\ D \union {FreeId} \subseteq Ids
      BY <1>2, <1>4, <2>1, FS_Interval, Zenon DEF Ids
    <2> QED
      BY <2>2, FS_Subset
  <1>11. FlightBytes(DOMAIN outgoing)' = Total(g)
    BY <1>3 DEF FlightBytes, MessageBytes, Airborne
  <1> HIDE DEF f, g
  <1>12. Total(g) = Total(f) + 0
    <2> DEFINE E == D \union {FreeId}
    <2>1. /\ IsFiniteSet(E) /\ FreeId \in E /\ g \in [E -> Nat] /\ g[FreeId] = 0
          /\ f = [j \in E \ {FreeId} |-> g[j]]
      BY <1>9, <1>10
    <2> HIDE DEF E
    <2> QED
      BY <2>1, TotalRemove, Zenon
  <1>13. InFlightExact'
    BY <1>1, <1>2, <1>11, <1>12 DEF InFlightExact
  <1> QED
    BY <1>1, <1>2, <1>3, <1>4, <1>6, <1>7, <1>13, Zenon DEF SenderInv

(* Every step of a sender and its peer keeps the invariant.               *)
LEMMA SenderNextInv ==
  ASSUME SenderInv, [SenderNext]_senderVars
  PROVE  SenderInv'
  <1>1. CASE SenderStep
    <2>1. CASE \E len \in Lens : SendMessage(len)
      BY <2>1, SendMessageInv
    <2>2. CASE Cleanup
      BY <2>2, CleanupInv
    <2> QED
      BY <1>1, <2>1, <2>2, FlushInv DEF SenderStep
  <1>2. CASE Tick
    <2>1. UNCHANGED <<outgoing, nextId, inFlight, wire>> /\ now' = now + 1
      BY <1>2, SMTT(20) DEF Tick
    <2> QED
      BY <2>1 DEF SenderInv, InFlightExact, FlightBytes
  <1>3. CASE PeerAck
    BY <1>3, PeerAckInv
  <1>4. CASE PeerNack
    BY <1>4, PeerNackInv
  <1>5. CASE UNCHANGED senderVars
    BY <1>5 DEF senderVars, SenderInv, InFlightExact, FlightBytes
  <1> QED
    BY <1>1, <1>2, <1>3, <1>4, <1>5 DEF SenderNext

(* The invariant holds in every state of a session's sending half, for    *)
(* any id space, fragment size, windows and message lengths.              *)
THEOREM SenderInvariant == SenderSpec => []SenderInv
  <1>1. SenderInit => SenderInv
    <2> SUFFICES ASSUME SenderInit PROVE SenderInv
      OBVIOUS
    <2>1. DOMAIN outgoing = {} /\ wire = {} /\ inFlight = 0 /\ now = 1 /\ nextId \in Ids
      BY DEF SenderInit
    <2>2. InFlightExact
      <3> DEFINE g == [k \in {} |-> MessageBytes(outgoing[k])]
      <3>1. FlightBytes(DOMAIN outgoing) = Total(g) /\ DOMAIN g = {}
        BY <2>1 DEF FlightBytes
      <3> HIDE DEF g
      <3> QED
        BY <2>1, <3>1, TotalEmpty DEF InFlightExact
    <2> QED
      BY <2>1, <2>2 DEF SenderInv
  <1>2. SenderInv /\ [SenderNext]_senderVars => SenderInv'
    BY SenderNextInv
  <1> QED
    BY <1>1, <1>2, PTL DEF SenderSpec

(* in_flight is exactly what is in the air: try_send_fragment, on_ack,    *)
(* handle_nack_packet and cleanup neither leak nor double count a byte,   *)
(* and their saturating subtractions never saturate.                      *)
THEOREM SenderFlight == SenderSpec => []InFlightExact
  <1>1. SenderInv => InFlightExact
    BY DEF SenderInv
  <1> QED
    BY <1>1, SenderInvariant, PTL

(* The queues agree with the fragments' states, and the unsigned          *)
(* subtraction of detect_losses_from_holes never goes below zero.         *)
THEOREM SenderQueues == SenderSpec => []QueuesExact
  <1>1. SenderInv => QueuesExact
    <2> SUFFICES ASSUME SenderInv, NEW m \in DOMAIN outgoing
                 PROVE  LET msg == outgoing[m]
                        IN  /\ {e[1] : e \in Entries(msg.ifq)} = Airborne(msg)
                            /\ \A f \in Airborne(msg) :
                                 <<f, msg.lastSent[f]>> \in Entries(msg.ifq)
                            /\ msg.rtxset = Entries(msg.rtxq) /\ Distinct(msg.rtxq)
                            /\ (Airborne(msg) \union msg.rtxset) \cap msg.acked = {}
                            /\ 0..(msg.hca - 1) \subseteq msg.acked
                            /\ \A f \in Fragments(msg.len) \ msg.acked :
                                 f >= msg.hca => Cardinality(msg.acked) >= AckedSoFar(msg, f)
      BY DEF QueuesExact
    <2> DEFINE msg == outgoing[m]
    <2>1. MessageTypeOK(msg) /\ MessageInv(msg)
      BY DEF SenderInv
    <2>2. /\ msg.len \in Nat \ {0} /\ msg.next \in 0..NumFragments(msg.len)
          /\ msg.hca \in 0..msg.next /\ NumFragments(msg.len) \in Nat
      BY <2>1, FragmentsType DEF MessageTypeOK
    <2>3. msg.acked \in SUBSET Fragments(msg.len)
      BY <2>1, <2>2 DEF MessageInv, Started, Fragments
    <2>4. IsFiniteSet(msg.acked)
      BY <2>2, <2>3, FragmentsFinite
    <2>5. ASSUME NEW f \in Fragments(msg.len) \ msg.acked
          PROVE  Cardinality(msg.acked) >= AckedSoFar(msg, f)
      <3> DEFINE A == 0..(msg.hca - 1)
                 B == {g \in msg.acked : msg.hca <= g /\ g < f}
      <3>1. msg.hca \in Nat /\ 0 \in Int /\ msg.hca - 1 \in Int
        BY <2>2
      <3>2. IsFiniteSet(A) /\ Cardinality(A) = msg.hca
        <4> DEFINE h == msg.hca
        <4> HIDE DEF h, msg
        <4>1. h \in Nat /\ 0 \in Int /\ h - 1 \in Int
          BY <3>1 DEF h
        <4>2. IsFiniteSet(0..(h - 1)) /\ Cardinality(0..(h - 1)) = h
          BY <4>1, FS_Interval
        <4> QED
          BY <4>2 DEF h
      <3>3. A \subseteq msg.acked /\ B \subseteq msg.acked
        BY <2>1 DEF MessageInv
      <3>4. A \cap B = {}
        BY <3>1
      <3>5. AckedSoFar(msg, f) = msg.hca + Cardinality(B)
        BY DEF AckedSoFar
      <3> HIDE DEF A, B
      <3>6. IsFiniteSet(B) /\ Cardinality(B) \in Nat
        BY <2>4, <3>3, FS_Subset, FS_CardinalityType
      <3>7. Cardinality(A \union B) = Cardinality(A) + Cardinality(B) - Cardinality({})
        BY <3>2, <3>4, <3>6, FS_Union
      <3>8. Cardinality({}) = 0
        BY FS_EmptySet
      <3>9. A \union B \subseteq msg.acked
        BY <3>3
      <3>10. Cardinality(A \union B) <= Cardinality(msg.acked)
        BY <2>4, <3>9, FS_Subset
      <3>11. Cardinality(msg.acked) \in Nat
        BY <2>4, FS_CardinalityType
      <3> QED
        BY <3>1, <3>2, <3>5, <3>6, <3>7, <3>8, <3>10, <3>11
    <2> QED
      BY <2>1, <2>5 DEF MessageInv
  <1> QED
    BY <1>1, SenderInvariant, PTL

(* A fragment that was sent is acknowledged, in the air or queued: no     *)
(* order of ACKs, NACKs, timeouts and probes makes the sender forget it.  *)
THEOREM SenderForgetsNothing == SenderSpec => []NoFragmentForgotten
  <1>1. SenderInv => NoFragmentForgotten
    BY Zenon DEF SenderInv, MessageInv, NoFragmentForgotten, Started, Airborne
  <1> QED
    BY <1>1, SenderInvariant, PTL
=============================================================================
