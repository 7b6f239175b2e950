-------------------------- MODULE SequenceReceiver --------------------------
(***************************************************************************)
(* The receiving half of a SequenceSession (tox-sequenced/src/session.rs): *)
(* admission of fragments against a memory quota that all sessions share,  *)
(* reassembly, delayed acknowledgements, negative acknowledgements, the    *)
(* cache of completed messages and the detection of ancient messages.      *)
(*                                                                         *)
(* others stands for what the other sessions hold of the shared quota.     *)
(* Their reservations are single compare-and-swap operations (module       *)
(* QuotaCas), so they are steps of their own here.                         *)
(***************************************************************************)
EXTENDS Collections, Integers

CONSTANTS
  IdSpace,        \* number of message ids (2^32 in the code)
  Est,            \* ESTIMATED_PAYLOAD_SIZE
  Overhead,       \* PER_FRAGMENT_OVERHEAD
  SackBits,       \* width of the bitmask of a selective ACK (64)
  MaxMessage,     \* MAX_MESSAGE_SIZE
  MaxFragments,   \* MAX_FRAGMENTS_PER_MESSAGE
  MaxIncoming,    \* MAX_CONCURRENT_INCOMING
  MaxCompleted,   \* MAX_COMPLETED_INCOMING
  AncientSoft,    \* 32: ids this far below the highest may still be new
  QuotaMax,       \* ReassemblyQuota.max_bytes
  MaxPerSession,  \* max_per_session
  FairShare,      \* FAIR_SHARE_GUARANTEE
  BulkSize,       \* 32 KB: untyped messages from this size on are bulk
  TypePrio,       \* priority of each message's type, by id
  Garbled,        \* ids of messages whose envelope does not deserialize
  OtherSizes,     \* reservations that other sessions make
  Packets,        \* the DATA packets that may arrive
  AckDelay, NackDelay,         \* DELAYED_ACK_TIMEOUT, max(srtt/4, 10ms)
  ReassemblyTtl, CompletedTtl, \* 30 s each, in ticks
  MaxClock                     \* bound on the clock

(* Priority::Critical .. Priority::Bulk.                                  *)
Critical == 0
Standard == 2
Bulk == 4

ASSUME ReceiverAssumption ==
  /\ IdSpace \in Nat \ {0} /\ Est \in Nat \ {0} /\ Overhead \in Nat
  /\ {SackBits, MaxMessage, MaxFragments, MaxIncoming, MaxCompleted,
      AncientSoft, QuotaMax, MaxPerSession, FairShare, BulkSize, AckDelay, NackDelay,
      ReassemblyTtl, CompletedTtl, MaxClock} \subseteq Nat
  /\ TypePrio \in [0..(IdSpace - 1) -> 0..4]
  /\ Garbled \subseteq 0..(IdSpace - 1)
  /\ OtherSizes \subseteq Nat
  /\ Packets \subseteq [id : 0..(IdSpace - 1), idx : Nat,
                        total : Nat, size : Nat]

VARIABLES
  incoming,   \* the reassemblers, by message id
  bufSize,    \* incoming_buffer_size
  used,       \* used_bytes of the shared quota
  others,     \* the part of it that other sessions hold
  completed,  \* completed_incoming, in insertion order
  packs,      \* pending_acks
  pnacks,     \* pending_nacks
  highest,    \* highest_received_id, -1 for None
  delivered,  \* number of MessageCompleted events per id
  acks, nacks,\* the ACKs and NACKs the last call handed to the network
  claimed,    \* the fragments that ACKs sent so far have claimed, by id
  clock       \* the clock

receiverVars ==
  <<incoming, bufSize, used, others, completed, packs, pnacks, highest,
    delivered, acks, nacks, claimed, clock>>

MessageIds == 0..(IdSpace - 1)
WrappingSub(a, b) == (a - b) % IdSpace
Saturating(n) == IF n < 0 THEN 0 ELSE n
Greater(a, b) == IF a >= b THEN a ELSE b
Without(fn, k) == [x \in DOMAIN fn \ {k} |-> fn[x]]
With(fn, k, v) == [x \in DOMAIN fn \union {k} |-> IF x = k THEN v ELSE fn[x]]

ReceiverInit ==
  /\ incoming = <<>> /\ bufSize = 0 /\ used = 0 /\ others = 0
  /\ completed = <<>> /\ packs = <<>> /\ pnacks = <<>> /\ highest = -1
  /\ delivered = [m \in MessageIds |-> 0]
  /\ acks = {} /\ nacks = {} /\ claimed = [m \in MessageIds |-> {}]
  /\ clock = 1

(***************************************************************************)
(* ReassemblyQuota::reserve and ::reserve_guaranteed.                     *)
(***************************************************************************)
Percent == <<99, 95, 90, 80, 70>>
Threshold(prio) == (QuotaMax * Percent[prio + 1]) \div 100

(* (Mutant: the guaranteed share ignores the hard maximum.)               *)
CanReserveAlways(buf, inUse, amount, prio) ==
  buf + amount <= FairShare \/ inUse + amount <= Threshold(prio)

(* Whether amount more bytes are granted to a session that holds buf.     *)
CanReserve(buf, inUse, amount, prio) ==
  IF buf + amount <= FairShare
  THEN inUse + amount <= QuotaMax
  ELSE inUse + amount <= Threshold(prio)

(***************************************************************************)
(* FragmentBuffer and MessageReassembler.                                 *)
(***************************************************************************)
(* (Mutant: the first missing fragment is claimed as well.)               *)
BaseIndexPast(r) == IF r.got = {} THEN 0 ELSE r.total

BaseIndex(r) ==
  CHOOSE b \in 0..r.total : b \notin r.got /\ \A f \in 0..(b - 1) : f \in r.got
IsComplete(r) == Cardinality(r.got) = r.total

(* create_ack: the first missing fragment and a bitmask above it.         *)
AckOf(m, r, rwnd) ==
  [id |-> m, base |-> BaseIndex(r),
   mask |-> {f \in r.got : BaseIndex(r) < f /\ f <= BaseIndex(r) + SackBits},
   rwnd |-> rwnd]

(* create_nack: the holes below the highest fragment received.  (The code *)
(* names at most 128 of them in one packet.)                              *)
Holes(r) == {f \in 0..(r.total - 1) : f \notin r.got /\ \E g \in r.got : f < g}

(* planned_total_size; 0 is a size not known yet.                         *)
Planned(r) ==
  LET full == IF r.full = 0 THEN Est ELSE r.full
      last == IF r.last = 0 THEN full ELSE r.last
  IN  Greater((r.total - 1) * full + last + r.total * Overhead,
              r.size + Cardinality(r.got) * Overhead)

(* FragmentBuffer::add_fragment.                                          *)
AddFragment(r, p) ==
  IF p.idx \in r.got THEN [r EXCEPT !.at = clock]
  ELSE [r EXCEPT
          !.at   = clock,
          !.last = IF p.idx = r.total - 1 THEN p.size ELSE @,
          !.full = IF p.idx = r.total - 1 THEN @ ELSE Greater(@, p.size),
          !.size = @ + p.size,
          !.got  = @ \union {p.idx}]

(* MessageReassembler::add_fragment and FragmentBuffer::add_fragment err: *)
(* the size test comes before the test for a duplicate.                   *)
AddFails(r, p) == r.size + p.size > MaxMessage \/ p.idx >= r.total

(***************************************************************************)
(* current_rwnd, in fragments.                                            *)
(***************************************************************************)
CurrentRwnd(inc, inUse) ==
  LET planned == Total([m \in DOMAIN inc |-> Planned(inc[m])])
      local   == Saturating(MaxPerSession - planned)
      global  == Saturating(QuotaMax - inUse)
  IN  (IF local <= global THEN local ELSE global) \div Est

RejectionAck(m, inc, inUse) ==
  [id |-> m, base |-> 0, mask |-> {}, rwnd |-> CurrentRwnd(inc, inUse)]

(***************************************************************************)
(* is_ancient_message.                                                    *)
(***************************************************************************)
CompletedIds == {completed[i].id : i \in DOMAIN completed}

(* (Mutant: only the distance to the highest id counts.)                  *)
IsAncientByDistance(m) ==
  /\ highest # -1 /\ WrappingSub(m, highest) > IdSpace \div 2
  /\ WrappingSub(highest, m) >= MaxCompleted

IsAncient(m) ==
  LET diff   == WrappingSub(m, highest)
      offset == WrappingSub(highest, m)
      known  == m \in DOMAIN incoming \union CompletedIds
  IN  /\ highest # -1
      /\ IF diff > IdSpace \div 2
         THEN offset >= MaxCompleted \/ (~known /\ offset > AncientSoft)
         ELSE diff = 0 /\ ~known

(***************************************************************************)
(* calculate_priority; the type is only known from fragment 0.            *)
(***************************************************************************)
CalculatePriority(p, sizeEst) ==
  LET typed == p.idx = 0
      prio  == TypePrio[p.id]
  IN  IF typed /\ prio = Critical THEN Critical
      ELSE IF p.total = 1 THEN Standard
      ELSE IF typed THEN prio
      ELSE IF sizeEst < BulkSize THEN Standard ELSE Bulk

(***************************************************************************)
(* handle_data_packet.  Entry is the reassembler that ensure_reassembler  *)
(* finds or creates, Cost what creating it reserves.                      *)
(***************************************************************************)
InitialReservation(p) ==
  IF p.total > 1 THEN Greater(p.size, Est) * p.total ELSE p.size

Entry(p) ==
  IF p.id \in DOMAIN incoming
  THEN [incoming[p.id] EXCEPT
          !.prio = IF p.idx = 0 THEN CalculatePriority(p, incoming[p.id].reserved)
                   ELSE @]
  ELSE [total |-> p.total, got |-> {}, size |-> 0, full |-> 0, last |-> 0,
        prio |-> CalculatePriority(p, InitialReservation(p)),
        reserved |-> InitialReservation(p), at |-> clock]

(* (Mutant: a reservation with every fragment.)                           *)
CostEachTime(p) == InitialReservation(p)

Cost(p) == IF p.id \in DOMAIN incoming THEN 0 ELSE InitialReservation(p)

Admitted(p) ==
  \/ p.id \in DOMAIN incoming
  \/ /\ Cardinality(DOMAIN incoming) < MaxIncoming
     /\ CanReserve(bufSize, used, Cost(p), Entry(p).prio)
     /\ bufSize + Cost(p) <= MaxPerSession
     /\ p.total \in 1..MaxFragments

Added(p) == AddFragment(Entry(p), p)
Growth(p) == Planned(Added(p)) - Entry(p).reserved

GrowthGranted(p) ==
  \/ Growth(p) <= 0
  \/ /\ CanReserve(bufSize + Cost(p), used + Cost(p), Growth(p), Entry(p).prio)
     /\ bufSize + Cost(p) + Growth(p) <= MaxPerSession

HighestAfter(p) ==
  IF p.id \in DOMAIN incoming THEN highest
  ELSE IF highest = -1 \/ WrappingSub(p.id, highest) < IdSpace \div 2
       THEN p.id ELSE highest

(* The packets that a call hands to the network.                          *)
Emit(A, N) ==
  /\ acks' = A /\ nacks' = N
  /\ claimed' = [m \in MessageIds |-> claimed[m] \union
       UNION {(0..(a.base - 1)) \union a.mask : a \in {b \in A : b.id = m}}]

(* pending_nacks after fragment p: a far ahead fragment is backdated.     *)
PendingNacksAfter(p) ==
  LET base == BaseIndex(Added(p))
  IN  IF p.idx > base + 30 THEN With(pnacks, p.id, 0)
      ELSE IF p.idx > base /\ p.id \notin DOMAIN pnacks
           THEN With(pnacks, p.id, clock)
           ELSE pnacks

(* A late fragment of a completed message: its final ACK again.           *)
DataOfCompleted(p) ==
  /\ \E i \in DOMAIN completed :
       /\ completed[i].id = p.id
       /\ Emit(
            {[id |-> p.id, base |-> completed[i].total, mask |-> {},
              rwnd |-> CurrentRwnd(incoming, used)]}, {})
  /\ UNCHANGED <<incoming, bufSize, used, completed, packs, pnacks, highest,
                 delivered>>

(* A fragment that disagrees with its message's fragment count is ignored, *)
(* but not before its type has set the message's priority.                *)
DataMismatched(p) ==
  /\ incoming' = [incoming EXCEPT ![p.id] = Entry(p)]
  /\ Emit({}, {})
  /\ UNCHANGED <<bufSize, used, completed, packs, pnacks, highest, delivered>>

(* Too many reassemblers or no quota: an ACK that claims nothing.         *)
DataRejected(p) ==
  /\ ~Admitted(p)
  /\ Emit({RejectionAck(p.id, incoming, used)}, {})
  /\ UNCHANGED <<incoming, bufSize, used, completed, packs, pnacks, highest,
                 delivered>>

(* The reassembler of p goes, with all it has collected.                  *)
DropReassembler(p) ==
  /\ incoming' = Without(incoming, p.id)
  /\ bufSize' = bufSize + Cost(p) - Entry(p).reserved
  /\ used' = Saturating(used + Cost(p) - Entry(p).reserved)
  /\ highest' = HighestAfter(p)

DataRefused(p) ==
  /\ Admitted(p) /\ AddFails(Entry(p), p)
  /\ DropReassembler(p)
  /\ Emit({}, {})
  /\ UNCHANGED <<completed, packs, pnacks, delivered>>

GrowthRefused(p) ==
  /\ Admitted(p) /\ ~AddFails(Entry(p), p) /\ ~GrowthGranted(p)
  /\ DropReassembler(p)
  /\ pnacks' = PendingNacksAfter(p)
  /\ Emit({RejectionAck(p.id, incoming', used')}, {})
  /\ UNCHANGED <<completed, packs, delivered>>

FragmentStored(p) ==
  /\ Admitted(p) /\ ~AddFails(Entry(p), p) /\ GrowthGranted(p)
  /\ ~IsComplete(Added(p))
  /\ incoming' = With(incoming, p.id,
                     [Added(p) EXCEPT !.reserved = Planned(Added(p))])
  /\ bufSize' = bufSize + Cost(p) + Growth(p)
  /\ used' = Saturating(used + Cost(p) + Growth(p))
  /\ highest' = HighestAfter(p)
  /\ pnacks' = PendingNacksAfter(p)
  /\ packs' = With(packs, p.id,
                  IF p.id \in DOMAIN packs THEN [packs[p.id] EXCEPT !.count = 2]
                  ELSE [count |-> 1, at |-> clock])
  /\ Emit({}, {})
  /\ UNCHANGED <<completed, delivered>>

MessageComplete(p) ==
  /\ Admitted(p) /\ ~AddFails(Entry(p), p) /\ GrowthGranted(p)
  /\ IsComplete(Added(p))
  /\ DropReassembler(p)
  /\ pnacks' = Without(pnacks, p.id)
  /\ completed' =
       LET c == Append(completed, [id |-> p.id, total |-> p.total, at |-> clock])
       IN  IF Len(c) > MaxCompleted THEN Tail(c) ELSE c
  /\ delivered' = IF p.id \in Garbled THEN delivered
                  ELSE [delivered EXCEPT ![p.id] = @ + 1]
  /\ packs' = With(packs, p.id, [count |-> 2, at |-> clock])
  /\ Emit({}, {})

HandleData(p) ==
  /\ \/ DataOfCompleted(p)
     \/ /\ p.id \notin CompletedIds /\ ~IsAncient(p.id)
        /\ p.id \in DOMAIN incoming /\ incoming[p.id].total # p.total
        /\ DataMismatched(p)
     \/ /\ p.id \notin CompletedIds /\ ~IsAncient(p.id)
        /\ p.id \in DOMAIN incoming => incoming[p.id].total = p.total
        /\ \/ DataRejected(p) \/ DataRefused(p) \/ GrowthRefused(p)
           \/ FragmentStored(p) \/ MessageComplete(p)
  /\ UNCHANGED <<others, clock>>

(***************************************************************************)
(* flush_pending_acks and flush_pending_nacks, the end of flush_packets.  *)
(* The transport may refuse a packet, which leaves the rest pending.      *)
(***************************************************************************)
AckDue == {m \in DOMAIN packs :
             packs[m].count >= 2 \/ clock - packs[m].at >= AckDelay}
NackDue == {m \in DOMAIN pnacks : clock - pnacks[m] >= NackDelay}

(* (Mutant: no ACK for a message that has just been completed.)           *)
PendingAckOfIncoming(m) ==
  IF m \in DOMAIN incoming
  THEN {AckOf(m, incoming[m], CurrentRwnd(incoming, used))} ELSE {}

PendingAck(m) ==
  IF m \in DOMAIN incoming
  THEN {AckOf(m, incoming[m], CurrentRwnd(incoming, used))}
  ELSE {[id |-> m, base |-> completed[i].total, mask |-> {},
         rwnd |-> CurrentRwnd(incoming, used)] :
          i \in {j \in DOMAIN completed : completed[j].id = m}}

PendingNack(m) ==
  IF m \in DOMAIN incoming /\ Holes(incoming[m]) # {}
  THEN {[id |-> m, missing |-> Holes(incoming[m])]} ELSE {}

FlushPending(sentAcks, sentNacks) ==
  /\ sentAcks \subseteq AckDue
  /\ sentNacks \subseteq NackDue \ sentAcks
  /\ sentAcks \union sentNacks # {}
  /\ Emit(UNION {PendingAck(m) : m \in sentAcks},
          UNION {PendingNack(m) : m \in sentNacks})
  /\ packs' = [m \in DOMAIN packs \ sentAcks |-> packs[m]]
  /\ pnacks' = [m \in DOMAIN pnacks \ (sentAcks \union sentNacks) |-> pnacks[m]]
  /\ UNCHANGED <<incoming, bufSize, used, others, completed, highest,
                 delivered, clock>>

(***************************************************************************)
(* cleanup: idle reassemblies and old entries of the completed cache.     *)
(***************************************************************************)
IdleReassemblies ==
  {m \in DOMAIN incoming : clock - incoming[m].at >= ReassemblyTtl}

(* The bytes the reassemblers in M have reserved.                         *)
Reserved(M) == Total([m \in M |-> incoming[m].reserved])
Young(c) == clock - c.at < CompletedTtl

ReceiverCleanup ==
  /\ IdleReassemblies # {} \/ \E i \in DOMAIN completed : ~Young(completed[i])
  /\ incoming' = [m \in DOMAIN incoming \ IdleReassemblies |-> incoming[m]]
  /\ bufSize' = bufSize - Reserved(IdleReassemblies)
  /\ used' = Saturating(used - Reserved(IdleReassemblies))
  /\ completed' = Retain(completed, {c \in Entries(completed) : Young(c)})
  /\ Emit({}, {})
  /\ UNCHANGED <<others, packs, pnacks, highest, delivered, clock>>

(***************************************************************************)
(* The session is dropped when its peer goes offline; the peer's next     *)
(* packet finds a new one.  Drop gives back what the session reserved.    *)
(***************************************************************************)
SessionDrop ==
  /\ highest # -1
  /\ used' = Saturating(used - bufSize)
  /\ incoming' = <<>> /\ bufSize' = 0 /\ completed' = <<>>
  /\ packs' = <<>> /\ pnacks' = <<>> /\ highest' = -1
  /\ delivered' = [m \in MessageIds |-> 0]
  /\ acks' = {} /\ nacks' = {} /\ claimed' = [m \in MessageIds |-> {}]
  /\ UNCHANGED <<others, clock>>

(***************************************************************************)
(* Other sessions on the same quota.                                      *)
(***************************************************************************)
OthersReserve(n) ==
  /\ used + n <= QuotaMax
  /\ used' = used + n /\ others' = others + n
  /\ Emit({}, {})
  /\ UNCHANGED <<incoming, bufSize, completed, packs, pnacks, highest,
                 delivered, clock>>

OthersRelease(n) ==
  /\ n <= others
  /\ used' = Saturating(used - n) /\ others' = others - n
  /\ Emit({}, {})
  /\ UNCHANGED <<incoming, bufSize, completed, packs, pnacks, highest,
                 delivered, clock>>

ReceiverTick ==
  /\ clock < MaxClock
  /\ clock' = clock + 1
  /\ UNCHANGED <<incoming, bufSize, used, others, completed, packs, pnacks,
                 highest, delivered>>
  /\ Emit({}, {})

ReceiverStep ==
  \/ \E A \in SUBSET DOMAIN packs, N \in SUBSET DOMAIN pnacks : FlushPending(A, N)
  \/ ReceiverCleanup
  \/ \E n \in OtherSizes : OthersReserve(n) \/ OthersRelease(n)

(* The network delivers any packet, in any order, any number of times.    *)
ReceiverNext ==
  \/ \E p \in Packets : HandleData(p)
  \/ ReceiverStep
  \/ SessionDrop
  \/ ReceiverTick

ReceiverSpec == ReceiverInit /\ [][ReceiverNext]_receiverVars

(***************************************************************************)
(* Properties                                                             *)
(***************************************************************************)
Reassembler ==
  {r \in [total : Nat \ {0}, got : SUBSET Nat, size : Nat, full : Nat,
          last : Nat, prio : 0..4, reserved : Nat, at : Nat] :
     r.got \subseteq 0..(r.total - 1)}

(* Type invariant of the receiving half of a session.                     *)
ReceiverTypeOK ==
  /\ DOMAIN incoming \subseteq MessageIds
  /\ \A m \in DOMAIN incoming : incoming[m] \in Reassembler
  /\ bufSize \in Nat /\ used \in Nat /\ others \in Nat /\ clock \in Nat
  /\ completed \in Seq([id : MessageIds, total : Nat, at : Nat])
  /\ DOMAIN packs \subseteq MessageIds /\ DOMAIN pnacks \subseteq MessageIds
  /\ highest \in MessageIds \union {-1}
  /\ delivered \in [MessageIds -> Nat]

(* incoming_buffer_size is the sum of what the live reassemblers have     *)
(* reserved: creation, growth, shrinking, completion, refusal and timeout *)
(* each give back exactly what they took, so the unsigned subtractions    *)
(* never underflow.                                                       *)
ReservationExact == bufSize = Reserved(DOMAIN incoming)

(* The shared quota is the sum over the sessions, and never above its     *)
(* hard maximum, whatever mixture of guaranteed and prioritised           *)
(* reservations got there.                                                *)
QuotaExact == used = bufSize + others /\ used <= QuotaMax

(* max_per_session bounds what one peer can make this session hold.       *)
SessionBounded == bufSize <= MaxPerSession

(* What a reassembler stores is covered by what it reserved, fragment     *)
(* overhead included: the quota bounds real memory, not a guess.          *)
ReservedCoversStored ==
  \A m \in DOMAIN incoming :
    incoming[m].size + Cardinality(incoming[m].got) * Overhead
      <= incoming[m].reserved

(* Every fragment received is acknowledged or about to be: it is claimed  *)
(* by an ACK already sent, or the message is in pending_acks.  A refused  *)
(* packet, a duplicate or a rejection in between loses none.  Only a      *)
(* fragment too far above the first missing one for the bitmask of an ACK *)
(* has to wait until more of the message arrives.                         *)
EveryFragmentAcked ==
  /\ \A m \in DOMAIN incoming :
       \/ m \in DOMAIN packs
       \/ \A f \in incoming[m].got :
            f \in claimed[m] \/ f > BaseIndex(incoming[m]) + SackBits
  /\ \A i \in DOMAIN completed :
       \/ completed[i].id \in DOMAIN packs
       \/ 0..(completed[i].total - 1) \subseteq claimed[completed[i].id]

(* A session reports a message to the application at most once, however   *)
(* often and however late its fragments arrive.                           *)
DeliveredAtMostOnce == \A m \in MessageIds : delivered[m] <= 1
=============================================================================
