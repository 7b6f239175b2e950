--------------------------- MODULE SequenceSender ---------------------------
(***************************************************************************)
(* The sending half of a SequenceSession (tox-sequenced/src/session.rs)    *)
(* and the OutgoingMessage bookkeeping it drives (outgoing.rs): selective  *)
(* acknowledgements, negative acknowledgements, fast retransmit, loss      *)
(* detection from holes, retransmission timeouts, tail loss probes and     *)
(* zero window probes.                                                     *)
(*                                                                         *)
(* A session is driven by one thread, so a call is never interrupted.  The *)
(* sending loop of flush_packets is a sequence of steps (FlushBegin,       *)
(* FlushSend*, FlushEnd) during which flush.active keeps every other       *)
(* operation out.  The estimators are data the properties do not depend    *)
(* on: the timeout, the probe threshold and the congestion window are      *)
(* drawn from Rtos, Tlps and Cwnds.  Pacing, the deficit scheduler and a   *)
(* transport that refuses a packet all end the loop early; FlushEnd is     *)
(* therefore always possible.                                              *)
(***************************************************************************)
EXTENDS Collections

CONSTANTS
  IdSpace,      \* number of message ids (2^32 in the code)
  MaxOutgoing,  \* MAX_CONCURRENT_OUTGOING
  Mtu,          \* payload bytes of a full fragment
  Est,          \* ESTIMATED_PAYLOAD_SIZE, the unit of the receive window
  InitRwnd,     \* window assumed before the first ACK, in bytes
  Lens,         \* lengths of the messages the application sends
  Rwnds,        \* windows, in fragments, that a peer advertises
  Cwnds,        \* values of congestion_control.cwnd()
  Rtos, Tlps,   \* values of rtt.rto() and of the probe threshold, in ticks
  MsgTimeout,   \* OutgoingMessage.timeout or CONNECTION_TIMEOUT, in ticks
  MaxTime       \* bound on the clock

ASSUME SenderAssumption ==
  /\ IdSpace \in Nat \ {0} /\ MaxOutgoing \in Nat
  /\ Mtu \in Nat \ {0} /\ Est \in Nat \ {0} /\ InitRwnd \in Nat
  /\ Lens \subseteq Nat \ {0} /\ Rwnds \subseteq Nat /\ Cwnds \subseteq Nat
  /\ Rtos \subseteq Nat \ {0} /\ Tlps \subseteq Nat \ {0}
  /\ MsgTimeout \in Nat \ {0} /\ MaxTime \in Nat

VARIABLES
  outgoing,  \* the messages being sent, by id
  nextId,    \* next_message_id
  inFlight,  \* in_flight, in bytes
  peerRwnd,  \* peer_rwnd, in bytes
  probes,    \* zero_window_probes_sent
  lastProbe, \* last_rwnd_probe
  flush,     \* the flush_packets call in progress
  events,    \* MessageAcked and MessageFailed events pushed so far
  wire,      \* every DATA packet handed to the network
  now        \* the clock

senderVars ==
  <<outgoing, nextId, inFlight, peerRwnd, probes, lastProbe, flush, events,
    wire, now>>

Ids == 0..(IdSpace - 1)

(* Option<Instant>: the clock starts at 1, so 0 is None.                  *)
NoTime == 0

Bigger(a, b) == IF a >= b THEN a ELSE b
SaturatingSub(a, b) == IF a >= b THEN a - b ELSE 0

NumFragments(len) == (len + Mtu - 1) \div Mtu
Fragments(len) == 0..(NumFragments(len) - 1)
FragmentLen(len, f) == IF (f + 1) * Mtu <= len THEN Mtu ELSE len - f * Mtu

(* The bytes of a set of fragments.                                       *)
BytesOf(len, S) == Total([f \in S |-> FragmentLen(len, f)])

(* rto_with_backoff: the estimate doubled per retry, at most 6 times.     *)
Backoff(rto, retries) == rto * 2^(IF retries > 6 THEN 6 ELSE retries)

NewMessage(len) ==
  [len      |-> len,
   acked    |-> {},                                 \* acked_bitset
   hca      |-> 0,                                  \* highest_cumulative_ack
   next     |-> 0,                                  \* next_fragment
   rtxq     |-> <<>>,                               \* retransmit_queue
   rtxset   |-> {},                                 \* retransmit_bitset
   ifq      |-> <<>>,                               \* in_flight_queue
   lastSent |-> [f \in Fragments(len) |-> NoTime],
   ever     |-> {},                                 \* delivery_info.is_some()
   backoff  |-> [f \in Fragments(len) |-> 0],       \* rto_backoff
   lastAck  |-> now,                                \* last_ack_at
   dup      |-> 0,                                  \* dup_ack_count
   lastBase |-> 0,                                  \* last_ack_base
   hsta     |-> NoTime]                             \* highest_sent_time_acked

Idle == [active |-> FALSE, sent |-> FALSE, rto |-> 0, tlp |-> 0]

SenderInit ==
  /\ outgoing = <<>> /\ nextId \in Ids
  /\ inFlight = 0 /\ peerRwnd = InitRwnd
  /\ probes = 0 /\ lastProbe = 1
  /\ flush = Idle /\ events = {} /\ wire = {} /\ now = 1

(***************************************************************************)
(* send_message_at: the first free id from next_message_id on.  An id     *)
(* comes round again only after 2^32 messages, when the network no longer *)
(* holds a packet of its previous use; the model stops short of that.     *)
(***************************************************************************)
FreeId ==
  LET free == {k \in 0..(MaxOutgoing - 1) :
                  (nextId + k) % IdSpace \notin DOMAIN outgoing}
  IN  IF free = {} THEN (nextId + MaxOutgoing) % IdSpace
      ELSE (nextId + (CHOOSE k \in free : \A j \in free : k <= j)) % IdSpace

SendMessage(len) ==
  /\ ~flush.active
  /\ Cardinality(DOMAIN outgoing) < MaxOutgoing
  /\ FreeId \notin DOMAIN outgoing
  /\ \A p \in wire : p.id # FreeId
  /\ \A e \in events : e[2] # FreeId
  /\ nextId' = (FreeId + 1) % IdSpace
  /\ outgoing' = [m \in DOMAIN outgoing \union {FreeId} |->
                    IF m = FreeId THEN NewMessage(len) ELSE outgoing[m]]
  /\ UNCHANGED <<inFlight, peerRwnd, probes, lastProbe, flush, events, wire,
                 now>>

(***************************************************************************)
(* try_send_fragment, accepted by the transport.                          *)
(***************************************************************************)
MarkFragmentSent(msg, f) ==
  [msg EXCEPT !.lastSent[f] = now,
              !.ever = @ \union {f},
              !.ifq  = Append(@, <<f, now>>)]

(* (Mutant: a resent fragment counts again.)                              *)
InFlightCountedAgain(msg, f) == inFlight + FragmentLen(msg.len, f)

InFlightAfterSend(msg, f) ==
  LET l == FragmentLen(msg.len, f)
  IN  (IF msg.lastSent[f] # NoTime THEN SaturatingSub(inFlight, l)
       ELSE inFlight) + l

DataPacket(m, len, f) ==
  [id |-> m, idx |-> f, total |-> NumFragments(len),
   size |-> FragmentLen(len, f)]

(* Fragment f of message m goes out and msg is the message's new record.  *)
TrySendFragment(m, f, msg) ==
  /\ outgoing' = [outgoing EXCEPT ![m] = msg]
  /\ inFlight' = InFlightAfterSend(outgoing[m], f)
  /\ wire' = wire \union {DataPacket(m, outgoing[m].len, f)}

(***************************************************************************)
(* The first step of flush_packets: a zero window probe when one is due.  *)
(* FlatMap iterates in insertion order, so the oldest message that has a  *)
(* fragment to offer is probed.                                           *)
(***************************************************************************)
Age(m) == (nextId + IdSpace - 1 - m) % IdSpace

Offers(msg) ==
  msg.rtxq # <<>> \/ msg.next < NumFragments(msg.len) \/ msg.ifq # <<>>

ProbeDue(rto) ==
  /\ peerRwnd < Est
  /\ now - lastProbe >= Backoff(rto, probes)

ProbeTarget(msg) ==
  IF msg.rtxq # <<>> THEN Head(msg.rtxq)
  ELSE IF msg.next < NumFragments(msg.len) THEN msg.next
  ELSE Head(msg.ifq)[1]

ProbeIsNew(msg) == msg.rtxq = <<>> /\ msg.next < NumFragments(msg.len)

ZeroWindowProbe(rto) ==
  /\ ProbeDue(rto)
  /\ \E m \in DOMAIN outgoing :
       LET msg == outgoing[m]
           f   == ProbeTarget(msg)
           snt == MarkFragmentSent(msg, f)
       IN  /\ Offers(msg)
           /\ \A k \in DOMAIN outgoing : Offers(outgoing[k]) => Age(k) <= Age(m)
           /\ TrySendFragment(m, f,
                IF ProbeIsNew(msg) THEN [snt EXCEPT !.next = @ + 1] ELSE snt)
  /\ probes' = probes + 1
  /\ lastProbe' = now

FlushBegin(rto, tlp) ==
  /\ ~flush.active
  /\ flush' = [active |-> TRUE, sent |-> FALSE, rto |-> rto, tlp |-> tlp]
  /\ \/ ZeroWindowProbe(rto)
     \/ UNCHANGED <<outgoing, inFlight, wire, probes, lastProbe>>
  /\ UNCHANGED <<nextId, peerRwnd, events, now>>

(***************************************************************************)
(* The closure is_ready of the main data loop.                            *)
(***************************************************************************)
CwndOpen(cwnd) == inFlight \div Est < cwnd
WindowFits(msg, f) == inFlight + FragmentLen(msg.len, f) <= peerRwnd

RetransmitReady(msg, cwnd) ==
  /\ msg.rtxq # <<>> /\ Head(msg.rtxq) \notin msg.acked
  /\ IF Head(msg.rtxq) = msg.hca
     THEN CwndOpen(cwnd) \/ ~flush.sent
     ELSE CwndOpen(cwnd) /\ WindowFits(msg, Head(msg.rtxq))

(* The queue's front has waited for its timeout and is no obsolete entry  *)
(* of a fragment that has been sent again since.                          *)
RtoExpired(msg, rto) ==
  /\ msg.ifq # <<>>
  /\ LET f == Head(msg.ifq)[1]
         t == Head(msg.ifq)[2]
     IN  /\ now - t >= Backoff(rto, msg.backoff[f])
         /\ f \notin msg.acked
         /\ msg.lastSent[f] = NoTime \/ msg.lastSent[f] <= t

TimeoutReady(msg, cwnd) ==
  /\ RtoExpired(msg, flush.rto)
  /\ (CwndOpen(cwnd) /\ WindowFits(msg, Head(msg.ifq)[1])) \/ ~flush.sent

NewDataReady(msg, cwnd) ==
  /\ msg.next < NumFragments(msg.len)
  /\ msg.next \notin msg.acked /\ msg.next \notin msg.ever
  /\ msg.lastSent[msg.next] = NoTime
  /\ CwndOpen(cwnd) /\ WindowFits(msg, msg.next)

IsReady(msg, cwnd) ==
  \/ RetransmitReady(msg, cwnd)
  \/ TimeoutReady(msg, cwnd)
  \/ NewDataReady(msg, cwnd)

(***************************************************************************)
(* send_next_fragment_for_message: a retransmission, else a timed out     *)
(* fragment, else new data.                                               *)
(***************************************************************************)
SendRetransmission(m) ==
  LET msg == outgoing[m]
      f   == Head(msg.rtxq)
  IN  /\ msg.rtxq # <<>>
      /\ TrySendFragment(m, f,
           [MarkFragmentSent(msg, f) EXCEPT !.rtxq = Tail(@),
                                            !.rtxset = @ \ {f}])

FrontTimedOut(msg) ==
  /\ msg.ifq # <<>>
  /\ now - Head(msg.ifq)[2] >= Backoff(flush.rto, msg.backoff[Head(msg.ifq)[1]])

SendTimedOut(m) ==
  LET msg == outgoing[m]
      f   == Head(msg.ifq)[1]
  IN  /\ msg.rtxq = <<>> /\ FrontTimedOut(msg)
      /\ TrySendFragment(m, f,
           [MarkFragmentSent(msg, f) EXCEPT !.backoff[f] = @ + 1,
                                            !.ifq = Tail(@)])

SendNew(m) ==
  LET msg == outgoing[m]
  IN  /\ msg.rtxq = <<>> /\ ~FrontTimedOut(msg)
      /\ msg.next < NumFragments(msg.len)
      /\ TrySendFragment(m, msg.next,
           [MarkFragmentSent(msg, msg.next) EXCEPT !.next = @ + 1])

FlushSend(m, cwnd) ==
  /\ flush.active
  /\ IsReady(outgoing[m], cwnd)
  /\ SendRetransmission(m) \/ SendTimedOut(m) \/ SendNew(m)
  /\ flush' = [flush EXCEPT !.sent = TRUE]
  /\ UNCHANGED <<nextId, peerRwnd, probes, lastProbe, events, now>>

(***************************************************************************)
(* The tail of flush_packets: a tail loss probe when nothing was sent.    *)
(***************************************************************************)
TlpDue(msg) ==
  /\ msg.ifq # <<>>
  /\ now - msg.ifq[Len(msg.ifq)][2] >= flush.tlp

TailLossProbe ==
  /\ ~flush.sent /\ inFlight > 0
  /\ \E m \in DOMAIN outgoing :
       LET msg == outgoing[m]
           f   == msg.ifq[Len(msg.ifq)][1]
       IN  /\ TlpDue(msg)
           /\ \A k \in DOMAIN outgoing : TlpDue(outgoing[k]) => Age(k) <= Age(m)
           /\ TrySendFragment(m, f, MarkFragmentSent(msg, f))

FlushEnd ==
  /\ flush.active
  /\ flush' = Idle
  /\ TailLossProbe \/ UNCHANGED <<outgoing, inFlight, wire>>
  /\ UNCHANGED <<nextId, peerRwnd, probes, lastProbe, events, now>>

(***************************************************************************)
(* OutgoingMessage::on_ack.  base is the first fragment the peer misses,  *)
(* mask the fragments above base that it has.                             *)
(***************************************************************************)
NewlyAcked(msg, base, mask) ==
  {f \in Fragments(msg.len) \ msg.acked :
     (msg.hca <= f /\ f < base) \/ f \in mask}

HighestSentTime(msg, newly) ==
  LET ts == {msg.lastSent[f] : f \in newly} \union {msg.hsta}
  IN  CHOOSE t \in ts : \A u \in ts : u <= t

(* process_single_ack over the acknowledged fragments.                    *)
AfterAcks(msg, base, mask) ==
  LET newly == NewlyAcked(msg, base, mask)
  IN  [msg EXCEPT
         !.acked    = @ \union newly,
         !.hca      = Bigger(@, base),
         !.hsta     = HighestSentTime(msg, newly),
         !.lastSent = [f \in Fragments(msg.len) |->
                         IF f \in newly THEN NoTime ELSE @[f]],
         !.lastAck  = now]

(* handle_fast_retransmit: the third acknowledgement in a row that moves  *)
(* fragments above base but not base itself.                              *)
DupAcks(msg, base, newly) ==
  IF base > msg.lastBase THEN 0
  ELSE IF newly # {} /\ base = msg.lastBase /\ base < NumFragments(msg.len)
       THEN msg.dup + 1
       ELSE msg.dup

FastRetransmit(msg, base, newly) ==
  {f \in {base} :
     /\ base <= msg.lastBase /\ newly # {}
     /\ base = msg.lastBase /\ base < NumFragments(msg.len)
     /\ msg.dup + 1 = 3
     /\ f \notin msg.acked /\ f \notin msg.rtxset
     /\ msg.lastSent[f] # NoTime
     /\ msg.hsta = NoTime \/ msg.hsta >= msg.lastSent[f]}

(* detect_losses_from_holes: three fragments acknowledged after the hole, *)
(* counted as the code counts them, and one of them sent no earlier.      *)
AckedSoFar(msg, f) ==
  msg.hca + Cardinality({g \in msg.acked : msg.hca <= g /\ g < f})

LostHoles(msg, rtxset) ==
  {f \in Fragments(msg.len) \ msg.acked :
     /\ msg.hca <= f /\ \E g \in msg.acked : f < g
     /\ f \notin rtxset
     /\ Cardinality(msg.acked) - AckedSoFar(msg, f) >= 3
     /\ msg.lastSent[f] # NoTime
     /\ msg.hsta # NoTime /\ msg.hsta >= msg.lastSent[f]}

(* The fragments moved from the flight to the retransmit queue.           *)
TriggerLoss(msg, fast, holes) ==
  [msg EXCEPT
     !.rtxq     = @ \o Ascending(fast) \o Ascending(holes),
     !.rtxset   = @ \union fast \union holes,
     !.lastSent = [f \in Fragments(msg.len) |->
                     IF f \in fast \union holes THEN NoTime ELSE @[f]]]

(* (Mutant: what was queued is forgotten.)                                *)
PruneEverything(msg) == [msg EXCEPT !.rtxq = <<>>, !.rtxset = {}]

(* retransmit_queue.retain and the rebuilt bitset.                        *)
PruneRetransmits(msg) ==
  LET q == Retain(msg.rtxq, Fragments(msg.len) \ msg.acked)
  IN  [msg EXCEPT !.rtxq = q, !.rtxset = Entries(q)]

(* (Mutant: the queue keeps its entries.)                                 *)
CleanupNothing(msg, removed) == msg

(* cleanup_in_flight_queue: every entry of a removed fragment goes, and   *)
(* its bytes count once.                                                  *)
CleanupInFlight(msg, removed) ==
  [msg EXCEPT !.ifq = Retain(@, {e \in Entries(@) : e[1] \notin removed})]

CompletedBytes(msg, removed) ==
  BytesOf(msg.len, {f \in removed : \E e \in Entries(msg.ifq) : e[1] = f})

(* The message after on_ack and the fragments that left the flight.       *)
OnAck(msg, base, mask) ==
  LET newly == NewlyAcked(msg, base, mask)
      acked == AfterAcks(msg, base, mask)
      fast  == FastRetransmit(acked, base, newly)
      based == [acked EXCEPT !.dup = DupAcks(msg, base, newly),
                             !.lastBase = Bigger(@, base)]
      holes == LostHoles(based, based.rtxset \union fast) \ fast
      lost  == TriggerLoss(based, fast, holes)
      kept  == IF newly # {} THEN PruneRetransmits(lost) ELSE lost
      gone  == {f \in newly \cap msg.ever : msg.lastSent[f] # NoTime}
                 \union fast \union holes
  IN  [msg |-> CleanupInFlight(kept, gone), gone |-> gone]

(* handle_ack_packet.                                                     *)
HandleAck(m, base, mask, rwnd) ==
  /\ ~flush.active
  /\ peerRwnd' = rwnd * Est
  /\ probes' = IF rwnd * Est >= Est THEN 0 ELSE probes
  /\ IF m \in DOMAIN outgoing
     THEN LET res == OnAck(outgoing[m], base, mask)
          IN  /\ inFlight' = SaturatingSub(inFlight,
                               CompletedBytes(outgoing[m], res.gone))
              /\ IF Cardinality(res.msg.acked) = NumFragments(res.msg.len)
                 THEN /\ outgoing' = [k \in DOMAIN outgoing \ {m} |-> outgoing[k]]
                      /\ events' = events \union {<<"acked", m>>}
                 ELSE /\ outgoing' = [outgoing EXCEPT ![m] = res.msg]
                      /\ UNCHANGED events
     ELSE UNCHANGED <<outgoing, inFlight, events>>
  /\ UNCHANGED <<nextId, lastProbe, flush, wire, now>>

(***************************************************************************)
(* handle_nack_packet.                                                    *)
(***************************************************************************)
OnNack(msg, missing) ==
  LET lost  == {f \in missing : f < NumFragments(msg.len)} \ msg.acked
      gone  == {f \in lost : msg.lastSent[f] # NoTime}
      fresh == lost \ msg.rtxset
  IN  [msg  |-> CleanupInFlight(
                  [msg EXCEPT
                     !.rtxq     = @ \o Ascending(fresh),
                     !.rtxset   = @ \union fresh,
                     !.lastSent = [f \in Fragments(msg.len) |->
                                     IF f \in lost THEN NoTime ELSE @[f]]],
                  gone),
       gone |-> gone]

HandleNack(m, missing) ==
  /\ ~flush.active
  /\ m \in DOMAIN outgoing
  /\ LET res == OnNack(outgoing[m], missing)
     IN  /\ outgoing' = [outgoing EXCEPT ![m] = res.msg]
         /\ inFlight' = SaturatingSub(inFlight,
                                      BytesOf(outgoing[m].len, res.gone))
  /\ UNCHANGED <<nextId, peerRwnd, probes, lastProbe, flush, events, wire, now>>

(***************************************************************************)
(* cleanup: the messages that have not heard from the peer for too long.  *)
(***************************************************************************)
TimedOut == {m \in DOMAIN outgoing : now - outgoing[m].lastAck >= MsgTimeout}

Airborne(msg) == {f \in Fragments(msg.len) : msg.lastSent[f] # NoTime}

(* The bytes in flight of the messages in M.                              *)
MessageBytes(msg) == BytesOf(msg.len, Airborne(msg))
FlightBytes(M) == Total([m \in M |-> MessageBytes(outgoing[m])])

(* (Mutant: a failed message stays in the table.)                         *)
CleanupKeeps ==
  /\ ~flush.active /\ TimedOut # {}
  /\ events' = events \union {<<"failed", m>> : m \in TimedOut}
  /\ UNCHANGED <<outgoing, nextId, inFlight, peerRwnd, probes, lastProbe, flush,
                 wire, now>>

Cleanup ==
  /\ ~flush.active
  /\ TimedOut # {}
  /\ outgoing' = [m \in DOMAIN outgoing \ TimedOut |-> outgoing[m]]
  /\ inFlight' = SaturatingSub(inFlight, FlightBytes(TimedOut))
  /\ events' = events \union {<<"failed", m>> : m \in TimedOut}
  /\ UNCHANGED <<nextId, peerRwnd, probes, lastProbe, flush, wire, now>>

Tick ==
  /\ ~flush.active
  /\ now < MaxTime
  /\ now' = now + 1
  /\ UNCHANGED <<outgoing, nextId, inFlight, peerRwnd, probes, lastProbe,
                 flush, events, wire>>

SenderStep ==
  \/ \E len \in Lens : SendMessage(len)
  \/ \E rto \in Rtos, tlp \in Tlps : FlushBegin(rto, tlp)
  \/ \E m \in DOMAIN outgoing, cwnd \in Cwnds : FlushSend(m, cwnd)
  \/ FlushEnd
  \/ Cleanup

(***************************************************************************)
(* A peer, as the sender sees it: it acknowledges and asks again for      *)
(* fragments that were sent to it, in any order, any number of times.     *)
(***************************************************************************)
OnWire(m) == {p.idx : p \in {q \in wire : q.id = m}}

(* The first fragment missing from got.                                   *)
FirstMissing(got) ==
  CHOOSE b \in 0..Cardinality(got) :
    b \notin got /\ \A f \in 0..(b - 1) : f \in got

PeerAck ==
  \E m \in {p.id : p \in wire}, rwnd \in Rwnds :
    \E got \in SUBSET OnWire(m) :
      HandleAck(m, FirstMissing(got), {f \in got : f > FirstMissing(got)}, rwnd)

PeerNack ==
  \E m \in DOMAIN outgoing : \E top \in OnWire(m) :
    \E missing \in SUBSET (0..(top - 1)) :
      missing # {} /\ HandleNack(m, missing)

SenderNext == SenderStep \/ Tick \/ PeerAck \/ PeerNack

SenderSpec == SenderInit /\ [][SenderNext]_senderVars

(***************************************************************************)
(* Properties                                                             *)
(***************************************************************************)
(* in_flight is exactly the bytes of the fragments that have been sent    *)
(* and are neither acknowledged nor declared lost: no path of on_ack,     *)
(* handle_nack_packet, try_send_fragment or cleanup leaks or double       *)
(* counts a fragment, so the congestion window never closes for good.     *)
InFlightExact == inFlight = FlightBytes(DOMAIN outgoing)

(* The queues agree with the fragments' states.  in_flight_queue names    *)
(* exactly the fragments in the air, each with its last send time, and    *)
(* cleanup_in_flight_queue counts bytes by these entries.                 *)
(* retransmit_bitset is the set of retransmit_queue, which names no       *)
(* fragment twice.  Neither names a fragment that the peer already has.   *)
(* Everything below highest_cumulative_ack is acknowledged, so that the   *)
(* unsigned acked_count - acked_so_far in detect_losses_from_holes is     *)
(* never negative.                                                        *)
QueuesExact ==
  \A m \in DOMAIN outgoing :
    LET msg == outgoing[m]
    IN  /\ {e[1] : e \in Entries(msg.ifq)} = Airborne(msg)
        /\ \A f \in Airborne(msg) : <<f, msg.lastSent[f]>> \in Entries(msg.ifq)
        /\ msg.rtxset = Entries(msg.rtxq) /\ Distinct(msg.rtxq)
        /\ (Airborne(msg) \union msg.rtxset) \cap msg.acked = {}
        /\ 0..(msg.hca - 1) \subseteq msg.acked
        /\ \A f \in Fragments(msg.len) \ msg.acked :
             f >= msg.hca => Cardinality(msg.acked) >= AckedSoFar(msg, f)

(* No fragment is forgotten: one that was sent and is not acknowledged is *)
(* in the air or waits for retransmission, whatever acknowledgements,     *)
(* losses, timeouts and probes happened to it.                            *)
NoFragmentForgotten ==
  \A m \in DOMAIN outgoing :
    LET msg == outgoing[m]
    IN  \A f \in 0..(msg.next - 1) :
          f \in msg.acked \/ f \in msg.rtxset \/ msg.lastSent[f] # NoTime
=============================================================================
