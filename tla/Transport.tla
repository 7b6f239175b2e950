----------------------------- MODULE Transport ------------------------------
(***************************************************************************)
(* One direction of a connection: the sending half of one session and the  *)
(* receiving half of the session at the other end, over a network that     *)
(* loses, duplicates and reorders packets.  Packets stay in wire and net   *)
(* once sent, so a step may deliver any of them, again or never.           *)
(***************************************************************************)
EXTENDS SequenceSender

CONSTANTS
  Overhead, SackBits, MaxMessage, MaxFragments, MaxIncoming, MaxCompleted,
  AncientSoft, QuotaMax, MaxPerSession, FairShare, BulkSize, TypePrio,
  OtherSizes, AckDelay, NackDelay, ReassemblyTtl, CompletedTtl

VARIABLES
  incoming, bufSize, used, others, completed, packs, pnacks, highest,
  delivered, acks, nacks, claimed,  \* the receiving half
  net                               \* the ACKs and NACKs it has sent

(* Every DATA packet that a sender may build.                             *)
AllPackets ==
  UNION {{DataPacket(m, len, f) : m \in Ids, f \in Fragments(len)} : len \in Lens}

R == INSTANCE SequenceReceiver
       WITH Garbled <- {}, Packets <- AllPackets, MaxClock <- MaxTime,
            clock <- now

receiverState ==
  <<incoming, bufSize, used, others, completed, packs, pnacks, highest,
    delivered, claimed>>

transportVars == <<senderVars, receiverState, acks, nacks, net>>

TransportInit == SenderInit /\ R!ReceiverInit /\ net = {}

(* A step that is not the receiver's: its outbox is empty by then.        *)
ReceiverRests ==
  /\ acks' = {} /\ nacks' = {}
  /\ UNCHANGED <<receiverState, net>>

SenderActs == SenderStep /\ ReceiverRests

(* The receiver handles a DATA packet or sends what it has pending.  What *)
(* it does while a flush_packets of the other end is under way it could   *)
(* as well do right after, since that call does not depend on it.         *)
ReceiverActs ==
  /\ ~flush.active
  /\ R!ReceiverStep \/ \E p \in wire : R!HandleData(p)
  /\ net' = net \union acks' \union nacks'
  /\ UNCHANGED senderVars

(* The sender hears from the receiver.                                    *)
AckArrives ==
  /\ \E a \in net : "rwnd" \in DOMAIN a /\ HandleAck(a.id, a.base, a.mask, a.rwnd)
  /\ ReceiverRests

NackArrives ==
  /\ \E a \in net : "missing" \in DOMAIN a /\ HandleNack(a.id, a.missing)
  /\ ReceiverRests

TimePasses == Tick /\ ReceiverRests

TransportNext ==
  SenderActs \/ ReceiverActs \/ AckArrives \/ NackArrives \/ TimePasses

TransportSpec == TransportInit /\ [][TransportNext]_transportVars

(***************************************************************************)
(* The connection implements MessageChannel.                              *)
(***************************************************************************)
Outcome(kind) == {m \in Ids : <<kind, m>> \in events}

C == INSTANCE MessageChannel
       WITH Messages  <- Ids,
            sent      <- DOMAIN outgoing \union Outcome("acked") \union
                         Outcome("failed"),
            arrived   <- delivered,
            confirmed <- Outcome("acked"),
            failed    <- Outcome("failed")

(* The sessions implement the abstract channel: nothing is delivered that *)
(* was not sent, nor twice, and MessageAcked and MessageFailed are the    *)
(* outcomes of messages in flight, once each, the first only after        *)
(* delivery.                                                              *)
ImplementsChannel == C!ChannelSpec

(* A message whose MessageAcked event the sender has pushed was delivered *)
(* to the application at the other end.                                   *)
AckedImpliesDelivered ==
  \A m \in Ids : <<"acked", m>> \in events => delivered[m] > 0
=============================================================================
