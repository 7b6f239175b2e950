--------------------------- MODULE MessageChannel ---------------------------
(***************************************************************************)
(* What the transport promises the layer above it                          *)
(* (tox-sequenced/src/lib.rs): a message that was sent is delivered at     *)
(* most once and only after it was sent, the sender hears that it was      *)
(* acknowledged only after it was delivered, and hears one outcome.        *)
(***************************************************************************)
EXTENDS Naturals

CONSTANT Messages

VARIABLES
  sent,      \* messages that send_message accepted
  arrived,   \* how many MessageCompleted events each message has had
  confirmed, \* messages with a MessageAcked event
  failed     \* messages with a MessageFailed event

channelVars == <<sent, arrived, confirmed, failed>>

ChannelInit ==
  /\ sent = {} /\ confirmed = {} /\ failed = {}
  /\ arrived = [m \in Messages |-> 0]

Submit(m) ==
  /\ m \notin sent
  /\ sent' = sent \union {m}
  /\ UNCHANGED <<arrived, confirmed, failed>>

Arrive(m) ==
  /\ m \in sent
  /\ arrived[m] = 0
  /\ arrived' = [arrived EXCEPT ![m] = 1]
  /\ UNCHANGED <<sent, confirmed, failed>>

Confirm(m) ==
  /\ arrived[m] > 0
  /\ m \notin confirmed \union failed
  /\ confirmed' = confirmed \union {m}
  /\ UNCHANGED <<sent, arrived, failed>>

(* The sender gives up on several messages at once; some may have arrived. *)
GiveUp(M) ==
  /\ M \subseteq sent \ (confirmed \union failed)
  /\ failed' = failed \union M
  /\ UNCHANGED <<sent, arrived, confirmed>>

ChannelNext ==
  \/ \E m \in Messages : Submit(m) \/ Arrive(m) \/ Confirm(m)
  \/ \E M \in SUBSET Messages : GiveUp(M)

ChannelSpec == ChannelInit /\ [][ChannelNext]_channelVars
=============================================================================
