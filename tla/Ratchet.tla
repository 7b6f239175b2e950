------------------------------ MODULE Ratchet ------------------------------
(***************************************************************************)
(* The keys one device holds for one conversation (merkle-tox-core,        *)
(* engine/conversation.rs): the conversation key of each epoch, and for    *)
(* each sender a chain of message keys.                                    *)
(*                                                                         *)
(* A chain key is <<root, n>>: n steps from its root, which is a random    *)
(* SenderKey or is derived from the conversation key.  A message key is    *)
(* named by the chain key it is taken from, a header key by the pair it is *)
(* derived from: two of them are equal only when they are derived alike.   *)
(* A sequence number is epoch * Width + counter (the code shifts by 32).   *)
(*                                                                         *)
(* Of skipped_keys only which messages it holds keys for is kept: that     *)
(* decides whether a late one is refused as a replay.  The search for a    *)
(* message key never reads the keys, and what peek_keys returns for a      *)
(* message the chain has passed is not used by commit_node_key.            *)
(***************************************************************************)
EXTENDS Naturals, FiniteSets, TLC

CONSTANTS
    Width,          \* sequence numbers per epoch (2^32)
    MaxSkip         \* MAX_RATCHET_SKIP

Epoch(seq) == seq \div Width
Counter(seq) == seq % Width

(* ratchet_step, ratchet_init_sender and derive_k_header_epoch *)
StepKey(chain, n) == <<chain[1], chain[2] + n>>
RatchetInitSender(k, s) == <<<<"conversation", k, s>>, 0>>
SenderRoot(s, seq) == <<<<"sender", s, seq>>, 0>>
HeaderKeyOf(k, senderKey) == <<k, senderKey>>

Set(f, x, v) == (x :> v) @@ f
Drop(f, x) == [y \in DOMAIN f \ {x} |-> f[y]]
Nothing == [x \in {} |-> x]

Pending == [up |-> FALSE]

(* establish (and Established::new, at epoch 0) *)
Establish(k, now, epoch) ==
    [up |-> TRUE, epochs |-> (epoch :> k), epoch |-> epoch,
     ratchets |-> Nothing, senderKeys |-> Nothing, headers |-> Nothing,
     skipped |-> {}, sent |-> {}, count |-> 0, selfCount |-> 0,
     rotated |-> now, rekeyed |-> now]

(* rotate *)
RotateEpoch(c, k, now) ==
    [c EXCEPT !.epoch = @ + 1,
              !.epochs = Set(@, c.epoch + 1, k),
              !.ratchets = Nothing, !.headers = Nothing, !.sent = {},
              !.count = 0, !.selfCount = 0, !.rotated = now, !.rekeyed = now]

(* add_epoch: a key learned from another device.  What was sent to whom,   *)
(* the headers and the times stay as they are.                             *)
AddEpoch(c, epoch, k) ==
    LET kept == [c EXCEPT !.epochs = Set(@, epoch, k)] IN
    IF epoch > c.epoch
    THEN [kept EXCEPT !.epoch = epoch, !.ratchets = Nothing, !.count = 0]
    ELSE kept

Follows(c, s, epoch) == s \in DOMAIN c.ratchets /\ c.ratchets[s].epoch = epoch

(* The root a sender's chain starts from: the key it distributed, or the   *)
(* one derived from the conversation key.                                  *)
SenderKey(c, s, epoch) ==
    IF <<s, epoch>> \in DOMAIN c.senderKeys
    THEN c.senderKeys[<<s, epoch>>]
    ELSE RatchetInitSender(c.epochs[epoch], s)

(* peek_keys: the chain key the message numbered seq is taken from, as a   *)
(* set that is empty when there is none.                                   *)
PeekKeys(c, s, seq) ==
    LET epoch == Epoch(seq)
        r == c.ratchets[s]
    IN  IF Follows(c, s, epoch)
        THEN IF seq > r.seq /\ seq - (r.seq + 1) <= MaxSkip
             THEN {StepKey(r.key, seq - (r.seq + 1))} ELSE {}
        ELSE IF epoch \in DOMAIN c.epochs /\ Counter(seq) <= MaxSkip
             THEN {StepKey(SenderKey(c, s, epoch), Counter(seq) - 1)} ELSE {}

(* The messages peek_keys steps over, whose keys it puts aside: those      *)
(* after the last one, or from the first of the epoch.                     *)
SteppedOver(c, s, seq) ==
    LET epoch == Epoch(seq)
        first == IF Follows(c, s, epoch) THEN c.ratchets[s].seq + 1 ELSE epoch * Width + 1
    IN  {<<s, i>> : i \in first .. seq - 1}

(* commit_node_key, after peek_keys: the chain moves past the message.  A  *)
(* chain does not go back, neither to an older epoch nor to an older       *)
(* message.                                                                *)
CommitNodeKey(c, s, seq, next, node, epoch) ==
    LET peeked == [c EXCEPT !.skipped = (@ \cup SteppedOver(c, s, seq)) \ {<<s, seq>>}] IN
    IF s \in DOMAIN c.ratchets
       /\ \/ c.ratchets[s].epoch > epoch
          \/ c.ratchets[s].epoch = epoch /\ seq <= c.ratchets[s].seq
    THEN peeked
    ELSE [peeked EXCEPT !.ratchets =
             Set(@, s, [seq |-> seq, key |-> next, node |-> node, epoch |-> epoch])]

(* track_sender_seq: a node that takes no message key moves the number but *)
(* not the chain.                                                          *)
TrackSenderSeq(c, s, seq, epoch) ==
    IF s \in DOMAIN c.ratchets
       /\ \/ epoch > c.ratchets[s].epoch
          \/ epoch = c.ratchets[s].epoch /\ seq > c.ratchets[s].seq
    THEN [c EXCEPT !.ratchets[s] = [seq |-> seq, key |-> @.key,
                                    node |-> @.node, epoch |-> epoch]]
    ELSE c

(* get_sender_last_seq *)
SenderLastSeq(c, s) == IF Follows(c, s, c.epoch) THEN c.ratchets[s].seq ELSE 0

HeaderKey(c, s, epoch) ==
    IF <<s, epoch>> \in DOMAIN c.headers
    THEN c.headers[<<s, epoch>>]
    ELSE HeaderKeyOf(c.epochs[epoch], SenderKey(c, s, epoch))

(* identify_sender_and_unpack and try_sender_for_wire: the message key is  *)
(* looked for from where the sender's chain stands, forward only, in every *)
(* epoch whose key is held.                                                *)
CanUnpack(c, s, key, header) ==
    /\ c.up
    /\ \E epoch \in DOMAIN c.epochs :
          LET start == IF Follows(c, s, epoch) THEN c.ratchets[s].key
                       ELSE SenderKey(c, s, epoch) IN
          /\ key[1] = start[1]
          /\ key[2] \in start[2] .. start[2] + MaxSkip - 1
          /\ header = HeaderKey(c, s, epoch)
=============================================================================
