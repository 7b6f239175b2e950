------------------------------- MODULE Keys -------------------------------
(***************************************************************************)
(* The keys of a conversation between several devices (merkle-tox-core,    *)
(* engine/authoring.rs, the key handling of engine/processor and of        *)
(* MerkleToxEngine::poll): conversation keys wrapped for devices, sender   *)
(* keys distributed, one-time pre-keys consumed, rotations, rekeys and     *)
(* acknowledgements.                                                       *)
(*                                                                         *)
(* eng[d] is the engine of device d: conv its keys (see Ratchet), auth the *)
(* devices it knows authorised, anns the announcements it holds, secrets   *)
(* the pre-keys it can open with, signs its signing keys by epoch and      *)
(* peers those it learned, waits its keywrap_pending, opks the             *)
(* consumed_opk_ids, greeted the handshakes since its announcement, handled *)
(* the nodes it has verified, booted those whose keys it took before, saved *)
(* what it persisted.  content and admin are the nodes its heads and its   *)
(* admin heads reach, lastSeq the highest number of its own stored.  out   *)
(* is what it authors in this step, and disk what the store held before:   *)
(* the effects of a step are written when it ends, until then the engine   *)
(* reads an overlay (pending_cache), which clear_pending empties.  next is *)
(* what the last UpdateHeads of the step says.  loads and moved record     *)
(* what restarts did.                                                      *)
(*                                                                         *)
(* Which nodes a device accepts is the subject of Verification; here every *)
(* node is by an authorised device and arrives once its history has, or    *)
(* before it where the code takes the keys out of an early node.           *)
(***************************************************************************)
EXTENDS Ratchet, Sequences, FiniteSetsExt, SequencesExt

CONSTANTS
    Devices, Founder,
    Admins,             \* the devices that hold the admin permission
    Opks,               \* one-time pre-keys of an announcement
    MessagesPerEpoch,   \* MESSAGES_PER_EPOCH, and MESSAGES_PER_SENDER_REKEY
    EpochDuration,      \* EPOCH_DURATION_MS, and SENDER_REKEY_DURATION_MS
    MessagesPerAnchor,  \* MESSAGES_PER_ANCHOR
    PreKeyLife,         \* how long the pre-keys of an announcement live
    PulseDebounce,      \* 5 minutes between rotations after a pulse
    MaxHandshakes,      \* MAX_HANDSHAKES_PER_ANNOUNCEMENT
    MaxRetries,         \* MAX_KEYWRAP_RETRIES
    Scenes              \* the bounds of the exploration: the devices authorised
                        \* at first (start), what each application asks for, in
                        \* its order (plan), and how often the clock ticks and
                        \* an engine restarts

VARIABLES eng, nodes, acks, now, plan, ticks, restarts

vars == <<eng, nodes, acks, now, plan, ticks, restarts>>

AdminKinds == {"wrap", "authorize", "revoke", "snapshot"}
ControlKinds == {"authorize", "revoke", "snapshot", "announce", "pulse"}

(* skips_ratchet: everything but plain content. *)
SkipsRatchet(node) == node.kind # "text"

NoOpk == <<>>
NoKey == <<>>

(* A pre-key is <<owner, announcement, index>>: index 0 is the signed      *)
(* pre-key, 1 .. Opks the one-time keys, Opks + 1 the last resort;         *)
(* announcement 0 is the device's own key.                                 *)
DeviceKey(p) == <<p, 0, 0>>
PreKeys(p, no) == {<<p, no, i>> : i \in 0 .. Opks + 1}

(* get_recipient_spk and resolve_recipient_spk: the signed pre-key, the    *)
(* last-resort key once the pre-keys have expired, or the device's own     *)
(* key when it has announced none.                                         *)
SpkOf(e, p, t) ==
    IF p \notin DOMAIN e.anns THEN DeviceKey(p)
    ELSE IF e.anns[p].expires > t THEN <<p, e.anns[p].no, 0>>
    ELSE <<p, e.anns[p].no, Opks + 1>>

(* consume_recipient_opk: the first one-time key left. *)
OpkOf(e, p, t) ==
    IF p \in DOMAIN e.anns /\ e.anns[p].expires > t /\ e.anns[p].opks # {}
    THEN <<p, e.anns[p].no, Min(e.anns[p].opks)>>
    ELSE NoOpk

(* The WrappedKey entry for each recipient, and what is left afterwards.   *)
WrapFor(e, ps, t) == [p \in ps |-> [spk |-> SpkOf(e, p, t), opk |-> OpkOf(e, p, t)]]
ConsumeOpks(e, ps, t) ==
    [e EXCEPT !.anns = [p \in DOMAIN @ |->
        IF p \in ps /\ OpkOf(e, p, t) # NoOpk
        THEN [@[p] EXCEPT !.opks = @ \ {Min(@)}] ELSE @[p]]]

(* ecies_unwrap: it takes the secret of the signed pre-key and that of the *)
(* one-time key, when one was used.                                        *)
CanOpen(e, entry) ==
    /\ entry.spk \in e.secrets
    /\ entry.opk = NoOpk \/ entry.opk \in e.secrets

(* The last number used: by the ratchet, or by any node stored.            *)
LastSeq(e, d) == Max({e.lastSeq, IF e.conv.up THEN SenderLastSeq(e.conv, d) ELSE 0})

NextSeq(e, d, epoch) ==
    LET last == LastSeq(e, d) IN
    IF Epoch(last) = epoch THEN last + 1 ELSE epoch * Width + 1

CurrentEpoch(e) == IF e.conv.up THEN e.conv.epoch ELSE 0

(* The next node's identity; what is made for it is named after it. *)
NextId(e) == e.base + Len(e.out) + 1

(* (Mutant: a signing key is made on every use.)                           *)
WithFreshKey(e, epoch) == [e EXCEPT !.signs = Set(@, epoch, NextId(e))]

(* signing keys are made on first use in an epoch. *)
WithSigningKey(e, epoch) ==
    IF epoch \in DOMAIN e.signs THEN e
    ELSE [e EXCEPT !.signs = Set(@, epoch, NextId(e))]

(* apply_side_effects, for the keys: by the author at once, by the others  *)
(* when they verify the node.  The SenderKeyDistribution of the current    *)
(* epoch forgets where the sender's chain stood.                           *)
Learn(e, n) ==
    LET epoch == Epoch(n.seq)
        held == e.conv.up /\ epoch \in DOMAIN e.conv.epochs
    IN  CASE n.kind = "announce" ->
               [e EXCEPT !.anns = Set(@, n.from, [no |-> n.id, opks |-> 1 .. Opks,
                                                  expires |-> n.at + PreKeyLife])]
          [] n.kind = "authorize" -> [e EXCEPT !.auth = @ \cup {n.target}]
          [] n.kind = "revoke" -> [e EXCEPT !.auth = @ \ {n.target}]
          [] n.kind = "skd" ->
               [e EXCEPT
                  !.peers = IF held \/ n.sig = 0
                            THEN Set(@, <<n.from, epoch>>, n.signing) ELSE @,
                  !.conv = IF e.conv.up /\ epoch = e.conv.epoch
                           THEN [@ EXCEPT !.ratchets = Drop(@, n.from)] ELSE @]
          [] OTHER -> e

(* (Mutant: the chain is kept at the message, not past it.)                *)
AdvanceTo(e, n) ==
    LET peek == IF e.conv.up THEN PeekKeys(e.conv, n.from, n.seq) ELSE {} IN
    IF SkipsRatchet(n) \/ peek = {} THEN e
    ELSE [e EXCEPT !.conv = CommitNodeKey(@, n.from, n.seq, CHOOSE k \in peek : TRUE,
                                          n.id, Epoch(n.seq))]

(* The chain moves past a message; the key is persisted with the node and  *)
(* that of the message before is deleted.                                  *)
MoveChain(e, n, next) ==
    LET conv == CommitNodeKey(e.conv, n.from, n.seq, next, n.id, Epoch(n.seq))
        last == IF n.from \in DOMAIN e.conv.ratchets /\ conv.ratchets # e.conv.ratchets
                THEN e.conv.ratchets[n.from].node ELSE 0
    IN  [e EXCEPT !.conv = conv,
                  !.saved.ratchets =
                      Drop(Set(@, n.id, [key |-> next, epoch |-> Epoch(n.seq)]), last)]

Advance(e, n) ==
    LET peek == PeekKeys(e.conv, n.from, n.seq) IN
    IF ~e.conv.up THEN e
    ELSE IF SkipsRatchet(n)
    THEN [e EXCEPT !.conv = TrackSenderSeq(@, n.from, n.seq, Epoch(n.seq))]
    ELSE IF peek = {} THEN e
    ELSE MoveChain(e, n, StepKey(CHOOSE k \in peek : TRUE, 1))

(* clear_pending: the engine sees the store as the step found it, without  *)
(* the nodes authored since.                                               *)
ClearPending(e) ==
    [e EXCEPT !.content = e.disk.content, !.admin = e.disk.admin, !.lastSeq = e.disk.lastSeq]

(* update_heads: the node takes the place of its parents in the heads of   *)
(* its track; what the step writes last there stays.                       *)
UpdateHeads(e, n) ==
    LET reached == n.past \cup {n.id} IN
    IF n.kind \in AdminKinds
    THEN [e EXCEPT !.admin = @ \cup reached, !.next.admin = e.admin \cup reached]
    ELSE [e EXCEPT !.content = @ \cup reached, !.next.content = e.content \cup reached]

(* The end of apply_side_effects. *)
Settle(e, n) == UpdateHeads(Advance(e, n), n)

SideEffects(e, n) == Settle(Learn(e, n), n)

(* author_node_internal: the number, the parents (the heads, or the admin  *)
(* ones alone for an admin node), the signature, the encryption.  A        *)
(* key distribution is signed by the device unless the signing key of the  *)
(* epoch before is still held; content is signed by the epoch's own key.   *)
Signature(e, kind, epoch) ==
    IF kind \in {"text", "export"} THEN e.signs[epoch]
    ELSE IF kind = "skd" /\ epoch > 0 /\ (epoch - 1) \in DOMAIN e.signs
    THEN e.signs[epoch - 1] ELSE 0

MessageKeys(c, d, kind, epoch, seq) ==
    LET peek == IF kind = "text" /\ c.up THEN PeekKeys(c, d, seq) ELSE {}
        k == c.epochs[IF epoch \in DOMAIN c.epochs THEN epoch ELSE c.epoch]
    IN  IF peek = {} THEN [key |-> NoKey, header |-> NoKey]
        ELSE [key |-> CHOOSE x \in peek : TRUE, header |-> HeaderKeyOf(k, SenderKey(c, d, epoch))]

NodeOf(e, d, body, epoch, seq, t) ==
    body @@ MessageKeys(e.conv, d, body.kind, epoch, seq)
    @@ [id |-> NextId(e), from |-> d, seq |-> seq, at |-> t,
        sig |-> Signature(e, body.kind, epoch),
        past |-> IF body.kind \in AdminKinds THEN e.admin ELSE e.content \cup e.admin,
        believed |-> e.auth]

Stored(e, n) ==
    [e EXCEPT
       !.out = Append(@, n),
       !.handled = @ \cup {n.id},
       !.saved.meta = IF e.conv.up /\ n.kind \notin AdminKinds
                      THEN {[count |-> e.conv.count, rotated |-> e.conv.rotated]} ELSE @,
       !.lastSeq = Max({@, n.seq})]

StoreNode(e, n) == SideEffects(Stored(e, n), n)

(* Before that the signing key is made and the message is counted.         *)
Prepared(e, kind, epoch) ==
    LET signed == IF kind \in {"text", "export"} THEN WithSigningKey(e, epoch) ELSE e
    IN  IF kind = "text" /\ e.conv.up
        THEN [signed EXCEPT !.conv.count = @ + 1, !.conv.selfCount = @ + 1]
        ELSE signed

EmitPrepared(e, d, body, epoch, t) ==
    StoreNode(e, NodeOf(e, d, body, epoch, NextSeq(e, d, epoch), t))

Emit(e, d, body, epoch, t) ==
    EmitPrepared(Prepared(e, body.kind, epoch), d, body, epoch, t)

(* author_sender_key_distribution, sender_rekey and the JIT distribution   *)
(* end alike: the chain key is wrapped for the devices ps, which are noted *)
(* as served, and the node carries the epoch's signing key.                *)
DistributeSigned(e, d, chain, last, header, ps, epoch, t) ==
    Emit([ConsumeOpks(e, ps, t) EXCEPT !.conv.sent = @ \cup ps], d,
         [kind |-> "skd", chain |-> chain, last |-> last, head |-> header,
          to |-> WrapFor(e, ps, t), signing |-> e.signs[epoch]],
         epoch, t)

Distribute(e, d, chain, last, header, ps, epoch, t) ==
    DistributeSigned(WithSigningKey(e, epoch), d, chain, last, header, ps, epoch, t)

(* The devices a key is wrapped for. *)
Recipients(e, d) == e.auth \ {d}

(* rotate_conversation_key: a fresh conversation key in the next epoch,    *)
(* wrapped for the authorised devices, then a fresh sender key.  The       *)
(* signing key of the epoch left is disclosed and forgotten.               *)
HoldKey(e, k, conv) == [e EXCEPT !.conv = conv, !.saved.keys = Set(@, conv.epoch, k)]

TellKey(e, d, k, t) ==
    LET ps == Recipients(e, d)
        epoch == e.conv.epoch
    IN  IF ps = {} /\ epoch > 0 THEN e
        ELSE Emit(ConsumeOpks(e, ps, t), d,
                  [kind |-> "wrap", gen |-> epoch, k |-> k, to |-> WrapFor(e, ps, t)],
                  epoch, t)

NewSenderKey(e, d, k, root, t) ==
    LET epoch == e.conv.epoch IN
    Distribute([e EXCEPT !.conv.senderKeys = Set(@, <<d, epoch>>, root)], d, root,
               epoch * Width, HeaderKeyOf(k, root), Recipients(e, d), epoch, t)

SendSenderKey(e, d, k, t) == NewSenderKey(e, d, k, SenderRoot(d, NextId(e)), t)

RotateKey(e, d, t) ==
    LET k == <<d, NextId(e), 0>>
        conv == IF e.conv.up THEN RotateEpoch(e.conv, k, t) ELSE Establish(k, t, 0)
        held == HoldKey(ClearPending(e), k, conv)
    IN  [SendSenderKey(TellKey(held, d, k, t), d, k, t) EXCEPT
           !.signs = IF e.conv.up THEN Drop(@, e.conv.epoch) ELSE @]

(* sender_rekey: a fresh sender key in the current epoch. *)
SenderRekey(e, d, t) ==
    LET epoch == e.conv.epoch
        root == SenderRoot(d, NextId(e))
        keyed == [e EXCEPT !.conv.senderKeys = Set(@, <<d, epoch>>, root),
                           !.conv.selfCount = 0, !.conv.rekeyed = t, !.conv.sent = {}]
    IN  Distribute(keyed, d, root, SenderLastSeq(e.conv, d),
                   HeaderKeyOf(e.conv.epochs[epoch], root), Recipients(e, d), epoch, t)

(* author_jit_sender_key_distribution: where the chain stands now, for the *)
(* devices that have no key of this epoch.                                 *)
JitDistribution(e, d, ps, t) ==
    LET epoch == e.conv.epoch
        follows == Follows(e.conv, d, epoch)
    IN  Distribute(e, d,
            IF follows THEN e.conv.ratchets[d].key
            ELSE RatchetInitSender(e.conv.epochs[epoch], d),
            IF follows THEN e.conv.ratchets[d].seq ELSE epoch * Width,
            HeaderKey(e.conv, d, epoch), ps, epoch, t)

(* check_rotation_triggers and check_sender_rekey_triggers *)
RotationDue(e, t) ==
    /\ e.conv.up
    /\ \/ e.conv.count >= MessagesPerEpoch
       \/ t - e.conv.rotated >= EpochDuration
RekeyDue(e, t) ==
    /\ e.conv.up
    /\ \/ e.conv.selfCount >= MessagesPerEpoch
       \/ t - e.conv.rekeyed >= EpochDuration

Renew(e, d, t) ==
    IF RotationDue(e, t) THEN RotateKey(e, d, t)
    ELSE IF RekeyDue(e, t) THEN SenderRekey(e, d, t)
    ELSE e

(* The guards of author_node: content waits for the acknowledgement of a   *)
(* key wrapped with a one-time pre-key, and a device without keys or       *)
(* authorisation only observes.                                            *)
MayAuthor(e, d, kind) ==
    /\ kind \in {"text", "export", "snapshot"} => e.waits = {}
    /\ kind \in {"announce", "pulse", "wrap", "skd"} \/ e.conv.up \/ d \in e.auth

(* (Mutant: a revocation does not rotate the key.)                         *)
ReactToPulse(e, d, n, t) ==
    IF d \in Admins /\ n.kind = "pulse" THEN RotateKey(e, d, t) ELSE e

(* The rotation apply_side_effects makes for a revocation or a pulse,      *)
(* before the node itself is among the heads.  Only the device that        *)
(* revoked rotates for a revocation, and a pulse without parents (rank 0)  *)
(* is taken for one handled before.                                        *)
React(e, d, n, t) ==
    IF d \in Admins
       /\ \/ n.kind = "revoke" /\ n.from = d
          \/ /\ n.kind = "pulse" /\ n.past # {}
             /\ ~e.conv.up \/ t - e.conv.rotated >= PulseDebounce
    THEN RotateKey(e, d, t) ELSE e

ReactAndSettle(e, d, n, t) == Settle(React(Learn(e, n), d, n, t), n)

Served(e, d, kind, t) ==
    LET missing == IF e.conv.up /\ kind \notin ControlKinds \cup {"wrap"}
                   THEN (e.auth \ {d}) \ e.conv.sent ELSE {}
    IN  IF missing = {} THEN e ELSE JitDistribution(e, d, missing, t)

EmitAndReact(e, d, body, epoch, t) ==
    LET n == NodeOf(e, d, body, epoch, NextSeq(e, d, epoch), t) IN
    ReactAndSettle(Stored(e, n), d, n, t)

EmitNow(e, d, body, t) ==
    LET epoch == IF body.kind = "wrap" THEN body.gen ELSE CurrentEpoch(e) IN
    EmitAndReact(Prepared(e, body.kind, epoch), d, body, epoch, t)

AuthorOnce(e, d, body, t) ==
    EmitNow(Served(Renew(ClearPending(e), d, t), d, body.kind, t), d, body, t)

(* author_node: the rotation or rekey that is due, the keys other devices  *)
(* lack, the node, and a snapshot every MessagesPerAnchor messages.        *)
Anchored(e, d, kind, t) ==
    IF /\ kind \notin ControlKinds
       /\ e.conv.up
       /\ e.conv.count > 0
       /\ e.conv.count % MessagesPerAnchor = 0
       /\ MayAuthor(e, d, "snapshot")
    THEN AuthorOnce(e, d, [kind |-> "snapshot"], t) ELSE e

AuthorNode(e, d, body, t) == Anchored(AuthorOnce(e, d, body, t), d, body.kind, t)

(* author_x3dh_key_exchange: a fresh conversation key for the current      *)
(* epoch, wrapped for one device; or a pulse, when the device only has its *)
(* last-resort key.  With a one-time key the acknowledgement is awaited.   *)
(* (It stops at HANDSHAKE_RETRY_CAP attempts, but only a HandshakeError    *)
(* counts as one, and no engine sends that message.)                       *)
Awaited(e, at, epoch, k, p, waits) ==
    [e EXCEPT !.saved.keys = Set(@, epoch, k),
              !.waits = IF waits THEN @ \cup {[node |-> e.out[at].id, to |-> p, attempts |-> 0]}
                        ELSE @]

WrapExchange(e, d, p, t, k) ==
    LET epoch == CurrentEpoch(e)
        entry == WrapFor(e, {p}, t)
        held == [ConsumeOpks(e, {p}, t) EXCEPT
                   !.conv = IF @.up THEN AddEpoch(@, epoch, k) ELSE Establish(k, t, epoch)]
    IN  Awaited(AuthorNode(held, d, [kind |-> "wrap", gen |-> epoch, k |-> k, to |-> entry], t),
                Len(e.out) + 1, epoch, k, p, entry[p].opk # NoOpk)

Exchange(e, d, p, t) ==
    IF p \in DOMAIN e.anns /\ e.anns[p].expires <= t
    THEN AuthorNode(e, d, [kind |-> "pulse"], t)
    ELSE WrapExchange(e, d, p, t, <<d, NextId(e), 1>>)

(* author_announcement: fresh pre-keys, whose secrets are kept. *)
KeepSecrets(e, d, t) ==
    [e EXCEPT !.secrets = @ \cup PreKeys(d, Last(e.out).id), !.announced = {t}]

Announcement(e, d, t) == KeepSecrets(AuthorNode(e, d, [kind |-> "announce"], t), d, t)

(* author_history_key_export: an export key for the other devices. *)
Export(e, d, t) ==
    LET ps == Recipients(e, d)
        body == [kind |-> "export", k |-> e.conv.epochs[e.conv.epoch], to |-> WrapFor(e, ps, t)]
    IN  AuthorNode(ConsumeOpks(e, ps, t), d, body, t)

-----------------------------------------------------------------------------
(* Receiving (the key handling of handle_node_internal_ext).               *)

(* Two keys wrapped with one one-time pre-key: the lower device wins. *)
LosesCollision(e, n, opk) == opk \in DOMAIN e.opks /\ n.from >= e.opks[opk]

OpensWrap(e, d, n) ==
    /\ n.kind = "wrap"
    /\ d \in DOMAIN n.to
    /\ ~LosesCollision(e, n, n.to[d].opk)
    /\ CanOpen(e, n.to[d])

(* A KeyWrap entry of this device gives it the conversation key of the     *)
(* generation; the one-time key is noted whether or not it opens.          *)
UnwrapKConv(e, d, n) ==
    LET opk == n.to[d].opk
        noted == IF opk = NoOpk \/ LosesCollision(e, n, opk) THEN e
                 ELSE [e EXCEPT !.opks = Set(@, opk, n.from)]
    IN  IF ~OpensWrap(e, d, n) THEN noted
        ELSE [noted EXCEPT
                !.conv = IF @.up THEN AddEpoch(@, n.gen, n.k) ELSE Establish(n.k, n.at, n.gen),
                !.saved.keys = Set(@, n.gen, n.k),
                !.greeted = @ + 1,
                !.secrets = @ \ {opk}]

(* A SenderKeyDistribution entry gives the chain; while the conversation   *)
(* is pending it is lost, and the one-time key with it.                    *)
UnwrapSenderKey(e, d, n) ==
    LET epoch == Epoch(n.seq)
        used == [e EXCEPT !.secrets = @ \ {n.to[d].opk}]
    IN  IF ~CanOpen(e, n.to[d]) THEN e
        ELSE IF ~e.conv.up THEN used
        ELSE [used EXCEPT
                !.conv.senderKeys = Set(@, <<n.from, epoch>>, n.chain),
                !.conv.ratchets = Set(@, n.from, [seq |-> n.last, key |-> n.chain,
                                                  node |-> 0, epoch |-> epoch]),
                !.conv.headers = Set(@, <<n.from, epoch>>, n.head)]

Unwrap(e, d, n) ==
    IF n.kind \notin {"wrap", "skd", "export"} \/ d \notin DOMAIN n.to THEN e
    ELSE CASE n.kind = "wrap" -> UnwrapKConv(e, d, n)
           [] n.kind = "skd" -> UnwrapSenderKey(e, d, n)
           [] OTHER -> IF CanOpen(e, n.to[d])
                       THEN [e EXCEPT !.secrets = @ \ {n.to[d].opk}] ELSE e

(* The signature: of the device, or with the signing key of the epoch (of  *)
(* the epoch before, for a distribution).                                  *)
Authentic(e, n) ==
    LET by == <<n.from, IF n.kind = "skd" THEN Epoch(n.seq) - 1 ELSE Epoch(n.seq)>> IN
    n.sig = 0 \/ (by \in DOMAIN e.peers /\ e.peers[by] = n.sig)

(* identify_sender_and_unpack, try_unpack_history_export; the other kinds  *)
(* travel in the clear.                                                    *)
Unpacks(e, n) ==
    CASE n.kind = "text" -> n.key # NoKey /\ CanUnpack(e.conv, n.from, n.key, n.header)
      [] n.kind = "export" -> e.conv.up /\ \E g \in DOMAIN e.conv.epochs : e.conv.epochs[g] = n.k
      [] OTHER -> TRUE

(* A number at or below both the last one verified and the one the chain   *)
(* has reached is refused as a replay, unless its key was put aside.       *)
Replayed(e, n) ==
    /\ \E i \in e.handled : nodes[i].from = n.from /\ nodes[i].seq >= n.seq
    /\ e.conv.up
    /\ Follows(e.conv, n.from, Epoch(n.seq))
    /\ n.seq <= e.conv.ratchets[n.from].seq
    /\ <<n.from, n.seq>> \notin e.conv.skipped

-----------------------------------------------------------------------------
(* The engine of d in this step, and what its effects leave in the store. *)
NotInStep == [content |-> {}, admin |-> {}, lastSeq |-> 0]
HeadsOf(e) == [content |-> e.content, admin |-> e.admin, lastSeq |-> e.lastSeq]

At(d) ==
    [eng[d] EXCEPT !.base = Len(nodes), !.disk = HeadsOf(eng[d]), !.next = HeadsOf(eng[d])]

Commit(d, e) ==
    /\ eng' = [eng EXCEPT ![d] = [e EXCEPT
                  !.out = <<>>, !.base = 0, !.disk = NotInStep, !.next = NotInStep,
                  !.content = e.next.content, !.admin = e.next.admin,
                  !.lastSeq = Max({e.disk.lastSeq} \cup {n.seq : n \in Range(e.out)})]]
    /\ nodes' = nodes \o e.out

(* What an application asks of an engine: its next request is op, for p,   *)
(* made when the device has seen so many nodes.                            *)
Asked(d, op, p) ==
    /\ plan[d] # <<>>
    /\ Head(plan[d])[1] = op /\ Head(plan[d])[2] = p
    /\ Cardinality(eng[d].handled) >= Head(plan[d])[3]
    /\ plan' = [plan EXCEPT ![d] = Tail(@)]
    /\ d \in eng[d].auth
    /\ UNCHANGED <<acks, now, ticks, restarts>>

Rotate(d) ==
    /\ Asked(d, "rotate", d)
    /\ Commit(d, RotateKey(At(d), d, now))

Say(d) ==
    /\ Asked(d, "say", d)
    /\ eng[d].conv.up
    /\ MayAuthor(eng[d], d, "text")
    /\ Commit(d, AuthorNode(At(d), d, [kind |-> "text"], now))

Grant(d, p) ==
    /\ Asked(d, "authorize", p)
    /\ d \in Admins /\ p \notin eng[d].auth
    /\ MayAuthor(eng[d], d, "authorize")
    /\ Commit(d, AuthorNode(At(d), d, [kind |-> "authorize", target |-> p], now))

Revoke(d, p) ==
    /\ Asked(d, "revoke", p)
    /\ d \in Admins /\ p \in eng[d].auth \ {d}
    /\ MayAuthor(eng[d], d, "revoke")
    /\ Commit(d, AuthorNode(At(d), d, [kind |-> "revoke", target |-> p], now))

Pulse(d) ==
    /\ Asked(d, "pulse", d)
    /\ Commit(d, AuthorNode(At(d), d, [kind |-> "pulse"], now))

Announce(d) ==
    /\ Asked(d, "announce", d)
    /\ Commit(d, Announcement(At(d), d, now))

KeyExchange(d, p) ==
    /\ Asked(d, "exchange", p)
    /\ p \in DOMAIN eng[d].anns \ {d}
    /\ Commit(d, Exchange(At(d), d, p, now))

ExportHistory(d) ==
    /\ Asked(d, "export", d)
    /\ eng[d].conv.up
    /\ MayAuthor(eng[d], d, "export")
    /\ Commit(d, Export(At(d), d, now))

(* A device accepts what was signed before its author was revoked, and     *)
(* admin nodes from those that hold the permission.                        *)
Permitted(n) ==
    /\ ~ \E i \in n.past : nodes[i].kind = "revoke" /\ nodes[i].target = n.from
    /\ n.kind \in AdminKinds => n.from \in Admins

Acknowledge(e, d, n) ==
    acks' = IF OpensWrap(e, d, n) THEN acks \cup {[node |-> n.id, to |-> n.from]} ELSE acks

(* A device hears of the conversation once it is or was authorised. *)
Joined(d) ==
    \/ d \in eng[d].auth
    \/ \E i \in DOMAIN nodes :
          nodes[i].kind \in {"authorize", "revoke"} /\ nodes[i].target = d

(* handle_node, once the node's parents are verified.  Its keys are taken  *)
(* whether or not it then turns out authentic.                             *)
Handle(d, n) ==
    LET e == At(d)
        held(u) == [u EXCEPT !.handled = @ \cup {n.id}]
        taken(u) == IF Authentic(u, n) THEN ReactAndSettle(held(u), d, n, now) ELSE u
    IN  /\ Joined(d)
        /\ n.id \notin e.handled
        /\ n.past \subseteq e.handled
        /\ Permitted(n)
        /\ Unpacks(e, n)
        /\ ~Replayed(e, n)
        /\ \E done \in {taken(Unwrap(e, d, n))} \ {e} : Commit(d, done)
        /\ Acknowledge(e, d, n)
        /\ UNCHANGED <<now, plan, ticks, restarts>>

(* The keys of a KeyWrap or SenderKeyDistribution are taken before its     *)
(* parents have arrived; the founder needs no record to be authorised.     *)
Bootstrap(d, n) ==
    LET e == At(d)
        u == Unwrap(e, d, n)
        done == IF Authentic(u, n) THEN SideEffects(u, n) ELSE u
    IN  /\ Joined(d)
        /\ n.id \notin e.handled \cup e.booted
        /\ ~(n.past \subseteq e.handled)
        /\ n.kind \in {"wrap", "skd"} /\ n.from = Founder
        /\ ~Replayed(e, n)
        /\ Commit(d, [done EXCEPT !.booted = @ \cup {n.id}])
        /\ Acknowledge(e, d, n)
        /\ UNCHANGED <<now, plan, ticks, restarts>>

(* ProtocolMessage::KeywrapAck; one that is never delivered was lost. *)
HandleAck(d) ==
    \E a \in acks :
        /\ a.to = d
        /\ acks' = acks \ {a}
        /\ eng' = [eng EXCEPT ![d].waits = {w \in @ : w.node # a.node}]
        /\ UNCHANGED <<nodes, now, plan, ticks, restarts>>

(* poll: rotation or rekey (every device passes for its own admin here),   *)
(* and an announcement after enough handshakes or time.                    *)
ReplenishKeys(e, d, t) ==
    IF e.greeted >= MaxHandshakes \/ \E a \in e.announced : t - a >= PreKeyLife
    THEN [Announcement(e, d, t) EXCEPT !.greeted = 0] ELSE e

Housekeep(e, d, t) == ReplenishKeys(Renew(e, d, t), d, t)

(* (Mutant: a handshake that was retried often enough stays pending.)      *)
RetryOrKeep(e, d, w, t) ==
    IF w.attempts >= MaxRetries THEN {e}
    ELSE {[Exchange([e EXCEPT !.waits = @ \ {w}], d, w.to, t) EXCEPT
             !.waits = {[x EXCEPT !.attempts = w.attempts + 1] : x \in @}]}

(* The acknowledgement of w is 30 seconds late: the exchange is repeated   *)
(* with another one-time key, or given up.  The attempt is noted on        *)
(* whichever entry for that device is found first.                         *)
Attempted(e, w) ==
    LET found == {x \in e.waits : x.to = w.to} IN
    IF found = {} THEN {e}
    ELSE {[e EXCEPT !.waits = (@ \ {x}) \cup {[x EXCEPT !.attempts = w.attempts + 1]}] :
            x \in found}

RetryLate(e, d, w, t) ==
    LET dropped == [e EXCEPT !.waits = @ \ {w}] IN
    IF w.attempts >= MaxRetries \/ w.to \notin DOMAIN e.anns THEN {dropped}
    ELSE Attempted(Exchange(dropped, d, w.to, t), w)

Poll(d) ==
    /\ Joined(d)
    /\ \E kept \in {Housekeep(At(d), d, now)} :
          \/ kept # At(d) /\ Commit(d, kept)
          \/ \E w \in eng[d].waits : \E e \in RetryLate(kept, d, w, now) : Commit(d, e)
    /\ UNCHANGED <<acks, now, plan, ticks, restarts>>

(* A tick is the length of an epoch; keys put aside live for a day. *)
Tick ==
    /\ ticks > 0
    /\ ticks' = ticks - 1
    /\ now' = now + 1
    /\ eng' = [d \in Devices |->
                 IF eng[d].conv.up THEN [eng[d] EXCEPT !.conv.skipped = {}] ELSE eng[d]]
    /\ UNCHANGED <<nodes, acks, plan, restarts>>

(* load_conversation_state: the lowest key held is placed at epoch 0, and  *)
(* a sender's chain is found again only when the key was saved with its    *)
(* last node.  The identities come back from the admin nodes; the rest     *)
(* lived in memory.                                                        *)
Reloaded(e, d) ==
    LET lowest == Min(DOMAIN e.saved.keys)
        meta == CHOOSE m \in e.saved.meta : TRUE
        fresh == IF e.saved.meta = {} THEN Establish(e.saved.keys[lowest], now, 0)
                 ELSE [Establish(e.saved.keys[lowest], meta.rotated, 0) EXCEPT !.count = meta.count]
        top == Max({0} \cup (DOMAIN e.saved.keys \ {lowest}))
        of(s) == {i \in e.handled : nodes[i].from = s}
        last(s) == CHOOSE i \in of(s) : \A j \in of(s) : nodes[j].seq <= nodes[i].seq
        known == {s \in Devices : of(s) # {} /\ last(s) \in DOMAIN e.saved.ratchets}
        conv == [fresh EXCEPT
                   !.epochs = Set([g \in DOMAIN e.saved.keys \ {lowest} |-> e.saved.keys[g]],
                                  0, e.saved.keys[lowest]),
                   !.epoch = top,
                   !.ratchets = [s \in known |->
                       [seq |-> nodes[last(s)].seq, key |-> e.saved.ratchets[last(s)].key,
                        node |-> last(s), epoch |-> e.saved.ratchets[last(s)].epoch]]]
    IN  [e EXCEPT !.conv = IF DOMAIN e.saved.keys = {} THEN Pending ELSE conv,
                  !.anns = Nothing, !.secrets = {DeviceKey(d)}, !.signs = Nothing,
                  !.peers = Nothing, !.waits = {}, !.opks = Nothing, !.greeted = 0,
                  !.booted = {}, !.announced = {}, !.loads = @ + 1,
                  !.moved = @ \/ (DOMAIN e.saved.keys # {} /\ lowest # 0)]

Reload(d) ==
    /\ restarts > 0
    /\ restarts' = restarts - 1
    /\ eng' = [eng EXCEPT ![d] = Reloaded(@, d)]
    /\ UNCHANGED <<nodes, acks, now, plan, ticks>>

-----------------------------------------------------------------------------
(* At first no device has a key, and the announcements are known. *)
InitEngine(d, start) ==
    [conv |-> Pending, auth |-> start,
     anns |-> [p \in Devices |-> [no |-> 1, opks |-> 1 .. Opks, expires |-> PreKeyLife]],
     secrets |-> {DeviceKey(d)} \cup PreKeys(d, 1),
     signs |-> Nothing, peers |-> Nothing, waits |-> {}, opks |-> Nothing,
     greeted |-> 0, announced |-> {0}, handled |-> {}, booted |-> {},
     content |-> {}, admin |-> {}, disk |-> NotInStep, next |-> NotInStep,
     saved |-> [keys |-> Nothing, ratchets |-> Nothing, meta |-> {}],
     out |-> <<>>, base |-> 0, lastSeq |-> 0, loads |-> 0, moved |-> FALSE]

Init ==
    /\ \E s \in Scenes :
          /\ eng = [d \in Devices |-> InitEngine(d, s.start)]
          /\ plan = s.plan
          /\ ticks = s.ticks
          /\ restarts = s.restarts
    /\ nodes = <<>>
    /\ acks = {}
    /\ now = 0

Next ==
    \/ \E d \in Devices :
          \/ Rotate(d) \/ Say(d) \/ Pulse(d) \/ Announce(d) \/ ExportHistory(d)
          \/ \E p \in Devices : Grant(d, p) \/ Revoke(d, p) \/ KeyExchange(d, p)
          \/ \E i \in DOMAIN nodes : Handle(d, nodes[i]) \/ Bootstrap(d, nodes[i])
          \/ HandleAck(d) \/ Poll(d) \/ Reload(d)
    \/ Tick

(* The engine is polled for as long as it runs, so a poll that would       *)
(* settle a handshake happens: weak fairness of the second case of Poll,   *)
(* with its enabling condition written out.                                *)
CanSettle(d) ==
    \E w \in eng[d].waits : \E e \in RetryLate(Housekeep(At(d), d, now), d, w, now) :
        e.waits # eng[d].waits
PollFair(d) ==
    []<>~CanSettle(d) \/ []<><<eng'[d].waits # eng[d].waits>>_vars

Spec == Init /\ [][Next]_vars /\ \A d \in Devices : PollFair(d)

-----------------------------------------------------------------------------
Texts == {n \in Range(nodes) : n.kind = "text" /\ n.key # NoKey}

(* No two messages are encrypted with the same message key, whatever is    *)
(* rotated, rekeyed or distributed again in between, and over restarts.    *)
(* Only a device that a restart gave its lowest conversation key back      *)
(* under epoch 0, although it is of a later one, may count again from the  *)
(* start of a chain it has used.                                           *)
KeysUnique ==
    \A m, n \in Texts : m.key = n.key => m = n \/ eng[m.from].moved

Reads(d, t) ==
    \/ t.id \in eng[d].handled
    \/ Unpacks(eng[d], t) /\ Authentic(eng[d], t) /\ ~Replayed(eng[d], t)

(* A message can be read by every device that has its past, the epoch's    *)
(* conversation key and a sender key of its author: the chain of message   *)
(* keys moves alike on both sides over the nodes that take no message key, *)
(* over rekeys and distributions, and the signature is known.  This holds  *)
(* when the epoch has one conversation key, when nothing its author sent   *)
(* later was taken before it, and without a restart.                       *)
Readable ==
    \A d \in Devices, t \in Texts :
        LET epoch == Epoch(t.seq)
            conv == eng[d].conv
        IN  (/\ t.past \subseteq eng[d].handled
             /\ conv.up
             /\ epoch \in DOMAIN conv.epochs
             /\ <<t.from, epoch>> \in DOMAIN conv.senderKeys
             /\ \A n \in Range(nodes) :
                   n.kind = "wrap" /\ n.gen = epoch => n.k = conv.epochs[epoch]
             /\ \A i \in eng[d].handled \cup eng[d].booted :
                   nodes[i].from = t.from => nodes[i].seq <= t.seq
             /\ eng[d].loads + eng[t.from].loads = 0)
            => Reads(d, t)

(* The nodes that hand out the conversation key or the sender key a        *)
(* message is encrypted with.                                              *)
HandsOut(n, t) ==
    \/ n.kind = "wrap" /\ n.k = t.header[1]
    \/ n.kind = "skd" /\ n.from = t.from /\ n.head = t.header

(* A revoked device cannot read what the device that revoked it then says  *)
(* in an epoch it began itself: revoke_device entails a rotation that      *)
(* leaves it out, and no distribution of a sender key lets it back in.     *)
(* Others go on under keys they handed out before they heard of the        *)
(* revocation, for they do not rotate for it (side_effects.rs); but what   *)
(* is said under keys that were handed out by devices that all held it     *)
(* unauthorised is as closed to it.  Keys of an exchange are for whom the  *)
(* application names.                                                      *)
RevokedBlind ==
    \A d \in Devices, t \in Texts :
        LET k == t.header[1] IN
        (/\ d \notin t.believed
         /\ k[3] = 0
         /\ \/ k[1] = t.from /\ \E r \in Range(nodes) : /\ r.kind = "revoke"
                                                      /\ r.from = t.from /\ r.target = d
            \/ \A n \in Range(nodes) : HandsOut(n, t) => d \notin n.believed)
        => ~Unpacks(eng[d], t)

(* A device is not kept from speaking for ever by an acknowledgement that  *)
(* does not come: the exchange is retried a bounded number of times.       *)
Unblocked == \A d \in Devices : []<>(eng[d].waits = {})
=============================================================================
