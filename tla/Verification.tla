--------------------------- MODULE Verification ---------------------------
(***************************************************************************)
(* How one device's engine turns the nodes of a conversation it receives   *)
(* into verified history (merkle-tox-core: engine/processor, the           *)
(* MerkleNode handler, the pending overlay EngineStore, dag.rs).           *)
(*                                                                         *)
(* The nodes others have authored are constants.  A node's hash covers its *)
(* author, which the wire form of a cleartext node leaves out: the engine  *)
(* guesses it, so what it stores is an item, the pair of a node and an     *)
(* author.  A wrong guess is an item no other node has as parent.          *)
(*                                                                         *)
(* One message is handled at a time.  The engine state is threaded through *)
(* the handler as a record e; its fields are in InitEngine.  e.out is what *)
(* the effects returned so far will write to the store; the other store    *)
(* fields are the overlay, dropped with the message when handling fails.   *)
(* Timestamps are within their limits and cryptography is ideal: a node    *)
(* signed by its device is authentic, a text is authentic to whoever has   *)
(* its sender's signing key and its wire form.                             *)
(***************************************************************************)
EXTENDS Identity, Sequences, SequencesExt

CONSTANTS
    Nodes, Scenes,  \* the nodes that exist, in each of several histories
    Kind, Sender, Author, Parents, Rank, Epoch, SeqNo,
    Target,         \* the device, identity or node that n acts upon
    Cert,           \* the certificate in an AuthorizeDevice node or an anchor
    ForMe,          \* key-carrying nodes with an entry for this device
    MaxVouchers, MaxSpeculative, MaxVerified, MaxPerSender, OpaqueQuota,
    Orders,         \* the orders the store may list nodes in
    Before,         \* the nodes that arrive before n
    MaxLoads

VARIABLES eng, scene, received, loads

vars == <<eng, scene, received, loads>>

AdminKinds == {"Genesis", "AuthorizeDevice", "RevokeDevice", "Snapshot",
               "AnchorSnapshot", "KeyWrap", "SoftAnchor"}
BootstrapKinds == {"KeyWrap", "HistoryExport", "SKD", "Genesis",
                   "AuthorizeDevice", "AnchorSnapshot"}
CleartextKinds == AdminKinds \cup {"SKD", "Invite", "Leave", "Announcement"}

(* Items *)
True(n) == <<n, Author[n]>>
Node(i) == i[1]
KindOf(i) == Kind[i[1]]
SenderOf(i) == Sender[i[1]]
RankOf(i) == Rank[i[1]]
KeyOf(i) == <<SenderOf(i), Epoch[i[1]]>>
ParentsOf(i) == {True(p) : p \in Parents[i[1]]}
Items == {True(n) : n \in Nodes} \cup {<<n, Sender[n]>> : n \in Nodes}

MaxIn(S) == CHOOSE x \in S : \A y \in S : y <= x

(* F of x, where x is evaluated once. *)
Given(x, F(_)) == CHOOSE y \in {F(z) : z \in {x}} : TRUE

(* Listed(ord, S): the items of S as the store lists them. *)
Listed(ord, S) ==
    LET of(n) == SetToSeq({i \in S : Node(i) = n})
    IN  FlattenSeq([k \in 1 .. Len(ord) |-> of(ord[k])])

(* sender_ratchets, the chain of message keys of each device with the last *)
(* number seen and the last one whose key was used, and skipped_keys.      *)
NoRatchet == [chains |-> {}, skipped |-> {}]

(* The chain of the sender of n, in the epoch of n. *)
Chain(r, n) == {c \in r.chains : c.dev = Sender[n] /\ c.epoch = Epoch[n]}

InitEngine ==
    [nodes |-> {}, verified |-> {},       \* the store under the overlay
     wires |-> {},                        \* wire forms held, by node
     usage |-> <<>>,                      \* opaque_store_usage
     heads |-> {}, admin_heads |-> {},
     id |-> NoIdentity,
     anc |-> <<>>,                        \* admin_ancestors_cache
     vouchers |-> [i \in Items |-> {}],
     epochs |-> {},                       \* K_conv held; none: Pending
     sender_keys |-> {}, signing_keys |-> {},
     ratchet |-> NoRatchet,
     seqs |-> {},                         \* verified_node_seqs
     equivocations |-> {},
     anchors |-> {},                      \* soft_anchor_dedup
     pending |-> FALSE,                   \* identity_pending
     out |-> [nodes |-> {}, verified |-> {}, heads |-> {}, admin_heads |-> {},
              epochs |-> {}, invalid |-> {}]]

-----------------------------------------------------------------------------
(* Structure: MerkleNode::validate.  What engines author satisfies all of  *)
(* it, so only the absence of a parent can fail it.                        *)
Validate(n) ==
    /\ Rank[n] = IF Parents[n] = {} THEN 0 ELSE MaxIn({Rank[p] : p \in Parents[n]}) + 1
    /\ Kind[n] \in AdminKinds \ {"SoftAnchor"} =>
           \A p \in Parents[n] : Kind[p] \in AdminKinds
    /\ Kind[n] = "SoftAnchor" => Parents[n] = {Target[n]}

ASSUME ValidNodes == \A n \in Nodes : Validate(n)

StructurallyValid(e, i) == ParentsOf(i) \subseteq e.nodes

(* The admin ancestors of an item that can be reached through the nodes    *)
(* stored; a cached answer for a parent is taken as it is.                 *)
AdminAncestors(e, i) ==
    LET up[j \in Items] ==
            UNION {({p} \cap {q \in Items : KindOf(q) \in AdminKinds})
                   \cup (IF p \in DOMAIN e.anc THEN e.anc[p] ELSE up[p]) :
                   p \in ParentsOf(j) \cap e.nodes}
    IN  up[i]

(* (Mutant: an answer once cached is kept.)                                *)
CacheAncestorsOnce(e, i) == [e EXCEPT !.anc = @ @@ (i :> AdminAncestors(e, i))]

CacheAncestors(e, i) == [e EXCEPT !.anc = (i :> AdminAncestors(e, i)) @@ @]

(* is_authorized: the master, a cached answer, or a chain of records. *)
IsAuthorized(e, i) ==
    \/ SenderOf(i) = i[2]
    \/ i \in e.id.paths
    \/ Chains(e.id, SenderOf(i), i[2], e.anc[i], RankOf(i)) # {}

CachePath(e, i) ==
    IF IsAuthorized(e, i) /\ SenderOf(i) # i[2]
    THEN [e EXCEPT !.id.paths = @ \cup {i}] ELSE e

(* The causal context of an item, as every evaluation computes it. *)
Evaluate(e, i) == CachePath(CacheAncestors(e, i), i)

Permissions(e, i) ==
    GetPermissions(e.id, SenderOf(i), i[2], e.anc[i], RankOf(i))

(* check_permissions *)
Required(i) ==
    CASE KindOf(i) \in {"AuthorizeDevice", "RevokeDevice", "Snapshot", "Invite",
                        "AnchorSnapshot", "Genesis", "KeyWrap"} -> {"admin"}
      [] KindOf(i) = "Leave" ->
            IF i[2] = Target[Node(i)] THEN {} ELSE {"admin"}
      [] KindOf(i) = "Announcement" -> {}
      [] OTHER -> {"message"}

PermissionDenied(e, i) ==
    /\ IsAuthorized(e, i) \/ \E a \in e.id.auth : a.dev = SenderOf(i)
    /\ ~(Required(i) \subseteq Permissions(e, i))

(* An edit is of a text by the same author, a redaction by the author or   *)
(* an admin, a reaction to a content node; a target not stored may be      *)
(* anything.                                                               *)
BadTarget(e, i) ==
    \E t \in {j \in e.nodes : Node(j) = Target[Node(i)]} :
        \/ KindOf(i) = "Edit" /\ (KindOf(t) # "Text" \/ t[2] # i[2])
        \/ KindOf(i) = "Redaction" /\ t[2] # i[2]
           /\ "admin" \notin Permissions(e, i)
        \/ KindOf(i) = "Reaction" /\ KindOf(t) \in AdminKinds

LastVerifiedSeq(e, dev) ==
    MaxIn({SeqNo[Node(i)] : i \in {j \in e.verified : SenderOf(j) = dev}} \cup {0})

(* A number that is not new and whose key the chain has passed and not     *)
(* kept.                                                                   *)
Passed(r, n) ==
    /\ \E c \in Chain(r, n) : SeqNo[n] <= c.seq
    /\ <<Sender[n], SeqNo[n]>> \notin r.skipped

IsReplay(e, i) ==
    /\ Passed(e.ratchet, Node(i))
    /\ SeqNo[Node(i)] <= LastVerifiedSeq(e, SenderOf(i))
    /\ IsAuthorized(e, i)

TooManyVerified(e, i) ==
    IsAuthorized(e, i) /\ LastVerifiedSeq(e, SenderOf(i)) >= MaxVerified

(* (Mutant: the numbers of all senders are compared.)                      *)
EquivocationOfAnyone(e, i) ==
    IF IsAuthorized(e, i)
    THEN [e EXCEPT !.equivocations = @ \cup
            {<<j, i>> : j \in {k \in e.seqs : SeqNo[Node(k)] = SeqNo[Node(i)] /\ k # i}}]
    ELSE e

(* Another verified item with the sender and number of this one. *)
Equivocation(e, i) ==
    IF IsAuthorized(e, i)
    THEN [e EXCEPT !.equivocations = @ \cup
            {<<j, i>> : j \in {k \in e.seqs : /\ SenderOf(k) = SenderOf(i)
                                              /\ SeqNo[Node(k)] = SeqNo[Node(i)]
                                              /\ k # i}}]
    ELSE e

-----------------------------------------------------------------------------
(* Keys: what an authorised KeyWrap or SenderKeyDistribution with an entry *)
(* for this device gives it.  A sender key that arrives while the          *)
(* conversation is pending is not kept.  A SenderKeyDistribution holds the *)
(* root of the chain; one that holds a place in it is in module Keys.      *)
UnwrapKConv(e, i) ==
    IF KindOf(i) = "KeyWrap" /\ Node(i) \in ForMe /\ IsAuthorized(e, i)
    THEN [e EXCEPT !.epochs = @ \cup {Epoch[Node(i)]},
                   !.pending = IF e.epochs = {} THEN ~HasFounder(e.id) ELSE @,
                   !.ratchet.chains = IF \A x \in e.epochs : x < Epoch[Node(i)]
                                      THEN {} ELSE @,
                   !.out.epochs = @ \cup {Epoch[Node(i)]}]
    ELSE e

UnwrapSenderKey(e, i) ==
    IF /\ KindOf(i) = "SKD" /\ Node(i) \in ForMe
       /\ IsAuthorized(e, i) /\ e.epochs # {}
    THEN [e EXCEPT !.sender_keys = @ \cup {KeyOf(i)}]
    ELSE e

(* Device-signed nodes are authentic by their structure; an SKD of a later *)
(* epoch is signed with the key of the epoch before, and content with the  *)
(* key of its own epoch over the wire form.                                *)
IsAuthentic(e, i) ==
    CASE KindOf(i) = "SKD" /\ Epoch[Node(i)] > 0 ->
             <<SenderOf(i), Epoch[Node(i)] - 1>> \in e.signing_keys
      [] KindOf(i) \in CleartextKinds -> TRUE
      [] OTHER -> KeyOf(i) \in e.signing_keys /\ Node(i) \in e.wires

Vouched(e, i) == e.vouchers[i] # {}

Quarantined(e, i) ==
    /\ KindOf(i) \notin BootstrapKinds
    /\ \/ ~(ParentsOf(i) \subseteq e.verified)
       \/ ~IsAuthorized(e, i) /\ ~Vouched(e, i)

(* An anchor by an unauthorised device: the founder must have certified    *)
(* the device for it.                                                      *)
CertifiedByFounder(e, i) ==
    \E m \in e.id.members :
        /\ m.role = 0
        /\ Cert[Node(i)].issuer = m.who
        /\ Cert[Node(i)].dev = SenderOf(i)
        /\ Required(i) \subseteq Cert[Node(i)].perms

(* The verdict: an anchor already seen from this device is refused. *)
Accepted(e, i) ==
    /\ ~Quarantined(e, i)
    /\ StructurallyValid(e, i)
    /\ IF KindOf(i) \in {"AnchorSnapshot", "SoftAnchor"} /\ ~IsAuthorized(e, i)
       THEN CertifiedByFounder(e, i)
       ELSE IsAuthentic(e, i) \/ ~IsAuthorized(e, i)
    /\ ~(KindOf(i) = "SoftAnchor" /\ <<SenderOf(i), Target[Node(i)]>> \in e.anchors)

(* put_node into the overlay, and the WriteStore effect. *)
Put(e, i, ok) ==
    [e EXCEPT !.nodes = @ \cup {i},
              !.verified = IF ok THEN @ \cup {i} ELSE @,
              !.seqs = IF ok THEN {k \in @ : SenderOf(k) # SenderOf(i) \/
                                             SeqNo[Node(k)] # SeqNo[Node(i)]} \cup {i}
                             ELSE @,
              !.anchors = IF ok /\ KindOf(i) = "SoftAnchor"
                          THEN @ \cup {<<SenderOf(i), Target[Node(i)]>>} ELSE @]

(* An authentic item vouches for its parents. *)
Vouch(e, i) ==
    IF IsAuthentic(e, i)
    THEN [e EXCEPT !.vouchers =
            [j \in Items |->
               IF j \in ParentsOf(i) /\ Cardinality(@[j]) < MaxVouchers
               THEN @[j] \cup {SenderOf(i)} ELSE @[j]]]
    ELSE e

-----------------------------------------------------------------------------
(* Side effects *)

IdentityEffect(e, i) ==
    LET n == Node(i) id == e.id IN
    CASE KindOf(i) = "Genesis" -> AddMember(id, i[2], 0)
      [] KindOf(i) = "AuthorizeDevice" ->
             AuthorizeDevice(id, e.anc[i], i[2], Cert[n], Rank[n], i)
      [] KindOf(i) = "RevokeDevice" ->
             RevokeDevices(id, SenderOf(i), i[2], {Target[n]}, Rank[n], i)
      [] KindOf(i) \in {"Invite", "AnchorSnapshot"} -> AddMember(id, Target[n], 1)
      [] KindOf(i) = "Leave" ->
             RemoveMember(id, SenderOf(i), i[2], Target[n], Rank[n], i)
      [] OTHER -> id

(* The chains: an SKD of the current epoch starts that of its sender anew, *)
(* a node that takes no key moves it to its number (track_sender_seq), and *)
(* content to the key after its own, keeping the keys stepped over         *)
(* (peek_keys, commit_node_key).                                           *)
Behind(c, n) == \/ c.epoch < Epoch[n]
                \/ c.epoch = Epoch[n] /\ c.seq < SeqNo[n]

Restarted(r, n, epochs) ==
    IF Kind[n] = "SKD" /\ Epoch[n] \in epochs /\ \A x \in epochs : x <= Epoch[n]
    THEN [r EXCEPT !.chains = {c \in @ : c.dev # Sender[n]}] ELSE r

TrackSeq(r, n) ==
    [r EXCEPT !.chains =
       {IF c.dev = Sender[n] /\ Behind(c, n)
        THEN [c EXCEPT !.seq = SeqNo[n], !.epoch = Epoch[n]] ELSE c : c \in @}]

CommitKey(r, n, epochs) ==
    LET own == <<Sender[n], SeqNo[n]>>
        low == MaxIn({c.seq : c \in Chain(r, n)} \cup {0})
        over == {m \in Nodes : /\ Sender[m] = Sender[n] /\ Epoch[m] = Epoch[n]
                               /\ low < SeqNo[m] /\ SeqNo[m] < SeqNo[n]}
        held == /\ Chain(r, n) # {} \/ Epoch[n] \in epochs
                /\ low < SeqNo[n] \/ own \in r.skipped
        others == {c \in r.chains : c.dev # Sender[n]}
        next == [dev |-> Sender[n], epoch |-> Epoch[n], seq |-> SeqNo[n], at |-> SeqNo[n]]
    IN  IF ~held THEN r
        ELSE [chains |-> IF \A c \in r.chains \ others : Behind(c, n)
                         THEN others \cup {next} ELSE r.chains,
              skipped |-> (r.skipped \cup {<<Sender[m], SeqNo[m]>> : m \in over})
                          \ {own}]

AdvanceRatchet(r, n, epochs) ==
    IF Kind[n] \in CleartextKinds \cup {"HistoryExport"}
    THEN TrackSeq(Restarted(r, n, epochs), n) ELSE CommitKey(r, n, epochs)

(* The vouches of a revoked device are purged, the signing key in an SKD   *)
(* is learned if its epoch's key is held or the device signed it, and the  *)
(* genesis node ends the pending identity.                                 *)
KeyEffect(e, i) ==
    [e EXCEPT
       !.vouchers = [j \in Items |-> IF KindOf(i) = "RevokeDevice"
                                     THEN @[j] \ {Target[Node(i)]} ELSE @[j]],
       !.signing_keys = @ \cup
           {KeyOf(k) : k \in {j \in {i} : /\ KindOf(j) = "SKD"
                                          /\ \/ Epoch[Node(j)] = 0
                                             \/ Epoch[Node(j)] \in e.epochs}},
       !.ratchet = AdvanceRatchet(@, Node(i), e.epochs),
       !.pending = @ /\ KindOf(i) # "Genesis"]

(* update_heads, and the effect that will write the heads. *)
Tips(H, i) == (H \ ParentsOf(i)) \cup {i}
UpdateHeads(e, i) ==
    IF KindOf(i) \in AdminKinds
    THEN [e EXCEPT !.admin_heads = Tips(@, i), !.out.admin_heads = Tips(e.admin_heads, i)]
    ELSE [e EXCEPT !.heads = Tips(@, i), !.out.heads = Tips(e.heads, i)]

SideEffectFails(e, i) ==
    /\ KindOf(i) = "AuthorizeDevice"
    /\ ~CanAuthorize(e.id, e.anc[i], i[2], Cert[Node(i)], Rank[Node(i)])

(* The effects on the identities come first; those that follow are left    *)
(* out when they fail.  The ancestors of the item have been cached.        *)
ApplySideEffects(e, i) ==
    LET d == [e EXCEPT !.id = IdentityEffect(e, i)]
    IN  IF SideEffectFails(e, i) THEN d ELSE UpdateHeads(KeyEffect(d, i), i)

(* verify_node as revalidation uses it: an item verified before stays so   *)
(* while it is authorised.                                                 *)
StillValid(e, i) == IsAuthorized(e, i) /\ StructurallyValid(e, i)

(* revalidate_all_verified_nodes: what the store itself, s, holds as       *)
(* verified is checked by rank; the overlay does not see what is           *)
(* invalidated.                                                            *)
ByRank(S) ==
    FlattenSeq([k \in 1 .. MaxIn({RankOf(i) : i \in Items}) + 1 |->
                  SetToSeq({i \in S : RankOf(i) = k - 1})])
Revalidate(s, e) ==
    FoldLeft(LAMBDA acc, i :
                 LET c == Evaluate(acc, i) IN
                 IF StillValid(c, i) THEN c
                 ELSE [c EXCEPT !.out.invalid = @ \cup {i}],
             e, ByRank(s.verified))

-----------------------------------------------------------------------------
(* handle_node_internal_ext without the passes that follow it: the result  *)
(* tells whether it failed, whether the item was verified now and whether  *)
(* it is authentic.                                                        *)
Result(e, err, ok, authentic) ==
    [e |-> e, err |-> err, ok |-> ok, authentic |-> authentic]

Act(s, e, i, ok, authentic) ==
    LET err == SideEffectFails(e, i)
        turns == ok /\ ~err
                 /\ KindOf(i) \in {"AuthorizeDevice", "RevokeDevice", "Leave"}
        d == ApplySideEffects(e, i)
    IN  Result(IF turns THEN Revalidate(s, d) ELSE d, err, ok, authentic)

Finish(s, e, i, ok, authentic) ==
    IF ok \/ (authentic /\ KindOf(i) \in BootstrapKinds)
    THEN Act(s, CacheAncestors(e, i), i, ok, authentic)
    ELSE Result(e, FALSE, ok, authentic)

Written(e, i, ok) ==
    [Vouch(Put(e, i, ok), i) EXCEPT !.out.nodes = @ \cup {i},
                                    !.out.verified = @ \cup {j \in {i} : ok}]

Keep(s, e, i, ok) ==
    IF ~ok /\ Cardinality(e.nodes \ e.verified) >= MaxSpeculative
    THEN Result(e, TRUE, FALSE, FALSE)
    ELSE Finish(s, Written(e, i, ok), i, ok, IsAuthentic(e, i))

Judge(s, e, i) == Keep(s, e, i, Accepted(e, i))

Number(s, e, i) ==
    IF IsReplay(e, i) \/ TooManyVerified(e, i) THEN Result(e, TRUE, FALSE, FALSE)
    ELSE Judge(s, UnwrapSenderKey(UnwrapKConv(e, i), i), i)

Admit(s, e, i) ==
    IF PermissionDenied(e, i) \/ BadTarget(e, i) THEN Result(e, TRUE, FALSE, FALSE)
    ELSE Number(s, Equivocation(e, i), i)

Process(s, e, i) ==
    IF i \in e.verified THEN Result(e, FALSE, FALSE, FALSE)
    ELSE Admit(s, Evaluate(e, i), i)

-----------------------------------------------------------------------------
(* Unpacking *)

(* unpack_wire_exception: the author is looked up, else the sender is      *)
(* taken for a master.                                                     *)
GuessAuthor(e, n) ==
    LET known == {p[2] : p \in {q \in SenderPairs(e.id) : q[1] = Sender[n]}}
    IN  IF known = {} THEN Sender[n] ELSE CHOOSE a \in known : TRUE

(* identify_sender_and_unpack: the keys are those of em, and a chain that  *)
(* has used the key of n does not go back.  The peer that passes a node on *)
(* is one of the known senders.                                            *)
Unpackable(e, em, n) ==
    /\ em.epochs # {}
    /\ <<Sender[n], Epoch[n]>> \in em.sender_keys
    /\ Epoch[n] \in em.epochs
    /\ \A c \in Chain(em.ratchet, n) : c.at < SeqNo[n]
    /\ \E p \in SenderPairs(e.id) : p[1] = Sender[n]

(* get_opaque_node_hashes: wire forms with no item under their hash. *)
Opaque(e) == {n \in e.wires : True(n) \notin e.nodes}

Untrack(e, n) ==
    LET at == SelectInSeq(e.usage, LAMBDA m : m = n)
    IN  IF at = 0 THEN e
        ELSE [e EXCEPT !.usage = Front([e.usage EXCEPT ![at] = Last(e.usage)])]

(* One step of reverify_opaque_nodes: the wire form is deleted from the    *)
(* store as the item is made of it, and kept in the overlay until the item *)
(* has been handled.                                                       *)
Promoted(acc, r, n) ==
    [e |-> [r.e EXCEPT !.wires = @ \ {n}, !.out = IF r.err THEN acc.e.out ELSE @],
     more |-> acc.more \/ ~r.err]

PromoteOpaque(s, em, acc, n) ==
    LET clear == Kind[n] \in CleartextKinds
        i == <<n, IF clear THEN Sender[n] ELSE GuessAuthor(acc.e, n)>>
    IN  IF clear \/ Unpackable(acc.e, em, n)
        THEN Promoted(acc, Process(s, Untrack(acc.e, n), i), n)
        ELSE acc

RECURSIVE ReverifyOpaque(_, _, _)
ReverifyOpaque(s, e, ord) ==
    IF e.epochs = {} THEN e
    ELSE Given(FoldLeft(LAMBDA acc, n : PromoteOpaque(s, e, acc, n),
                        [e |-> e, more |-> FALSE],
                        SelectSeq(ord, LAMBDA n : n \in Opaque(e))),
               LAMBDA pass : IF pass.more THEN ReverifyOpaque(s, pass.e, ord)
                                          ELSE pass.e)

(* One step of reverify_speculative_for_conversation: the effects are kept *)
(* only if the item became verified.                                       *)
Retried(acc, r) ==
    IF r.ok /\ ~r.err THEN [e |-> r.e, more |-> TRUE]
    ELSE [acc EXCEPT !.e = [r.e EXCEPT !.out = acc.e.out]]

RetrySpeculative(s, acc, i) ==
    IF IsAuthentic(acc.e, i) \/ Vouched(acc.e, i)
    THEN Retried(acc, Process(s, acc.e, i)) ELSE acc

RECURSIVE ReverifySpeculative(_, _, _)
ReverifySpeculative(s, e, ord) ==
    Given(FoldLeft(LAMBDA acc, i : RetrySpeculative(s, acc, i),
                   [e |-> e, more |-> FALSE],
                   Listed(ord, e.nodes \ e.verified)),
          LAMBDA pass : IF pass.more THEN ReverifySpeculative(s, pass.e, ord)
                                     ELSE pass.e)

(* (Mutant: the nodes that waited are not tried again.)                    *)
HandleNodeOnce(s, e, i, ord) ==
    IF i \in e.nodes THEN Result(e, FALSE, FALSE, FALSE) ELSE Process(s, e, i)

(* handle_node_internal_ext for a node from outside. *)
Reverify(s, r, ord) ==
    IF ~r.err /\ (r.authentic \/ r.ok)
    THEN [r EXCEPT !.e = Given(ReverifyOpaque(s, r.e, ord),
                               LAMBDA e : ReverifySpeculative(s, e, ord))]
    ELSE r

HandleNode(s, e, i, ord) ==
    IF i \in e.nodes THEN Result(e, FALSE, FALSE, FALSE)
    ELSE Reverify(s, Process(s, e, i), ord)

(* process_effects: what the effects write.  The overlay is cleared.       *)
Persist(s, e) ==
    [e EXCEPT !.nodes = s.nodes \cup e.out.nodes,
              !.verified = (s.verified \cup e.out.verified) \ e.out.invalid,
              !.heads = e.out.heads, !.admin_heads = e.out.admin_heads,
              !.out.nodes = {}, !.out.verified = {}, !.out.invalid = {}]

(* Handling failed: no effect is processed.  What the engine learned in    *)
(* memory and the wire forms already removed stay as they are.             *)
Discard(s, e) ==
    [e EXCEPT !.nodes = s.nodes, !.verified = s.verified,
              !.heads = s.heads, !.admin_heads = s.admin_heads,
              !.wires = @ \cap s.wires, !.out = s.out]

(* Usage tracking of a wire node that cannot be unpacked.  All ranks are   *)
(* unknown to the store, so the first entries are evicted.                 *)
Track(e, n) ==
    LET u == IF Len(e.usage) < MaxPerSender THEN Append(e.usage, n) ELSE e.usage
        over == IF Len(u) > OpaqueQuota THEN Len(u) - OpaqueQuota ELSE 0
    IN  [e EXCEPT !.usage = SubSeq(u, over + 1, Len(u)),
                  !.wires = @ \ ToSet(SubSeq(u, 1, over))]

-----------------------------------------------------------------------------
(* The MerkleNode handler: a node arrives from a peer. *)
Ended(s, r, n) ==
    IF r.err THEN Discard(s, r.e) ELSE Untrack(Persist(s, r.e), n)

HandleWire(s, e, n, ord) ==
    IF Kind[n] \in CleartextKinds \/ Unpackable(e, e, n)
    THEN Ended(s, HandleNode(s, e, <<n, GuessAuthor(e, n)>>, ord), n)
    ELSE Track(e, n)

Deliver(n) ==
    /\ Before[n] \cap scene \subseteq received
    /\ \E ord \in Orders : eng' = HandleWire(eng, [eng EXCEPT !.wires = @ \cup {n}], n, ord)
    /\ received' = received \cup {n}
    /\ UNCHANGED <<scene, loads>>

(* load_conversation_state, which start_shallow_sync calls on a running    *)
(* engine: the records of the verified admin nodes are added again and the *)
(* conversation starts anew from the keys in the store.                    *)
LoadIdentity(e) ==
    FoldLeft(LAMBDA acc, i :
                 LET c == CacheAncestors(acc, i)
                 IN  IF KindOf(i) \in {"Genesis", "AuthorizeDevice", "RevokeDevice"}
                     THEN [c EXCEPT !.id = IdentityEffect(c, i)] ELSE c,
             e, ByRank({i \in e.verified : KindOf(i) \in AdminKinds}))

(* The chain of a device goes on from its last verified node if that is    *)
(* content, the key after which is in the store.                           *)
LoadRatchets(e) ==
    {[dev |-> Sender[n], epoch |-> Epoch[n], seq |-> SeqNo[n], at |-> SeqNo[n]] :
     n \in {m \in {Node(i) : i \in e.verified} :
              /\ Kind[m] \notin CleartextKinds \cup {"HistoryExport"}
              /\ SeqNo[m] = LastVerifiedSeq(e, Sender[m])}}

LoadConversationState ==
    /\ loads < MaxLoads
    /\ loads' = loads + 1
    /\ eng' = [LoadIdentity(eng) EXCEPT
                 !.epochs = eng.out.epochs,
                 !.sender_keys = {}, !.vouchers = [i \in Items |-> {}],
                 !.ratchet = [NoRatchet EXCEPT !.chains =
                                IF eng.out.epochs = {} THEN {} ELSE LoadRatchets(eng)],
                 !.pending = FALSE]
    /\ UNCHANGED <<scene, received>>

Init ==
    /\ eng = InitEngine
    /\ scene \in Scenes
    /\ received = {}
    /\ loads = 0

Next ==
    \/ \E n \in scene : Deliver(n)
    \/ LoadConversationState

Spec == Init /\ [][Next]_vars

-----------------------------------------------------------------------------
(* What the nodes themselves say *)

Histories ==
    LET up[m \in Nodes] == UNION {{p} \cup up[p] : p \in Parents[m]}
    IN  [n \in Nodes |-> up[n]]
History(n) == Histories[n]

Grants(n, dev) ==
    {[rank |-> Rank[a], hash |-> True(a), issuer |-> Cert[a].issuer] :
     a \in {m \in History(n) : /\ Kind[m] = "AuthorizeDevice"
                              /\ Author[m] = Author[n] /\ Cert[m].dev = dev}}

(* A revocation beats a grant of the same or a later rank; between two     *)
(* devices known to have revoked each other the order of hashes decides    *)
(* between equal ranks.                                                    *)
Outranks(n, r, a) ==
    LET answered == \E q \in Nodes : /\ True(q) \in eng.verified
                                     /\ Kind[q] = "RevokeDevice"
                                     /\ Sender[q] = Target[r]
                                     /\ Target[q] = Sender[r]
    IN  \/ Sender[r] = Author[r]
        \/ \E b \in Grants(n, Sender[r]) :
              IF answered THEN Senior(Seniority(b), Seniority(a)) ELSE b.rank <= a.rank

Beaten(n, dev, a) ==
    \E r \in History(n) : /\ Kind[r] = "RevokeDevice"
                          /\ Target[r] = dev
                          /\ Outranks(n, r, a)

(* The devices that the history of n lets speak for its author. *)
Trusted(n) ==
    FoldLeft(LAMBDA S, k :
                 S \cup {dev \in Devices : \E a \in Grants(n, dev) :
                            a.issuer \in S /\ ~Beaten(n, dev, a)},
             {Author[n]}, [k \in 1 .. MaxAuthDepth |-> k])

Entitled(n) == Sender[n] \in Trusted(n)

-----------------------------------------------------------------------------
(* A node whose history is stored, and entitles the senders of all of it,  *)
(* is verified: whatever the order in which concurrent branches, content   *)
(* before its parents and duplicates arrived, and wherever the state was   *)
(* loaded again, handle_node_internal_ext and the two reverification       *)
(* passes leave no such node behind.                                       *)
EntitledVerified ==
    LET good == {n \in scene : True(n) \in eng.nodes /\ Entitled(n)} IN
    \A n \in good : History(n) \subseteq good => True(n) \in eng.verified

(* No node is verified whose own history takes away its sender's right to  *)
(* speak for its author: revocations count from where they are in the      *)
(* history on, also for nodes that were stored before the revocation       *)
(* (is_authorized, revalidate_all_verified_nodes).                         *)
RevokedSilent == \A i \in eng.verified : Entitled(Node(i))

(* The cached admin ancestors of a node that is verified under its author  *)
(* are exactly those of its history, so that later authorisation decisions *)
(* rest on all of it (admin_ancestors_cache in handle_node_internal_ext).  *)
AncestorsExact ==
    \A i \in {j \in eng.verified : j = True(Node(j))} :
        eng.anc[i] = {True(m) : m \in {a \in History(Node(i)) : Kind[a] \in AdminKinds}}

(* The engine accuses no device of using a sequence number twice, which    *)
(* none does, with one exception: a node that came before its sender was   *)
(* authorised was taken to be authored by its sender, and has another hash *)
(* when it comes again (the equivocation check of                          *)
(* handle_node_internal_ext and the lookup of the author in the MerkleNode *)
(* handler).  No two different nodes are ever held against each other.     *)
OnlyGuessesClash ==
    \A c \in eng.equivocations :
        Node(c[1]) = Node(c[2]) /\ c[1] # True(Node(c[1])) /\ c[2] = True(Node(c[2]))
=============================================================================
