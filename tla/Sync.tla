------------------------------- MODULE Sync -------------------------------
(***************************************************************************)
(* Synchronisation of one conversation between the engines of several      *)
(* devices: the handshake, the exchange of heads, the batched fetch of     *)
(* missing nodes, the reconciliation by shard checksums and sketches with  *)
(* its tiers, challenges, CPU budget and blacklist, and the periodic poll  *)
(* (merkle-tox-core, engine/session, engine/handlers and engine/mod.rs).   *)
(*                                                                         *)
(* The DAG is fixed by the constants; which nodes exist is what authoring  *)
(* decides.  Every node is authentic and its author is the own device of a *)
(* member that all know, which is_authorized accepts anywhere and which is *)
(* not revoked (delegated devices and revocations, which take verified     *)
(* nodes back, are the subject of module Verification): so a stored node   *)
(* is verified as soon as its parents are.  Nodes travel in messages that  *)
(* may be reordered, lost, or dropped with the link; two equal messages in *)
(* flight are one.  Time is the step Minute: the reconciliation and gossip *)
(* intervals, the challenge timeout and the budget window are a minute.    *)
(***************************************************************************)
EXTENDS Iblt, Naturals, Sequences, Functions, TLC

CONSTANTS
    Peers, Nodes,
    Parents,        \* Parents[n]: the parents of n
    Rank,           \* Rank[n]: its topological rank
    Admin,          \* the nodes of type Admin
    Bootstrap,      \* nodes verified without verified parents
    Snapshots,      \* snapshot nodes, where a shallow sync stops
    Wraps, Skds,    \* KeyWrap and SenderKeyDistribution nodes
    Opens,          \* Opens[p]: the key nodes that hold a key wrapped for p
    Needs,          \* Needs[p][n]: the key nodes whose keys p unpacks n with
    Owner,          \* Owner[n]: the device that authors n
    Starts,         \* states to start in: the nodes each device has authored or
                    \* fetched before, and the key nodes that are wrapped under
                    \* one-time keys of the recipients
    ShardSize, HotWindow, BatchSize, MaxHeads,
    Budget, Cost,   \* sketch CPU budget of a peer; Cost[tier]
    Limits,         \* Limits[p]: the depth limits p starts a sync with
    MaxFaults, Flaky,
    Window          \* messages in flight at which the devices take no new step

(* A set of nodes with their histories. *)
Closed(S) == \A n \in S : Parents[n] \subseteq S

(* A node is ranked above its parents (authoring.rs:412).  A key node is   *)
(* sent in the clear.  When a device opens a node with a key that it made  *)
(* itself, the author had that key, which came in the history of the node; *)
(* a key made by another may well come after the node, as for a device     *)
(* that joins late.  What a device has at the start it has with the        *)
(* history, and so has the author.                                         *)
ASSUME SyncAssumption ==
    /\ IsFiniteSet(Nodes)
    /\ Rank \in [Nodes -> Nat]
    /\ Parents \in [Nodes -> SUBSET Nodes]
    /\ \A n \in Nodes : \A m \in Parents[n] : Rank[m] < Rank[n]
    /\ Needs \in [Peers -> [Nodes -> SUBSET (Wraps \cup Skds)]]
    /\ \A p \in Peers, k \in Wraps \cup Skds : Needs[p][k] = {}
    /\ \A p \in Peers, n \in Nodes, S \in SUBSET Nodes :
          Closed(S) /\ Parents[n] \subseteq S =>
            \A k \in Needs[p][n] : Owner[k] = p => k \in S
    /\ Starts \subseteq [has : [Peers -> SUBSET Nodes], one_time : SUBSET Skds]
    /\ \A s \in Starts, p \in Peers :
          /\ Closed(s.has[p])
          /\ \A n \in s.has[p] : Owner[n] \in Peers /\ n \in s.has[Owner[n]]

VARIABLES
    nodes,      \* nodes[p]: the unpacked nodes p stores
    verified,   \* verified[p]: those of them that are verified
    opaque,     \* opaque[p]: the wire nodes p could not unpack
    keys,       \* keys[p]: the key nodes whose keys p has
    one_time,   \* the key nodes that use up a one-time key of the recipient
    late,       \* late[p]: those it learned from speculative nodes, after the
                \* last pass over the opaque ones
    heads, admin_heads,
    sess,       \* sess[p][q]: p's session with q
    budget,     \* budget[p][q]: what p lets q spend on sketches
    blacklist,  \* blacklist[p][q]: the tier, and the minutes it lasts
    apart,      \* a sketch was read under another key than it was made with
    gossip_due, \* p's last gossip is an interval ago
    net,        \* messages in flight
    up,         \* up[p]: the peers p can reach
    faults

vars == <<nodes, verified, opaque, keys, late, one_time, heads, admin_heads, sess,
          budget, blacklist, apart, gossip_due, net, up, faults>>

-----------------------------------------------------------------------------
(* The store *)

Order ==
    CHOOSE s \in [1 .. Cardinality(Nodes) -> Nodes] :
        \A i, j \in DOMAIN s : i < j => s[i] # s[j] /\ Rank[s[i]] <= Rank[s[j]]
ByRank(S) == SelectSeq(Order, LAMBDA n : n \in S)

(* The members of S that are verified when only those of C may be. *)
VerifiedIn(S, C) ==
    LET v[n \in Nodes] ==
            /\ n \in C
            /\ Parents[n] \subseteq S
            /\ n \in Bootstrap \/ \A m \in Parents[n] : v[m]
    IN  {n \in S : v[n]}

(* get_node_hashes_in_range: the verified nodes of a range of ranks. *)
InRange(p, r) ==
    {n \in verified[p] : Rank[n] >= r.min_rank /\ Rank[n] <= r.max_rank}

(* update_heads for the nodes of S in the order of their ranks: each takes *)
(* the place of its parents, and a parent in S has had its turn before.    *)
AdvanceHeads(H, S) ==
    {h \in H \cup S : \A n \in S : h \notin Parents[n]}

MaxOf(S) == CHOOSE x \in S : \A y \in S : y <= x

(* The highest rank of the stored content heads. *)
TopRank(p) == MaxOf({Rank[h] : h \in heads[p]} \cup {0})

(* current_epoch: a sketch is keyed by the last conversation key the       *)
(* device has, and not keyed at all before it has one.                     *)
Epoch(p) == MaxOf({Rank[w] + 1 : w \in keys[p] \cap Wraps} \cup {0})

-----------------------------------------------------------------------------
(* A session *)

NewSession(p, limit) ==
    [state |-> "handshake", reachable |-> TRUE,
     shallow |-> limit.min_rank > 0, min_rank |-> limit.min_rank,
     local_heads |-> heads[p], remote_heads |-> {},
     admin |-> <<>>, hot |-> <<>>, cold |-> <<>>, in_flight |-> {},
     tiers |-> <<>>, heads_dirty |-> TRUE, recon_dirty |-> TRUE,
     recon_due |-> FALSE, limited |-> FALSE, challenges |-> {},
     max_backfill |-> 0, backfill |-> 0]

NoSession == [state |-> "none"]

NoLimit == [min_rank |-> 0, last_n |-> 0]

Activate(s) == [s EXCEPT !.state = "active"]

(* entry().or_insert_with() followed by activate(). *)
OpenSession(p, q) ==
    Activate(IF sess[p][q] = NoSession THEN NewSession(p, NoLimit)
                                       ELSE sess[p][q])

IsActive(p, q) == sess[p][q].state = "active"

Tracked(s, h) == h \in Range(s.hot) \cup Range(s.cold) \cup s.in_flight

Untracked(s, H, stored) == ByRank({h \in H \ stored : ~Tracked(s, h)})

MaxHeadRank(s, stored) ==
    MaxOf({Rank[h] : h \in (s.local_heads \cup s.remote_heads) \cap stored}
          \cup {0})

(* The parents of n that the session must still fetch: those of an admin   *)
(* node first, those of a content node by their distance from the heads.   *)
EnqueueParents(s, n, stored) ==
    LET missing == Untracked(s, Parents[n], stored)
        reversed == [i \in DOMAIN missing |-> missing[Len(missing) + 1 - i]]
        near == Rank[n] - 1 + HotWindow >= MaxHeadRank(s, stored)
    IN  IF n \in Admin THEN [s EXCEPT !.hot = reversed \o @]
        ELSE IF s.state = "handshake" \/ near
             THEN [s EXCEPT !.hot = @ \o missing]
             ELSE [s EXCEPT !.cold = @ \o missing]

(* What a received node changes in a session of either state: stored is    *)
(* what the store holds, which is not yet n.                               *)
Arrived(s, n, stored) ==
    [s EXCEPT !.in_flight = @ \ {n},
              !.local_heads = (@ \ Parents[n]) \cup
                  {m \in {n} : \A c \in stored : m \notin Parents[c]},
              !.heads_dirty = TRUE]

(* on_node_received *)
OnNodeReceived(s, n, stored) ==
    LET r == Arrived(s, n, stored)
        cut == s.shallow /\ (n \in Snapshots \/ Rank[n] <= s.min_rank)
        counting == s.shallow /\ s.max_backfill > 0
        count == IF counting /\ n \notin Admin /\ s.backfill < s.max_backfill
                 THEN s.backfill + 1 ELSE s.backfill
    IN  IF s.state = "handshake" THEN EnqueueParents(r, n, stored)
        ELSE IF cut THEN r
        ELSE IF counting /\ count >= s.max_backfill
             THEN [r EXCEPT !.backfill = count]
             ELSE EnqueueParents([r EXCEPT !.backfill = count], n, stored)

(* on_wire_node_received: a node that could not be unpacked. *)
OnWireNodeReceived(s, n, stored) ==
    LET r == [s EXCEPT !.in_flight = @ \ {n}]
    IN  [r EXCEPT !.hot = @ \o Untracked(r, Parents[n], stored)]

(* The prefix of the three queues that next_fetch_batch pops: it stops     *)
(* when the batch is full or the queues are empty.                         *)
Queue(s) == s.admin \o s.hot \o s.cold
Fresh(s, k) == Range(SubSeq(Queue(s), 1, k)) \ s.in_flight
Popped(s) ==
    LET full == {k \in 0 .. Len(Queue(s)) : Cardinality(Fresh(s, k)) >= BatchSize}
    IN  IF full = {} THEN Len(Queue(s))
                     ELSE CHOOSE k \in full : \A j \in full : k <= j

Batch(s) == Fresh(s, Popped(s))

Least(a, b) == IF a < b THEN a ELSE b

(* next_fetch_batch *)
NextFetchBatch(s) ==
    LET k == Popped(s)
        a == Least(k, Len(s.admin))
        h == Least(k - a, Len(s.hot))
    IN  [s EXCEPT !.admin = SubSeq(@, a + 1, Len(@)),
                  !.hot = SubSeq(@, h + 1, Len(@)),
                  !.cold = SubSeq(@, k - a - h + 1, Len(@)),
                  !.in_flight = @ \cup Batch(s)]

(* get_iblt_tier and promote_iblt_tier *)
Tier(s, r) == IF r \in DOMAIN s.tiers THEN s.tiers[r] ELSE "small"
Larger == [small |-> "medium", medium |-> "large", large |-> "exhausted",
           exhausted |-> "exhausted"]
Promote(s, r) == [s EXCEPT !.tiers = (r :> Larger[Tier(s, r)]) @@ @]

-----------------------------------------------------------------------------
(* Messages *)

Msg(p, q, type, body) == [from |-> p, to |-> q, type |-> type, body |-> body]

HeadsMsg(p, q, s) ==
    Msg(p, q, "SyncHeads",
        CHOOSE H \in SUBSET s.local_heads :
            Cardinality(H) = Least(MaxHeads, Cardinality(s.local_heads)))

FetchMsg(p, q, s) ==
    IF Batch(s) = {} THEN {} ELSE {Msg(p, q, "FetchBatchReq", Batch(s))}

Sketch(p, r, tier) ==
    [range |-> r, tier |-> tier, hashes |-> InRange(p, r), epoch |-> Epoch(p)]

(* The shards of p with their checksums: equal iff the same hashes. *)
Shards(p) ==
    {LET r == [min_rank |-> i * ShardSize, max_rank |-> (i + 1) * ShardSize - 1]
     IN  [range |-> r, checksum |-> InRange(p, r)]
     : i \in 0 .. TopRank(p) \div ShardSize}

NodeMsgs(p, q, H) == {Msg(p, q, "MerkleNode", n) : n \in H}

(* Admin nodes of S, once verified, are announced in every active session. *)
AdminGossip(p, S) ==
    {Msg(p, q, "AdminGossip", a) :
       q \in {r \in Peers : IsActive(p, r)}, a \in S \cap Admin}

(* The link: both ends hold the other for connected. *)
Linked(p, q) == q \in up[p] /\ p \in up[q]

(* handle_message for a message of the given type that is not dropped.     *)
Receive(m, type) ==
    /\ m \in net
    /\ m.type = type
    /\ Linked(m.from, m.to)
    /\ blacklist[m.to][m.from].left = 0

(* A step that answers no message is taken when few are in flight. *)
Calm == Cardinality(net) <= Window

Reply(m, out) == net' = (net \ {m}) \cup out

SetSession(p, q, s) == sess' = [sess EXCEPT ![p][q] = s]

store == <<nodes, verified, opaque, keys, late, one_time, heads, admin_heads>>
limits == <<budget, blacklist, apart>>
world == <<up, faults>>

-----------------------------------------------------------------------------
Init ==
    /\ \E s \in Starts :
         /\ nodes = s.has
         /\ verified = s.has
         /\ keys = [p \in Peers |-> s.has[p] \cap Opens[p]]
         /\ one_time = s.one_time
         /\ heads = [p \in Peers |-> AdvanceHeads({}, s.has[p] \ Admin)]
         /\ admin_heads = [p \in Peers |-> AdvanceHeads({}, s.has[p] \cap Admin)]
    /\ opaque = [p \in Peers |-> {}]
    /\ late = [p \in Peers |-> {}]
    /\ sess = [p \in Peers |-> [q \in Peers |-> NoSession]]
    /\ budget = [p \in Peers |-> [q \in Peers |-> Budget]]
    /\ blacklist = [p \in Peers |-> [q \in Peers |-> [tier |-> 0, left |-> 0]]]
    /\ apart = FALSE
    /\ gossip_due = [p \in Peers |-> TRUE]
    /\ net = {}
    /\ up = [p \in Peers |-> Peers \ {p}]
    /\ faults = 0

(* start_sync, start_shallow_sync and start_shallow_sync_last_n, which the *)
(* application calls until the session is active.                          *)
Start(p, q, limit) ==
    /\ sess[p][q].state # "active"
    /\ Calm
    /\ LET opened == IF sess[p][q] = NoSession THEN NewSession(p, limit)
                     ELSE IF limit.min_rank > 0
                     THEN [sess[p][q] EXCEPT !.shallow = TRUE,
                                             !.min_rank = limit.min_rank]
                     ELSE sess[p][q]
           all == [sess[p] EXCEPT ![q] = opened]
           lastN(s) == [s EXCEPT !.shallow = TRUE, !.backfill = 0,
                                 !.max_backfill = limit.last_n]
       IN  sess' = [sess EXCEPT ![p] =
               [r \in Peers |-> IF limit.last_n > 0 /\ all[r] # NoSession
                                THEN lastN(all[r]) ELSE all[r]]]
    /\ net' = net \cup {Msg(p, q, "CapsAnnounce", {})}
    /\ UNCHANGED <<store, limits, gossip_due, world>>

(* A session in the handshake becomes active and its heads are sent.       *)
Handshaken(p, q) ==
    IF sess[p][q].state = "handshake"
    THEN [s |-> [Activate(sess[p][q]) EXCEPT !.heads_dirty = FALSE],
          out |-> {HeadsMsg(p, q, sess[p][q])}]
    ELSE [s |-> sess[p][q], out |-> {}]

RecvCapsAnnounce(m) ==
    /\ Receive(m, "CapsAnnounce")
    /\ LET h == Handshaken(m.to, m.from)
       IN  /\ SetSession(m.to, m.from, h.s)
           /\ Reply(m, h.out \cup {Msg(m.to, m.from, "CapsAck", {})})
    /\ UNCHANGED <<store, limits, gossip_due, world>>

RecvCapsAck(m) ==
    /\ Receive(m, "CapsAck")
    /\ LET h == Handshaken(m.to, m.from)
       IN  SetSession(m.to, m.from, h.s) /\ Reply(m, h.out)
    /\ UNCHANGED <<store, limits, gossip_due, world>>

(* handle_sync_heads, then a fetch of what is missing. *)
RecvSyncHeads(m) ==
    /\ Receive(m, "SyncHeads")
    /\ LET p == m.to
           o == OpenSession(p, m.from)
           s == [o EXCEPT !.remote_heads = @ \cup m.body,
                          !.hot = @ \o Untracked(o, m.body, nodes[p])]
       IN  /\ SetSession(p, m.from, NextFetchBatch(s))
           /\ Reply(m, FetchMsg(p, m.from, s))
    /\ UNCHANGED <<store, limits, gossip_due, world>>

(* process_sketch: what decodes is queued and sent; a failure promotes the *)
(* tier, tells the sender, drains its budget and blacklists it.            *)
Penalty == <<1, 2, 3>>
Escalate(b) ==
    LET t == Least(b.tier + 1, 3) IN [tier |-> t, left |-> Penalty[t]]

SameKey(p, sk) ==
    sk.epoch = Epoch(p) \/ sk.hashes \cup InRange(p, sk.range) = {}

SketchDecoded(p, sk) ==
    LET d == Decode(sk.tier, sk.hashes, InRange(p, sk.range))
    IN  [d EXCEPT !.ok = @ /\ SameKey(p, sk)]

(* (Mutant: what the sender lacks is not pushed to it.)                    *)
ProcessSketchPullOnly(m, o, sk, tokens) ==
    LET p == m.to
        q == m.from
        d == SketchDecoded(p, sk)
        s == IF d.ok
             THEN [o EXCEPT !.hot = @ \o Untracked(o, d.in_self, nodes[p])]
             ELSE Promote(o, sk.range)
    IN  /\ SetSession(p, q, NextFetchBatch(s))
        /\ Reply(m, FetchMsg(p, q, s))
        /\ budget' = [budget EXCEPT ![p][q] = IF d.ok THEN tokens ELSE 0]
        /\ apart' = (apart \/ ~SameKey(p, sk))
        /\ UNCHANGED blacklist

ProcessSketch(m, o, sk, tokens) ==
    LET p == m.to
        q == m.from
        d == SketchDecoded(p, sk)
        s == IF d.ok
             THEN [o EXCEPT !.hot = @ \o Untracked(o, d.in_self, nodes[p])]
             ELSE Promote(o, sk.range)
        answer == IF d.ok THEN NodeMsgs(p, q, d.in_other)
                          ELSE {Msg(p, q, "SyncReconFail", sk.range)}
    IN  /\ SetSession(p, q, NextFetchBatch(s))
        /\ Reply(m, answer \cup FetchMsg(p, q, s))
        /\ budget' = [budget EXCEPT ![p][q] = IF d.ok THEN tokens ELSE 0]
        /\ blacklist' = IF d.ok THEN blacklist
                        ELSE [blacklist EXCEPT ![p][q] = Escalate(@)]
        /\ apart' = (apart \/ ~SameKey(p, sk))

(* A sketch of a large tier is put off until the sender solves a challenge;*)
(* a small one is decoded at once if the sender's budget covers it.        *)
RecvSyncSketch(m) ==
    /\ Receive(m, "SyncSketch")
    /\ LET p == m.to
           q == m.from
           o == OpenSession(p, q)
           left == budget[p][q]
       IN  \/ /\ m.body.tier \in {"medium", "large"}
              /\ SetSession(p, q, [o EXCEPT !.challenges =
                     {c \in @ : c.sketch # m.body}
                     \cup {[sketch |-> m.body, live |-> TRUE]}])
              /\ Reply(m, {Msg(p, q, "ReconPowChallenge", m.body)})
              /\ UNCHANGED limits
           \/ /\ m.body.tier \in {"tiny", "small"}
              /\ left < Cost[m.body.tier]
              /\ SetSession(p, q, o)
              /\ Reply(m, {Msg(p, q, "SyncRateLimited", {})})
              /\ UNCHANGED limits
           \/ /\ m.body.tier \in {"tiny", "small"}
              /\ left >= Cost[m.body.tier]
              /\ ProcessSketch(m, o, m.body, left - Cost[m.body.tier])
    /\ UNCHANGED <<store, gossip_due, world>>

RecvSyncReconFail(m) ==
    /\ Receive(m, "SyncReconFail")
    /\ SetSession(m.to, m.from,
           IF IsActive(m.to, m.from) THEN Promote(sess[m.to][m.from], m.body)
                                     ELSE sess[m.to][m.from])
    /\ Reply(m, {})
    /\ UNCHANGED <<store, limits, gossip_due, world>>

(* A sketch for every shard that differs or that p does not have, unless   *)
(* the tiers of its range are used up.                                     *)
RecvSyncShardChecksums(m) ==
    /\ Receive(m, "SyncShardChecksums")
    /\ LET p == m.to
           s == OpenSession(p, m.from)
           different == {x.range : x \in m.body \ Shards(p)}
           open == {r \in different : Tier(s, r) # "exhausted"}
       IN  /\ SetSession(p, m.from, s)
           /\ Reply(m, {Msg(p, m.from, "SyncSketch", Sketch(p, r, Tier(s, r)))
                        : r \in open})
    /\ UNCHANGED <<store, limits, gossip_due, world>>

RecvSyncRateLimited(m) ==
    /\ Receive(m, "SyncRateLimited")
    /\ SetSession(m.to, m.from,
           IF sess[m.to][m.from] = NoSession THEN NoSession
           ELSE [sess[m.to][m.from] EXCEPT !.limited = TRUE])
    /\ Reply(m, {})
    /\ UNCHANGED <<store, limits, gossip_due, world>>

(* solve_challenge always finds a solution. *)
RecvReconPowChallenge(m) ==
    /\ Receive(m, "ReconPowChallenge")
    /\ Reply(m, {Msg(m.to, m.from, "ReconPowSolution", m.body)})
    /\ UNCHANGED <<store, sess, limits, gossip_due, world>>

(* verify_solution and take_pending_sketch: a challenge that is gone or    *)
(* expired is only forgotten; otherwise the sketch it guards is decoded.   *)
RecvReconPowSolution(m) ==
    /\ Receive(m, "ReconPowSolution")
    /\ LET p == m.to
           s == sess[p][m.from]
           c == IF IsActive(p, m.from)
                THEN {x \in s.challenges : x.sketch = m.body} ELSE {}
           rest == IF c = {} THEN s ELSE [s EXCEPT !.challenges = @ \ c]
       IN  \/ /\ \A x \in c : ~x.live
              /\ SetSession(p, m.from, rest)
              /\ Reply(m, {})
              /\ UNCHANGED limits
           \/ /\ \E x \in c : x.live
              /\ ProcessSketch(m, rest, m.body, budget[p][m.from])
    /\ UNCHANGED <<store, gossip_due, world>>

(* What is known of the request is sent, what is not is left out. *)
RecvFetchBatchReq(m) ==
    /\ Receive(m, "FetchBatchReq")
    /\ Reply(m, IF sess[m.to][m.from] = NoSession THEN {}
                ELSE NodeMsgs(m.to, m.from,
                              m.body \cap (nodes[m.to] \cup opaque[m.to])))
    /\ UNCHANGED <<store, sess, limits, gossip_due, world>>

(* The keys a device has, of K before, after handle_node_internal_ext for  *)
(* the nodes of S: a KeyWrap gives the conversation key, a                 *)
(* SenderKeyDistribution a sender's key if there is a conversation key.    *)
(* The first time a node is handled it uses up a one-time key.             *)
Learn(p, K, S, again) ==
    LET opened == {k \in S \cap Opens[p] : again => k \notin one_time}
        withWraps == K \cup (opened \cap Wraps)
    IN  IF withWraps \cap Wraps = {} THEN withWraps
                                    ELSE withWraps \cup (opened \cap Skds)

(* (Mutant: the key that the node brings is not tried on the opaque ones.) *)
UnpackableBefore(p, K, O) == {x \in O : Needs[p][x] \subseteq keys[p]}

(* reverify_opaque_nodes: the opaque nodes that the keys unpack.  None of  *)
(* them brings a key, so that one pass is enough.                          *)
Unpackable(p, K, O) == {x \in O : Needs[p][x] \subseteq K}

(* handle_node_internal_ext for a new node n, followed by the opaque nodes *)
(* it unlocks and then by the passes over the speculative nodes.  A key    *)
(* that these bring unlocks no opaque node any more.                       *)
StoreNode(p, n, out) ==
    LET old == verified[p]
        known == Learn(p, keys[p], {n}, FALSE)
        promoted == Unpackable(p, known, opaque[p] \ {n})
        new == nodes[p] \cup {n} \cup promoted
        first == VerifiedIn(new, old \cup {n} \cup promoted)
        last == VerifiedIn(new, new)
        learned == Learn(p, known, new \ first, TRUE)
        retried == ByRank(new \ first)
                   \o (IF last = first THEN <<>> ELSE ByRank(new \ last))
        calls == <<n>> \o ByRank(promoted) \o retried
        applied == (last \ old) \cup ((Bootstrap \cap new) \ old)
        after(s) ==
            LET r[k \in 0 .. Len(calls)] ==
                    IF k = 0 THEN s
                    ELSE OnNodeReceived(r[k - 1], calls[k], nodes[p])
            IN  r[Len(calls)]
    IN  /\ nodes' = [nodes EXCEPT ![p] = new]
        /\ verified' = [verified EXCEPT ![p] = last]
        /\ opaque' = [opaque EXCEPT ![p] = @ \ ({n} \cup promoted)]
        /\ keys' = [keys EXCEPT ![p] = learned]
        /\ late' = [late EXCEPT ![p] = learned \ known]
        /\ heads' = [heads EXCEPT ![p] = AdvanceHeads(@, applied \ Admin)]
        /\ admin_heads' = [admin_heads EXCEPT
                             ![p] = AdvanceHeads(@, applied \cap Admin)]
        /\ sess' = [sess EXCEPT ![p] =
               [q \in Peers |-> IF sess[p][q] = NoSession THEN NoSession
                                ELSE after(sess[p][q])]]
        /\ net' = out \cup AdminGossip(p, last \ old)

(* A node that does not unpack goes to the opaque store.  When that is     *)
(* full, which is one of the faults, a node is evicted.                    *)
StoreOpaque(p, q, n) ==
    /\ \/ opaque' = [opaque EXCEPT ![p] = @ \cup {n}] /\ UNCHANGED faults
       \/ /\ faults < MaxFaults
          /\ \E x \in opaque[p] \cup {n} :
                opaque' = [opaque EXCEPT ![p] = (@ \cup {n}) \ {x}]
          /\ faults' = faults + 1
    /\ SetSession(p, q,
           IF IsActive(p, q) THEN OnWireNodeReceived(sess[p][q], n, nodes[p])
                             ELSE sess[p][q])
    /\ UNCHANGED <<nodes, verified, keys, late, one_time, heads, admin_heads>>

(* A node that is stored already is ignored. *)
RecvMerkleNode(m) ==
    /\ Receive(m, "MerkleNode")
    /\ LET p == m.to
           n == m.body
       IN  \/ /\ n \in nodes[p]
              /\ Reply(m, {})
              /\ UNCHANGED <<store, sess, faults>>
           \/ /\ n \notin nodes[p]
              /\ ~(Needs[p][n] \subseteq keys[p])
              /\ StoreOpaque(p, m.from, n)
              /\ Reply(m, {})
           \/ /\ n \notin nodes[p]
              /\ Needs[p][n] \subseteq keys[p]
              /\ StoreNode(p, n, net \ {m})
              /\ UNCHANGED <<one_time, faults>>
    /\ UNCHANGED <<limits, gossip_due, up>>

RecvAdminGossip(m) ==
    /\ Receive(m, "AdminGossip")
    /\ LET p == m.to
           s == sess[p][m.from]
           wanted == /\ m.body \notin nodes[p]
                     /\ IsActive(p, m.from)
                     /\ m.body \notin s.in_flight \cup Range(s.admin)
       IN  SetSession(p, m.from,
               IF wanted THEN [s EXCEPT !.admin = Append(@, m.body),
                                        !.heads_dirty = TRUE]
                         ELSE s)
    /\ Reply(m, {})
    /\ UNCHANGED <<store, limits, gossip_due, world>>

(* The blacklist check of handle_message. *)
RecvBlacklisted(m) ==
    /\ m \in net
    /\ Linked(m.from, m.to)
    /\ blacklist[m.to][m.from].left > 0
    /\ Reply(m, {})
    /\ UNCHANGED <<store, sess, limits, gossip_due, world>>

(* The part of poll that serves a session: expired challenges and rate     *)
(* limits go, dirty heads are sent, checksums are sent when they are due   *)
(* and the peer has not asked for a pause, and the next batch is fetched.  *)
PollSession(p, q, s, lapsed) ==
    LET paused == s.limited /\ q \notin lapsed
        due == ~paused /\ (s.recon_dirty \/ s.recon_due)
    IN  [s |-> NextFetchBatch(
               [s EXCEPT !.challenges = {c \in @ : c.live},
                         !.limited = paused,
                         !.heads_dirty = FALSE,
                         !.recon_dirty = @ /\ ~due,
                         !.recon_due = @ /\ ~due]),
         out |-> (IF s.heads_dirty THEN {HeadsMsg(p, q, s)} ELSE {})
                 \cup (IF due THEN {Msg(p, q, "SyncShardChecksums", Shards(p))}
                       ELSE {})
                 \cup FetchMsg(p, q, s)]

(* poll: every reachable active session, then the gossip of a tiny sketch  *)
(* to every active one.                                                    *)
Poll(p) ==
    /\ Calm
    /\ \E lapsed \in SUBSET {q \in Peers : IsActive(p, q) /\ sess[p][q].limited} :
         LET active == {q \in Peers : IsActive(p, q)}
             served == {q \in active : sess[p][q].reachable}
             r == [q \in served |-> PollSession(p, q, sess[p][q], lapsed)]
             range == [min_rank |-> 0, max_rank |-> TopRank(p)]
             gossip == {Msg(p, q, "SyncSketch", Sketch(p, range, "tiny"))
                        : q \in IF gossip_due[p] THEN active ELSE {}}
         IN  /\ sess' = [sess EXCEPT ![p] =
                    [q \in Peers |-> IF q \in served THEN r[q].s
                                     ELSE sess[p][q]]]
             /\ net' = net \cup gossip \cup UNION {r[q].out : q \in served}
    /\ gossip_due' = [gossip_due EXCEPT ![p] = FALSE]
    /\ UNCHANGED <<store, limits, world>>

(* author_node_internal: the heads become the parents, so the next node of *)
(* the DAG that p can author is the one with these parents.                *)
Author(p, n) ==
    /\ Owner[n] = p
    /\ Calm
    /\ n \notin nodes[p]
    /\ Parents[n] = (IF n \in Admin THEN admin_heads[p]
                     ELSE heads[p] \cup admin_heads[p]) \cap verified[p]
    /\ nodes' = [nodes EXCEPT ![p] = @ \cup {n}]
    /\ verified' = [verified EXCEPT ![p] = @ \cup {n}]
    /\ keys' = [keys EXCEPT ![p] = @ \cup ({n} \cap Opens[p])]
    /\ heads' = [heads EXCEPT ![p] = AdvanceHeads(@, {n} \ Admin)]
    /\ admin_heads' = [admin_heads EXCEPT ![p] = AdvanceHeads(@, {n} \cap Admin)]
    /\ sess' = [sess EXCEPT ![p] =
           [q \in Peers |-> IF sess[p][q] = NoSession THEN NoSession
                            ELSE [sess[p][q] EXCEPT !.local_heads = {n},
                                                    !.heads_dirty = TRUE]]]
    /\ net' = net \cup AdminGossip(p, {n})
    /\ UNCHANGED <<opaque, late, one_time, limits, gossip_due, world>>

-----------------------------------------------------------------------------
(* The transport and time *)

(* The transport gives up on a message. *)
Lose(m) ==
    /\ m \in net
    /\ faults < MaxFaults
    /\ net' = net \ {m}
    /\ faults' = faults + 1
    /\ UNCHANGED <<store, sess, limits, gossip_due, up>>

Reachable(p, q, b) ==
    sess' = IF sess[p][q] = NoSession THEN sess
            ELSE [sess EXCEPT ![p][q].reachable = b]

(* set_peer_available(q, false): the transport session goes, and with it   *)
(* the messages that are queued for q.                                     *)
Disconnected(p, q) ==
    /\ p \in Flaky
    /\ q \in up[p]
    /\ faults < MaxFaults
    /\ up' = [up EXCEPT ![p] = @ \ {q}]
    /\ faults' = faults + 1
    /\ net' = {m \in net : m.from # p \/ m.to # q}
    /\ Reachable(p, q, FALSE)
    /\ UNCHANGED <<store, limits, gossip_due>>

(* set_peer_available(q, true), and the handshake is sent anew. *)
Connected(p, q) ==
    /\ p # q
    /\ q \notin up[p]
    /\ up' = [up EXCEPT ![p] = @ \cup {q}]
    /\ net' = net \cup {Msg(p, q, "CapsAnnounce", {})}
    /\ Reachable(p, q, TRUE)
    /\ UNCHANGED <<store, limits, gossip_due, faults>>

(* A minute passes.  The devices are polled in it, as poll asks to be, and *)
(* the network delivers what it holds, or that is one of the faults.       *)
MinuteOver ==
    /\ \A p \in Peers : ~gossip_due[p]
    /\ net = {} \/ faults < MaxFaults
AllDue == [p \in Peers |-> TRUE]

Minute ==
    /\ MinuteOver
    /\ faults' = IF net = {} THEN faults ELSE faults + 1
    /\ budget' = [p \in Peers |-> [q \in Peers |-> Budget]]
    /\ blacklist' = [p \in Peers |-> [q \in Peers |->
           [blacklist[p][q] EXCEPT !.left = IF @ = 0 THEN 0 ELSE @ - 1]]]
    /\ gossip_due' = AllDue
    /\ sess' = [p \in Peers |-> [q \in Peers |->
           IF sess[p][q] = NoSession THEN NoSession
           ELSE [sess[p][q] EXCEPT
                   !.recon_due = TRUE,
                   !.challenges = {[c EXCEPT !.live = FALSE] : c \in @}]]]
    /\ UNCHANGED <<store, apart, net, up>>

Deliver(m) ==
    \/ RecvCapsAnnounce(m) \/ RecvCapsAck(m) \/ RecvSyncHeads(m)
    \/ RecvSyncSketch(m) \/ RecvSyncReconFail(m) \/ RecvSyncShardChecksums(m)
    \/ RecvSyncRateLimited(m) \/ RecvReconPowChallenge(m)
    \/ RecvReconPowSolution(m) \/ RecvFetchBatchReq(m) \/ RecvMerkleNode(m)
    \/ RecvAdminGossip(m) \/ RecvBlacklisted(m)

Next ==
    \/ \E m \in net : Deliver(m) \/ Lose(m)
    \/ \E p \in Peers : Poll(p) \/ \E n \in Nodes : Author(p, n)
    \/ \E p, q \in Peers :
          \/ p # q /\ \E limit \in Limits[p] : Start(p, q, limit)
          \/ Connected(p, q)
          \/ Disconnected(p, q)
    \/ Minute

Spec == Init /\ [][Next]_vars

(* Fairness is stated on what an action does, not on the action: time      *)
(* passes, a device is polled once a minute, the application asks for the  *)
(* handshake, a lost link comes back, ...                                  *)
TimePasses == MinuteOver /\ gossip_due' = AllDue
IsPolled(p) ==
    gossip_due[p] /\ Calm /\ gossip_due' = [gossip_due EXCEPT ![p] = FALSE]
IsStarted(p, q) ==
    /\ p # q /\ sess[p][q].state # "active" /\ Calm
    /\ net' = net \cup {Msg(p, q, "CapsAnnounce", {})}
IsConnected(p, q) ==
    p # q /\ q \notin up[p] /\ up' = [up EXCEPT ![p] = @ \cup {q}]

(* ... and some message is taken from the network while any can be.        *)
Deliverable == {m \in net : Linked(m.from, m.to)}
IsDelivered == \E m \in Deliverable : m \notin net'

Fairness ==
    /\ []<>(Deliverable = {}) \/ []<><<IsDelivered>>_net
    /\ WF_gossip_due(TimePasses)
    /\ \A p \in Peers : WF_gossip_due(IsPolled(p))
    /\ \A p, q \in Peers : WF_net(IsStarted(p, q)) /\ WF_up(IsConnected(p, q))

FairSpec == Spec /\ Fairness

-----------------------------------------------------------------------------
(* Properties *)

(* A wire node stays in the opaque store only while a key it needs is      *)
(* missing, or until the next node when its key came out of a speculative  *)
(* node: whichever of key and node came first, reverify_opaque_nodes       *)
(* leaves none behind that could be unpacked when it ran.                  *)
OpaqueWaits ==
    \A p \in Peers : \A n \in opaque[p] :
        ~(Needs[p][n] \subseteq keys[p] \ late[p])

(* p has n, unpacked or, if a key for it is in a node that p has and could *)
(* not take it from, as a wire node.                                       *)
Kept(p, n) ==
    \/ n \in nodes[p]
    \/ n \in opaque[p] /\ Needs[p][n] \cap (nodes[p] \ keys[p]) # {}

(* Every node that one device stores is kept by every device in the end,   *)
(* for good: heads, checksums and sketches repair what a lost message or   *)
(* link, a full opaque store, a failed decode, a rate limit, a key that    *)
(* comes after the node it opens or answers in any order leave missing.    *)
(* That holds while each sketch is read under the conversation key it was  *)
(* made with; a device that reads one made with another blacklists the     *)
(* sender, and drops the requests that the sender does not repeat.         *)
Converges ==
    \A n \in Nodes :
        (\E p \in Peers : n \in nodes[p]) ~>
            [](apart \/ \A p \in Peers : Kept(p, n))
=============================================================================
