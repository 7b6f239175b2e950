----------------------------- MODULE SyncProof -----------------------------
(***************************************************************************)
(* What a device makes of the nodes it is sent, proved of module Sync for  *)
(* any DAG, any devices and any loss, delay and order of the messages.     *)
(***************************************************************************)
EXTENDS Sync, FiniteSetTheorems, WellFoundedInduction, TLAPS

-----------------------------------------------------------------------------
(* The inductive invariant *)

(* The nodes that have been authored. *)
Existing == UNION {nodes[p] : p \in Peers}

(* What p has run apply_side_effects for. *)
Applied(p) == verified[p] \cup (Bootstrap \cap nodes[p])

StoreTypeOK ==
    /\ nodes \in [Peers -> SUBSET Nodes]
    /\ verified \in [Peers -> SUBSET Nodes]
    /\ opaque \in [Peers -> SUBSET Nodes]
    /\ keys \in [Peers -> SUBSET Nodes]
    /\ late \in [Peers -> SUBSET Nodes]
    /\ heads \in [Peers -> SUBSET Nodes]
    /\ admin_heads \in [Peers -> SUBSET Nodes]

(* Messages go between the devices, and a node that travels exists. *)
Sound(M) ==
    \A m \in M : /\ m.from \in Peers
                 /\ m.to \in Peers
                 /\ m.type = "MerkleNode" => m.body \in Existing

(* A node that a device stores, or keeps without a key for it, is stored   *)
(* by the device that authored it, and so is its whole history by its      *)
(* authors: reconciliation invents nothing, and nothing is authored on top *)
(* of a node that does not exist.                                          *)
HistoryExists ==
    /\ \A p \in Peers : opaque[p] \subseteq Existing
    /\ \A n \in Existing : Owner[n] \in Peers /\ n \in nodes[Owner[n]]
    /\ Closed(Existing)

(* A device has verified exactly the nodes it stores with all their        *)
(* parents, these verified as well unless the node is verified without     *)
(* them: however the nodes came, the passes over the speculative nodes     *)
(* leave none behind and verify none too early.                            *)
VerifiedExact ==
    \A p \in Peers : \A n \in Nodes :
        n \in verified[p] <=>
            /\ n \in nodes[p]
            /\ Parents[n] \subseteq nodes[p]
            /\ n \in Bootstrap \/ Parents[n] \subseteq verified[p]

(* H covers the nodes of A: all it has is of A, and a node of A is missing *)
(* from it only for a child in A.                                          *)
Covers(H, A) ==
    /\ H \subseteq A
    /\ \A n \in A : n \in H \/ \E m \in A : n \in Parents[m]

(* The heads of a device are nodes it has applied, and every node it has   *)
(* applied is one of them or the parent of another it has applied, so none *)
(* is out of the reach of the heads.                                       *)
HeadsCover ==
    \A p \in Peers : /\ Covers(heads[p], Applied(p) \ Admin)
                     /\ Covers(admin_heads[p], Applied(p) \cap Admin)

SyncInv ==
    /\ StoreTypeOK
    /\ Sound(net)
    /\ HistoryExists
    /\ VerifiedExact
    /\ HeadsCover
    /\ OpaqueWaits

(* Two devices that store the same nodes have verified the same ones, in   *)
(* whatever order each was sent them.                                      *)
VerifiedAgree ==
    \A p, q \in Peers : nodes[p] = nodes[q] => verified[p] = verified[q]

-----------------------------------------------------------------------------
(* Least elements *)

(* A set of naturals that is not empty has a least element.                *)
LEMMA LeastNatural ==
  ASSUME NEW S \in SUBSET Nat, S # {}
  PROVE  \E i \in S : \A j \in S : i <= j
  <1> DEFINE R == OpToRel(<, Nat)
  <1>1. IsWellFoundedOn(R, Nat)
    BY NatLessThanWellFounded, Zenon
  <1>2. \A i, j \in Nat : i < j => <<i, j>> \in R
    BY DEF OpToRel
  <1> HIDE DEF R
  <1>3. PICK i \in S : \A j \in S : ~(<<j, i>> \in R)
    BY <1>1, WFMin, Zenon
  <1>4. ASSUME NEW j \in S PROVE i <= j
    <2>1. ~(j < i)
      BY <1>2, <1>3, Zenon
    <2> QED
      BY <2>1
  <1> QED
    BY <1>4

(* A set of nodes that is not empty has one of least rank: what holds of a *)
(* node whenever it holds of its parents holds of every node.              *)
LEMMA LeastRank ==
  ASSUME NEW S \in SUBSET Nodes, S # {}
  PROVE  \E n \in S : \A m \in Parents[n] : m \notin S
  <1> DEFINE T == {Rank[n] : n \in S}
  <1>1. /\ \A n \in Nodes : Rank[n] \in Nat
        /\ \A n \in Nodes : \A m \in Parents[n] : m \in Nodes /\ Rank[m] < Rank[n]
    BY SyncAssumption
  <1>2. T \in SUBSET Nat /\ T # {}
    BY <1>1
  <1>3. PICK i \in T : \A j \in T : i <= j
    BY <1>2, LeastNatural, Zenon
  <1>4. PICK n \in S : i = Rank[n]
    BY <1>3
  <1>5. ASSUME NEW m \in Parents[n], m \in S PROVE FALSE
    <2>1. Rank[m] \in Nat /\ Rank[n] \in Nat /\ Rank[m] < Rank[n]
      BY <1>1, <1>4
    <2>2. Rank[n] <= Rank[m]
      BY <1>3, <1>4, <1>5, Zenon
    <2> QED
      BY <2>1, <2>2
  <1> QED
    BY <1>5

-----------------------------------------------------------------------------
(* The passes over the nodes a device stores *)

(* One of the passes that verify: those nodes of C that are in S with      *)
(* their parents and need these not verified, or have them in X.           *)
Pass(S, C, X) ==
    {n \in Nodes : n \in C /\ Parents[n] \subseteq S
                   /\ (n \in Bootstrap \/ Parents[n] \subseteq X)}

(* The passes reach a set of nodes that another leaves as it is.           *)
LEMMA PassFixpoint ==
  ASSUME NEW S, NEW C
  PROVE  \E V \in SUBSET Nodes : V = Pass(S, C, V)
  <1> DEFINE V == {n \in Nodes : \A X \in SUBSET Nodes :
                                  Pass(S, C, X) \subseteq X => n \in X}
             W == Pass(S, C, V)
  <1>1. \A X, Y : X \subseteq Y => Pass(S, C, X) \subseteq Pass(S, C, Y)
    BY DEF Pass
  <1>2. \A X : Pass(S, C, X) \in SUBSET Nodes
    BY DEF Pass
  <1>3. W \subseteq V
    <2> SUFFICES ASSUME NEW n \in W, NEW X \in SUBSET Nodes,
                        Pass(S, C, X) \subseteq X
                 PROVE  n \in X
      BY <1>2, Zenon
    <2>1. V \subseteq X
      OBVIOUS
    <2> QED
      BY <1>1, <2>1
  <1>4. V \subseteq W
    <2>1. Pass(S, C, W) \subseteq W
      BY <1>1, <1>3, Zenon
    <2>2. W \in SUBSET Nodes
      BY <1>2
    <2> HIDE DEF W
    <2> QED
      BY <2>1, <2>2
  <1>5. V \in SUBSET Nodes
    OBVIOUS
  <1>6. V = W
    BY <1>3, <1>4, Zenon
  <1> HIDE DEF V
  <1> QED
    BY <1>5, <1>6, Zenon

(* handle_node_internal_ext and the passes over the speculative nodes      *)
(* verify, of the nodes S, those that have their parents in S and these    *)
(* verified or need no verified parents.                                   *)
LEMMA VerifiedInExact ==
  ASSUME NEW S \in SUBSET Nodes
  PROVE  VerifiedIn(S, S) = Pass(S, S, VerifiedIn(S, S))
  <1> DEFINE Step(f, n) == /\ n \in S
                           /\ Parents[n] \subseteq S
                           /\ n \in Bootstrap \/ \A m \in Parents[n] : f[m]
             v == CHOOSE f : f = [n \in Nodes |-> Step(f, n)]
             V == VerifiedIn(S, S)
  <1>1. \E f : f = [n \in Nodes |-> Step(f, n)]
    <2>1. PICK X \in SUBSET Nodes : X = Pass(S, S, X)
      BY PassFixpoint
    <2> DEFINE f == [n \in Nodes |-> n \in X]
    <2>2. \A n \in Nodes : Parents[n] \subseteq Nodes
      BY SyncAssumption
    <2>3. ASSUME NEW n \in Nodes
          PROVE  (n \in X) = Step(f, n)
      <3>1. (\A m \in Parents[n] : f[m]) <=> Parents[n] \subseteq X
        BY <2>2, Zenon
      <3>2. n \in X <=> n \in S /\ Parents[n] \subseteq S
                         /\ (n \in Bootstrap \/ Parents[n] \subseteq X)
        <4>1. n \in Pass(S, S, X) <=>
                n \in S /\ Parents[n] \subseteq S
                /\ (n \in Bootstrap \/ Parents[n] \subseteq X)
          BY Zenon DEF Pass
        <4> QED
          BY <2>1, <4>1
      <3>3. n \in X <=> Step(f, n)
        BY <3>1, <3>2, Zenon
      <3>4. Step(f, n) \in BOOLEAN /\ (n \in X) \in BOOLEAN
        OBVIOUS
      <3> QED
        BY <3>3, <3>4, Zenon
    <2>4. f = [n \in Nodes |-> Step(f, n)]
      BY <2>3, Zenon
    <2> QED
      BY <2>4, Zenon
  <1>2. v = [n \in Nodes |-> Step(v, n)]
    BY <1>1, Zenon
  <1>3. V = {n \in S : v[n]}
    BY Zenon DEF VerifiedIn
  <1> HIDE DEF v, V
  <1>4. ASSUME NEW n \in Nodes
        PROVE  v[n] = Step(v, n)
    BY <1>2, Zenon
  <1>5. ASSUME NEW n \in Nodes
        PROVE  n \in V <=> n \in S /\ Parents[n] \subseteq S
                           /\ (n \in Bootstrap \/ Parents[n] \subseteq V)
    <2>1. Parents[n] \subseteq S =>
            ((\A m \in Parents[n] : v[m]) <=> Parents[n] \subseteq V)
      BY <1>3, Zenon
    <2>2. n \in V <=> n \in S /\ Step(v, n)
      BY <1>3, <1>4, Zenon
    <2> QED
      BY <2>1, <2>2, Zenon
  <1>6. V \subseteq Nodes
    BY <1>3, Zenon
  <1>7. V = Pass(S, S, V)
    BY <1>5, <1>6, Zenon DEF Pass
  <1> QED
    BY <1>7 DEF V

(* More nodes stored never means fewer verified, as none is verified but   *)
(* for its parents: the passes on S verify no node that those on a larger  *)
(* T do not.                                                               *)
LEMMA PassGrows ==
  ASSUME NEW T \in SUBSET Nodes, NEW S \in SUBSET T,
         NEW V, V = Pass(S, S, V),
         NEW W, W = Pass(T, T, W)
  PROVE  V \subseteq W
  <1>1. \A n \in V : n \in Nodes /\ n \in S /\ Parents[n] \subseteq S
                     /\ (n \in Bootstrap \/ Parents[n] \subseteq V)
    BY DEF Pass
  <1>2. \A n \in Nodes : n \in T /\ Parents[n] \subseteq T
                         /\ (n \in Bootstrap \/ Parents[n] \subseteq W) => n \in W
    BY DEF Pass
  <1> SUFFICES ASSUME V \ W # {} PROVE FALSE
    OBVIOUS
  <1>3. V \ W \in SUBSET Nodes
    BY <1>1
  <1>4. PICK n \in V \ W : \A m \in Parents[n] : m \notin V \ W
    BY <1>3, LeastRank, Zenon
  <1>5. Parents[n] \subseteq V => Parents[n] \subseteq W
    BY <1>4
  <1>6. n \in Nodes /\ n \in S /\ Parents[n] \subseteq S
        /\ (n \in Bootstrap \/ Parents[n] \subseteq V)
    BY <1>1
  <1>7. n \in T /\ Parents[n] \subseteq T
    BY <1>6
  <1> QED
    BY <1>2, <1>5, <1>6, <1>7, Zenon

-----------------------------------------------------------------------------
(* The parts of the invariant *)

(* The two ways to say that the passes leave V of S.                       *)
LEMMA PassExact ==
  ASSUME NEW S, NEW V \in SUBSET Nodes
  PROVE  V = Pass(S, S, V) <=>
           \A n \in Nodes : n \in V <=>
               /\ n \in S
               /\ Parents[n] \subseteq S
               /\ n \in Bootstrap \/ Parents[n] \subseteq V
  <1> DEFINE P == Pass(S, S, V)
  <1>1. \A n \in Nodes : n \in P <=>
           /\ n \in S
           /\ Parents[n] \subseteq S
           /\ n \in Bootstrap \/ Parents[n] \subseteq V
    BY Zenon DEF Pass
  <1>2. P \subseteq Nodes
    BY Zenon DEF Pass
  <1> HIDE DEF P
  <1>3. V = P <=> \A n \in Nodes : n \in V <=> n \in P
    BY <1>2
  <1>4. (\A n \in Nodes : n \in V <=> n \in P) <=>
           \A n \in Nodes : n \in V <=>
               /\ n \in S
               /\ Parents[n] \subseteq S
               /\ n \in Bootstrap \/ Parents[n] \subseteq V
    BY <1>1, Zenon
  <1> QED
    BY <1>3, <1>4 DEF P

(* update_heads for the new nodes S keeps the heads covering.              *)
LEMMA AdvanceCovers ==
  ASSUME NEW A, NEW S, NEW H, Covers(H, A)
  PROVE  Covers(AdvanceHeads(H, S), A \cup S)
  BY DEF Covers, AdvanceHeads

(* Messages between devices that carry no node.                            *)
Plain(M) ==
    \A m \in M : m.from \in Peers /\ m.to \in Peers /\ m.type # "MerkleNode"

(* A message of any type but MerkleNode is one.                            *)
LEMMA MsgPlain ==
  ASSUME NEW p \in Peers, NEW q \in Peers, NEW type, NEW body,
         type # "MerkleNode"
  PROVE  Plain({Msg(p, q, type, body)})
  BY DEF Plain, Msg

(* The admin nodes a device announces.                                     *)
LEMMA AdminGossipPlain ==
  ASSUME NEW p \in Peers, NEW S
  PROVE  Plain(AdminGossip(p, S))
  BY DEF Plain, AdminGossip, Msg

(* The heads a device announces and the batches it asks for.               *)
LEMMA SessionPlain ==
  ASSUME NEW p \in Peers, NEW q \in Peers, NEW s
  PROVE  Plain({HeadsMsg(p, q, s)}) /\ Plain(FetchMsg(p, q, s))
  <1> DEFINE H == CHOOSE H \in SUBSET s.local_heads :
                     Cardinality(H) = Least(MaxHeads, Cardinality(s.local_heads))
  <1>1. HeadsMsg(p, q, s) = Msg(p, q, "SyncHeads", H)
    BY Zenon DEF HeadsMsg
  <1> HIDE DEF H
  <1>2. Plain({HeadsMsg(p, q, s)})
    BY <1>1, MsgPlain
  <1>3. Plain({Msg(p, q, "FetchBatchReq", Batch(s))})
    BY MsgPlain
  <1>4. Plain({})
    BY DEF Plain
  <1> QED
    BY <1>2, <1>3, <1>4 DEF FetchMsg

(* A handler that leaves the store alone and sends messages that are sound *)
(* keeps the invariant.                                                    *)
LEMMA QuietStep ==
  ASSUME SyncInv, UNCHANGED store,
         NEW M, Sound(M), net' \subseteq net \cup M
  PROVE  SyncInv'
  <1>1. /\ nodes' = nodes /\ verified' = verified /\ opaque' = opaque
        /\ keys' = keys /\ late' = late
        /\ heads' = heads /\ admin_heads' = admin_heads
    BY DEF store
  <1>2. Sound(net)'
    BY <1>1 DEF SyncInv, Sound, Existing
  <1>3. StoreTypeOK' /\ HistoryExists' /\ OpaqueWaits'
    BY <1>1 DEF SyncInv, StoreTypeOK, HistoryExists, Existing, OpaqueWaits, Closed
  <1>4. VerifiedExact' /\ HeadsCover'
    BY <1>1 DEF SyncInv, VerifiedExact, HeadsCover, Applied, Covers
  <1> QED
    BY <1>2, <1>3, <1>4 DEF SyncInv

(* Such messages are sound.                                                *)
LEMMA PlainSound ==
  ASSUME NEW M, Plain(M)
  PROVE  Sound(M)
  BY DEF Plain, Sound

(* Nodes that are sent exist.                                              *)
LEMMA NodeMsgsSound ==
  ASSUME NEW p \in Peers, NEW q \in Peers, NEW H \in SUBSET Existing
  PROVE  Sound(NodeMsgs(p, q, H))
  BY DEF Sound, NodeMsgs, Msg

-----------------------------------------------------------------------------
(* The steps that change a store *)

(* A node that unpacks is stored, with those it unlocks, and what can be   *)
(* verified then is.                                                       *)
LEMMA StoreNodeInv ==
  ASSUME SyncInv, NEW p \in Peers, NEW n \in Existing,
         NEW out \in SUBSET net, StoreNode(p, n, out)
  PROVE  SyncInv'
  <1> DEFINE old == verified[p]
             known == Learn(p, keys[p], {n}, FALSE)
             promoted == Unpackable(p, known, opaque[p] \ {n})
             new == nodes[p] \cup {n} \cup promoted
             first == VerifiedIn(new, old \cup {n} \cup promoted)
             learned == Learn(p, known, new \ first, TRUE)
             last == VerifiedIn(new, new)
             applied == (last \ old) \cup ((Bootstrap \cap new) \ old)
             gossip == AdminGossip(p, last \ old)
  <1>1. /\ nodes' = [nodes EXCEPT ![p] = new]
        /\ verified' = [verified EXCEPT ![p] = last]
        /\ opaque' = [opaque EXCEPT ![p] = @ \ ({n} \cup promoted)]
        /\ keys' = [keys EXCEPT ![p] = learned]
        /\ late' = [late EXCEPT ![p] = learned \ known]
        /\ heads' = [heads EXCEPT ![p] = AdvanceHeads(@, applied \ Admin)]
        /\ admin_heads' = [admin_heads EXCEPT
                             ![p] = AdvanceHeads(@, applied \cap Admin)]
        /\ net' = out \cup gossip
    BY Zenon DEF StoreNode
  <1> HIDE DEF known, promoted, new, first, learned, last, applied, gossip
  <1>2. /\ nodes \in [Peers -> SUBSET Nodes]
        /\ verified \in [Peers -> SUBSET Nodes]
        /\ opaque \in [Peers -> SUBSET Nodes]
        /\ keys \in [Peers -> SUBSET Nodes]
        /\ late \in [Peers -> SUBSET Nodes]
        /\ heads \in [Peers -> SUBSET Nodes]
        /\ admin_heads \in [Peers -> SUBSET Nodes]
    BY DEF SyncInv, StoreTypeOK
  <1>3. Existing \subseteq Nodes /\ nodes[p] \subseteq Existing
        /\ opaque[p] \subseteq Existing
    BY <1>2 DEF SyncInv, HistoryExists, Existing
  <1>4. /\ promoted \subseteq opaque[p] \ {n}
        /\ \A x \in (opaque[p] \ {n}) \ promoted : ~(Needs[p][x] \subseteq known)
    BY DEF promoted, Unpackable
  <1>5. nodes[p] \subseteq new /\ n \in new /\ promoted \subseteq new
        /\ new \subseteq Existing /\ new \in SUBSET Nodes
    BY <1>3, <1>4 DEF new
  <1>6. last = Pass(new, new, last)
    BY <1>5, VerifiedInExact DEF last
  <1>7. last \in SUBSET Nodes /\ last \subseteq new
    BY <1>6 DEF Pass
  <1>8. old \subseteq last
    <2>1. old = Pass(nodes[p], nodes[p], old)
      <3>1. old \in SUBSET Nodes
        BY <1>2
      <3>2. \A x \in Nodes : x \in old <=>
               /\ x \in nodes[p]
               /\ Parents[x] \subseteq nodes[p]
               /\ x \in Bootstrap \/ Parents[x] \subseteq old
        BY DEF SyncInv, VerifiedExact
      <3> QED
        BY <3>1, <3>2, PassExact
    <2> HIDE DEF old
    <2> QED
      BY <1>5, <1>6, <2>1, PassGrows
  <1>9. nodes'[p] = new /\ verified'[p] = last
        /\ opaque'[p] = opaque[p] \ ({n} \cup promoted)
        /\ keys'[p] = learned /\ late'[p] = learned \ known
        /\ heads'[p] = AdvanceHeads(heads[p], applied \ Admin)
        /\ admin_heads'[p] = AdvanceHeads(admin_heads[p], applied \cap Admin)
    BY <1>1, <1>2
  <1>10. \A q \in Peers : q # p =>
            /\ nodes'[q] = nodes[q] /\ verified'[q] = verified[q]
            /\ opaque'[q] = opaque[q]
            /\ keys'[q] = keys[q] /\ late'[q] = late[q]
            /\ heads'[q] = heads[q] /\ admin_heads'[q] = admin_heads[q]
    BY <1>1, <1>2
  <1>11. Existing' = Existing
    <2>1. \A q \in Peers : nodes[q] \subseteq nodes'[q] /\ nodes'[q] \subseteq Existing
      <3> SUFFICES ASSUME NEW q \in Peers
                   PROVE  nodes[q] \subseteq nodes'[q] /\ nodes'[q] \subseteq Existing
        OBVIOUS
      <3>1. CASE q = p
        BY <1>5, <1>9, <3>1
      <3>2. CASE q # p
        BY <1>10, <3>2 DEF Existing
      <3> QED
        BY <3>1, <3>2
    <2> QED
      BY <2>1 DEF Existing
  <1>12. /\ applied \in SUBSET Nodes
         /\ (Applied(p) \ Admin) \cup (applied \ Admin) = Applied(p)' \ Admin
         /\ (Applied(p) \cap Admin) \cup (applied \cap Admin) = Applied(p)' \cap Admin
    BY <1>5, <1>7, <1>8, <1>9 DEF applied, Applied
  <1>13. StoreTypeOK'
    <2>1. AdvanceHeads(heads[p], applied \ Admin) \in SUBSET Nodes
      BY <1>2, <1>12 DEF AdvanceHeads
    <2>2. AdvanceHeads(admin_heads[p], applied \cap Admin) \in SUBSET Nodes
      BY <1>2, <1>12 DEF AdvanceHeads
    <2>3. heads' \in [Peers -> SUBSET Nodes] /\ admin_heads' \in [Peers -> SUBSET Nodes]
      BY <1>1, <1>2, <2>1, <2>2, Zenon
    <2>4. opaque[p] \ ({n} \cup promoted) \in SUBSET Nodes
      BY <1>2
    <2>5. nodes' \in [Peers -> SUBSET Nodes] /\ verified' \in [Peers -> SUBSET Nodes]
          /\ opaque' \in [Peers -> SUBSET Nodes]
      BY <1>1, <1>2, <1>5, <1>7, <2>4, Zenon
    <2>6. known \in SUBSET Nodes /\ learned \in SUBSET Nodes
      <3>1. known \in SUBSET Nodes
        BY <1>2, <1>3 DEF known, Learn
      <3>2. learned \subseteq known \cup new
        BY DEF learned, Learn
      <3> QED
        BY <1>5, <3>1, <3>2
    <2>7. keys' \in [Peers -> SUBSET Nodes] /\ late' \in [Peers -> SUBSET Nodes]
      BY <1>1, <1>2, <2>6
    <2> QED
      BY <2>3, <2>5, <2>7 DEF StoreTypeOK
  <1>14. Sound(net)'
    <2>1. Plain(gossip)
      BY AdminGossipPlain DEF gossip
    <2>2. Sound(net) /\ Sound(gossip)
      BY <2>1, PlainSound DEF SyncInv
    <2> QED
      BY <1>1, <1>11, <2>2 DEF Sound
  <1>15. HistoryExists'
    <2>1. \A q \in Peers : opaque'[q] \subseteq Existing'
      BY <1>9, <1>10, <1>11, Zenon DEF SyncInv, HistoryExists
    <2>2. ASSUME NEW x \in Existing'
          PROVE  Owner[x] \in Peers /\ x \in nodes'[Owner[x]]
      <3>1. Owner[x] \in Peers /\ x \in nodes[Owner[x]]
        BY <1>11 DEF SyncInv, HistoryExists
      <3> QED
        BY <1>5, <1>9, <1>10, <3>1
    <2>3. Closed(Existing)'
      BY <1>11 DEF SyncInv, HistoryExists, Closed
    <2> QED
      BY <2>1, <2>2, <2>3 DEF HistoryExists
  <1>16. VerifiedExact'
    <2> SUFFICES ASSUME NEW q \in Peers
                 PROVE  \A x \in Nodes : x \in verified'[q] <=>
                           /\ x \in nodes'[q]
                           /\ Parents[x] \subseteq nodes'[q]
                           /\ x \in Bootstrap \/ Parents[x] \subseteq verified'[q]
      BY DEF VerifiedExact
    <2>1. CASE q = p
      BY <1>6, <1>7, <1>9, <2>1, PassExact
    <2>2. CASE q # p
      BY <1>10, <2>2 DEF SyncInv, VerifiedExact
    <2> QED
      BY <2>1, <2>2
  <1>17. HeadsCover'
    <2> SUFFICES ASSUME NEW q \in Peers
                 PROVE  /\ Covers(heads'[q], Applied(q)' \ Admin)
                        /\ Covers(admin_heads'[q], Applied(q)' \cap Admin)
      BY DEF HeadsCover, Covers
    <2>1. /\ Covers(heads[q], Applied(q) \ Admin)
          /\ Covers(admin_heads[q], Applied(q) \cap Admin)
      BY Zenon DEF SyncInv, HeadsCover
    <2>2. CASE q = p
      <3>1. Covers(AdvanceHeads(heads[p], applied \ Admin),
                   (Applied(p) \ Admin) \cup (applied \ Admin))
        BY <2>1, <2>2, AdvanceCovers
      <3>2. Covers(AdvanceHeads(admin_heads[p], applied \cap Admin),
                   (Applied(p) \cap Admin) \cup (applied \cap Admin))
        BY <2>1, <2>2, AdvanceCovers
      <3> QED
        BY <1>9, <1>12, <2>2, <3>1, <3>2, Zenon
    <2>3. CASE q # p
      BY <1>10, <2>1, <2>3, Zenon DEF Applied
    <2> QED
      BY <2>2, <2>3
  <1>18. OpaqueWaits'
    <2> SUFFICES ASSUME NEW q \in Peers, NEW x \in opaque'[q]
                 PROVE  ~(Needs[q][x] \subseteq keys'[q] \ late'[q])
      BY DEF OpaqueWaits
    <2>1. CASE q = p
      <3>1. keys'[p] \ late'[p] \subseteq known
        BY <1>9
      <3> QED
        BY <1>4, <1>9, <2>1, <3>1
    <2>2. CASE q # p
      BY <1>10, <2>2 DEF SyncInv, OpaqueWaits
    <2> QED
      BY <2>1, <2>2
  <1> QED
    BY <1>13, <1>14, <1>15, <1>16, <1>17, <1>18 DEF SyncInv

(* A node that is sent is ignored, kept opaque or stored.                  *)
LEMMA RecvMerkleNodeInv ==
  ASSUME SyncInv, NEW m \in net, RecvMerkleNode(m)
  PROVE  SyncInv'
  <1> DEFINE p == m.to
             n == m.body
  <1>1. p \in Peers /\ n \in Existing
    BY DEF RecvMerkleNode, Receive, SyncInv, Sound
  <1>2. \/ UNCHANGED store /\ net' = (net \ {m}) \cup {}
        \/ /\ n \notin nodes[p]
           /\ ~(Needs[p][n] \subseteq keys[p])
           /\ StoreOpaque(p, m.from, n)
           /\ net' = (net \ {m}) \cup {}
        \/ StoreNode(p, n, net \ {m})
    BY Zenon DEF RecvMerkleNode, Reply
  <1> HIDE DEF p, n
  <1>3. CASE UNCHANGED store /\ net' = (net \ {m}) \cup {}
    <2>1. Sound({}) /\ net' \subseteq net \cup {}
      BY <1>3 DEF Sound
    <2> QED
      BY <1>3, <2>1, QuietStep
  <1>4. CASE /\ n \notin nodes[p]
             /\ ~(Needs[p][n] \subseteq keys[p])
             /\ StoreOpaque(p, m.from, n)
             /\ net' = (net \ {m}) \cup {}
    <2>1. /\ opaque \in [Peers -> SUBSET Nodes]
          /\ nodes \in [Peers -> SUBSET Nodes]
      BY DEF SyncInv, StoreTypeOK
    <2>2. /\ nodes' = nodes /\ verified' = verified
          /\ keys' = keys /\ late' = late
          /\ heads' = heads /\ admin_heads' = admin_heads
      BY <1>4, Zenon DEF StoreOpaque
    <2>3. PICK X : opaque' = [opaque EXCEPT ![p] = (@ \cup {n}) \ X]
      <3>1. opaque[p] \cup {n} = (opaque[p] \cup {n}) \ {}
        OBVIOUS
      <3> QED
        BY <1>4, <3>1, Zenon DEF StoreOpaque
    <2>4. Existing' = Existing /\ Existing \subseteq Nodes
      BY <2>1, <2>2 DEF Existing
    <2>5. opaque'[p] \subseteq opaque[p] \cup {n}
          /\ \A q \in Peers : q # p => opaque'[q] = opaque[q]
      BY <1>1, <2>1, <2>3
    <2>6. opaque' \in [Peers -> SUBSET Nodes]
      BY <1>1, <2>1, <2>3, <2>4
    <2>7. StoreTypeOK'
      BY <2>2, <2>6 DEF SyncInv, StoreTypeOK
    <2>8. Sound(net)'
      BY <1>4, <2>4 DEF SyncInv, Sound
    <2>9. HistoryExists'
      BY <1>1, <2>2, <2>4, <2>5, SMTT(20) DEF SyncInv, HistoryExists, Closed
    <2>10. VerifiedExact' /\ HeadsCover'
      BY <2>2 DEF SyncInv, VerifiedExact, HeadsCover, Applied, Covers
    <2>11. OpaqueWaits'
      BY <1>4, <2>2, <2>5 DEF SyncInv, OpaqueWaits
    <2> QED
      BY <2>7, <2>8, <2>9, <2>10, <2>11 DEF SyncInv
  <1>5. CASE StoreNode(p, n, net \ {m})
    <2>1. net \ {m} \in SUBSET net
      OBVIOUS
    <2> QED
      BY <1>1, <1>5, <2>1, StoreNodeInv
  <1> QED
    BY <1>2, <1>3, <1>4, <1>5, Zenon

(* A new node is on top of what its author has verified.                   *)
LEMMA AuthorInv ==
  ASSUME SyncInv, NEW p \in Peers, NEW n \in Nodes, Author(p, n)
  PROVE  SyncInv'
  <1>1. /\ Owner[n] = p /\ n \notin nodes[p]
        /\ Parents[n] \subseteq verified[p]
        /\ nodes' = [nodes EXCEPT ![p] = @ \cup {n}]
        /\ verified' = [verified EXCEPT ![p] = @ \cup {n}]
        /\ opaque' = opaque /\ late' = late
        /\ keys' = [keys EXCEPT ![p] = @ \cup ({n} \cap Opens[p])]
        /\ heads' = [heads EXCEPT ![p] = AdvanceHeads(@, {n} \ Admin)]
        /\ admin_heads' = [admin_heads EXCEPT ![p] = AdvanceHeads(@, {n} \cap Admin)]
        /\ net' = net \cup AdminGossip(p, {n})
    BY Zenon DEF Author
  <1>2. /\ nodes \in [Peers -> SUBSET Nodes]
        /\ verified \in [Peers -> SUBSET Nodes]
        /\ opaque \in [Peers -> SUBSET Nodes]
        /\ keys \in [Peers -> SUBSET Nodes]
        /\ late \in [Peers -> SUBSET Nodes]
        /\ heads \in [Peers -> SUBSET Nodes]
        /\ admin_heads \in [Peers -> SUBSET Nodes]
    BY DEF SyncInv, StoreTypeOK
  <1>3. nodes'[p] = nodes[p] \cup {n} /\ verified'[p] = verified[p] \cup {n}
        /\ keys'[p] \subseteq keys[p] \cup {n}
        /\ heads'[p] = AdvanceHeads(heads[p], {n} \ Admin)
        /\ admin_heads'[p] = AdvanceHeads(admin_heads[p], {n} \cap Admin)
    BY <1>1, <1>2
  <1>4. \A q \in Peers : q # p =>
            /\ nodes'[q] = nodes[q] /\ verified'[q] = verified[q]
            /\ keys'[q] = keys[q]
            /\ heads'[q] = heads[q] /\ admin_heads'[q] = admin_heads[q]
    BY <1>1, <1>2
  <1>5. Existing' = Existing \cup {n} /\ Existing \subseteq Nodes
    <2>1. \A q \in Peers : nodes'[q] \subseteq nodes[q] \cup {n}
                           /\ nodes[q] \subseteq nodes'[q]
      BY <1>3, <1>4
    <2> QED
      BY <1>2, <1>3, <2>1, SMTT(20) DEF Existing
  <1>6. n \notin Existing
    BY <1>1 DEF SyncInv, HistoryExists
  <1>7. verified[p] \subseteq nodes[p] /\ nodes[p] \subseteq Existing
    BY <1>2 DEF SyncInv, VerifiedExact, Existing
  <1>8. \A x \in Existing : n \notin Parents[x] /\ n \notin Needs[p][x]
    <2> SUFFICES ASSUME NEW x \in Existing
                 PROVE  n \notin Parents[x] /\ n \notin Needs[p][x]
      OBVIOUS
    <2>1. Closed(Existing) /\ x \in Nodes /\ Existing \in SUBSET Nodes
      BY <1>5 DEF SyncInv, HistoryExists
    <2>2. Parents[x] \subseteq Existing
      BY <2>1 DEF Closed
    <2>3. \A k \in Needs[p][x] : Owner[k] = p => k \in Existing
      BY <2>1, <2>2, SyncAssumption
    <2> QED
      BY <1>1, <1>6, <2>2, <2>3
  <1>9. StoreTypeOK'
    <2>1. AdvanceHeads(heads[p], {n} \ Admin) \in SUBSET Nodes
      BY <1>2 DEF AdvanceHeads
    <2>2. AdvanceHeads(admin_heads[p], {n} \cap Admin) \in SUBSET Nodes
      BY <1>2 DEF AdvanceHeads
    <2>3. heads' \in [Peers -> SUBSET Nodes] /\ admin_heads' \in [Peers -> SUBSET Nodes]
      BY <1>1, <1>2, <2>1, <2>2, Zenon
    <2>4. nodes' \in [Peers -> SUBSET Nodes] /\ verified' \in [Peers -> SUBSET Nodes]
          /\ opaque' \in [Peers -> SUBSET Nodes] /\ late' \in [Peers -> SUBSET Nodes]
          /\ keys' \in [Peers -> SUBSET Nodes]
      BY <1>1, <1>2
    <2> QED
      BY <2>3, <2>4 DEF StoreTypeOK
  <1>10. Sound(net)'
    <2>1. Sound(net) /\ Sound(AdminGossip(p, {n}))
      BY AdminGossipPlain, PlainSound DEF SyncInv
    <2> QED
      BY <1>1, <1>5, <2>1, Zenon DEF Sound
  <1>11. HistoryExists'
    <2>1. \A q \in Peers : opaque'[q] \subseteq Existing'
      BY <1>1, <1>5 DEF SyncInv, HistoryExists
    <2>2. ASSUME NEW x \in Existing'
          PROVE  Owner[x] \in Peers /\ x \in nodes'[Owner[x]]
      <3>1. CASE x = n
        BY <1>1, <1>3, <3>1
      <3>2. CASE x # n
        <4>1. Owner[x] \in Peers /\ x \in nodes[Owner[x]]
          BY <1>5, <3>2, Zenon DEF SyncInv, HistoryExists
        <4> QED
          BY <1>3, <1>4, <4>1
      <3> QED
        BY <3>1, <3>2
    <2>3. Closed(Existing)'
      BY <1>1, <1>5, <1>7 DEF SyncInv, HistoryExists, Closed
    <2> QED
      BY <2>1, <2>2, <2>3, Zenon DEF HistoryExists
  <1>12. VerifiedExact'
    <2> SUFFICES ASSUME NEW q \in Peers, NEW x \in Nodes
                 PROVE  x \in verified'[q] <=>
                           /\ x \in nodes'[q]
                           /\ Parents[x] \subseteq nodes'[q]
                           /\ x \in Bootstrap \/ Parents[x] \subseteq verified'[q]
      BY DEF VerifiedExact
    <2>1. x \in verified[q] <=>
             /\ x \in nodes[q]
             /\ Parents[x] \subseteq nodes[q]
             /\ x \in Bootstrap \/ Parents[x] \subseteq verified[q]
      BY DEF SyncInv, VerifiedExact
    <2>2. CASE q # p
      BY <1>4, <2>1, <2>2
    <2>3. CASE q = p /\ x = n
      BY <1>1, <1>3, <1>7, <2>3
    <2>4. CASE q = p /\ x # n
      <3>1. CASE x \in nodes[p]
        <4>1. n \notin Parents[x]
          BY <1>7, <1>8, <3>1, Zenon
        <4> QED
          BY <1>3, <2>1, <2>4, <3>1, <4>1
      <3>2. CASE x \notin nodes[p]
        BY <1>3, <2>1, <2>4, <3>2
      <3> QED
        BY <3>1, <3>2
    <2> QED
      BY <2>2, <2>3, <2>4
  <1>13. HeadsCover'
    <2> SUFFICES ASSUME NEW q \in Peers
                 PROVE  /\ Covers(heads'[q], Applied(q)' \ Admin)
                        /\ Covers(admin_heads'[q], Applied(q)' \cap Admin)
      BY DEF HeadsCover, Covers
    <2>1. /\ Covers(heads[q], Applied(q) \ Admin)
          /\ Covers(admin_heads[q], Applied(q) \cap Admin)
      BY Zenon DEF SyncInv, HeadsCover
    <2>2. CASE q = p
      <3>1. Covers(AdvanceHeads(heads[p], {n} \ Admin),
                   (Applied(p) \ Admin) \cup ({n} \ Admin))
        BY <2>1, <2>2, AdvanceCovers
      <3>2. Covers(AdvanceHeads(admin_heads[p], {n} \cap Admin),
                   (Applied(p) \cap Admin) \cup ({n} \cap Admin))
        BY <2>1, <2>2, AdvanceCovers, Zenon
      <3>3. /\ (Applied(p) \ Admin) \cup ({n} \ Admin) = Applied(p)' \ Admin
            /\ (Applied(p) \cap Admin) \cup ({n} \cap Admin) = Applied(p)' \cap Admin
        BY <1>3, Zenon DEF Applied
      <3> QED
        BY <1>3, <2>2, <3>1, <3>2, <3>3
    <2>3. CASE q # p
      BY <1>4, <2>1, <2>3, Zenon DEF Applied
    <2> QED
      BY <2>2, <2>3
  <1>14. OpaqueWaits'
    <2> SUFFICES ASSUME NEW q \in Peers, NEW x \in opaque[q]
                 PROVE  ~(Needs[q][x] \subseteq keys'[q] \ late[q])
      BY <1>1 DEF OpaqueWaits
    <2>1. x \in Existing /\ ~(Needs[q][x] \subseteq keys[q] \ late[q])
      BY Zenon DEF SyncInv, HistoryExists, OpaqueWaits
    <2> QED
      BY <1>3, <1>4, <1>8, <2>1
  <1> QED
    BY <1>9, <1>10, <1>11, <1>12, <1>13, <1>14 DEF SyncInv

-----------------------------------------------------------------------------
(* The steps that leave the stores alone *)

(* A handler that answers with plain messages only.                        *)
LEMMA PlainReply ==
  ASSUME SyncInv, NEW m, NEW M, Plain(M), Reply(m, M), UNCHANGED store
  PROVE  SyncInv'
  <1>1. net' \subseteq net \cup M
    BY DEF Reply
  <1> QED
    BY <1>1, PlainSound, QuietStep

(* process_sketch sends what the other side lacks of the verified nodes.   *)
LEMMA ProcessSketchInv ==
  ASSUME SyncInv, NEW m \in net, NEW o, NEW sk, NEW tokens,
         ProcessSketch(m, o, sk, tokens), UNCHANGED store
  PROVE  SyncInv'
  <1> DEFINE p == m.to
             q == m.from
             d == SketchDecoded(p, sk)
             s == IF d.ok
                  THEN [o EXCEPT !.hot = @ \o Untracked(o, d.in_self, nodes[p])]
                  ELSE Promote(o, sk.range)
             answer == IF d.ok THEN NodeMsgs(p, q, d.in_other)
                               ELSE {Msg(p, q, "SyncReconFail", sk.range)}
             fetch == FetchMsg(p, q, s)
  <1>1. net' = (net \ {m}) \cup (answer \cup fetch)
    BY Zenon DEF ProcessSketch, Reply
  <1>2. p \in Peers /\ q \in Peers
    BY Zenon DEF SyncInv, Sound
  <1>3. d.in_other \in SUBSET Existing
    <2> DEFINE e == Decode(sk.tier, sk.hashes, InRange(p, sk.range))
    <2>1. e.in_other \subseteq InRange(p, sk.range)
      BY DEF Decode
    <2>2. d.in_other = e.in_other
      <3>1. e = [ok |-> e.ok, in_self |-> e.in_self, in_other |-> e.in_other]
        BY Zenon DEF Decode
      <3> HIDE DEF e
      <3> DEFINE same == SameKey(p, sk)
      <3>2. d = [e EXCEPT !.ok = @ /\ same]
        BY Zenon DEF SketchDecoded, e
      <3> HIDE DEF d, same
      <3> QED
        BY <3>1, <3>2
    <2>3. InRange(p, sk.range) \subseteq verified[p]
      BY DEF InRange
    <2>4. verified[p] \subseteq nodes[p]
      BY <1>2, Zenon DEF SyncInv, StoreTypeOK, VerifiedExact
    <2>5. nodes[p] \subseteq Existing
      BY <1>2 DEF Existing
    <2> HIDE DEF d, e
    <2> QED
      BY <2>1, <2>2, <2>3, <2>4, <2>5, Zenon
  <1> HIDE DEF d, p, q, s
  <1>4. Sound(NodeMsgs(p, q, d.in_other))
    BY <1>2, <1>3, NodeMsgsSound
  <1>5. Sound({Msg(p, q, "SyncReconFail", sk.range)})
    BY <1>2, MsgPlain, PlainSound
  <1>6. Sound(answer)
    BY <1>4, <1>5, Zenon
  <1>7. Sound(fetch)
    BY <1>2, SessionPlain, PlainSound, Zenon
  <1> HIDE DEF answer, fetch
  <1>8. Sound(answer \cup fetch) /\ net' \subseteq net \cup (answer \cup fetch)
    BY <1>1, <1>6, <1>7 DEF Sound
  <1> QED
    BY <1>8, QuietStep

(* The handlers of messages that carry no node.                            *)
LEMMA RecvQuietInv ==
  ASSUME SyncInv, NEW m \in net,
         \/ RecvCapsAnnounce(m) \/ RecvCapsAck(m) \/ RecvSyncHeads(m)
         \/ RecvSyncReconFail(m) \/ RecvSyncShardChecksums(m)
         \/ RecvSyncRateLimited(m) \/ RecvReconPowChallenge(m)
         \/ RecvAdminGossip(m) \/ RecvBlacklisted(m)
  PROVE  SyncInv'
  <1> DEFINE p == m.to
             q == m.from
  <1>1. p \in Peers /\ q \in Peers
    BY DEF SyncInv, Sound
  <1> HIDE DEF p, q
  <1>2. Plain({})
    BY DEF Plain
  <1>3. Plain(Handshaken(p, q).out)
    <2>1. Handshaken(p, q).out = {HeadsMsg(p, q, sess[p][q])}
          \/ Handshaken(p, q).out = {}
      BY DEF Handshaken
    <2> QED
      BY <1>1, <1>2, <2>1, SessionPlain
  <1>4. CASE RecvCapsAnnounce(m)
    <2> DEFINE M == Handshaken(p, q).out \cup {Msg(p, q, "CapsAck", {})}
    <2>1. Reply(m, M) /\ UNCHANGED store
      BY <1>4, Zenon DEF RecvCapsAnnounce, p, q
    <2>2. Plain({Msg(p, q, "CapsAck", {})})
      BY <1>1, MsgPlain
    <2>3. Plain(M)
      BY <1>3, <2>2 DEF Plain
    <2> QED
      BY <2>1, <2>3, PlainReply, Zenon
  <1>5. CASE RecvCapsAck(m)
    <2>1. Reply(m, Handshaken(p, q).out) /\ UNCHANGED store
      BY <1>5, Zenon DEF RecvCapsAck, p, q
    <2> QED
      BY <1>3, <2>1, PlainReply
  <1>6. CASE RecvSyncHeads(m)
    <2>1. PICK s : Reply(m, FetchMsg(p, q, s)) /\ UNCHANGED store
      BY <1>6, Zenon DEF RecvSyncHeads, p, q
    <2> QED
      BY <1>1, <2>1, SessionPlain, PlainReply, Zenon
  <1>7. CASE RecvSyncReconFail(m) \/ RecvSyncRateLimited(m)
             \/ RecvAdminGossip(m) \/ RecvBlacklisted(m)
    <2>1. Reply(m, {}) /\ UNCHANGED store
      BY <1>7, Zenon DEF RecvSyncReconFail, RecvSyncRateLimited, RecvAdminGossip,
                         RecvBlacklisted
    <2> QED
      BY <1>2, <2>1, PlainReply
  <1>8. CASE RecvSyncShardChecksums(m)
    <2> DEFINE T == OpenSession(p, q)
               open == {r \in {x.range : x \in m.body \ Shards(p)} :
                          Tier(T, r) # "exhausted"}
               M == {Msg(p, q, "SyncSketch", Sketch(p, r, Tier(T, r))) : r \in open}
    <2>1. Reply(m, M) /\ UNCHANGED store
      BY <1>8, Zenon DEF RecvSyncShardChecksums, p, q
    <2> HIDE DEF open
    <2>2. Plain(M)
      BY <1>1 DEF Plain, Msg
    <2> QED
      BY <2>1, <2>2, PlainReply
  <1>9. CASE RecvReconPowChallenge(m)
    <2>1. Reply(m, {Msg(p, q, "ReconPowSolution", m.body)}) /\ UNCHANGED store
      BY <1>9, Zenon DEF RecvReconPowChallenge, p, q
    <2>2. Plain({Msg(p, q, "ReconPowSolution", m.body)})
      BY <1>1, MsgPlain
    <2> QED
      BY <2>1, <2>2, PlainReply
  <1> QED
    BY <1>4, <1>5, <1>6, <1>7, <1>8, <1>9, Zenon

(* A sketch is challenged, refused or decoded.                             *)
LEMMA RecvSketchInv ==
  ASSUME SyncInv, NEW m \in net, RecvSyncSketch(m) \/ RecvReconPowSolution(m)
  PROVE  SyncInv'
  <1> DEFINE p == m.to
             q == m.from
  <1>1. p \in Peers /\ q \in Peers
    BY DEF SyncInv, Sound
  <1>2. UNCHANGED store
    BY Zenon DEF RecvSyncSketch, RecvReconPowSolution
  <1>3. \/ Reply(m, {Msg(p, q, "ReconPowChallenge", m.body)})
        \/ Reply(m, {Msg(p, q, "SyncRateLimited", {})})
        \/ Reply(m, {})
        \/ \E o, tokens : ProcessSketch(m, o, m.body, tokens)
    BY Zenon DEF RecvSyncSketch, RecvReconPowSolution
  <1> HIDE DEF p, q
  <1>4. /\ Plain({Msg(p, q, "ReconPowChallenge", m.body)})
        /\ Plain({Msg(p, q, "SyncRateLimited", {})})
        /\ Plain({})
    BY <1>1, MsgPlain DEF Plain
  <1>5. CASE \E o, tokens : ProcessSketch(m, o, m.body, tokens)
    BY <1>2, <1>5, ProcessSketchInv, Zenon
  <1>6. CASE \/ Reply(m, {Msg(p, q, "ReconPowChallenge", m.body)})
             \/ Reply(m, {Msg(p, q, "SyncRateLimited", {})})
             \/ Reply(m, {})
    BY <1>2, <1>4, <1>6, PlainReply, Zenon
  <1> QED
    BY <1>3, <1>5, <1>6, Zenon

(* The nodes of a batch are sent if the device has them.                   *)
LEMMA RecvFetchBatchReqInv ==
  ASSUME SyncInv, NEW m \in net, RecvFetchBatchReq(m)
  PROVE  SyncInv'
  <1> DEFINE p == m.to
             q == m.from
             H == m.body \cap (nodes[p] \cup opaque[p])
             M == IF sess[p][q] = NoSession THEN {} ELSE NodeMsgs(p, q, H)
  <1>1. p \in Peers /\ q \in Peers
    BY DEF SyncInv, Sound
  <1>2. net' = (net \ {m}) \cup M /\ UNCHANGED store
    BY Zenon DEF RecvFetchBatchReq, Reply
  <1>3. H \in SUBSET Existing
    BY <1>1 DEF SyncInv, HistoryExists, Existing
  <1> HIDE DEF p, q, H
  <1>4. Sound(NodeMsgs(p, q, H)) /\ Sound({})
    BY <1>1, <1>3, NodeMsgsSound DEF Sound
  <1>5. Sound(M)
    BY <1>4, Zenon
  <1> HIDE DEF M
  <1>6. net' \subseteq net \cup M
    BY <1>2
  <1> QED
    BY <1>2, <1>5, <1>6, QuietStep

(* The periodic work: heads, checksums, fetches and gossip.                *)
LEMMA PollInv ==
  ASSUME SyncInv, NEW p \in Peers, Poll(p)
  PROVE  SyncInv'
  <1>1. UNCHANGED store
    BY Zenon DEF Poll
  <1> DEFINE active == {q \in Peers : IsActive(p, q)}
             served == {q \in active : sess[p][q].reachable}
             sk == Sketch(p, [min_rank |-> 0, max_rank |-> TopRank(p)], "tiny")
             due == IF gossip_due[p] THEN active ELSE {}
             gossip == {Msg(p, q, "SyncSketch", sk) : q \in due}
             r(lapsed) ==
               [q \in served |-> PollSession(p, q, sess[p][q], lapsed)]
  <1>2. PICK lapsed \in SUBSET {q \in Peers : IsActive(p, q) /\ sess[p][q].limited} :
           net' = net \cup gossip \cup UNION {r(lapsed)[q].out : q \in served}
    BY Zenon DEF Poll
  <1> DEFINE polled == UNION {r(lapsed)[q].out : q \in served}
  <1>3. net' = net \cup gossip \cup polled
    BY <1>2, Zenon
  <1>4. served \subseteq Peers /\ due \subseteq Peers
    BY Zenon
  <1> HIDE DEF sk, due
  <1>5. Plain(gossip)
    BY <1>4 DEF Plain, Msg
  <1>6. \A q \in Peers : \A s : Plain(PollSession(p, q, s, lapsed).out)
    <2> SUFFICES ASSUME NEW q \in Peers, NEW s
                 PROVE  Plain(PollSession(p, q, s, lapsed).out)
      OBVIOUS
    <2>1. Plain({HeadsMsg(p, q, s)}) /\ Plain(FetchMsg(p, q, s))
      BY SessionPlain
    <2>2. Plain({Msg(p, q, "SyncShardChecksums", Shards(p))}) /\ Plain({})
      BY MsgPlain DEF Plain
    <2>3. \A A, B, C : Plain(A) /\ Plain(B) /\ Plain(C) => Plain(A \cup B \cup C)
      BY DEF Plain
    <2> DEFINE paused == s.limited /\ q \notin lapsed
               ready == ~paused /\ (s.recon_dirty \/ s.recon_due)
               A == IF s.heads_dirty THEN {HeadsMsg(p, q, s)} ELSE {}
               B == IF ready THEN {Msg(p, q, "SyncShardChecksums", Shards(p))} ELSE {}
    <2>4. PollSession(p, q, s, lapsed).out = A \cup B \cup FetchMsg(p, q, s)
      BY Zenon DEF PollSession
    <2>5. Plain(A) /\ Plain(B)
      BY <2>1, <2>2, Zenon
    <2> HIDE DEF A, B
    <2>6. Plain(A \cup B \cup FetchMsg(p, q, s))
      BY <2>1, <2>3, <2>5, Zenon
    <2> QED
      BY <2>4, <2>6, Zenon
  <1>7. Plain(polled)
    <2>1. \A q \in served : Plain(r(lapsed)[q].out)
      BY <1>4, <1>6
    <2> HIDE DEF served, r
    <2> QED
      BY <2>1, Zenon DEF Plain
  <1> HIDE DEF gossip, polled
  <1>8. Plain(gossip \cup polled) /\ net' \subseteq net \cup (gossip \cup polled)
    BY <1>3, <1>5, <1>7 DEF Plain
  <1> QED
    BY <1>1, <1>8, PlainSound, QuietStep

(* The application, the transport and the clock.                           *)
LEMMA OutsideInv ==
  ASSUME SyncInv,
         \/ \E m \in net : Lose(m)
         \/ \E p, q \in Peers : (\E limit \in Limits[p] : Start(p, q, limit))
                                \/ Connected(p, q) \/ Disconnected(p, q)
         \/ Minute
  PROVE  SyncInv'
  <1>1. UNCHANGED store
    <2>1. (\E m \in net : Lose(m)) => UNCHANGED store
      BY Zenon DEF Lose
    <2>2. (\E p, q \in Peers : \E limit \in Limits[p] : Start(p, q, limit))
             => UNCHANGED store
      BY Zenon DEF Start
    <2>3. (\E p, q \in Peers : Connected(p, q) \/ Disconnected(p, q))
             => UNCHANGED store
      BY Zenon DEF Connected, Disconnected
    <2>4. Minute => UNCHANGED store
      BY Zenon DEF Minute
    <2> QED
      BY <2>1, <2>2, <2>3, <2>4, Zenon
  <1>2. \/ net' \subseteq net
        \/ \E p, q \in Peers : net' = net \cup {Msg(p, q, "CapsAnnounce", {})}
    <2>1. CASE \E m \in net : Lose(m)
      BY <2>1 DEF Lose
    <2>2. CASE \E p, q \in Peers : \E limit \in Limits[p] : Start(p, q, limit)
      BY <2>2, Zenon DEF Start
    <2>3. CASE \E p, q \in Peers : Connected(p, q)
      BY <2>3, Zenon DEF Connected
    <2>4. CASE \E p, q \in Peers : Disconnected(p, q)
      BY <2>4, Zenon DEF Disconnected
    <2>5. CASE Minute
      BY <2>5, Zenon DEF Minute
    <2> QED
      BY <2>1, <2>2, <2>3, <2>4, <2>5, Zenon
  <1>3. CASE net' \subseteq net
    <2>1. Sound({}) /\ net' \subseteq net \cup {}
      BY <1>3 DEF Sound
    <2> QED
      BY <1>1, <2>1, QuietStep
  <1>4. CASE \E p, q \in Peers : net' = net \cup {Msg(p, q, "CapsAnnounce", {})}
    <2>1. PICK p, q \in Peers : net' = net \cup {Msg(p, q, "CapsAnnounce", {})}
      BY <1>4
    <2>2. Sound({Msg(p, q, "CapsAnnounce", {})})
      BY MsgPlain, PlainSound, Zenon
    <2>3. net' \subseteq net \cup {Msg(p, q, "CapsAnnounce", {})}
      BY <2>1
    <2> QED
      BY <1>1, <2>2, <2>3, QuietStep
  <1> QED
    BY <1>2, <1>3, <1>4

-----------------------------------------------------------------------------
(* The theorems *)

(* Each device starts with nodes it has with their histories.              *)
LEMMA SyncInitInv ==
  ASSUME Init
  PROVE  SyncInv
  <1>1. PICK s \in Starts :
          /\ nodes = s.has /\ verified = s.has
          /\ keys = [p \in Peers |-> s.has[p] \cap Opens[p]]
          /\ heads = [p \in Peers |-> AdvanceHeads({}, s.has[p] \ Admin)]
          /\ admin_heads = [p \in Peers |-> AdvanceHeads({}, s.has[p] \cap Admin)]
    BY Zenon DEF Init
  <1> DEFINE I == s.has
  <1>2. /\ I \in [Peers -> SUBSET Nodes]
        /\ \A p \in Peers : \A n \in I[p] : Parents[n] \subseteq I[p]
        /\ \A p \in Peers : \A n \in I[p] :
              Owner[n] \in Peers /\ n \in I[Owner[n]]
    BY SyncAssumption DEF Closed
  <1>8. /\ nodes = I /\ verified = I
        /\ keys = [p \in Peers |-> I[p] \cap Opens[p]]
        /\ heads = [p \in Peers |-> AdvanceHeads({}, I[p] \ Admin)]
        /\ admin_heads = [p \in Peers |-> AdvanceHeads({}, I[p] \cap Admin)]
        /\ opaque = [p \in Peers |-> {}] /\ late = [p \in Peers |-> {}]
        /\ net = {}
    BY <1>1, Zenon DEF Init
  <1> HIDE DEF I
  <1>3. StoreTypeOK
    <2>1. \A p \in Peers :
             /\ AdvanceHeads({}, I[p] \ Admin) \in SUBSET Nodes
             /\ AdvanceHeads({}, I[p] \cap Admin) \in SUBSET Nodes
      BY <1>2 DEF AdvanceHeads
    <2> QED
      BY <1>8, <1>2, <2>1, Zenon DEF StoreTypeOK
  <1>4. Sound(net) /\ OpaqueWaits
    BY <1>8 DEF Sound, OpaqueWaits
  <1>5. HistoryExists
    BY <1>8, <1>2 DEF HistoryExists, Existing, Closed
  <1>6. VerifiedExact
    BY <1>8, <1>2 DEF VerifiedExact
  <1>7. HeadsCover
    <2> SUFFICES ASSUME NEW p \in Peers
                 PROVE  /\ Covers(heads[p], Applied(p) \ Admin)
                        /\ Covers(admin_heads[p], Applied(p) \cap Admin)
      BY Zenon DEF HeadsCover
    <2>1. Covers({}, {})
      BY DEF Covers
    <2>2. /\ Covers(AdvanceHeads({}, I[p] \ Admin),
                    {} \cup (I[p] \ Admin))
          /\ Covers(AdvanceHeads({}, I[p] \cap Admin),
                    {} \cup (I[p] \cap Admin))
      BY <2>1, AdvanceCovers
    <2>3. /\ {} \cup (I[p] \ Admin) = Applied(p) \ Admin
          /\ {} \cup (I[p] \cap Admin) = Applied(p) \cap Admin
      BY <1>8 DEF Applied
    <2> QED
      BY <1>8, <2>2, <2>3, Zenon
  <1> QED
    BY <1>3, <1>4, <1>5, <1>6, <1>7 DEF SyncInv

(* No step of a device, of the network or of the clock breaks the          *)
(* invariant.                                                              *)
LEMMA SyncNextInv ==
  ASSUME SyncInv, [Next]_vars
  PROVE  SyncInv'
  <1>1. CASE \E m \in net : Deliver(m)
    <2>1. PICK m \in net : Deliver(m)
      BY <1>1
    <2> QED
      BY <2>1, RecvQuietInv, RecvSketchInv, RecvFetchBatchReqInv,
         RecvMerkleNodeInv, Zenon DEF Deliver
  <1>2. CASE \E p \in Peers : Poll(p) \/ \E n \in Nodes : Author(p, n)
    BY <1>2, PollInv, AuthorInv, Zenon
  <1>3. CASE \/ \E m \in net : Lose(m)
             \/ \E p, q \in Peers : (\E limit \in Limits[p] : Start(p, q, limit))
                                    \/ Connected(p, q) \/ Disconnected(p, q)
             \/ Minute
    BY <1>3, OutsideInv, Zenon
  <1>4. CASE UNCHANGED vars
    <2>1. UNCHANGED store /\ net' = net
      BY <1>4 DEF vars, store
    <2>2. Sound({}) /\ net' \subseteq net \cup {}
      BY <2>1 DEF Sound
    <2> QED
      BY <1>4, <2>1, <2>2, QuietStep
  <1> QED
    BY <1>1, <1>2, <1>3, <1>4, Zenon DEF Next

(* The invariant holds of every behaviour.                                 *)
THEOREM SyncInvariant == Spec => []SyncInv
  <1>1. Init => SyncInv
    BY SyncInitInv
  <1>2. SyncInv /\ [Next]_vars => SyncInv'
    BY SyncNextInv
  <1> QED
    BY <1>1, <1>2, PTL DEF Spec

(* A wire node stays opaque only while a key it needs is missing, or until *)
(* the next node is handled when a speculative node gave the key, for any  *)
(* order of nodes and keys, keys that come from outside the history of the *)
(* node and evictions: reverify_opaque_nodes leaves none behind that it    *)
(* could have unpacked.                                                    *)
THEOREM SyncOpaque == Spec => []OpaqueWaits
  <1>1. SyncInv => OpaqueWaits
    BY DEF SyncInv
  <1> QED
    BY <1>1, SyncInvariant, PTL

(* What a device has, somebody authored, on top of a history that exists:  *)
(* no exchange of heads, sketches or batches makes up a node.              *)
THEOREM SyncHistory == Spec => []HistoryExists
  <1>1. SyncInv => HistoryExists
    BY DEF SyncInv
  <1> QED
    BY <1>1, SyncInvariant, PTL

(* A device has verified exactly what its store lets it verify: no node    *)
(* before its parents, and none is left speculative for the order in which *)
(* it came.                                                                *)
THEOREM SyncVerified == Spec => []VerifiedExact
  <1>1. SyncInv => VerifiedExact
    BY DEF SyncInv
  <1> QED
    BY <1>1, SyncInvariant, PTL

(* Devices with the same nodes agree on which are verified.                *)
THEOREM SyncAgreement == Spec => []VerifiedAgree
  <1>1. ASSUME SyncInv PROVE VerifiedAgree
    <2> SUFFICES ASSUME NEW p \in Peers, NEW q \in Peers, nodes[p] = nodes[q]
                 PROVE  verified[p] = verified[q]
      BY DEF VerifiedAgree
    <2>1. \A r \in Peers : nodes[r] \in SUBSET Nodes /\ verified[r] \in SUBSET Nodes
      BY <1>1 DEF SyncInv, StoreTypeOK
    <2>2. \A r \in Peers : verified[r] = Pass(nodes[r], nodes[r], verified[r])
      <3> SUFFICES ASSUME NEW r \in Peers
                   PROVE  verified[r] = Pass(nodes[r], nodes[r], verified[r])
        OBVIOUS
      <3>1. \A n \in Nodes : n \in verified[r] <=>
               /\ n \in nodes[r]
               /\ Parents[n] \subseteq nodes[r]
               /\ n \in Bootstrap \/ Parents[n] \subseteq verified[r]
        BY <1>1, Zenon DEF SyncInv, VerifiedExact
      <3> QED
        BY <2>1, <3>1, PassExact
    <2>3. nodes[p] \in SUBSET nodes[q] /\ nodes[q] \in SUBSET nodes[p]
      OBVIOUS
    <2>4. verified[p] \subseteq verified[q]
      BY <2>1, <2>2, <2>3, PassGrows
    <2>5. verified[q] \subseteq verified[p]
      BY <2>1, <2>2, <2>3, PassGrows
    <2> QED
      BY <2>4, <2>5
  <1> QED
    BY <1>1, SyncInvariant, PTL

(* The heads a device keeps reach all it has applied: update_heads drops a *)
(* node only for a child, however late a node or its parents come.         *)
THEOREM SyncHeadsCover == Spec => []HeadsCover
  <1>1. SyncInv => HeadsCover
    BY DEF SyncInv
  <1> QED
    BY <1>1, SyncInvariant, PTL
=============================================================================
