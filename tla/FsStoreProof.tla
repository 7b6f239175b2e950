---------------------------- MODULE FsStoreProof ----------------------------
(***************************************************************************)
(* The node store keeps what it acknowledged: through any sequence of      *)
(* puts, promotions, compactions, crashes, shutdowns and restarts that     *)
(* does not hit the store where it is weak, every node reported stored can *)
(* be read, with the status reported, and no sequence number is given      *)
(* again; state.bin can always be opened.  For every set of nodes and      *)
(* every bound.                                                            *)
(***************************************************************************)
EXTENDS FsStore, CollectionsProof

Records ==
  [kind : {"node"}, node : Node, verified : BOOLEAN]
    \union [kind : {"promotion", "ratchet"}, node : Node] \union Remains

Pack == UNION {[D -> BOOLEAN] : D \in SUBSET Node}

ConvState == [packs : Seq(Nat), journalId : Nat]

(* The packs ps are among the files F, which are written completely.       *)
Written(F, ps) == \A i \in 1..Len(ps) : ps[i] \in 1..Len(F)

(* One of the packs ps holds n.                                            *)
InPacks(F, ps, n) == \E i \in 1..Len(ps) : n \in DOMAIN F[ps[i]]

(* What holds whatever failed: the files that are named exist.             *)
FilesInv ==
  /\ journal \in Seq(Records) /\ packFiles \in Seq(Pack)
  /\ stateFile \in ConvState /\ state \in ConvState /\ packs \in Seq(Nat)
  /\ Written(packFiles, stateFile.packs) /\ Written(packFiles, state.packs)
  /\ Written(packFiles, packs)
  /\ up \in BOOLEAN /\ exposed \in BOOLEAN
  /\ pc \in {"idle", "shadow", "truncate", "ratchet", "commit", "open"}
  /\ ~up => pc = "idle"
  /\ pc \notin {"idle", "shadow"} => packFiles # <<>>

Clean(j) == \A i \in 1..Len(j) : j[i] \notin Remains

(* i is the last record of node n in j, and n's status by what follows it. *)
LastAt(j, n, i) ==
  /\ i \in NodeRecords(j) /\ j[i].node = n
  /\ \A k \in NodeRecords(j) : j[k].node = n => k <= i

Verified(j, n, i) ==
  \/ j[i].verified
  \/ \E k \in i..Len(j) : j[k] = [kind |-> "promotion", node |-> n]

(* volatile_nodes is what replaying the journal would give.                *)
Mirrors(v, j) ==
  /\ DOMAIN v = NodesIn(j)
  /\ \A n \in NodesIn(j) :
       /\ v[n] \in [offset : Nat, verified : BOOLEAN]
       /\ LastAt(j, n, v[n].offset)
       /\ v[n].verified <=> Verified(j, n, v[n].offset)

(* The nodes that are reported stored, or will be when put_node returns.   *)
Held == DOMAIN acked \union putting

(* A ratchet key is put for the node authored last, so no record before it *)
(* is of a node with a higher sequence number.                             *)
Ordered(j, sq) ==
  /\ \A n \in NodesIn(j) : sq[n] # 0
  /\ \A i \in 1..Len(j) : j[i].kind = "ratchet" =>
       /\ sq[j[i].node] # 0
       /\ \A k \in NodeRecords(j) : k < i => sq[j[k].node] <= sq[j[i].node]

(* The journal gives every node a status that was reported for it.         *)
Reported(j, ak) ==
  \A n \in DOMAIN ak, i \in NodeRecords(j) :
    LastAt(j, n, i) => IF Verified(j, n, i) THEN TRUE \in ak[n] ELSE FALSE \in ak[n]

(* The files, while j is what a walk over the journal accepts.             *)
DiskInv(j) ==
  /\ j \in Seq(Records) /\ Clean(j)
  /\ \/ journal = j
     \/ ~up /\ \E r \in [kind : {"torn", "footer"}] : journal = Append(j, r)
  /\ {generation, ratchet, gathered, lastSeq} \subseteq Nat /\ seq \in [Node -> Nat]
  /\ Held \subseteq Node /\ \A n \in Held : seq[n] # 0
  /\ Ordered(j, seq) /\ Reported(j, acked)
  /\ \A n \in Node : \/ n \in NodesIn(j) \/ seq[n] <= ratchet
                     \/ pc = "ratchet" /\ seq[n] <= gathered
  /\ pc \notin {"ratchet", "commit"} =>
       /\ stateFile.journalId = generation
       /\ \A n \in Held : n \in NodesIn(j) \/ InPacks(packFiles, stateFile.packs, n)

(* The memory of a process that runs.                                      *)
MemoryInv(j) ==
  /\ \A n \in Node : seq[n] <= lastSeq
  /\ state.journalId = generation
  /\ \A n \in Held : n \in NodesIn(j) \/ InPacks(packFiles, state.packs, n)
  /\ \A n \in Held :
       \/ n \in NodesIn(j) \/ InPacks(packFiles, packs, n)
       \/ pc \in {"ratchet", "commit", "open"} /\ n \in DOMAIN packFiles[Len(packFiles)]
  /\ pc \in {"idle", "shadow", "truncate"} => Mirrors(volatile, j)
  /\ pc \in {"ratchet", "commit", "open"} => j = <<>>
  /\ pc = "truncate" =>
       /\ NodesIn(j) \subseteq DOMAIN packFiles[Len(packFiles)]
       /\ state.packs # <<>> /\ state.packs[Len(state.packs)] = Len(packFiles)
       /\ \A n \in NodesIn(j) : seq[n] <= gathered

(* The inductive invariant.                                                *)
StoreInv ==
  /\ FilesInv
  /\ ~exposed => /\ DiskInv(ReadAll(journal))
                 /\ up => MemoryInv(ReadAll(journal))

-----------------------------------------------------------------------------
(* Greatest elements.                                                      *)

(* Max of a finite set is its greatest element.                            *)
LEMMA MaxFinite ==
  ASSUME NEW S \in SUBSET Nat, IsFiniteSet(S), S # {}
  PROVE  Max(S) \in S /\ Max(S) \in Nat /\ \A x \in S : x <= Max(S)
  <1>1. \E x \in S : \A y \in S : x >= y
    BY GreatestElement
  <1>2. Max(S) \in S /\ \A y \in S : Max(S) >= y
    BY <1>1, Zenon DEF Max
  <1> QED
    BY <1>2, Zenon

(* max of two numbers, as compact_internal raises a sequence number.       *)
LEMMA MaxPair ==
  ASSUME NEW a \in Nat, NEW b \in Nat
  PROVE  Max({a, b}) \in Nat /\ a <= Max({a, b}) /\ b <= Max({a, b})
  <1> DEFINE S == {a, b}
  <1>1. \E x \in S : \A y \in S : x >= y
    <2>1. a >= b \/ b >= a
      OBVIOUS
    <2> QED
      BY <2>1
  <1>2. a \in S /\ b \in S /\ S \subseteq Nat
    OBVIOUS
  <1> HIDE DEF S
  <1>3. Max(S) \in S /\ \A y \in S : Max(S) >= y
    BY <1>1 DEF Max
  <1>4. Max(S) \in Nat /\ a <= Max(S) /\ b <= Max(S)
    BY <1>2, <1>3, Zenon
  <1> QED
    BY <1>4 DEF S

-----------------------------------------------------------------------------
(* The walk over the journal.                                              *)

(* A record that a walk accepts is of a node, a promotion or a ratchet.    *)
LEMMA RecordKinds ==
  ASSUME NEW r \in Records
  PROVE  /\ r \notin Remains <=> r.kind \in {"node", "promotion", "ratchet"}
         /\ r \notin Remains => r.node \in Node
         /\ r.kind = "node" => r.verified \in BOOLEAN
  BY DEF Records, Remains

(* The walk keeps a prefix of the journal.                                 *)
LEMMA WalkType ==
  ASSUME NEW j \in Seq(Records)
  PROVE  ReadAll(j) \in Seq(Records) /\ Walked(j) \in Seq(Records)
  <1> DEFINE bad == {i \in 1..Len(j) : j[i] \in Remains}
             m == Min(bad)
  <1>1. ReadAll(j) = IF bad = {} THEN j ELSE SubSeq(j, 1, m - 1)
    BY DEF ReadAll
  <1>2. ASSUME bad # {} PROVE SubSeq(j, 1, m - 1) \in Seq(Records)
    <2>1. Len(j) \in Nat /\ 1 \in Int /\ Len(j) \in Int
      OBVIOUS
    <2>2. bad \in SUBSET (1..Len(j)) /\ bad \in SUBSET Nat
      OBVIOUS
    <2> HIDE DEF bad
    <2>3. IsFiniteSet(bad)
      BY <2>1, <2>2, FS_Interval, FS_Subset, Zenon
    <2>4. \E x \in bad : \A y \in bad : x <= y
      BY <1>2, <2>2, <2>3, LeastElement
    <2>5. m \in bad
      BY <2>4 DEF Min
    <2>6. m \in 1..Len(j)
      BY <2>2, <2>5, Zenon
    <2> HIDE DEF m
    <2> QED
      BY <2>1, <2>6
  <1> HIDE DEF bad, m
  <1>3. ReadAll(j) \in Seq(Records)
    BY <1>1, <1>2
  <1> QED
    BY <1>3 DEF Walked

(* All of a journal without remains is read, and none of it is cut.        *)
LEMMA WalkClean ==
  ASSUME NEW j, Clean(j)
  PROVE  ReadAll(j) = j /\ Walked(j) = j
  <1>1. {i \in 1..Len(j) : j[i] \in Remains} = {}
    BY DEF Clean
  <1>2. ReadAll(j) = j
    BY <1>1 DEF ReadAll
  <1> QED
    BY <1>2 DEF Walked

(* A torn record or a footer at the end is cut.                            *)
LEMMA WalkTail ==
  ASSUME NEW j \in Seq(Records), Clean(j), NEW r \in [kind : {"torn", "footer"}]
  PROVE  ReadAll(Append(j, r)) = j /\ Walked(Append(j, r)) = j
  <1> DEFINE t == Append(j, r)
             bad == {i \in 1..Len(t) : t[i] \in Remains}
             s == [kind |-> "stub"]
  <1>1. r \in Remains /\ r \in Records /\ s \in Records /\ r # s
    BY DEF Remains, Records
  <1>2. /\ t \in Seq(Records) /\ Len(j) \in Nat /\ Len(t) = Len(j) + 1
        /\ t[Len(j) + 1] = r /\ \A i \in 1..Len(j) : t[i] = j[i]
        /\ SubSeq(t, 1, Len(j)) = j
    BY <1>1
  <1> HIDE DEF t
  <1>3. bad = {Len(j) + 1}
    <2>1. \A i \in 1..Len(t) : i = Len(j) + 1 \/ i \in 1..Len(j)
      BY <1>2
    <2>2. \A i \in 1..Len(j) : t[i] \notin Remains
      BY <1>2 DEF Clean
    <2>3. Len(j) + 1 \in 1..Len(t)
      BY <1>2
    <2> QED
      BY <1>1, <1>2, <2>1, <2>2, <2>3
  <1>4. Min(bad) = Len(j) + 1
    BY <1>2, <1>3 DEF Min
  <1>5. ReadAll(t) = IF bad = {} THEN t ELSE SubSeq(t, 1, Min(bad) - 1)
    BY DEF ReadAll
  <1> HIDE DEF bad
  <1>6. bad # {} /\ Min(bad) - 1 = Len(j)
    BY <1>2, <1>3, <1>4
  <1>7. ReadAll(t) = j
    BY <1>2, <1>5, <1>6
  <1>8. j \o <<s>> # t
    <2> HIDE DEF s
    <2>1. (j \o <<s>>)[Len(j) + 1] = s
      BY <1>1, <1>2
    <2> QED
      BY <1>1, <1>2, <2>1
  <1>9. Walked(t) = j
    BY <1>7, <1>8 DEF Walked, s
  <1> QED
    BY <1>7, <1>9 DEF t

-----------------------------------------------------------------------------
(* The journal with one record more.                                       *)

(* append adds its record and changes none before it.                      *)
LEMMA AppendRecord ==
  ASSUME NEW j \in Seq(Records), NEW r \in Records
  PROVE  /\ Append(j, r) \in Seq(Records) /\ Len(j) \in Nat
         /\ Len(Append(j, r)) = Len(j) + 1 /\ Append(j, r)[Len(j) + 1] = r
         /\ \A i \in 1..Len(j) : Append(j, r)[i] = j[i]
         /\ 1..(Len(j) + 1) = (1..Len(j)) \union {Len(j) + 1}
         /\ Clean(j) /\ r \notin Remains => Clean(Append(j, r))
  <1>1. /\ Append(j, r) \in Seq(Records) /\ Len(j) \in Nat
        /\ Len(Append(j, r)) = Len(j) + 1 /\ Append(j, r)[Len(j) + 1] = r
        /\ \A i \in 1..Len(j) : Append(j, r)[i] = j[i]
    OBVIOUS
  <1>2. 1..(Len(j) + 1) = (1..Len(j)) \union {Len(j) + 1}
    BY <1>1
  <1>3. Clean(j) /\ r \notin Remains => Clean(Append(j, r))
    BY <1>1, <1>2 DEF Clean
  <1> QED
    BY <1>1, <1>2, <1>3

(* A record that is not of a node leaves the nodes as they are; only a     *)
(* promotion changes a status, that of its node.                           *)
LEMMA AppendOther ==
  ASSUME NEW j \in Seq(Records), NEW r \in Records, r.kind # "node"
  PROVE  LET t == Append(j, r)
         IN  /\ NodeRecords(t) = NodeRecords(j) /\ NodesIn(t) = NodesIn(j)
             /\ \A n, i : LastAt(t, n, i) <=> LastAt(j, n, i)
             /\ \A n : \A i \in NodeRecords(j) :
                  IF r = [kind |-> "promotion", node |-> n] THEN Verified(t, n, i)
                  ELSE Verified(t, n, i) <=> Verified(j, n, i)
  <1> DEFINE t == Append(j, r)
  <1>1. /\ t \in Seq(Records) /\ Len(j) \in Nat
        /\ Len(t) = Len(j) + 1 /\ t[Len(j) + 1] = r
        /\ \A i \in 1..Len(j) : t[i] = j[i]
        /\ 1..(Len(j) + 1) = (1..Len(j)) \union {Len(j) + 1}
    BY AppendRecord
  <1> HIDE DEF t
  <1>2. NodeRecords(t) = NodeRecords(j)
    BY <1>1 DEF NodeRecords
  <1>3. \A i \in NodeRecords(j) : i \in 1..Len(j) /\ t[i] = j[i]
    BY <1>1 DEF NodeRecords
  <1>4. NodesIn(t) = NodesIn(j)
    BY <1>2, <1>3 DEF NodesIn
  <1>5. \A n, i : LastAt(t, n, i) <=> LastAt(j, n, i)
    BY <1>2, <1>3 DEF LastAt
  <1>6. ASSUME NEW n, NEW i \in NodeRecords(j)
        PROVE  IF r = [kind |-> "promotion", node |-> n] THEN Verified(t, n, i)
               ELSE Verified(t, n, i) <=> Verified(j, n, i)
    <2> DEFINE p == [kind |-> "promotion", node |-> n]
    <2>1. t[i] = j[i] /\ i \in 1..Len(j)
      BY <1>3
    <2>2. i..Len(t) = (i..Len(j)) \union {Len(j) + 1} /\ i..Len(j) \subseteq 1..Len(j)
      BY <1>1, <2>1
    <2> HIDE DEF p
    <2>3. (\E k \in i..Len(t) : t[k] = p) <=> (r = p \/ \E k \in i..Len(j) : j[k] = p)
      BY <1>1, <2>2
    <2> QED
      BY <2>1, <2>3 DEF Verified, p
  <1> QED
    BY <1>2, <1>4, <1>5, <1>6 DEF t

(* A record of node m is the last of m and decides its status; the other   *)
(* nodes are as they were.                                                 *)
LEMMA AppendNode ==
  ASSUME NEW j \in Seq(Records), NEW m \in Node, NEW v \in BOOLEAN
  PROVE  LET t == Append(j, [kind |-> "node", node |-> m, verified |-> v])
         IN  /\ NodeRecords(t) = NodeRecords(j) \union {Len(t)}
             /\ t[Len(t)].node = m
             /\ NodesIn(t) = NodesIn(j) \union {m}
             /\ \A i : LastAt(t, m, i) <=> i = Len(t)
             /\ Verified(t, m, Len(t)) <=> v
             /\ \A n, i : n # m => (LastAt(t, n, i) <=> LastAt(j, n, i))
             /\ \A n : \A i \in NodeRecords(j) : Verified(t, n, i) <=> Verified(j, n, i)
  <1> DEFINE r == [kind |-> "node", node |-> m, verified |-> v]
             t == Append(j, r)
  <1>1. /\ r \in Records /\ r.kind = "node" /\ r.node = m
        /\ r.verified = v
        /\ \A n : r # [kind |-> "promotion", node |-> n]
    BY DEF Records
  <1> HIDE DEF r
  <1>2. /\ t \in Seq(Records) /\ Len(j) \in Nat
        /\ Len(t) = Len(j) + 1 /\ t[Len(j) + 1] = r
        /\ \A i \in 1..Len(j) : t[i] = j[i]
        /\ 1..(Len(j) + 1) = (1..Len(j)) \union {Len(j) + 1}
    BY <1>1, AppendRecord
  <1> HIDE DEF t
  <1>3. NodeRecords(t) = NodeRecords(j) \union {Len(t)}
    BY <1>1, <1>2 DEF NodeRecords
  <1>4. \A i \in NodeRecords(j) : i \in 1..Len(j) /\ t[i] = j[i] /\ i < Len(t)
    BY <1>2 DEF NodeRecords
  <1>5. t[Len(t)] = r /\ t[Len(t)].node = m
    BY <1>1, <1>2
  <1>6. NodesIn(t) = NodesIn(j) \union {m}
    BY <1>3, <1>4, <1>5 DEF NodesIn
  <1>7. \A i : LastAt(t, m, i) <=> i = Len(t)
    BY <1>2, <1>3, <1>4, <1>5 DEF LastAt
  <1>8. \A n, i : n # m => (LastAt(t, n, i) <=> LastAt(j, n, i))
    BY <1>3, <1>4, <1>5 DEF LastAt
  <1>9. ASSUME NEW n PROVE ~ \E k \in Len(t)..Len(t) : t[k] = [kind |-> "promotion", node |-> n]
    BY <1>1, <1>2, <1>5
  <1>10. Verified(t, m, Len(t)) <=> v
    BY <1>1, <1>5, <1>9 DEF Verified
  <1>11. ASSUME NEW n, NEW i \in NodeRecords(j)
         PROVE  Verified(t, n, i) <=> Verified(j, n, i)
    <2> DEFINE p == [kind |-> "promotion", node |-> n]
    <2>1. t[i] = j[i] /\ i \in 1..Len(j) /\ r # p
      BY <1>1, <1>4
    <2>2. i..Len(t) = (i..Len(j)) \union {Len(j) + 1} /\ i..Len(j) \subseteq 1..Len(j)
      BY <1>2, <2>1
    <2> HIDE DEF p
    <2>3. (\E k \in i..Len(t) : t[k] = p) <=> (\E k \in i..Len(j) : j[k] = p)
      BY <1>2, <2>1, <2>2
    <2> QED
      BY <2>1, <2>3 DEF Verified, p
  <1> QED
    BY <1>3, <1>5, <1>6, <1>7, <1>8, <1>10, <1>11 DEF t, r

-----------------------------------------------------------------------------
(* What is computed from the journal.                                      *)

(* The records of one node, and what is finite.                            *)
LEMMA RecordSets ==
  ASSUME NEW j \in Seq(Records)
  PROVE  /\ Len(j) \in Nat /\ NodeRecords(j) \subseteq 1..Len(j)
         /\ \A S \in SUBSET (1..Len(j)) : IsFiniteSet(S) /\ S \subseteq Nat
         /\ NodesIn(j) \subseteq Node
  <1>1. Len(j) \in Nat /\ 1 \in Int /\ Len(j) \in Int
    OBVIOUS
  <1>2. NodeRecords(j) \subseteq 1..Len(j)
    BY DEF NodeRecords
  <1>3. IsFiniteSet(1..Len(j))
    BY <1>1, FS_Interval
  <1>4. \A S \in SUBSET (1..Len(j)) : IsFiniteSet(S) /\ S \subseteq Nat
    <2>1. \A S \in SUBSET (1..Len(j)) : IsFiniteSet(S)
      BY <1>3, FS_Subset, Zenon
    <2> QED
      BY <1>1, <2>1
  <1>5. \A i \in NodeRecords(j) : j[i].node \in Node
    <2>1. \A i \in 1..Len(j) : j[i] \in Records
      OBVIOUS
    <2>2. \A i \in NodeRecords(j) : j[i] \in Records /\ j[i].kind = "node"
      BY <2>1 DEF NodeRecords
    <2> QED
      BY <2>2, RecordKinds
  <1> QED
    BY <1>1, <1>2, <1>4, <1>5 DEF NodesIn

(* replay_journal rebuilds volatile_nodes.                                 *)
LEMMA ReplayMirrors ==
  ASSUME NEW j \in Seq(Records)
  PROVE  Mirrors(Replayed(j), j)
  <1> SUFFICES ASSUME NEW n \in NodesIn(j)
               PROVE  /\ Replayed(j)[n] \in [offset : Nat, verified : BOOLEAN]
                      /\ LastAt(j, n, Replayed(j)[n].offset)
                      /\ Replayed(j)[n].verified
                           <=> Verified(j, n, Replayed(j)[n].offset)
    BY DEF Mirrors, Replayed
  <1> DEFINE S == {i \in NodeRecords(j) : j[i].node = n}
             last == Max(S)
             v == Verified(j, n, last)
  <1>1. S # {} /\ S \subseteq NodeRecords(j)
    BY DEF NodesIn
  <1>2. S \in SUBSET (1..Len(j)) /\ IsFiniteSet(S) /\ S \in SUBSET Nat
    <2> HIDE DEF S
    <2>1. S \in SUBSET (1..Len(j))
      BY <1>1, RecordSets
    <2> QED
      BY <2>1, RecordSets
  <1>3. last \in S /\ last \in Nat /\ \A x \in S : x <= last
    <2> HIDE DEF S
    <2> QED
      BY <1>1, <1>2, MaxFinite
  <1>4. LastAt(j, n, last)
    BY <1>3 DEF LastAt
  <1>5. Replayed(j)[n] = [offset |-> last, verified |-> v]
    BY DEF Replayed, Verified
  <1>6. v \in BOOLEAN
    BY DEF Verified
  <1> HIDE DEF last, v
  <1>7. /\ Replayed(j)[n].offset = last /\ (Replayed(j)[n].verified = v)
        /\ Replayed(j)[n] \in [offset : Nat, verified : BOOLEAN]
    BY <1>3, <1>5, <1>6
  <1> QED
    BY <1>4, <1>7 DEF v

(* The highest sequence number of some nodes.                              *)
LEMMA HighestSeqBounds ==
  ASSUME seq \in [Node -> Nat], NEW S \in SUBSET Node
  PROVE  HighestSeq(S) \in Nat /\ \A n \in S : seq[n] <= HighestSeq(S)
  <1> DEFINE I == {seq[n] : n \in S}
             T == {0} \union I
  <1>1. IsFiniteSet(S)
    BY StoreAssumption, FS_Subset
  <1>2. IsFiniteSet(I)
    <2> DEFINE f == [n \in S |-> seq[n]]
    <2>1. f \in Surjection(S, I)
      BY DEF Surjection
    <2> HIDE DEF f, I
    <2> QED
      BY <1>1, <2>1, FS_Surjection
  <1>3. I \subseteq Nat /\ \A n \in S : seq[n] \in I
    OBVIOUS
  <1> HIDE DEF I
  <1>4. IsFiniteSet(T)
    BY <1>2, FS_Singleton, FS_Union, Zenon
  <1>5. T \in SUBSET Nat /\ T # {} /\ \A n \in S : seq[n] \in T
    BY <1>3
  <1>6. HighestSeq(S) = Max(T)
    BY DEF HighestSeq, I
  <1> HIDE DEF T
  <1> QED
    BY <1>4, <1>5, <1>6, MaxFinite

(* The sequence number compaction gathers covers every node of the         *)
(* journal, although a ratchet advance sets it, maybe to a lower one.      *)
LEMMA GatheredCovers ==
  ASSUME seq \in [Node -> Nat], NEW j \in Seq(Records), Clean(j), Ordered(j, seq),
         DOMAIN volatile = NodesIn(j)
  PROVE  GatheredSeq(j) \in Nat /\ \A n \in NodesIn(j) : seq[n] <= GatheredSeq(j)
  <1> DEFINE adv == {i \in 1..Len(j) : /\ j[i].kind = "ratchet"
                                        /\ j[i].node \in DOMAIN volatile}
             last == Max({0} \union adv)
             later == {j[i].node : i \in {k \in NodeRecords(j) : k > last}}
             at == {seq[j[i].node] : i \in adv \intersect {last}}
             h == HighestSeq(later)
             T == {h} \union at
  <1>1. adv \in SUBSET (1..Len(j))
    OBVIOUS
  <1>2. \A i \in adv : j[i].kind = "ratchet" /\ j[i].node \in NodesIn(j)
    OBVIOUS
  <1>3. GatheredSeq(j) = Max(T)
    BY DEF GatheredSeq
  <1> HIDE DEF adv
  <1>4. last \in {0} \union adv /\ last \in Nat
    <2>1. IsFiniteSet(adv) /\ adv \subseteq Nat
      BY <1>1, RecordSets
    <2> DEFINE U == {0} \union adv
    <2>2. IsFiniteSet(U)
      BY <2>1, FS_Singleton, FS_Union, Zenon
    <2>3. U \in SUBSET Nat /\ U # {}
      BY <2>1
    <2> HIDE DEF U
    <2>4. Max(U) \in U /\ Max(U) \in Nat
      BY <2>2, <2>3, MaxFinite
    <2> QED
      BY <2>4 DEF U
  <1> HIDE DEF last
  <1>5. later \in SUBSET Node
    <2>1. later \subseteq NodesIn(j)
      BY DEF NodesIn
    <2> HIDE DEF later
    <2> QED
      BY <2>1, RecordSets
  <1>6. \A i \in NodeRecords(j) : i > last => j[i].node \in later
    OBVIOUS
  <1> HIDE DEF later
  <1>7. h \in Nat /\ \A n \in later : seq[n] <= h
    BY <1>5, HighestSeqBounds
  <1> HIDE DEF h
  <1>8. \A i \in adv : seq[j[i].node] \in Nat
    BY <1>2, RecordSets
  <1>9. T \in SUBSET Nat /\ T # {} /\ IsFiniteSet(T)
    <2>1. at \in SUBSET Nat
      BY <1>8
    <2>2. IsFiniteSet(at)
      <3>1. CASE last \in adv
        <4> DEFINE x == seq[j[last].node]
        <4>1. at = {x}
          BY <3>1
        <4> HIDE DEF at, x
        <4> QED
          BY <4>1, FS_Singleton, Zenon
      <3>2. CASE last \notin adv
        <4>1. at = {}
          BY <3>2
        <4> HIDE DEF at
        <4> QED
          BY <4>1, FS_EmptySet
      <3> QED
        BY <3>1, <3>2
    <2> HIDE DEF at
    <2> QED
      BY <1>7, <2>1, <2>2, FS_Singleton, FS_Union, Zenon
  <1>10. h \in T /\ (last \in adv => seq[j[last].node] \in T)
    OBVIOUS
  <1> HIDE DEF T
  <1>11. Max(T) \in Nat /\ \A x \in T : x <= Max(T)
    BY <1>9, MaxFinite
  <1>12. ASSUME NEW n \in NodesIn(j) PROVE seq[n] <= Max(T)
    <2>1. PICK k \in NodeRecords(j) : j[k].node = n
      BY DEF NodesIn
    <2>2. k \in 1..Len(j) /\ Len(j) \in Nat /\ n \in Node /\ seq[n] \in Nat
      BY RecordSets
    <2>3. CASE k > last
      <3>1. seq[n] <= h /\ h <= Max(T)
        BY <1>6, <1>7, <1>10, <1>11, <2>1, <2>3
      <3> QED
        BY <1>7, <1>11, <2>2, <3>1
    <2>4. CASE k <= last
      <3>1. last \in adv
        BY <1>4, <2>2, <2>4
      <3>2. last \in 1..Len(j) /\ j[last].kind = "ratchet"
        BY <1>1, <1>2, <3>1
      <3>3. k < last
        <4>1. j[k].kind = "node"
          BY DEF NodeRecords
        <4> QED
          BY <1>4, <2>2, <2>4, <3>2, <4>1
      <3>4. seq[n] <= seq[j[last].node]
        BY <2>1, <3>2, <3>3 DEF Ordered
      <3>5. seq[j[last].node] <= Max(T) /\ seq[j[last].node] \in Nat
        BY <1>8, <1>10, <1>11, <3>1
      <3> QED
        BY <1>11, <2>2, <3>4, <3>5
    <2> QED
      BY <1>4, <2>2, <2>3, <2>4
  <1> QED
    BY <1>3, <1>11, <1>12

(* The records that the operations append.                                 *)
LEMMA RecordTypes ==
  ASSUME NEW n \in Node, NEW v \in BOOLEAN
  PROVE  /\ [kind |-> "node", node |-> n, verified |-> v] \in Records
         /\ [kind |-> "promotion", node |-> n] \in Records
         /\ [kind |-> "ratchet", node |-> n] \in Records
  BY DEF Records

(* A pack holds the nodes of the journal it was written from.              *)
LEMMA PackHolds ==
  ASSUME NEW j \in Seq(Records), NEW p \in PackOf(j)
  PROVE  p \in Pack /\ DOMAIN p = NodesIn(j)
  <1>1. p \in [NodesIn(j) -> BOOLEAN]
    BY DEF PackOf
  <1>2. NodesIn(j) \in SUBSET Node
    BY RecordSets
  <1> QED
    BY <1>1, <1>2, Zenon DEF Pack

(* A pack more: those written before stay, with what they hold.            *)
LEMMA PacksGrow ==
  ASSUME NEW F \in Seq(Pack), NEW p \in Pack
  PROVE  LET G == Append(F, p)
         IN  /\ G \in Seq(Pack) /\ G # <<>> /\ Len(F) \in Nat
             /\ Len(G) = Len(F) + 1 /\ G[Len(G)] = p
             /\ \A ps : Written(F, ps) => Written(G, ps)
             /\ \A ps : Written(F, ps) =>
                  \A n : InPacks(F, ps, n) => InPacks(G, ps, n)
  <1> DEFINE G == Append(F, p)
  <1>1. /\ G \in Seq(Pack) /\ G # <<>> /\ Len(F) \in Nat
        /\ Len(G) = Len(F) + 1 /\ G[Len(G)] = p
        /\ \A i \in 1..Len(F) : G[i] = F[i] /\ i \in 1..Len(G)
    OBVIOUS
  <1> HIDE DEF G
  <1>2. \A ps : Written(F, ps) => Written(G, ps)
    BY <1>1 DEF Written
  <1>3. \A ps : Written(F, ps) => \A n : InPacks(F, ps, n) => InPacks(G, ps, n)
    BY <1>1 DEF Written, InPacks
  <1> QED
    BY <1>1, <1>2, <1>3 DEF G

(* An id of a written pack at the end of a list of them.                   *)
LEMMA PacksAppend ==
  ASSUME NEW F, NEW ps \in Seq(Nat), NEW k \in Nat
  PROVE  LET qs == Append(ps, k)
         IN  /\ qs \in Seq(Nat) /\ qs # <<>> /\ qs[Len(qs)] = k
             /\ Written(F, ps) /\ k \in 1..Len(F) => Written(F, qs)
             /\ \A n : InPacks(F, ps, n) \/ n \in DOMAIN F[k] => InPacks(F, qs, n)
  <1> DEFINE qs == Append(ps, k)
  <1>1. /\ qs \in Seq(Nat) /\ qs # <<>> /\ Len(ps) \in Nat
        /\ Len(qs) = Len(ps) + 1 /\ qs[Len(qs)] = k
        /\ \A i \in 1..Len(ps) : qs[i] = ps[i]
    OBVIOUS
  <1> HIDE DEF qs
  <1>1a. /\ \A i \in 1..Len(ps) : i \in 1..Len(qs)
         /\ Len(qs) \in 1..Len(qs)
         /\ \A i \in 1..Len(qs) : i = Len(qs) \/ i \in 1..Len(ps)
    BY <1>1
  <1>2. Written(F, ps) /\ k \in 1..Len(F) => Written(F, qs)
    BY <1>1, <1>1a, Zenon DEF Written
  <1>3. \A n : InPacks(F, ps, n) \/ n \in DOMAIN F[k] => InPacks(F, qs, n)
    BY <1>1, <1>1a DEF InPacks
  <1> QED
    BY <1>1, <1>2, <1>3 DEF qs

-----------------------------------------------------------------------------
(* Whatever fails, only written packs are named.                           *)

(* Every step, failed ones included, keeps state.bin, the ConvState and    *)
(* the list of open packs to packs that are written.                       *)
LEMMA FilesNext ==
  ASSUME FilesInv, [Next]_vars
  PROVE  FilesInv'
  <1> DEFINE empty == [packs |-> <<>>, journalId |-> 0]
  <1>1. empty \in ConvState /\ \A F : Written(F, empty.packs) /\ Written(F, <<>>)
    BY DEF ConvState, Written
  <1> HIDE DEF empty
  <1>2. /\ journal \in Seq(Records) /\ ReadAll(journal) \in Seq(Records)
        /\ Walked(journal) \in Seq(Records)
    BY WalkType DEF FilesInv
  <1>3. ASSUME NEW r \in Records, journal' = Append(journal, r),
               UNCHANGED <<packFiles, stateFile, packs, state, up>>, up,
               exposed' \in BOOLEAN, pc' \in {"idle", "shadow"}
        PROVE  FilesInv'
    <2>1. journal' \in Seq(Records)
      BY <1>2, <1>3
    <2> QED
      BY <1>3, <2>1 DEF FilesInv
  <1>4. CASE \E n \in Node, verified \in BOOLEAN : PutNode(n, verified)
    <2>1. PICK n \in Node, v \in BOOLEAN : PutNode(n, v)
      BY <1>4
    <2> DEFINE r == [kind |-> "node", node |-> n, verified |-> v]
    <2>2. r \in Records /\ journal' = Append(journal, r)
      BY <2>1, RecordTypes, Zenon DEF PutNode
    <2> HIDE DEF r
    <2>3. /\ UNCHANGED <<packFiles, stateFile, packs, state, up, exposed>> /\ up
          /\ pc' = "shadow" \/ (pc' = pc /\ pc = "idle")
      BY <2>1, Zenon DEF PutNode, Idle
    <2> QED
      BY <1>3, <2>2, <2>3 DEF FilesInv
  <1>5. CASE \E n \in Node : MarkVerified(n) \/ PutRatchetKey(n)
    <2>1. PICK n \in Node : MarkVerified(n) \/ PutRatchetKey(n)
      BY <1>5
    <2>2. /\ UNCHANGED <<packFiles, stateFile, packs, state, up, exposed, pc>>
          /\ up /\ pc = "idle"
          /\ \/ UNCHANGED journal
             \/ journal' = Append(journal, [kind |-> "promotion", node |-> n])
             \/ journal' = Append(journal, [kind |-> "ratchet", node |-> n])
      BY <2>1, Zenon DEF MarkVerified, PutRatchetKey, Idle, compaction, ghosts
    <2>3. CASE UNCHANGED journal
      BY <2>2, <2>3 DEF FilesInv
    <2>4. CASE ~UNCHANGED journal
      <3>1. PICK r \in Records : journal' = Append(journal, r)
        BY <2>2, <2>4, RecordTypes, Zenon
      <3> QED
        BY <1>3, <2>2, <3>1 DEF FilesInv
    <2> QED
      BY <2>3, <2>4
  <1>6. CASE SaveState
    BY <1>6 DEF SaveState, compaction, memory, ghosts, FilesInv
  <1>7. CASE AppendFails
    <2>1. PICK k \in {"torn", "stub"} : journal' = Append(journal, [kind |-> k])
      BY <1>7 DEF AppendFails
    <2>2. [kind |-> k] \in Records
      BY DEF Records, Remains
    <2>3. /\ UNCHANGED <<packFiles, stateFile, packs, state, up, pc>>
          /\ up /\ pc = "idle" /\ exposed' = TRUE
      BY <1>7 DEF AppendFails, Idle, compaction, memory
    <2> QED
      BY <1>3, <2>1, <2>2, <2>3
  <1>8. CASE Compact
    BY <1>8 DEF Compact, Idle, disk, memory, ghosts, FilesInv
  <1>9. CASE CompactNothing
    BY <1>2, <1>9 DEF CompactNothing, CompactReturns, memory, FilesInv
  <1>10. CASE CompactShadow
    <2>1. PICK p \in PackOf(ReadAll(journal)) : packFiles' = Append(packFiles, p)
      BY <1>10 DEF CompactShadow
    <2>2. /\ journal' = Walked(journal) /\ pc' = "truncate" /\ pc = "shadow"
          /\ state' = [state EXCEPT !.packs = Append(@, Len(packFiles'))]
          /\ UNCHANGED <<stateFile, up, packs, exposed>>
      BY <1>10 DEF CompactShadow, ghosts
    <2>3. p \in Pack /\ packFiles \in Seq(Pack)
      BY <1>2, PackHolds DEF FilesInv
    <2>4. /\ packFiles' \in Seq(Pack) /\ packFiles' # <<>> /\ Len(packFiles) \in Nat
          /\ Len(packFiles') = Len(packFiles) + 1
          /\ \A ps : Written(packFiles, ps) => Written(packFiles', ps)
      BY <2>1, <2>3, PacksGrow
    <2> DEFINE k == Len(packFiles')
               qs == Append(state.packs, k)
    <2>5. k \in Nat /\ k \in 1..Len(packFiles')
      BY <2>4
    <2>6. state \in ConvState /\ state.packs \in Seq(Nat)
      BY DEF FilesInv, ConvState
    <2> HIDE DEF k
    <2>7. qs \in Seq(Nat) /\ Written(packFiles', qs)
      BY <2>4, <2>5, <2>6, PacksAppend DEF FilesInv
    <2>8. state' = [state EXCEPT !.packs = qs]
      BY <2>2 DEF k
    <2> HIDE DEF qs
    <2>9. state' \in ConvState /\ state'.packs = qs
      BY <2>6, <2>7, <2>8, SMTT(20) DEF ConvState
    <2> QED
      BY <1>2, <2>2, <2>4, <2>7, <2>9, Zenon DEF FilesInv
  <1>11. CASE CompactTruncate
    <2>1. /\ pc = "truncate" /\ pc' = "ratchet" /\ journal' = <<>>
          /\ state' = [state EXCEPT !.journalId = Len(packFiles)]
          /\ UNCHANGED <<packFiles, stateFile, up, packs, exposed>>
      BY <1>11 DEF CompactTruncate, ghosts
    <2>2. state \in ConvState /\ Len(packFiles) \in Nat
      BY DEF FilesInv
    <2>3. state' \in ConvState /\ state'.packs = state.packs
      BY <2>1, <2>2 DEF ConvState
    <2>4. journal' \in Seq(Records)
      BY <2>1
    <2> QED
      BY <2>1, <2>3, <2>4 DEF FilesInv
  <1>12. CASE CompactRatchet
    BY <1>12 DEF CompactRatchet, ghosts, FilesInv
  <1>13. CASE CompactCommit
    BY <1>13 DEF CompactCommit, memory, ghosts, FilesInv
  <1>14. CASE CompactOpen
    <2>1. /\ pc = "open" /\ pc' = "idle" /\ packs' = Append(packs, Len(packFiles))
          /\ UNCHANGED <<journal, packFiles, stateFile, up, state, exposed>>
      BY <1>14 DEF CompactOpen, CompactReturns, disk
    <2>2. /\ packFiles \in Seq(Pack) /\ packFiles # <<>> /\ packs \in Seq(Nat)
          /\ Written(packFiles, packs)
      BY <2>1 DEF FilesInv
    <2> DEFINE k == Len(packFiles)
    <2>3. k \in Nat /\ k \in 1..Len(packFiles)
      BY <2>2
    <2>4. packs' = Append(packs, k)
      BY <2>1
    <2> HIDE DEF k
    <2>5. packs' \in Seq(Nat) /\ Written(packFiles, packs')
      BY <2>2, <2>3, <2>4, PacksAppend
    <2> QED
      BY <2>1, <2>5 DEF FilesInv
  <1>15. CASE CompactFails
    BY <1>15 DEF CompactFails, disk, memory, FilesInv
  <1>16. CASE Crash
    <2>1. /\ up' = FALSE /\ pc' = "idle" /\ packs' = <<>> /\ state' = empty
          /\ exposed' = (exposed \/ pc \in {"ratchet", "commit"})
          /\ UNCHANGED <<packFiles, stateFile>>
          /\ UNCHANGED journal \/ journal' = Append(journal, [kind |-> "torn"])
      BY <1>16 DEF Crash, empty
    <2>2. [kind |-> "torn"] \in Records
      BY DEF Records, Remains
    <2>3. journal' \in Seq(Records)
      <3> DEFINE r == [kind |-> "torn"]
      <3>1. r \in Records /\ (journal' = journal \/ journal' = Append(journal, r))
        BY <2>1, <2>2
      <3> HIDE DEF r
      <3>2. Append(journal, r) \in Seq(Records)
        BY <1>2, <3>1
      <3> QED
        BY <1>2, <3>1, <3>2, Zenon
    <2>4. exposed' \in BOOLEAN
      BY <2>1, Zenon
    <2>5. packs' \in Seq(Nat)
      BY <2>1
    <2> QED
      BY <1>1, <2>1, <2>3, <2>4, <2>5, Zenon DEF FilesInv
  <1>17. CASE Shutdown
    <2>1. /\ up' = FALSE /\ pc = "idle" /\ packs' = <<>> /\ state' = empty
          /\ UNCHANGED <<packFiles, stateFile, exposed, pc>>
          /\ journal' = Append(Walked(journal), [kind |-> "footer"])
      BY <1>17 DEF Shutdown, Idle, empty, ghosts, compaction
    <2>2. [kind |-> "footer"] \in Records
      BY DEF Records, Remains
    <2>3. journal' \in Seq(Records)
      BY <1>2, <2>1, <2>2
    <2>4. packs' \in Seq(Nat)
      BY <2>1
    <2> QED
      BY <1>1, <2>1, <2>3, <2>4, Zenon DEF FilesInv
  <1>18. CASE Reopen
    <2>1. /\ ~up /\ up' = TRUE /\ state' = stateFile /\ packs' = stateFile.packs
          /\ UNCHANGED <<packFiles, stateFile, exposed, pc>>
          /\ journal' = <<>> \/ journal' = Walked(journal)
      BY <1>18 DEF Reopen, ghosts, compaction
    <2>2. journal' \in Seq(Records)
      <3>1. <<>> \in Seq(Records)
        OBVIOUS
      <3> QED
        BY <1>2, <2>1, <3>1, Zenon
    <2>3. stateFile.packs \in Seq(Nat)
      BY DEF FilesInv, ConvState
    <2> QED
      BY <2>1, <2>2, <2>3 DEF FilesInv
  <1>19. CASE UNCHANGED vars
    BY <1>19 DEF vars, disk, compaction, memory, ghosts, FilesInv
  <1> QED
    BY <1>4, <1>5, <1>6, <1>7, <1>8, <1>9, <1>10, <1>11, <1>12, <1>13, <1>14,
       <1>15, <1>16, <1>17, <1>18, <1>19 DEF Next

-----------------------------------------------------------------------------
(* The parts of the invariant when the journal grows.                      *)

(* A node record keeps the order of the sequence numbers.                  *)
LEMMA OrderedNode ==
  ASSUME NEW j \in Seq(Records), NEW m \in Node, NEW v \in BOOLEAN,
         NEW sq \in [Node -> Nat], NEW sq2 \in [Node -> Nat], Clean(j), Ordered(j, sq),
         sq2[m] # 0, \A x \in Node : sq[x] # 0 => sq2[x] = sq[x]
  PROVE  Ordered(Append(j, [kind |-> "node", node |-> m, verified |-> v]), sq2)
  <1> DEFINE r == [kind |-> "node", node |-> m, verified |-> v]
             t == Append(j, r)
  <1>1. /\ NodeRecords(t) = NodeRecords(j) \union {Len(t)}
        /\ NodesIn(t) = NodesIn(j) \union {m}
    BY AppendNode
  <1>2. r \in Records /\ r.kind = "node"
    BY RecordTypes, Zenon
  <1> HIDE DEF r
  <1>3. /\ Len(j) \in Nat /\ Len(t) = Len(j) + 1 /\ t[Len(j) + 1] = r
        /\ \A i \in 1..Len(j) : t[i] = j[i]
        /\ 1..(Len(j) + 1) = (1..Len(j)) \union {Len(j) + 1}
    BY <1>2, AppendRecord
  <1>4. NodesIn(j) \subseteq Node /\ NodeRecords(j) \subseteq 1..Len(j)
    BY RecordSets
  <1> HIDE DEF t
  <1>5. \A n \in NodesIn(t) : sq2[n] # 0
    BY <1>1, <1>4 DEF Ordered
  <1>6. ASSUME NEW i \in 1..Len(t), t[i].kind = "ratchet"
        PROVE  /\ sq2[t[i].node] # 0
               /\ \A k \in NodeRecords(t) : k < i => sq2[t[k].node] <= sq2[t[i].node]
    <2>1. i \in 1..Len(j) /\ t[i] = j[i]
      BY <1>2, <1>3, <1>6
    <2>2. j[i] \in Records /\ j[i] \notin Remains
      BY <2>1 DEF Clean
    <2>3. j[i].node \in Node /\ sq[j[i].node] # 0 /\ sq2[j[i].node] = sq[j[i].node]
      BY <1>6, <2>1, <2>2, RecordKinds DEF Ordered
    <2>4. ASSUME NEW k \in NodeRecords(t), k < i
          PROVE  sq2[t[k].node] <= sq2[t[i].node]
      <3>1. k \in NodeRecords(j)
        BY <1>1, <1>3, <2>1, <2>4
      <3>2. t[k] = j[k] /\ j[k].node \in NodesIn(j)
        BY <1>3, <1>4, <3>1 DEF NodesIn
      <3>3. sq2[j[k].node] = sq[j[k].node]
        BY <1>4, <3>2 DEF Ordered
      <3>4. sq[j[k].node] <= sq[j[i].node]
        BY <1>6, <2>1, <2>4, <3>1 DEF Ordered
      <3> QED
        BY <2>1, <2>3, <3>2, <3>3, <3>4
    <2> QED
      BY <2>1, <2>3, <2>4
  <1>7. Ordered(t, sq2)
    BY <1>5, <1>6 DEF Ordered
  <1> QED
    BY <1>7 DEF t, r

(* A promotion keeps it, and so does the ratchet key of a node with the    *)
(* highest sequence number.                                                *)
LEMMA OrderedOther ==
  ASSUME NEW j \in Seq(Records), NEW r \in Records, r \notin Remains, r.kind # "node",
         NEW sq \in [Node -> Nat], Ordered(j, sq),
         r.kind = "ratchet" =>
           sq[r.node] # 0 /\ \A n \in Node : sq[n] <= sq[r.node]
  PROVE  Ordered(Append(j, r), sq)
  <1> DEFINE t == Append(j, r)
  <1>1. NodeRecords(t) = NodeRecords(j) /\ NodesIn(t) = NodesIn(j)
    BY AppendOther
  <1>2. /\ Len(j) \in Nat /\ Len(t) = Len(j) + 1 /\ t[Len(j) + 1] = r
        /\ \A i \in 1..Len(j) : t[i] = j[i]
        /\ 1..(Len(j) + 1) = (1..Len(j)) \union {Len(j) + 1}
    BY AppendRecord
  <1>3. NodesIn(j) \subseteq Node /\ NodeRecords(j) \subseteq 1..Len(j)
    BY RecordSets
  <1> HIDE DEF t
  <1>4. \A k \in NodeRecords(t) : t[k] = j[k] /\ j[k].node \in Node
    BY <1>1, <1>2, <1>3 DEF NodesIn
  <1>5. \A n \in NodesIn(t) : sq[n] # 0
    BY <1>1 DEF Ordered
  <1>6. ASSUME NEW i \in 1..Len(t), t[i].kind = "ratchet"
        PROVE  /\ sq[t[i].node] # 0
               /\ \A k \in NodeRecords(t) : k < i => sq[t[k].node] <= sq[t[i].node]
    <2>1. CASE i = Len(j) + 1
      <3>1. t[i] = r /\ r.kind = "ratchet"
        BY <1>2, <1>6, <2>1
      <3> QED
        BY <1>4, <3>1
    <2>2. CASE i \in 1..Len(j)
      <3>1. t[i] = j[i] /\ j[i].kind = "ratchet"
        BY <1>2, <1>6, <2>2
      <3> QED
        BY <1>1, <1>4, <2>2, <3>1 DEF Ordered
    <2> QED
      BY <1>2, <2>1, <2>2
  <1>7. Ordered(t, sq)
    BY <1>5, <1>6 DEF Ordered
  <1> QED
    BY <1>7 DEF t

(* ak2 reports as ak does, but v of m.                                     *)
Reports(ak, ak2, m, v) ==
  \A n \in DOMAIN ak2 : IF n = m THEN v \in ak2[n]
                        ELSE n \in DOMAIN ak /\ ak2[n] = ak[n]

(* put_node reports the status it wrote, now or when it returns.           *)
LEMMA ReportedNode ==
  ASSUME NEW j \in Seq(Records), NEW m \in Node, NEW v \in BOOLEAN, NEW ak, NEW ak2,
         Reported(j, ak), Reports(ak, ak2, m, v)
  PROVE  Reported(Append(j, [kind |-> "node", node |-> m, verified |-> v]), ak2)
  <1> DEFINE t == Append(j, [kind |-> "node", node |-> m, verified |-> v])
  <1>1. /\ \A i : LastAt(t, m, i) <=> i = Len(t)
        /\ Verified(t, m, Len(t)) <=> v
        /\ \A n, i : n # m => (LastAt(t, n, i) <=> LastAt(j, n, i))
        /\ \A n : \A i \in NodeRecords(j) : Verified(t, n, i) <=> Verified(j, n, i)
    BY AppendNode
  <1> HIDE DEF t
  <1>2. ASSUME NEW n \in DOMAIN ak2, NEW i \in NodeRecords(t), LastAt(t, n, i)
        PROVE  IF Verified(t, n, i) THEN TRUE \in ak2[n] ELSE FALSE \in ak2[n]
    <2>1. CASE n = m
      <3>1. i = Len(t) /\ v \in ak2[n] /\ (Verified(t, n, i) <=> v)
        BY <1>1, <1>2, <2>1 DEF Reports
      <3>2. CASE v = TRUE
        BY <3>1, <3>2, Zenon
      <3>3. CASE v = FALSE
        BY <3>1, <3>3, Zenon
      <3> QED
        BY <3>2, <3>3, Zenon
    <2>2. CASE n # m
      <3>1. LastAt(j, n, i) /\ i \in NodeRecords(j)
        BY <1>1, <1>2, <2>2, SMTT(20) DEF LastAt
      <3>2. n \in DOMAIN ak /\ ak2[n] = ak[n]
        BY <2>2 DEF Reports
      <3>3. IF Verified(j, n, i) THEN TRUE \in ak[n] ELSE FALSE \in ak[n]
        BY <3>1, <3>2, Zenon DEF Reported
      <3> QED
        BY <1>1, <3>1, <3>2, <3>3, Zenon
    <2> QED
      BY <2>1, <2>2, Zenon
  <1>3. Reported(t, ak2)
    BY <1>2, Zenon DEF Reported
  <1> QED
    BY <1>3 DEF t

(* volatile_nodes follows put_node.                                        *)
LEMMA MirrorsNode ==
  ASSUME NEW j \in Seq(Records), NEW m \in Node, NEW b \in BOOLEAN, NEW v, Mirrors(v, j)
  PROVE  LET t == Append(j, [kind |-> "node", node |-> m, verified |-> b])
         IN  Mirrors([n \in DOMAIN v \union {m} |->
                        IF n = m THEN [offset |-> Len(t), verified |-> b] ELSE v[n]], t)
  <1> DEFINE r == [kind |-> "node", node |-> m, verified |-> b]
             t == Append(j, r)
             e == [offset |-> Len(t), verified |-> b]
             w == [n \in DOMAIN v \union {m} |-> IF n = m THEN e ELSE v[n]]
  <1>1. /\ NodesIn(t) = NodesIn(j) \union {m}
        /\ \A i : LastAt(t, m, i) <=> i = Len(t)
        /\ Verified(t, m, Len(t)) <=> b
        /\ \A n, i : n # m => (LastAt(t, n, i) <=> LastAt(j, n, i))
        /\ \A n : \A i \in NodeRecords(j) : Verified(t, n, i) <=> Verified(j, n, i)
    BY AppendNode
  <1>2. Len(t) \in Nat
    BY RecordTypes, AppendRecord
  <1> HIDE DEF t
  <1>3. e \in [offset : Nat, verified : BOOLEAN] /\ e.offset = Len(t) /\ e.verified = b
    BY <1>2
  <1> HIDE DEF e
  <1>4. /\ DOMAIN v = NodesIn(j) /\ DOMAIN w = NodesIn(t) /\ w[m] = e
        /\ \A n \in NodesIn(j) : n # m => w[n] = v[n]
    BY <1>1 DEF Mirrors
  <1> HIDE DEF w
  <1>5. ASSUME NEW n \in NodesIn(t)
        PROVE  /\ w[n] \in [offset : Nat, verified : BOOLEAN]
               /\ LastAt(t, n, w[n].offset)
               /\ w[n].verified <=> Verified(t, n, w[n].offset)
    <2>1. CASE n = m
      BY <1>1, <1>3, <1>4, <2>1
    <2>2. CASE n # m
      <3>1. n \in NodesIn(j) /\ w[n] = v[n]
        BY <1>1, <1>4, <2>2
      <3>2. /\ v[n] \in [offset : Nat, verified : BOOLEAN]
            /\ LastAt(j, n, v[n].offset)
            /\ v[n].verified <=> Verified(j, n, v[n].offset)
        BY <3>1 DEF Mirrors
      <3>3. v[n].offset \in NodeRecords(j)
        BY <3>2 DEF LastAt
      <3> QED
        BY <1>1, <2>2, <3>1, <3>2, <3>3
    <2> QED
      BY <2>1, <2>2
  <1>6. Mirrors(w, t)
    BY <1>4, <1>5 DEF Mirrors
  <1> QED
    BY <1>6 DEF w, t, e, r

-----------------------------------------------------------------------------
(* A process that runs, while the store was not hit where it is weak.      *)

RunInv == DiskInv(journal) /\ MemoryInv(journal)

(* Then the journal holds nothing that a walk would reject.                *)
LEMMA Running ==
  ASSUME StoreInv, up, ~exposed
  PROVE  RunInv /\ ReadAll(journal) = journal /\ Walked(journal) = journal
  <1>1. DiskInv(ReadAll(journal)) /\ MemoryInv(ReadAll(journal))
    BY DEF StoreInv
  <1>2. journal = ReadAll(journal) /\ Clean(ReadAll(journal))
    BY <1>1, Zenon DEF DiskInv
  <1>3. Clean(journal)
    BY <1>2
  <1> QED
    BY <1>1, <1>2, <1>3, WalkClean DEF RunInv

(* And an action that keeps this keeps the invariant.                      *)
LEMMA Resumes ==
  ASSUME FilesInv', ~exposed' => RunInv'
  PROVE  StoreInv'
  <1> SUFFICES ASSUME ~exposed'
               PROVE  (DiskInv(ReadAll(journal)) /\ MemoryInv(ReadAll(journal)))'
    BY DEF StoreInv
  <1>1. DiskInv(journal)' /\ MemoryInv(journal)'
    BY DEF RunInv
  <1>2. Clean(journal)'
    BY <1>1, Zenon DEF DiskInv
  <1>3. ReadAll(journal)' = journal'
    BY <1>2, WalkClean
  <1> QED
    BY <1>1, <1>3, Zenon DEF DiskInv, MemoryInv

(* put_node.                                                               *)
LEMMA PutNodeInv ==
  ASSUME FilesInv, RunInv, NEW n \in Node, NEW v \in BOOLEAN, PutNode(n, v)
  PROVE  RunInv'
  <1> DEFINE t == Append(journal, [kind |-> "node", node |-> n, verified |-> v])
  <1>1. /\ journal \in Seq(Records) /\ Clean(journal) /\ seq \in [Node -> Nat]
        /\ {generation, ratchet, gathered, lastSeq} \subseteq Nat
        /\ Held \subseteq Node /\ \A m \in Held : seq[m] # 0
        /\ Ordered(journal, seq) /\ Reported(journal, acked)
    BY Zenon DEF RunInv, DiskInv
  <1>2. /\ up /\ pc = "idle" /\ journal' = t
        /\ UNCHANGED <<generation, packFiles, ratchet, stateFile, up, gathered, packs, state>>
        /\ seq' = IF seq[n] = 0 THEN [seq EXCEPT ![n] = lastSeq + 1] ELSE seq
        /\ lastSeq' = Max({lastSeq, seq'[n]})
        /\ pc' \in {"idle", "shadow"}
    BY Zenon DEF PutNode, Idle
  <1>3. /\ t \in Seq(Records) /\ Clean(t) /\ NodesIn(t) = NodesIn(journal) \union {n}
    <2> DEFINE r == [kind |-> "node", node |-> n, verified |-> v]
    <2>1. r \in Records /\ r.kind = "node"
      BY RecordTypes, Zenon
    <2>2. NodesIn(t) = NodesIn(journal) \union {n}
      BY <1>1, AppendNode
    <2>3. t = Append(journal, r)
      OBVIOUS
    <2> HIDE DEF r, t
    <2>4. r \notin Remains
      BY <2>1, RecordKinds
    <2>5. Append(journal, r) \in Seq(Records) /\ Clean(Append(journal, r))
      BY <1>1, <2>1, <2>4, AppendRecord, SMTT(20)
    <2> QED
      BY <2>2, <2>3, <2>5
  <1>4. /\ seq' \in [Node -> Nat] /\ seq'[n] # 0
        /\ \A m \in Node : seq[m] # 0 \/ m # n => seq'[m] = seq[m]
    BY <1>1, <1>2
  <1>5. lastSeq' \in Nat /\ lastSeq <= lastSeq' /\ seq'[n] <= lastSeq'
    BY <1>1, <1>2, <1>4, MaxPair
  <1>6. Ordered(t, seq')
    BY <1>1, <1>4, OrderedNode, Zenon
  <1>7. /\ Held' \subseteq Held \union {n}
        /\ Reports(acked, acked', n, v)
    <2>1. CASE Cardinality(DOMAIN volatile') >= CompactThreshold
      <3>1. /\ putting' = {n}
            /\ acked' = [m \in DOMAIN acked |->
                           IF m = n THEN acked[m] \union {v} ELSE acked[m]]
        BY <2>1 DEF PutNode
      <3> QED
        BY <3>1 DEF Held, Reports
    <2>2. CASE ~(Cardinality(DOMAIN volatile') >= CompactThreshold)
      <3>1. /\ putting' = putting
            /\ acked' = [m \in DOMAIN acked \union {n} |->
                           IF m \in {n} THEN {[k \in {n} |-> v][m]} ELSE acked[m]]
        BY <2>2 DEF PutNode, Acknowledge
      <3> QED
        BY <3>1 DEF Held, Reports
    <2> QED
      BY <2>1, <2>2
  <1>8. Reported(t, acked')
    BY <1>1, <1>7, ReportedNode, Zenon
  <1>9. Mirrors(volatile', t)
    <2>1. volatile' = [m \in DOMAIN volatile \union {n} |->
                         IF m = n THEN [offset |-> Len(t), verified |-> v] ELSE volatile[m]]
      BY <1>2 DEF PutNode
    <2>2. Mirrors(volatile, journal)
      BY <1>2 DEF RunInv, MemoryInv
    <2> QED
      BY <1>1, <2>1, <2>2, MirrorsNode, Zenon
  <1>10. /\ Held' \subseteq Node /\ \A m \in Held' : seq'[m] # 0
         /\ \A m \in Node : m \in NodesIn(t) \/ seq'[m] <= ratchet
         /\ \A m \in Node : seq'[m] <= lastSeq'
    <2>1. \A m \in Node : m \in NodesIn(journal) \/ seq[m] <= ratchet
      BY <1>2, Zenon DEF RunInv, DiskInv
    <2>2. \A m \in Node : seq[m] <= lastSeq
      BY Zenon DEF RunInv, MemoryInv
    <2>3. lastSeq \in Nat
      BY <1>1
    <2> HIDE DEF t
    <2>4. Held' \subseteq Node /\ \A m \in Held' : seq'[m] # 0
      BY <1>1, <1>4, <1>7
    <2>5. \A m \in Node : m \in NodesIn(t) \/ seq'[m] <= ratchet
      BY <1>3, <1>4, <2>1
    <2>6. \A m \in Node : seq'[m] <= lastSeq'
      BY <1>1, <1>4, <1>5, <2>2, <2>3
    <2> QED
      BY <2>4, <2>5, <2>6
  <1>11. \A m \in Held' : m = n \/ m \in Held
    BY <1>7
  <1> HIDE DEF t
  <1>12. DiskInv(journal)'
    <2>1. /\ stateFile.journalId = generation
          /\ \A m \in Held : m \in NodesIn(journal) \/ InPacks(packFiles, stateFile.packs, m)
      BY <1>2, Zenon DEF RunInv, DiskInv
    <2>2. \A m \in Held' : m \in NodesIn(t) \/ InPacks(packFiles, stateFile.packs, m)
      BY <1>3, <1>11, <2>1, Zenon
    <2>3. {generation', ratchet', gathered', lastSeq'} \subseteq Nat
      BY <1>1, <1>2, <1>5, Zenon
    <2> QED
      BY <1>2, <1>3, <1>4, <1>6, <1>8, <1>10, <2>1, <2>2, <2>3, Zenon DEF DiskInv
  <1>13. MemoryInv(journal)'
    <2>1. /\ state.journalId = generation
          /\ \A m \in Held : m \in NodesIn(journal) \/ InPacks(packFiles, state.packs, m)
          /\ \A m \in Held : m \in NodesIn(journal) \/ InPacks(packFiles, packs, m)
      BY <1>2, Zenon DEF RunInv, MemoryInv
    <2>2. /\ \A m \in Held' : m \in NodesIn(t) \/ InPacks(packFiles, state.packs, m)
          /\ \A m \in Held' : m \in NodesIn(t) \/ InPacks(packFiles, packs, m)
      BY <1>3, <1>11, <2>1, Zenon
    <2> QED
      BY <1>2, <1>9, <1>10, <2>1, <2>2, Zenon DEF MemoryInv
  <1> QED
    BY <1>12, <1>13 DEF RunInv

(* A step that leaves the nodes in the journal as they are.                *)
LEMMA SameNodes ==
  ASSUME RunInv, up, pc = "idle",
         journal' \in Seq(Records), Clean(journal'), NodesIn(journal') = NodesIn(journal),
         Ordered(journal', seq), Reported(journal', acked'), Mirrors(volatile', journal'),
         DOMAIN acked' \subseteq Held,
         UNCHANGED <<generation, packFiles, ratchet, stateFile, up, pc, putting, gathered,
                     packs, state, lastSeq, seq>>
  PROVE  RunInv'
  <1>1. /\ {generation, ratchet, gathered, lastSeq} \subseteq Nat /\ seq \in [Node -> Nat]
        /\ Held \subseteq Node /\ \A n \in Held : seq[n] # 0
        /\ \A n \in Node : n \in NodesIn(journal) \/ seq[n] <= ratchet
        /\ stateFile.journalId = generation
        /\ \A n \in Held : n \in NodesIn(journal) \/ InPacks(packFiles, stateFile.packs, n)
    BY Zenon DEF RunInv, DiskInv
  <1>2. /\ \A n \in Node : seq[n] <= lastSeq
        /\ state.journalId = generation
        /\ \A n \in Held : n \in NodesIn(journal) \/ InPacks(packFiles, state.packs, n)
        /\ \A n \in Held : n \in NodesIn(journal) \/ InPacks(packFiles, packs, n)
    BY DEF RunInv, MemoryInv
  <1>3. Held' \subseteq Held
    BY Zenon DEF Held
  <1>4. DiskInv(journal)'
    BY <1>1, <1>3, Zenon DEF DiskInv
  <1>5. MemoryInv(journal)'
    BY <1>2, <1>3, Zenon DEF MemoryInv
  <1> QED
    BY <1>4, <1>5 DEF RunInv

(* mark_verified reports that a node is verified: it is so in t, which     *)
(* says of the other nodes what j does.                                    *)
LEMMA ReportedPromotion ==
  ASSUME NEW j, NEW t, NEW m, NEW ak, NEW ak2,
         NodeRecords(t) = NodeRecords(j), \A n, i : LastAt(t, n, i) <=> LastAt(j, n, i),
         \A n : n # m => \A i \in NodeRecords(j) : Verified(t, n, i) <=> Verified(j, n, i),
         \A i : LastAt(t, m, i) => Verified(t, m, i),
         Reported(j, ak), Reports(ak, ak2, m, TRUE)
  PROVE  Reported(t, ak2)
  <1>1. ASSUME NEW n \in DOMAIN ak2, NEW i \in NodeRecords(t), LastAt(t, n, i)
        PROVE  IF Verified(t, n, i) THEN TRUE \in ak2[n] ELSE FALSE \in ak2[n]
    <2>1. CASE n = m
      BY <1>1, <2>1, Zenon DEF Reports
    <2>2. CASE n # m
      <3>1. n \in DOMAIN ak /\ ak2[n] = ak[n]
        BY <2>2, Zenon DEF Reports
      <3>2. IF Verified(j, n, i) THEN TRUE \in ak[n] ELSE FALSE \in ak[n]
        BY <1>1, <3>1, Zenon DEF Reported
      <3> QED
        BY <1>1, <2>2, <3>1, <3>2, Zenon
    <2> QED
      BY <2>1, <2>2, Zenon
  <1> QED
    BY <1>1, Zenon DEF Reported

(* volatile_nodes follows mark_verified.                                   *)
LEMMA MirrorsPromotion ==
  ASSUME NEW j \in Seq(Records), NEW m \in NodesIn(j), NEW v, Mirrors(v, j)
  PROVE  Mirrors([v EXCEPT ![m].verified = TRUE],
                 Append(j, [kind |-> "promotion", node |-> m]))
  <1> DEFINE r == [kind |-> "promotion", node |-> m]
             t == Append(j, r)
             w == [v EXCEPT ![m].verified = TRUE]
  <1>1. m \in Node
    BY RecordSets
  <1>2. r \in Records /\ r.kind # "node"
    BY <1>1, RecordTypes, Zenon
  <1>3. \A n : n # m => r # [kind |-> "promotion", node |-> n]
    OBVIOUS
  <1>4. r = [kind |-> "promotion", node |-> m]
    OBVIOUS
  <1> HIDE DEF r
  <1>5. /\ NodeRecords(t) = NodeRecords(j) /\ NodesIn(t) = NodesIn(j)
        /\ \A n, i : LastAt(t, n, i) <=> LastAt(j, n, i)
        /\ \A n : \A i \in NodeRecords(j) :
             IF r = [kind |-> "promotion", node |-> n] THEN Verified(t, n, i)
             ELSE Verified(t, n, i) <=> Verified(j, n, i)
    BY <1>2, AppendOther
  <1> HIDE DEF t
  <1> DEFINE Entry == [offset : Nat, verified : BOOLEAN]
  <1>6. /\ DOMAIN v = NodesIn(j) /\ \A n \in NodesIn(j) : v[n] \in Entry
        /\ \A n \in NodesIn(j) : LastAt(j, n, v[n].offset)
    BY DEF Mirrors
  <1>7. \A n \in NodesIn(j) : v[n].verified <=> Verified(j, n, v[n].offset)
    BY DEF Mirrors
  <1>8. v[m] \in Entry
    BY <1>6
  <1>9. [v[m] EXCEPT !.verified = TRUE] \in Entry
    BY <1>8, Zenon
  <1>10. [v[m] EXCEPT !.verified = TRUE].offset = v[m].offset
    BY <1>8
  <1>11. [v[m] EXCEPT !.verified = TRUE].verified = TRUE
    BY <1>8
  <1>12. /\ DOMAIN w = NodesIn(j) /\ w[m] = [v[m] EXCEPT !.verified = TRUE]
         /\ \A n \in NodesIn(j) : n # m => w[n] = v[n]
    BY <1>6, Zenon
  <1> HIDE DEF w, Entry
  <1>13. \A n \in NodesIn(j) : v[n].offset \in NodeRecords(j)
    BY <1>6, Zenon DEF LastAt
  <1>14. ASSUME NEW n \in NodesIn(j)
         PROVE  /\ w[n] \in Entry /\ LastAt(t, n, w[n].offset)
                /\ w[n].verified <=> Verified(t, n, w[n].offset)
    <2>1. CASE n = m
      <3>1. w[m] \in Entry /\ w[m].offset = v[m].offset /\ w[m].verified = TRUE
        BY <1>9, <1>10, <1>11, <1>12, Zenon
      <3>2. Verified(t, m, v[m].offset)
        BY <1>4, <1>5, <1>13, Zenon
      <3>3. LastAt(t, m, v[m].offset)
        BY <1>5, <1>6, Zenon
      <3> QED
        BY <2>1, <3>1, <3>2, <3>3, Zenon
    <2>2. CASE n # m
      <3>1. w[n] = v[n] /\ v[n] \in Entry /\ LastAt(t, n, v[n].offset)
        BY <1>5, <1>6, <1>12, <2>2, Zenon
      <3>2. Verified(t, n, v[n].offset) <=> Verified(j, n, v[n].offset)
        BY <1>3, <1>5, <1>13, <2>2, Zenon
      <3> QED
        BY <1>7, <3>1, <3>2, Zenon
    <2> QED
      BY <2>1, <2>2
  <1>15. Mirrors(w, t)
    BY <1>5, <1>12, <1>14, Zenon DEF Mirrors, Entry
  <1> QED
    BY <1>15 DEF w, t, r

(* mark_verified.                                                          *)
LEMMA MarkVerifiedInv ==
  ASSUME FilesInv, RunInv, NEW n \in Node, MarkVerified(n)
  PROVE  RunInv'
  <1>1. /\ journal \in Seq(Records) /\ Clean(journal) /\ seq \in [Node -> Nat]
        /\ Ordered(journal, seq) /\ Reported(journal, acked)
    BY DEF RunInv, DiskInv
  <1>2. /\ up /\ pc = "idle" /\ n \in DOMAIN acked
        /\ UNCHANGED <<generation, packFiles, ratchet, stateFile, up, pc, putting, gathered,
                       packs, state, lastSeq, seq>>
        /\ acked' = [m \in DOMAIN acked \union {n} |->
                       IF m \in {n} THEN {[k \in {n} |-> TRUE][m]} ELSE acked[m]]
    BY DEF MarkVerified, Idle, compaction, Acknowledge
  <1>3. Mirrors(volatile, journal)
    BY <1>2 DEF RunInv, MemoryInv
  <1>4. DOMAIN acked' \subseteq Held /\ Reports(acked, acked', n, TRUE)
    BY <1>2, Zenon DEF Held, Reports
  <1>5. CASE n \in DOMAIN volatile /\ ~volatile[n].verified
    <2> DEFINE r == [kind |-> "promotion", node |-> n]
               t == Append(journal, r)
    <2>1. journal' = t /\ volatile' = [volatile EXCEPT ![n].verified = TRUE]
      BY <1>5 DEF MarkVerified
    <2>2. n \in NodesIn(journal)
      BY <1>3, <1>5 DEF Mirrors
    <2>3. Mirrors(volatile', t)
      BY <1>1, <1>3, <2>1, <2>2, MirrorsPromotion, Zenon
    <2>4. /\ r \in Records /\ r.kind = "promotion" /\ r = [kind |-> "promotion", node |-> n]
          /\ \A m : m # n => r # [kind |-> "promotion", node |-> m]
      BY RecordTypes, Zenon
    <2> HIDE DEF r
    <2>5. r \notin Remains
      BY <2>4, RecordKinds
    <2>6. /\ NodeRecords(t) = NodeRecords(journal) /\ NodesIn(t) = NodesIn(journal)
          /\ \A m, i : LastAt(t, m, i) <=> LastAt(journal, m, i)
          /\ \A m : \A i \in NodeRecords(journal) :
               IF r = [kind |-> "promotion", node |-> m] THEN Verified(t, m, i)
               ELSE Verified(t, m, i) <=> Verified(journal, m, i)
      BY <1>1, <2>4, AppendOther, Zenon
    <2>7. t \in Seq(Records) /\ Clean(t)
      BY <1>1, <2>4, <2>5, AppendRecord, Zenon
    <2>8. Ordered(t, seq)
      BY <1>1, <2>4, <2>5, OrderedOther
    <2> HIDE DEF t
    <2>9. \A i : LastAt(t, n, i) => Verified(t, n, i)
      BY <2>4, <2>6 DEF LastAt
    <2>10. \A m : m # n => \A i \in NodeRecords(journal) :
                             Verified(t, m, i) <=> Verified(journal, m, i)
      BY <2>4, <2>6, Zenon
    <2>11. Reported(t, acked')
      BY <1>1, <1>4, <2>6, <2>9, <2>10, ReportedPromotion, Zenon
    <2> QED
      BY <1>2, <1>4, <2>1, <2>3, <2>6, <2>7, <2>8, <2>11, SameNodes
  <1>6. CASE ~(n \in DOMAIN volatile /\ ~volatile[n].verified)
    <2>1. UNCHANGED <<journal, volatile>>
      BY <1>6 DEF MarkVerified
    <2>2. ASSUME NEW i, LastAt(journal, n, i)
          PROVE  Verified(journal, n, i)
      <3>1. n \in NodesIn(journal) /\ i \in Nat
        BY <1>1, <2>2, RecordSets DEF LastAt, NodesIn
      <3>2. /\ n \in DOMAIN volatile /\ LastAt(journal, n, volatile[n].offset)
            /\ volatile[n].verified <=> Verified(journal, n, volatile[n].offset)
            /\ volatile[n].offset \in Nat
        BY <1>3, <3>1 DEF Mirrors
      <3>3. i = volatile[n].offset
        BY <2>2, <3>1, <3>2 DEF LastAt
      <3> QED
        BY <1>6, <3>2, <3>3
    <2>3. Reported(journal, acked')
      BY <1>1, <1>4, <2>2, ReportedPromotion, Zenon
    <2> QED
      BY <1>1, <1>2, <1>3, <1>4, <2>1, <2>3, SameNodes
  <1> QED
    BY <1>5, <1>6

(* put_ratchet_key.                                                        *)
LEMMA PutRatchetKeyInv ==
  ASSUME FilesInv, RunInv, NEW n \in Node, PutRatchetKey(n)
  PROVE  RunInv'
  <1> DEFINE r == [kind |-> "ratchet", node |-> n]
             t == Append(journal, r)
  <1>1. /\ journal \in Seq(Records) /\ Clean(journal) /\ seq \in [Node -> Nat]
        /\ Ordered(journal, seq) /\ Reported(journal, acked)
        /\ \A m \in Held : seq[m] # 0
    BY Zenon DEF RunInv, DiskInv
  <1>2. /\ up /\ pc = "idle" /\ n \in DOMAIN acked /\ seq[n] = lastSeq /\ journal' = t
        /\ UNCHANGED <<generation, packFiles, ratchet, stateFile, up, pc, putting, gathered,
                       volatile, packs, state, lastSeq, seq, acked>>
    BY DEF PutRatchetKey, Idle, compaction, ghosts
  <1>3. Mirrors(volatile, journal) /\ \A m \in Node : seq[m] <= seq[n]
    BY <1>2 DEF RunInv, MemoryInv
  <1>4. n \in Held /\ DOMAIN acked' \subseteq Held /\ seq[n] # 0
    BY <1>1, <1>2 DEF Held
  <1>5. /\ r \in Records /\ r.kind = "ratchet" /\ r.node = n
        /\ \A m : r # [kind |-> "promotion", node |-> m]
    BY RecordTypes, Zenon
  <1> HIDE DEF r
  <1>6. r \notin Remains
    BY <1>5, RecordKinds
  <1>7. t \in Seq(Records) /\ Clean(t)
    BY <1>1, <1>5, <1>6, AppendRecord
  <1>8. Ordered(t, seq)
    BY <1>1, <1>3, <1>4, <1>5, <1>6, OrderedOther
  <1>9. /\ NodeRecords(t) = NodeRecords(journal) /\ NodesIn(t) = NodesIn(journal)
        /\ \A m, i : LastAt(t, m, i) <=> LastAt(journal, m, i)
        /\ \A m : \A i \in NodeRecords(journal) :
             IF r = [kind |-> "promotion", node |-> m] THEN Verified(t, m, i)
             ELSE Verified(t, m, i) <=> Verified(journal, m, i)
    BY <1>1, <1>5, AppendOther, Zenon
  <1> HIDE DEF t
  <1>10. \A m : \A i \in NodeRecords(journal) :
           Verified(t, m, i) <=> Verified(journal, m, i)
    BY <1>5, <1>9, Zenon
  <1>11. Reported(t, acked')
    BY <1>1, <1>2, <1>9, <1>10, Zenon DEF Reported
  <1>12. Mirrors(volatile', t)
    <2>1. \A m \in NodesIn(journal) : volatile[m].offset \in NodeRecords(journal)
      BY <1>3, Zenon DEF Mirrors, LastAt
    <2> QED
      BY <1>2, <1>3, <1>9, <1>10, <2>1, Zenon DEF Mirrors
  <1> QED
    BY <1>2, <1>4, <1>7, <1>8, <1>9, <1>11, <1>12, SameNodes, Zenon

-----------------------------------------------------------------------------
(* The steps of a compaction, and the saves of state.bin.                  *)

(* An empty journal.                                                       *)
LEMMA EmptyJournal ==
  /\ <<>> \in Seq(Records) /\ Clean(<<>>) /\ NodesIn(<<>>) = {}
  /\ \A sq : Ordered(<<>>, sq)
  /\ \A ak : Reported(<<>>, ak)
  /\ Mirrors(<<>>, <<>>)
  <1>1. <<>> \in Seq(Records) /\ Len(<<>>) = 0 /\ 1..0 = {} /\ DOMAIN <<>> = {}
    OBVIOUS
  <1>2. NodeRecords(<<>>) = {}
    BY <1>1 DEF NodeRecords
  <1>3. NodesIn(<<>>) = {}
    BY <1>2 DEF NodesIn
  <1>4. \A sq : Ordered(<<>>, sq)
    BY <1>1, <1>3 DEF Ordered
  <1> QED
    BY <1>1, <1>2, <1>3, <1>4, Zenon DEF Clean, Reported, Mirrors

(* set_heads, set_admin_heads and update_epoch_metadata.                   *)
LEMMA SaveStateInv ==
  ASSUME RunInv, SaveState
  PROVE  RunInv'
  <1>1. /\ stateFile' = state /\ pc = "idle" /\ up
        /\ UNCHANGED <<journal, generation, packFiles, ratchet, up, pc, putting, gathered,
                       volatile, packs, state, lastSeq, seq, acked>>
    BY DEF SaveState, Idle, compaction, memory, ghosts
  <1>2. Held' = Held
    BY <1>1 DEF Held
  <1>3. DiskInv(journal)'
    BY <1>1, <1>2, Zenon DEF RunInv, DiskInv, MemoryInv
  <1>4. MemoryInv(journal)'
    BY <1>1, <1>2, Zenon DEF RunInv, MemoryInv
  <1> QED
    BY <1>3, <1>4 DEF RunInv

(* The start of compact_internal, and its end by an error before the       *)
(* journal is truncated.                                                   *)
LEMMA CompactEdgeInv ==
  ASSUME RunInv, up, pc \in {"idle", "shadow", "truncate"}, pc' \in {"idle", "shadow"},
         putting' = {}, gathered' \in Nat,
         UNCHANGED <<journal, generation, packFiles, ratchet, stateFile, up, volatile, packs,
                     state, lastSeq, seq, acked>>
  PROVE  RunInv'
  <1>1. Held' \subseteq Held
    BY DEF Held
  <1>2. DiskInv(journal)'
    BY <1>1, Zenon DEF RunInv, DiskInv
  <1>3. MemoryInv(journal)'
    BY <1>1, Zenon DEF RunInv, MemoryInv
  <1> QED
    BY <1>2, <1>3 DEF RunInv

(* compact_internal finds no node in the journal.                          *)
LEMMA CompactNothingInv ==
  ASSUME RunInv, up, ReadAll(journal) = journal, Walked(journal) = journal, CompactNothing
  PROVE  RunInv'
  <1>1. /\ pc = "shadow" /\ pc' = "idle" /\ putting' = {} /\ gathered' = 0
        /\ NodesIn(journal) = {}
        /\ UNCHANGED <<journal, generation, packFiles, ratchet, stateFile, up, volatile,
                       packs, state, lastSeq, seq>>
        /\ DOMAIN acked' = DOMAIN acked \union putting
    BY Zenon DEF CompactNothing, CompactReturns, Acknowledge, memory
  <1>2. Held' = Held
    BY <1>1 DEF Held
  <1>3. NodeRecords(journal) = {}
    BY <1>1, Zenon DEF NodesIn
  <1>4. Reported(journal, acked')
    BY <1>3 DEF Reported
  <1>4a. /\ Reported(journal, acked)' /\ Ordered(journal, seq)'
         /\ gathered' \in Nat /\ (\A n \in Held' : seq'[n] # 0) /\ Held' \subseteq Node
    BY <1>1, <1>2, <1>4, Zenon DEF RunInv, DiskInv
  <1>5. DiskInv(journal)'
    BY <1>1, <1>2, <1>4a, Zenon DEF RunInv, DiskInv
  <1>6. MemoryInv(journal)'
    BY <1>1, <1>2, Zenon DEF RunInv, MemoryInv
  <1> QED
    BY <1>5, <1>6 DEF RunInv

(* The pack is written and named in memory.                                *)
LEMMA CompactShadowInv ==
  ASSUME FilesInv, RunInv, up, ReadAll(journal) = journal, Walked(journal) = journal,
         CompactShadow
  PROVE  RunInv'
  <1>1. PICK p \in PackOf(journal) : packFiles' = Append(packFiles, p)
    BY DEF CompactShadow
  <1>2. /\ pc = "shadow" /\ pc' = "truncate" /\ gathered' = GatheredSeq(journal)
        /\ state' = [state EXCEPT !.packs = Append(@, Len(packFiles'))]
        /\ UNCHANGED <<journal, generation, ratchet, stateFile, up, putting, volatile, packs,
                       lastSeq, seq, acked>>
    BY DEF CompactShadow, ghosts
  <1>3. /\ journal \in Seq(Records) /\ Clean(journal) /\ seq \in [Node -> Nat]
        /\ {generation, ratchet, gathered, lastSeq} \subseteq Nat
        /\ Held \subseteq Node /\ \A n \in Held : seq[n] # 0
        /\ Ordered(journal, seq) /\ Reported(journal, acked)
    BY Zenon DEF RunInv, DiskInv
  <1>4. Mirrors(volatile, journal) /\ DOMAIN volatile = NodesIn(journal)
    BY <1>2 DEF RunInv, MemoryInv, Mirrors
  <1>5. gathered' \in Nat /\ \A n \in NodesIn(journal) : seq[n] <= gathered'
    BY <1>2, <1>3, <1>4, GatheredCovers
  <1>6. p \in Pack /\ DOMAIN p = NodesIn(journal)
    BY <1>3, PackHolds
  <1>7. /\ packFiles \in Seq(Pack) /\ state \in ConvState /\ state.packs \in Seq(Nat)
        /\ Written(packFiles, stateFile.packs) /\ Written(packFiles, state.packs)
        /\ Written(packFiles, packs)
    BY DEF FilesInv, ConvState
  <1>8. /\ Len(packFiles) \in Nat /\ Len(packFiles') = Len(packFiles) + 1
        /\ packFiles'[Len(packFiles')] = p
        /\ \A ps : Written(packFiles, ps) =>
             \A n : InPacks(packFiles, ps, n) => InPacks(packFiles', ps, n)
    BY <1>1, <1>6, <1>7, PacksGrow
  <1> DEFINE k == Len(packFiles')
             qs == Append(state.packs, k)
  <1>9. k \in Nat
    BY <1>8
  <1>10. state' = [state EXCEPT !.packs = qs]
    BY <1>2
  <1> HIDE DEF k
  <1>11. /\ qs \in Seq(Nat) /\ qs # <<>> /\ qs[Len(qs)] = k
         /\ \A n : InPacks(packFiles', state.packs, n) => InPacks(packFiles', qs, n)
    BY <1>7, <1>9, PacksAppend, Zenon
  <1> HIDE DEF qs
  <1>12. state'.packs = qs /\ state'.journalId = state.journalId
    BY <1>7, <1>10 DEF ConvState
  <1>13. Held' = Held
    BY <1>2 DEF Held
  <1>14. DiskInv(journal)'
    <2>1. /\ stateFile.journalId = generation
          /\ \A n \in Held : n \in NodesIn(journal) \/ InPacks(packFiles, stateFile.packs, n)
          /\ \A n \in Node : n \in NodesIn(journal) \/ seq[n] <= ratchet
      BY <1>2 DEF RunInv, DiskInv
    <2>2. \A n \in Held : n \in NodesIn(journal) \/ InPacks(packFiles', stateFile.packs, n)
      BY <1>7, <1>8, <2>1
    <2> QED
      BY <1>2, <1>3, <1>5, <1>13, <2>1, <2>2 DEF DiskInv
  <1>15. MemoryInv(journal)'
    <2>1. /\ \A n \in Node : seq[n] <= lastSeq
          /\ state.journalId = generation
          /\ \A n \in Held : n \in NodesIn(journal) \/ InPacks(packFiles, state.packs, n)
          /\ \A n \in Held : n \in NodesIn(journal) \/ InPacks(packFiles, packs, n)
      BY <1>2 DEF RunInv, MemoryInv
    <2>2. /\ \A n \in Held : n \in NodesIn(journal) \/ InPacks(packFiles', qs, n)
          /\ \A n \in Held : n \in NodesIn(journal) \/ InPacks(packFiles', packs, n)
      BY <1>7, <1>8, <1>11, <2>1, Zenon
    <2>3. NodesIn(journal) \subseteq DOMAIN packFiles'[Len(packFiles')]
      BY <1>6, <1>8
    <2>4. state'.packs # <<>> /\ state'.packs[Len(state'.packs)] = Len(packFiles')
      BY <1>11, <1>12 DEF k
    <2> QED
      BY <1>2, <1>4, <1>5, <1>12, <1>13, <2>1, <2>2, <2>3, <2>4, Zenon DEF MemoryInv
  <1> QED
    BY <1>14, <1>15 DEF RunInv

(* The journal is truncated: the new pack holds its nodes.                 *)
LEMMA CompactTruncateInv ==
  ASSUME FilesInv, RunInv, up, CompactTruncate
  PROVE  RunInv'
  <1>1. /\ pc = "truncate" /\ pc' = "ratchet" /\ journal' = <<>>
        /\ generation' = Len(packFiles)
        /\ state' = [state EXCEPT !.journalId = Len(packFiles)]
        /\ UNCHANGED <<packFiles, ratchet, stateFile, up, putting, gathered, volatile, packs,
                       lastSeq, seq, acked>>
    BY DEF CompactTruncate, ghosts
  <1>2. Len(packFiles) \in Nat /\ state \in ConvState /\ state.packs \in Seq(Nat)
    BY DEF FilesInv, ConvState
  <1>3. state'.packs = state.packs /\ state'.journalId = generation'
    BY <1>1, <1>2 DEF ConvState
  <1>4. Held' = Held
    BY <1>1 DEF Held
  <1>5. /\ {ratchet, gathered, lastSeq} \subseteq Nat /\ seq \in [Node -> Nat]
        /\ Held \subseteq Node /\ \A n \in Held : seq[n] # 0
        /\ \A n \in Node : n \in NodesIn(journal) \/ seq[n] <= ratchet
    BY <1>1 DEF RunInv, DiskInv
  <1>6. /\ \A n \in Node : seq[n] <= lastSeq
        /\ \A n \in Held : n \in NodesIn(journal) \/ InPacks(packFiles, state.packs, n)
        /\ \A n \in Held : n \in NodesIn(journal) \/ InPacks(packFiles, packs, n)
        /\ NodesIn(journal) \subseteq DOMAIN packFiles[Len(packFiles)]
        /\ state.packs # <<>> /\ state.packs[Len(state.packs)] = Len(packFiles)
        /\ \A n \in NodesIn(journal) : seq[n] <= gathered
    BY <1>1 DEF RunInv, MemoryInv
  <1>7. \A n \in NodesIn(journal) : InPacks(packFiles, state.packs, n)
    <2>1. Len(state.packs) \in 1..Len(state.packs)
      BY <1>2, <1>6
    <2> QED
      BY <1>6, <2>1 DEF InPacks
  <1>8. DiskInv(journal)'
    BY <1>1, <1>2, <1>4, <1>5, <1>6, EmptyJournal DEF DiskInv
  <1>9. MemoryInv(journal)'
    BY <1>1, <1>3, <1>4, <1>6, <1>7 DEF MemoryInv
  <1> QED
    BY <1>8, <1>9 DEF RunInv

(* The ratchet checkpoint is saved.                                        *)
LEMMA CompactRatchetInv ==
  ASSUME RunInv, up, CompactRatchet
  PROVE  RunInv'
  <1>1. /\ pc = "ratchet" /\ pc' = "commit"
        /\ ratchet' = Max({ratchet, gathered}) /\ lastSeq' = Max({lastSeq, gathered})
        /\ UNCHANGED <<journal, generation, packFiles, stateFile, up, putting, gathered,
                       volatile, packs, state, seq, acked>>
    BY DEF CompactRatchet, ghosts
  <1>2. /\ generation \in Nat /\ ratchet \in Nat /\ gathered \in Nat /\ lastSeq \in Nat
        /\ seq \in [Node -> Nat]
    BY DEF RunInv, DiskInv
  <1>3. /\ ratchet' \in Nat /\ ratchet <= ratchet' /\ gathered <= ratchet'
        /\ lastSeq' \in Nat /\ lastSeq <= lastSeq'
    BY <1>1, <1>2, MaxPair
  <1>4. Held' = Held
    BY <1>1 DEF Held
  <1>5. /\ \A n \in Node : n \in NodesIn(journal) \/ seq[n] <= ratchet'
        /\ \A n \in Node : seq[n] <= lastSeq'
    <2>1. /\ \A n \in Node : \/ n \in NodesIn(journal) \/ seq[n] <= ratchet
                            \/ seq[n] <= gathered
          /\ \A n \in Node : seq[n] <= lastSeq
      BY Zenon DEF RunInv, DiskInv, MemoryInv
    <2> QED
      BY <1>2, <1>3, <2>1
  <1>6. DiskInv(journal)'
    BY <1>1, <1>2, <1>3, <1>4, <1>5, Zenon DEF RunInv, DiskInv
  <1>7. MemoryInv(journal)'
    BY <1>1, <1>4, <1>5, Zenon DEF RunInv, MemoryInv
  <1> QED
    BY <1>6, <1>7 DEF RunInv

(* state.bin is saved: it names the new pack.                              *)
LEMMA CompactCommitInv ==
  ASSUME RunInv, up, CompactCommit
  PROVE  RunInv'
  <1>1. /\ pc = "commit" /\ pc' = "open" /\ stateFile' = state
        /\ UNCHANGED <<journal, generation, packFiles, ratchet, up, putting, gathered,
                       volatile, packs, state, lastSeq, seq, acked>>
    BY DEF CompactCommit, memory, ghosts
  <1>2. Held' = Held
    BY <1>1 DEF Held
  <1>3. DiskInv(journal)'
    BY <1>1, <1>2, Zenon DEF RunInv, DiskInv, MemoryInv
  <1>4. MemoryInv(journal)'
    BY <1>1, <1>2, Zenon DEF RunInv, MemoryInv
  <1> QED
    BY <1>3, <1>4 DEF RunInv

(* The new pack is opened and put_node, if it waits, returns.              *)
LEMMA CompactOpenInv ==
  ASSUME FilesInv, RunInv, up, CompactOpen
  PROVE  RunInv'
  <1>1. /\ pc = "open" /\ pc' = "idle" /\ putting' = {} /\ gathered' = 0
        /\ packs' = Append(packs, Len(packFiles)) /\ volatile' = <<>>
        /\ UNCHANGED <<journal, generation, packFiles, ratchet, stateFile, up, state,
                       lastSeq, seq>>
        /\ DOMAIN acked' = DOMAIN acked \union putting
    BY DEF CompactOpen, CompactReturns, Acknowledge, disk
  <1>2. Held' = Held
    BY <1>1 DEF Held
  <1>3. journal = <<>>
    BY <1>1 DEF RunInv, MemoryInv
  <1>4. packs \in Seq(Nat) /\ Len(packFiles) \in Nat
    BY DEF FilesInv
  <1>5. \A n \in Held : InPacks(packFiles, packs', n)
    <2> DEFINE k == Len(packFiles)
    <2>1. \A n \in Held : InPacks(packFiles, packs, n) \/ n \in DOMAIN packFiles[k]
      BY <1>1, <1>3, EmptyJournal DEF RunInv, MemoryInv
    <2>2. k \in Nat /\ packs' = Append(packs, k)
      BY <1>1, <1>4
    <2> HIDE DEF k
    <2> QED
      BY <1>4, <2>1, <2>2, PacksAppend, Zenon
  <1>6. DiskInv(journal)'
    BY <1>1, <1>2, <1>3, EmptyJournal, SMTT(20) DEF RunInv, DiskInv
  <1>7. MemoryInv(journal)'
    BY <1>1, <1>2, <1>3, <1>5, EmptyJournal, SMTT(20) DEF RunInv, MemoryInv
  <1> QED
    BY <1>6, <1>7 DEF RunInv

-----------------------------------------------------------------------------
(* The end of the process and its next start.                              *)

(* A crash or a shutdown: what the walk will accept is the journal as it   *)
(* was.                                                                    *)
LEMMA StopInv ==
  ASSUME RunInv, ~up', pc \notin {"ratchet", "commit"}, pc' = "idle",
         \/ journal' = journal
         \/ \E r \in [kind : {"torn", "footer"}] : journal' = Append(journal, r),
         putting' \subseteq putting, gathered' \in Nat, lastSeq' = 0,
         UNCHANGED <<generation, packFiles, ratchet, stateFile, seq, acked>>
  PROVE  DiskInv(ReadAll(journal))'
  <1>1. /\ journal \in Seq(Records) /\ Clean(journal)
        /\ {generation, ratchet} \subseteq Nat /\ seq \in [Node -> Nat]
        /\ Held \subseteq Node /\ \A n \in Held : seq[n] # 0
        /\ Ordered(journal, seq) /\ Reported(journal, acked)
        /\ \A n \in Node : n \in NodesIn(journal) \/ seq[n] <= ratchet
        /\ stateFile.journalId = generation
        /\ \A n \in Held : n \in NodesIn(journal) \/ InPacks(packFiles, stateFile.packs, n)
    BY Zenon DEF RunInv, DiskInv
  <1>2. ReadAll(journal') = journal
    <2>1. CASE journal' = journal
      BY <1>1, <2>1, WalkClean
    <2>2. ASSUME NEW r \in [kind : {"torn", "footer"}], journal' = Append(journal, r)
          PROVE  ReadAll(journal') = journal
      <3>1. ReadAll(Append(journal, r)) = journal
        BY <1>1, WalkTail
      <3> QED
        BY <2>2, <3>1
    <2> QED
      BY <2>1, <2>2
  <1>3. Held' \subseteq Held
    BY DEF Held
  <1>4. \/ journal' = ReadAll(journal')
        \/ ~up' /\ \E r \in [kind : {"torn", "footer"}] :
                     journal' = Append(ReadAll(journal'), r)
    BY <1>2, Zenon
  <1>5. ReadAll(journal)' = journal
    BY <1>2
  <1>6. /\ {generation', ratchet', gathered', lastSeq'} \subseteq Nat
        /\ Held' \subseteq Node /\ \A n \in Held' : seq'[n] # 0
        /\ \A n \in Held' : n \in NodesIn(journal) \/ InPacks(packFiles', stateFile'.packs, n)
    BY <1>1, <1>3
  <1> QED
    BY <1>1, <1>4, <1>5, <1>6 DEF DiskInv

(* ensure_conversation and replay_journal.                                 *)
LEMMA ReopenInv ==
  ASSUME FilesInv, ~up, DiskInv(ReadAll(journal)), Reopen
  PROVE  RunInv'
  <1> DEFINE j == ReadAll(journal)
  <1>1. /\ j \in Seq(Records) /\ Clean(j)
        /\ journal = j \/ \E r \in [kind : {"torn", "footer"}] : journal = Append(j, r)
        /\ {generation, ratchet, gathered} \subseteq Nat /\ seq \in [Node -> Nat]
        /\ Held \subseteq Node /\ \A n \in Held : seq[n] # 0
        /\ Ordered(j, seq) /\ Reported(j, acked)
    BY Zenon DEF DiskInv
  <1>2. /\ pc = "idle" /\ stateFile.journalId = generation
        /\ \A n \in Node : n \in NodesIn(j) \/ seq[n] <= ratchet
        /\ \A n \in Held : n \in NodesIn(j) \/ InPacks(packFiles, stateFile.packs, n)
    BY Zenon DEF DiskInv, FilesInv
  <1>3. /\ up' = TRUE /\ state' = stateFile /\ packs' = stateFile.packs
        /\ journal' = Walked(journal) /\ UNCHANGED generation
        /\ volatile' = Replayed(ReadAll(journal'))
        /\ lastSeq' = Max({ratchet, HighestSeq(NodesIn(ReadAll(journal')))})
        /\ UNCHANGED <<packFiles, ratchet, stateFile, pc, putting, gathered, seq, acked>>
    BY <1>2 DEF Reopen, compaction, ghosts
  <1> HIDE DEF j
  <1>4. Walked(journal) = j /\ ReadAll(j) = j
    <2>1. ReadAll(j) = j /\ Walked(j) = j
      BY <1>1, WalkClean
    <2>2. ASSUME NEW r \in [kind : {"torn", "footer"}], journal = Append(j, r)
          PROVE  Walked(journal) = j
      <3>1. Walked(Append(j, r)) = j
        BY <1>1, WalkTail
      <3> QED
        BY <2>2, <3>1
    <2> QED
      BY <1>1, <2>1, <2>2
  <1>5. journal' = j /\ volatile' = Replayed(j) /\ lastSeq' = Max({ratchet, HighestSeq(NodesIn(j))})
    BY <1>3, <1>4
  <1>6. Mirrors(volatile', j)
    BY <1>1, <1>5, ReplayMirrors
  <1>7. /\ HighestSeq(NodesIn(j)) \in Nat
        /\ \A n \in NodesIn(j) : seq[n] <= HighestSeq(NodesIn(j))
    BY <1>1, RecordSets, HighestSeqBounds
  <1>8. lastSeq' \in Nat /\ ratchet <= lastSeq' /\ HighestSeq(NodesIn(j)) <= lastSeq'
    BY <1>1, <1>5, <1>7, MaxPair
  <1>9. \A n \in Node : seq[n] <= lastSeq'
    BY <1>1, <1>2, <1>7, <1>8
  <1>10. Held' = Held
    BY <1>3 DEF Held
  <1>11. DiskInv(journal)'
    BY <1>1, <1>2, <1>3, <1>5, <1>8, <1>10, Zenon DEF DiskInv
  <1>12. MemoryInv(journal)'
    BY <1>2, <1>3, <1>5, <1>6, <1>9, <1>10, Zenon DEF MemoryInv
  <1> QED
    BY <1>11, <1>12 DEF RunInv

-----------------------------------------------------------------------------
(* The invariant is inductive.  It holds of the empty store that open      *)
(* creates: no journal record, no pack, no node acknowledged.              *)
LEMMA StoreInitInv ==
  ASSUME StoreInit
  PROVE  StoreInv
  <1>1. /\ journal = <<>> /\ generation = 0 /\ packFiles = <<>> /\ ratchet = 0
        /\ stateFile = [packs |-> <<>>, journalId |-> 0] /\ state = stateFile
        /\ up = TRUE /\ pc = "idle" /\ putting = {} /\ gathered = 0
        /\ volatile = <<>> /\ packs = <<>> /\ lastSeq = 0
        /\ seq = [n \in Node |-> 0] /\ acked = <<>> /\ exposed = FALSE
    BY DEF StoreInit
  <1>2. Held = {}
    BY <1>1 DEF Held
  <1>3. FilesInv
    <2>1. stateFile \in ConvState /\ stateFile.packs = <<>>
      BY <1>1 DEF ConvState
    <2>2. \A F : Written(F, <<>>)
      BY DEF Written
    <2>3. journal \in Seq(Records) /\ packFiles \in Seq(Pack) /\ packs \in Seq(Nat)
      BY <1>1
    <2> QED
      BY <1>1, <2>1, <2>2, <2>3, Zenon DEF FilesInv
  <1>4. ReadAll(journal) = journal
    BY <1>1, EmptyJournal, WalkClean
  <1>5. DiskInv(journal)
    BY <1>1, <1>2, EmptyJournal DEF DiskInv
  <1>6. MemoryInv(journal)
    BY <1>1, <1>2, EmptyJournal DEF MemoryInv
  <1> QED
    BY <1>3, <1>4, <1>5, <1>6 DEF StoreInv

(* Every step of the store keeps the invariant.                            *)
LEMMA StoreNextInv ==
  ASSUME StoreInv, [Next]_vars
  PROVE  StoreInv'
  <1>1. FilesInv /\ FilesInv'
    BY FilesNext DEF StoreInv
  <1>2. ~up => pc = "idle"
    BY <1>1 DEF FilesInv
  <1>3. up /\ ~exposed => RunInv /\ ReadAll(journal) = journal /\ Walked(journal) = journal
    BY Running
  <1>4. (~exposed' => RunInv') => StoreInv'
    BY <1>1, Resumes
  <1>5. CASE \E n \in Node, verified \in BOOLEAN : PutNode(n, verified)
    <2>1. PICK n \in Node, v \in BOOLEAN : PutNode(n, v)
      BY <1>5
    <2>2. up /\ exposed' = exposed
      BY <2>1 DEF PutNode, Idle
    <2> QED
      BY <1>1, <1>3, <1>4, <2>1, <2>2, PutNodeInv
  <1>6. CASE \E n \in Node : MarkVerified(n) \/ PutRatchetKey(n)
    <2>1. PICK n \in Node : MarkVerified(n) \/ PutRatchetKey(n)
      BY <1>6
    <2>2. up /\ exposed' = exposed
      BY <2>1 DEF MarkVerified, PutRatchetKey, Idle, ghosts
    <2> QED
      BY <1>1, <1>3, <1>4, <2>1, <2>2, MarkVerifiedInv, PutRatchetKeyInv
  <1>7. CASE SaveState
    <2>1. up /\ exposed' = exposed
      BY <1>7 DEF SaveState, Idle, ghosts
    <2> QED
      BY <1>3, <1>4, <1>7, <2>1, SaveStateInv
  <1>8. CASE AppendFails
    BY <1>4, <1>8 DEF AppendFails
  <1>9. CASE Compact
    <2>1. /\ up /\ exposed' = exposed /\ pc = "idle" /\ pc' = "shadow" /\ putting' = {}
          /\ UNCHANGED <<journal, generation, packFiles, ratchet, stateFile, up, volatile,
                         packs, state, lastSeq, seq, acked, gathered>>
      BY <1>9 DEF Compact, Idle, disk, memory, ghosts
    <2>2. RunInv => gathered' \in Nat
      BY <2>1, Zenon DEF RunInv, DiskInv
    <2> QED
      BY <1>3, <1>4, <2>1, <2>2, CompactEdgeInv
  <1>10. CASE CompactNothing
    <2>1. up /\ exposed' = exposed
      BY <1>2, <1>10 DEF CompactNothing
    <2> QED
      BY <1>3, <1>4, <1>10, <2>1, CompactNothingInv
  <1>11. CASE CompactShadow
    <2>1. up /\ exposed' = exposed
      BY <1>2, <1>11 DEF CompactShadow, ghosts
    <2> QED
      BY <1>1, <1>3, <1>4, <1>11, <2>1, CompactShadowInv
  <1>12. CASE CompactTruncate
    <2>1. up /\ exposed' = exposed
      BY <1>2, <1>12 DEF CompactTruncate, ghosts
    <2> QED
      BY <1>1, <1>3, <1>4, <1>12, <2>1, CompactTruncateInv
  <1>13. CASE CompactRatchet
    <2>1. up /\ exposed' = exposed
      BY <1>2, <1>13 DEF CompactRatchet, ghosts
    <2> QED
      BY <1>3, <1>4, <1>13, <2>1, CompactRatchetInv
  <1>14. CASE CompactCommit
    <2>1. up /\ exposed' = exposed
      BY <1>2, <1>14 DEF CompactCommit, ghosts
    <2> QED
      BY <1>3, <1>4, <1>14, <2>1, CompactCommitInv
  <1>15. CASE CompactOpen
    <2>1. up /\ exposed' = exposed
      BY <1>2, <1>15 DEF CompactOpen
    <2> QED
      BY <1>1, <1>3, <1>4, <1>15, <2>1, CompactOpenInv
  <1>16. CASE CompactFails
    <2>1. /\ up /\ exposed' = (exposed \/ pc \in {"ratchet", "commit", "open"})
          /\ pc' = "idle" /\ putting' = {} /\ gathered' = 0
          /\ UNCHANGED <<journal, generation, packFiles, ratchet, stateFile, up, volatile,
                         packs, state, lastSeq, seq, acked>>
      BY <1>16 DEF CompactFails, disk, memory
    <2>2. ~exposed' => ~exposed /\ pc \in {"idle", "shadow", "truncate"}
      BY <1>1, <2>1, Zenon DEF FilesInv
    <2> QED
      BY <1>3, <1>4, <2>1, <2>2, CompactEdgeInv
  <1>17. CASE Crash
    <2>1. /\ up /\ ~up' /\ exposed' = (exposed \/ pc \in {"ratchet", "commit"})
          /\ journal' = journal \/ journal' = Append(journal, [kind |-> "torn"])
          /\ pc' = "idle" /\ putting' = {} /\ gathered' = 0 /\ lastSeq' = 0
          /\ UNCHANGED <<generation, packFiles, ratchet, stateFile, seq, acked>>
      BY <1>17 DEF Crash
    <2>2. [kind |-> "torn"] \in [kind : {"torn", "footer"}]
      OBVIOUS
    <2>3. \/ journal' = journal
          \/ \E r \in [kind : {"torn", "footer"}] : journal' = Append(journal, r)
      BY <2>1, <2>2, Zenon
    <2>4. ~exposed' => ~exposed /\ pc \notin {"ratchet", "commit"}
      BY <2>1, Zenon
    <2>5. ~exposed' => DiskInv(ReadAll(journal))'
      BY <1>3, <2>1, <2>3, <2>4, StopInv
    <2> QED
      BY <1>1, <2>1, <2>5 DEF StoreInv
  <1>18. CASE Shutdown
    <2>1. /\ up /\ ~up' /\ pc = "idle" /\ lastSeq' = 0 /\ exposed' = exposed
          /\ journal' = Append(Walked(journal), [kind |-> "footer"])
          /\ UNCHANGED <<generation, packFiles, ratchet, stateFile, seq, acked, pc, putting,
                         gathered>>
      BY <1>18 DEF Shutdown, Idle, compaction, ghosts
    <2>2. [kind |-> "footer"] \in [kind : {"torn", "footer"}]
      OBVIOUS
    <2>3. ~exposed' => \E r \in [kind : {"torn", "footer"}] : journal' = Append(journal, r)
      BY <1>3, <2>1, <2>2, Zenon
    <2>4. RunInv => gathered' \in Nat
      BY <2>1 DEF RunInv, DiskInv
    <2>5. ~exposed' => DiskInv(ReadAll(journal))'
      BY <1>3, <2>1, <2>3, <2>4, StopInv
    <2> QED
      BY <1>1, <2>1, <2>5 DEF StoreInv
  <1>19. CASE Reopen
    <2>1. ~up /\ exposed' = exposed
      BY <1>19 DEF Reopen, ghosts
    <2>2. ~exposed => DiskInv(ReadAll(journal))
      BY DEF StoreInv
    <2> QED
      BY <1>1, <1>4, <1>19, <2>1, <2>2, ReopenInv
  <1>20. CASE UNCHANGED vars
    <2>1. UNCHANGED <<journal, generation, packFiles, ratchet, stateFile, up, pc, putting,
                      gathered, volatile, packs, state, lastSeq, seq, acked, exposed>>
      BY <1>20 DEF vars, disk, compaction, memory, ghosts
    <2>2. Held' = Held
      BY <2>1 DEF Held
    <2> QED
      BY <1>1, <2>1, <2>2, Zenon DEF StoreInv, DiskInv, MemoryInv
  <1> QED
    BY <1>5, <1>6, <1>7, <1>8, <1>9, <1>10, <1>11, <1>12, <1>13, <1>14, <1>15, <1>16,
       <1>17, <1>18, <1>19, <1>20 DEF Next

-----------------------------------------------------------------------------

(* What the files and the memory of the store hold, in every state: the    *)
(* journal and the packs that state.bin names lead to every node reported  *)
(* stored, and volatile_nodes is what a replay of the journal would give.  *)
THEOREM StoreInvariant == Spec => []StoreInv
  <1>1. StoreInit => StoreInv
    BY StoreInitInv
  <1>2. StoreInv /\ [Next]_vars => StoreInv'
    BY StoreNextInv
  <1> QED
    BY <1>1, <1>2, PTL DEF Spec

(* A node whose put_node returned can be read back: from the journal, at   *)
(* the offset volatile_nodes has for it, or from a pack that is open.      *)
THEOREM StoreDurable == Spec => []NodesDurable
  <1>1. StoreInv => NodesDurable
    <2> SUFFICES ASSUME StoreInv, Idle, ~exposed, NEW n \in DOMAIN acked
                 PROVE  Readable(n)
      BY DEF NodesDurable
    <2>1. up /\ pc = "idle" /\ RunInv
      BY Running DEF Idle
    <2>2. Mirrors(volatile, journal) /\ journal \in Seq(Records)
      BY <2>1, Zenon DEF RunInv, DiskInv, MemoryInv
    <2>3. n \in NodesIn(journal) \/ InPacks(packFiles, packs, n)
      BY <2>1, Zenon DEF RunInv, MemoryInv, Held
    <2>4. CASE n \in DOMAIN volatile
      <3>1. LastAt(journal, n, volatile[n].offset)
        BY <2>2, <2>4 DEF Mirrors
      <3>2. volatile[n].offset \in 1..Len(journal) /\ Len(journal) \in Nat
        BY <2>2, <3>1, RecordSets DEF LastAt
      <3> QED
        BY <2>4, <3>1, <3>2, SMTT(20) DEF Readable, LastAt, NodeRecords
    <2>5. CASE n \notin DOMAIN volatile
      <3>1. n \notin NodesIn(journal)
        BY <2>2, <2>5 DEF Mirrors
      <3> QED
        BY <2>3, <2>5, <3>1 DEF Readable, InPacks
    <2> QED
      BY <2>4, <2>5
  <1> QED
    BY <1>1, StoreInvariant, PTL

(* The sequence number that get_last_sequence_number returns is at least   *)
(* that of every node reported stored.                                     *)
THEOREM StoreSequence == Spec => []SequenceCovered
  <1>1. StoreInv => SequenceCovered
    <2> SUFFICES ASSUME StoreInv, Idle, ~exposed, NEW n \in DOMAIN acked
                 PROVE  seq[n] <= lastSeq
      BY DEF SequenceCovered
    <2>1. RunInv
      BY Running DEF Idle
    <2> QED
      BY <2>1, Zenon DEF RunInv, DiskInv, MemoryInv, Held
  <1> QED
    BY <1>1, StoreInvariant, PTL

(* Every pack that state.bin names is completely written, whatever failed  *)
(* or crashed before.                                                      *)
THEOREM StoreReopens == Spec => []Reopens
  <1>1. StoreInv => Reopens
    BY DEF StoreInv, FilesInv, Written, Reopens, CanReopen
  <1> QED
    BY <1>1, StoreInvariant, PTL

(* The status of a node in the journal is one that put_node or             *)
(* mark_verified reported last, or that of a put_node that did not return. *)
THEOREM StoreStatus == Spec => []StatusReplayed
  <1>1. StoreInv => StatusReplayed
    <2> SUFFICES ASSUME StoreInv, Idle, ~exposed,
                        NEW n \in DOMAIN acked, n \in DOMAIN volatile
                 PROVE  volatile[n].verified \in acked[n]
      BY DEF StatusReplayed
    <2>1. up /\ pc = "idle" /\ RunInv
      BY Running DEF Idle
    <2> DEFINE i == volatile[n].offset
    <2>2. /\ volatile[n] \in [offset : Nat, verified : BOOLEAN] /\ LastAt(journal, n, i)
          /\ volatile[n].verified <=> Verified(journal, n, i)
      BY <2>1, Zenon DEF RunInv, MemoryInv, Mirrors
    <2>3. IF Verified(journal, n, i) THEN TRUE \in acked[n] ELSE FALSE \in acked[n]
      BY <2>1, <2>2, Zenon DEF RunInv, DiskInv, Reported, LastAt
    <2> HIDE DEF i
    <2>4. volatile[n].verified \in BOOLEAN
      BY <2>2, Zenon
    <2>5. CASE volatile[n].verified = TRUE
      BY <2>2, <2>3, <2>5, Zenon
    <2>6. CASE volatile[n].verified = FALSE
      BY <2>2, <2>3, <2>6, Zenon
    <2> QED
      BY <2>4, <2>5, <2>6, Zenon
  <1> QED
    BY <1>1, StoreInvariant, PTL
=============================================================================
