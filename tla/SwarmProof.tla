----------------------------- MODULE SwarmProof -----------------------------
(***************************************************************************)
(* The download of a blob asks for what is missing, from seeders, four     *)
(* fetches at a time, and announces only what is on disk, for any number   *)
(* of chunks and peers, any limits and any number of faults.               *)
(*                                                                         *)
(* FetchesUseful rests on next_requests: the slots it hands out are ranked *)
(* without gaps, so that every rank below their number names one slot and  *)
(* two chunks never get the same one.  AnnouncedComplete rests on what the *)
(* tracker may believe: while no write failed, a download under way has an *)
(* info, and the chunks its tracker holds are in the file, but for those   *)
(* that came in slices too short for them.                                 *)
(***************************************************************************)
EXTENDS Swarm, FiniteSetTheorems, TLAPS

(* The chunks of R are in the file, but for the short ones.                *)
Filed(R) == \A c \in R \ short : PiecesOf(c) \subseteq stored

(* While no write failed, what ChunkTracker counts as received is in the   *)
(* file, and an announced blob is complete and marked Available, but for   *)
(* the short chunks.                                                       *)
TrackerTrue ==
  fails = 0 => /\ syncing => Filed(received) /\ status # "None"
               /\ announced => Filed(Chunks) /\ status = "Available"

(* The inductive invariant. *)
SwarmInv == SwarmTypeOK /\ FetchesUseful /\ TrackerTrue

(* The constants, as the provers need them.                                *)
LEMMA SwarmConstants ==
  /\ MaxPerPeer \in Nat /\ MaxPerPeer >= 1 /\ FetchTimeout \in Nat /\ FetchTimeout >= 1
  /\ MaxRequests \in Nat /\ MaxAvails \in Nat /\ MaxFaults \in Nat
  /\ NumChunks \in Nat /\ Masks \subseteq SUBSET Chunks /\ Peers \subseteq Nat
  BY SwarmAssumption

(* The chunks of a blob are finitely many numbers.                         *)
LEMMA ChunksFinite ==
  /\ IsFiniteSet(Chunks) /\ Chunks \subseteq Nat
  /\ \A S : S \subseteq Chunks => IsFiniteSet(S) /\ Cardinality(S) \in Nat
  <1>1. IsFiniteSet(Chunks)
    <2>1. 0 \in Int /\ NumChunks - 1 \in Int
      BY SwarmConstants
    <2> QED
      BY <2>1, FS_Interval DEF Chunks
  <1>2. Chunks \subseteq Nat
    BY SwarmConstants DEF Chunks
  <1>3. ASSUME NEW S, S \subseteq Chunks PROVE IsFiniteSet(S) /\ Cardinality(S) \in Nat
    BY <1>1, <1>3, FS_Subset, FS_CardinalityType
  <1> QED
    BY <1>1, <1>2, <1>3

-----------------------------------------------------------------------------
(* A strictly smaller set has fewer elements.                              *)
LEMMA StrictSubset ==
  ASSUME NEW S, IsFiniteSet(S), NEW T, T \subseteq S, NEW x \in S, x \notin T
  PROVE  Cardinality(T) \in Nat /\ Cardinality(S) \in Nat /\ Cardinality(T) < Cardinality(S)
  <1>1. /\ IsFiniteSet(T) /\ Cardinality(T) <= Cardinality(S)
        /\ Cardinality(S) = Cardinality(T) => S = T
    BY FS_Subset
  <1>2. Cardinality(T) \in Nat /\ Cardinality(S) \in Nat
    BY <1>1, FS_CardinalityType
  <1> QED
    BY <1>1, <1>2

(* The rank of an element of a finite set under a strict total order: how  *)
(* many come before it.  SlotRank is the one next_requests gives the free  *)
(* slots, ChunkRank the one it gives the missing chunks.                   *)
SlotRank(S, s) == Cardinality({t \in S : Before(t, s)})
ChunkRank(M, c) == Cardinality({d \in M : d < c})

SlotAt(S, k) == CHOOSE s \in S : SlotRank(S, s) = k

(* Of two missing chunks the lower one is asked for first.                 *)
LEMMA ChunkRankDistinct ==
  ASSUME NEW M, M \subseteq Chunks, NEW c \in M, NEW d \in M, c # d
  PROVE  ChunkRank(M, c) # ChunkRank(M, d)
  <1>1. ASSUME NEW x \in M, NEW y \in M, x < y
        PROVE  ChunkRank(M, x) \in Nat /\ ChunkRank(M, y) \in Nat /\ ChunkRank(M, x) < ChunkRank(M, y)
    <2> DEFINE X == {e \in M : e < x}
               Y == {e \in M : e < y}
    <2>1. IsFiniteSet(Y)
      BY ChunksFinite, Zenon
    <2>m. M \subseteq Nat
      BY ChunksFinite
    <2>2. X \subseteq Y /\ x \in Y /\ x \notin X
      <3>1. x \in Nat /\ y \in Nat /\ x < y
        BY <1>1, <2>m
      <3>2. ASSUME NEW e \in M, e < x PROVE e < y
        BY <2>m, <3>1, <3>2
      <3>3. ~(x < x)
        BY <3>1
      <3> QED
        BY <3>1, <3>2, <3>3, Zenon
    <2>3. Cardinality(X) \in Nat /\ Cardinality(Y) \in Nat /\ Cardinality(X) < Cardinality(Y)
      BY <2>1, <2>2, StrictSubset
    <2> QED
      BY <2>3 DEF ChunkRank
  <1>2. c < d \/ d < c
    BY ChunksFinite
  <1> QED
    BY <1>1, <1>2

(* The order of the slots, by load and then by key, is strict and total.   *)
LEMMA BeforeOrder ==
  ASSUME NEW s \in Nat \X Nat, NEW t \in Nat \X Nat, NEW u \in Nat \X Nat
  PROVE  /\ ~Before(s, s)
         /\ Before(s, t) /\ Before(t, u) => Before(s, u)
         /\ s # t => Before(s, t) \/ Before(t, s)
  BY DEF Before

(* Every rank below the number of free slots belongs to exactly one slot:  *)
(* what SlotAt chooses exists.                                             *)
LEMMA SlotRanks ==
  ASSUME NEW S, IsFiniteSet(S), S \subseteq Nat \X Nat,
         NEW k \in Nat, k < Cardinality(S)
  PROVE  SlotAt(S, k) \in S /\ SlotRank(S, SlotAt(S, k)) = k
  <1> DEFINE n == Cardinality(S)
             r == [s \in S |-> SlotRank(S, s)]
  <1>n. n \in Nat
    BY FS_CardinalityType
  <1>1. ASSUME NEW s \in S PROVE SlotRank(S, s) \in 0 .. n - 1
    <2> DEFINE B == {t \in S : Before(t, s)}
    <2>1. B \subseteq S /\ s \notin B
      BY BeforeOrder
    <2>2. Cardinality(B) \in Nat /\ Cardinality(B) < n
      BY <2>1, StrictSubset
    <2> QED
      BY <2>2, <1>n DEF SlotRank
  <1>2. ASSUME NEW s \in S, NEW t \in S, Before(s, t)
        PROVE  SlotRank(S, s) # SlotRank(S, t)
    <2> DEFINE A == {u \in S : Before(u, s)}
               B == {u \in S : Before(u, t)}
    <2>1. IsFiniteSet(B)
      BY FS_Subset
    <2>2. A \subseteq B /\ s \in B /\ s \notin A
      BY <1>2, BeforeOrder
    <2>3. Cardinality(A) \in Nat /\ Cardinality(B) \in Nat /\ Cardinality(A) < Cardinality(B)
      BY <2>1, <2>2, StrictSubset
    <2> QED
      BY <2>3 DEF SlotRank
  <1>3. r \in Injection(S, 0 .. n - 1)
    <2>1. r \in [S -> 0 .. n - 1]
      BY <1>1
    <2>2. ASSUME NEW s \in S, NEW t \in S, r[s] = r[t] PROVE s = t
      BY <1>2, <2>2, BeforeOrder
    <2> QED
      BY <2>1, <2>2 DEF Injection, IsInjective
  <1>4. r \in Surjection(S, 0 .. n - 1)
    <2>1. 0 \in Int /\ n - 1 \in Int
      BY <1>n
    <2>2. IsFiniteSet(0 .. n - 1) /\ Cardinality(0 .. n - 1) = n
      BY <2>1, <1>n, FS_Interval
    <2> QED
      BY <1>3, <2>2, FS_Injection
  <1>5. \E s \in S : SlotRank(S, s) = k
    <2>1. k \in 0 .. n - 1
      BY <1>n
    <2> QED
      BY <1>4, <2>1, Zenon DEF Surjection
  <1> QED
    BY <1>5 DEF SlotAt

-----------------------------------------------------------------------------
(* The loads of the peers *)

(* The fetches in flight with a peer are finitely many.                    *)
LEMMA LoadNat ==
  ASSUME NEW f, DOMAIN f \subseteq Chunks, NEW p
  PROVE  /\ Load(f, p) \in Nat
         /\ IsFiniteSet({c \in DOMAIN f : f[c].peer = p})
  BY ChunksFinite DEF Load

(* Fetches that go, by a timeout, an answer or with their seeder, leave no *)
(* peer with more of them.                                                 *)
LEMMA RestrictLoad ==
  ASSUME NEW f, DOMAIN f \subseteq Chunks, NEW K, K \subseteq DOMAIN f, NEW p
  PROVE  /\ DOMAIN Restrict(f, K) = K
         /\ \A c \in K : Restrict(f, K)[c] = f[c]
         /\ Load(Restrict(f, K), p) <= Load(f, p)
  <1> DEFINE A == {c \in DOMAIN f : f[c].peer = p}
             g == Restrict(f, K)
             B == {c \in DOMAIN g : g[c].peer = p}
  <1>1. DOMAIN g = K /\ \A c \in K : g[c] = f[c]
    BY DEF Restrict
  <1>2. B \subseteq A
    BY <1>1
  <1>3. IsFiniteSet(A)
    BY LoadNat, Zenon
  <1>4. Cardinality(B) <= Cardinality(A)
    BY <1>2, <1>3, FS_Subset
  <1> QED
    BY <1>1, <1>4 DEF Load

(* What next_requests returns, with its ranks by name.                     *)
Missing(f) == Chunks \ (received \union DOMAIN f)
Asked(f) == {c \in Missing(f) : /\ ChunkRank(Missing(f), c) < MaxRequests
                                /\ ChunkRank(Missing(f), c) < Cardinality(Slots(f))}

LEMMA NextRequestsIs ==
  ASSUME NEW f
  PROVE  NextRequests(f) =
           [c \in Asked(f) |->
              [peer |-> SlotAt(Slots(f), ChunkRank(Missing(f), c))[2], age |-> 0]]
  BY DEF NextRequests, Asked, Missing, ChunkRank, SlotAt, SlotRank

(* The free slots are finitely many pairs of a load and a seeder's key.    *)
LEMMA SlotsFinite ==
  ASSUME NEW f, seeders \subseteq Peers
  PROVE  /\ IsFiniteSet(Slots(f)) /\ Slots(f) \subseteq Nat \X Nat
         /\ Slots(f) \subseteq (0..MaxPerPeer - 1) \X seeders
  <1>1. Slots(f) \subseteq (0..MaxPerPeer - 1) \X seeders
    BY DEF Slots
  <1>2. 0..MaxPerPeer - 1 \subseteq Nat /\ seeders \subseteq Nat
    BY SwarmConstants
  <1>3. IsFiniteSet(0..MaxPerPeer - 1)
    <2>1. 0 \in Int /\ MaxPerPeer - 1 \in Int
      BY SwarmConstants
    <2> QED
      BY <2>1, FS_Interval
  <1>4. IsFiniteSet(seeders)
    BY SwarmAssumption, FS_Subset, Zenon
  <1>5. IsFiniteSet((0..MaxPerPeer - 1) \X seeders)
    BY <1>3, <1>4, FS_Product, Zenon
  <1>6. IsFiniteSet(Slots(f))
    BY <1>1, <1>5, FS_Subset
  <1>7. Slots(f) \subseteq Nat \X Nat
    BY <1>1, <1>2, Zenon
  <1> QED
    BY <1>1, <1>6, <1>7

(* Each chunk next_requests asks for gets a free slot of its own.          *)
LEMMA AskedSlots ==
  ASSUME NEW f, seeders \subseteq Peers
  PROVE  /\ \A c \in Asked(f) : SlotAt(Slots(f), ChunkRank(Missing(f), c)) \in Slots(f)
         /\ \A c, d \in Asked(f) : c # d =>
               SlotAt(Slots(f), ChunkRank(Missing(f), c))
                 # SlotAt(Slots(f), ChunkRank(Missing(f), d))
  <1> DEFINE S == Slots(f)
             M == Missing(f)
             at(c) == SlotAt(S, ChunkRank(M, c))
  <1>1. M \subseteq Chunks
    BY DEF Missing
  <1>2. ASSUME NEW c \in Asked(f) PROVE at(c) \in S /\ SlotRank(S, at(c)) = ChunkRank(M, c)
    <2>1. ChunkRank(M, c) \in Nat
      BY <1>1, ChunksFinite DEF ChunkRank
    <2>2. ChunkRank(M, c) < Cardinality(S)
      BY DEF Asked
    <2>3. IsFiniteSet(S) /\ S \subseteq Nat \X Nat
      BY SlotsFinite
    <2> HIDE DEF S, M
    <2> QED
      BY <2>1, <2>2, <2>3, SlotRanks
  <1>3. ASSUME NEW c \in Asked(f), NEW d \in Asked(f), c # d PROVE at(c) # at(d)
    <2>1. ChunkRank(M, c) # ChunkRank(M, d)
      BY <1>1, <1>3, ChunkRankDistinct DEF Asked
    <2> QED
      BY <1>2, <2>1
  <1> QED
    BY <1>2, <1>3

(* With the fetches next_requests adds, no peer has more than the limit.   *)
LEMMA RequestsLoad ==
  ASSUME NEW f, DOMAIN f \subseteq Chunks, seeders \subseteq Peers,
         NEW p \in Peers, Load(f, p) <= MaxPerPeer
  PROVE  Load(Joined(f, NextRequests(f)), p) <= MaxPerPeer
  <1> DEFINE at(c) == SlotAt(Slots(f), ChunkRank(Missing(f), c))
             g == Joined(f, NextRequests(f))
             A == {c \in DOMAIN f : f[c].peer = p}
             B == {c \in Asked(f) : at(c)[2] = p}
             low == Load(f, p)
             free == low .. MaxPerPeer - 1
             h == [c \in B |-> at(c)[1]]
  <1>1. low \in Nat /\ IsFiniteSet(A) /\ low = Cardinality(A)
    BY LoadNat, Zenon DEF Load
  <1>2. {c \in DOMAIN g : g[c].peer = p} = A \union B
    <2>1. /\ DOMAIN NextRequests(f) = Asked(f)
          /\ \A c \in Asked(f) : NextRequests(f)[c].peer = at(c)[2]
      BY NextRequestsIs
    <2>2. /\ DOMAIN g = DOMAIN f \union Asked(f)
          /\ \A c \in DOMAIN f : g[c] = f[c]
          /\ \A c \in Asked(f) \ DOMAIN f : g[c] = NextRequests(f)[c]
      BY <2>1 DEF Joined
    <2>3. Asked(f) \cap DOMAIN f = {}
      BY DEF Asked, Missing
    <2> HIDE DEF g, at
    <2> QED
      BY <2>1, <2>2, <2>3
  <1>3. ASSUME NEW c \in B
        PROVE  at(c) \in Slots(f) /\ at(c)[1] \in free /\ at(c)[2] = p
               /\ at(c) = <<at(c)[1], p>>
    <2>1. at(c) \in Slots(f) /\ at(c)[2] = p
      BY AskedSlots
    <2>2. /\ at(c) \in (0..MaxPerPeer - 1) \X seeders
          /\ at(c)[1] >= Load(f, at(c)[2])
      BY <2>1 DEF Slots
    <2> HIDE DEF at
    <2> QED
      BY <2>1, <2>2, <1>1, SwarmConstants
  <1>4. h \in Injection(B, free)
    <2>1. h \in [B -> free]
      BY <1>3
    <2>2. ASSUME NEW c \in B, NEW d \in B, h[c] = h[d] PROVE c = d
      <3>1. at(c)[1] = at(d)[1]
        BY <2>2
      <3>2. at(c) = at(d)
        BY <3>1, <1>3
      <3> QED
        BY <3>2, AskedSlots
    <2> HIDE DEF h
    <2> QED
      BY <2>1, <2>2 DEF Injection, IsInjective
  <1>5. IsFiniteSet(free) /\ Cardinality(free) = MaxPerPeer - low
    <2>1. low \in Int /\ MaxPerPeer - 1 \in Int
      BY <1>1, SwarmConstants
    <2>2. /\ IsFiniteSet(free)
          /\ Cardinality(free) = IF low > MaxPerPeer - 1 THEN 0 ELSE MaxPerPeer - 1 - low + 1
      BY <2>1, FS_Interval
    <2> HIDE DEF free, low
    <2>3. low <= MaxPerPeer
      BY DEF low
    <2> QED
      BY <2>2, <2>3, <1>1, SwarmConstants
  <1>6. IsFiniteSet(B) /\ Cardinality(B) <= MaxPerPeer - low
    BY <1>4, <1>5, FS_Injection
  <1>7. /\ IsFiniteSet(A \cap B)
        /\ Cardinality(A \union B) = Cardinality(A) + Cardinality(B) - Cardinality(A \cap B)
    BY <1>1, <1>6, FS_Union, FS_Subset
  <1>8. Cardinality(A \cap B) \in Nat /\ Cardinality(B) \in Nat
    BY <1>6, <1>7, FS_CardinalityType
  <1>9. Cardinality(A \union B) <= MaxPerPeer
    <2> HIDE DEF A, B, low
    <2> QED
      BY <1>1, <1>6, <1>7, <1>8, SwarmConstants
  <1> QED
    BY <1>2, <1>9, Zenon DEF Load

-----------------------------------------------------------------------------
(* The steps *)

(* A download that has not begun.                                          *)
LEMMA SwarmInitInv == SwarmInit => SwarmInv
  <1> SUFFICES ASSUME SwarmInit PROVE SwarmInv
    OBVIOUS
  <1>1. DOMAIN active = {}
    BY DEF SwarmInit
  <1>2. SwarmTypeOK
    <2>1. avails \in 0..MaxAvails /\ {losses, extras, fails, crashes} \subseteq 0..MaxFaults
      BY SwarmConstants DEF SwarmInit
    <2>2. stored \subseteq Pieces /\ {received, mask, offered, short} \subseteq SUBSET Chunks
      BY DEF SwarmInit
    <2>3. syncing \in BOOLEAN /\ announced \in BOOLEAN
      BY Zenon DEF SwarmInit
    <2>4. seeders \subseteq Peers /\ requests \subseteq Peers \X Chunks /\ replies \subseteq Peers \X Chunks
      BY DEF SwarmInit
    <2>5. status \in {"None", "Pending", "Downloading", "Available"}
      BY DEF SwarmInit
    <2> QED
      BY <1>1, <2>1, <2>2, <2>3, <2>4, <2>5 DEF SwarmTypeOK
  <1>3. FetchesUseful
    <2>1. ASSUME NEW p \in Peers PROVE Load(active, p) = 0
      <3>1. {c \in DOMAIN active : active[c].peer = p} = {}
        BY <1>1
      <3> QED
        BY <3>1, FS_EmptySet DEF Load
    <2> QED
      BY <1>1, <2>1, SwarmConstants DEF FetchesUseful
  <1>4. TrackerTrue
    BY DEF SwarmInit, TrackerTrue
  <1> QED
    BY <1>2, <1>3, <1>4 DEF SwarmInv

(* An announced download stays complete and a tracker stays true to the    *)
(* file, whatever the step.                                                *)
LEMMA TrackerStep ==
  ASSUME SwarmTypeOK, TrackerTrue, [Next]_vars
  PROVE  TrackerTrue'
  <1>f. fails \in Nat
    BY SwarmConstants DEF SwarmTypeOK
  <1>1. ASSUME NEW p \in Peers, BlobAvail(p) PROVE TrackerTrue'
    <2>1. CASE UNCHANGED <<syncing, received, disk, announced, short, fails>>
      BY <2>1 DEF TrackerTrue, Filed, disk
    <2>2. CASE /\ ~syncing /\ status # "Available" /\ received' = {}
               /\ status' = "Pending" /\ UNCHANGED <<announced, fails>>
      BY <2>2 DEF TrackerTrue, Filed
    <2>3. CASE fails' = fails + 1
      BY <2>3, <1>f DEF TrackerTrue
    <2> QED
      BY <1>1, <2>1, <2>2, <2>3 DEF BlobAvail, TrackerNew, disk
  <1>2. ASSUME UNCHANGED <<syncing, received, disk, ghost, fails>> PROVE TrackerTrue'
    BY <1>2 DEF TrackerTrue, Filed, disk, ghost
  <1>3. ASSUME NEW p \in Peers, NEW c \in Chunks, NEW slice \in SlicesOf(p, c),
               syncing, ReceiveGood(c, slice)
        PROVE  TrackerTrue'
    <2>1. ASSUME Filed(received), stored' = stored \union slice PROVE Filed(received)'
      <3>1. ASSUME NEW d \in received', d \notin short' PROVE PiecesOf(d) \subseteq stored'
        <4>1. CASE d = c
          BY <1>3, <2>1, <3>1, <4>1 DEF ReceiveGood, Filed
        <4>2. CASE d # c
          <5>1. d \in received \ short
            BY <1>3, <3>1, <4>2 DEF ReceiveGood
          <5> QED
            BY <2>1, <5>1 DEF Filed
        <4> QED
          BY <4>1, <4>2
      <3> QED
        BY <3>1 DEF Filed
    <2>2. CASE WriteEffects(c, slice) /\ UNCHANGED fails
      <3>1. /\ stored' = stored \union slice /\ status' # "None"
            /\ received' # Chunks => announced' = announced
            /\ received' = Chunks => status' = "Available"
            /\ status = "Available" => status' = "Available"
        BY <2>2, <1>3 DEF ReceiveGood, WriteEffects, PutChunk
      <3>2. fails' = 0 => Filed(received)'
        BY <2>1, <2>2, <3>1, <1>3 DEF TrackerTrue
      <3>3. CASE received' = Chunks
        <4>1. Filed(received)' => Filed(Chunks)'
          BY <3>3 DEF Filed
        <4> QED
          BY <3>1, <3>2, <3>3, <4>1 DEF TrackerTrue
      <3>4. CASE received' # Chunks /\ ~announced
        BY <3>1, <3>2, <3>4 DEF TrackerTrue
      <3>5. ASSUME received' # Chunks, announced, fails = 0 PROVE Filed(Chunks)'
        <4>1. ASSUME NEW d \in Chunks, d \notin short' PROVE PiecesOf(d) \subseteq stored'
          <5>1. CASE d = c
            BY <1>3, <3>1, <3>5, <4>1, <5>1 DEF ReceiveGood, TrackerTrue, Filed
          <5>2. CASE d # c
            <6>1. d \notin short
              BY <1>3, <4>1, <5>2 DEF ReceiveGood
            <6> QED
              BY <3>1, <3>5, <6>1 DEF TrackerTrue, Filed
          <5> QED
            BY <5>1, <5>2
        <4> QED
          BY <4>1 DEF Filed
      <3> QED
        BY <2>2, <3>1, <3>2, <3>3, <3>4, <3>5 DEF TrackerTrue
    <2>3. CASE EffectsFail(c, slice) /\ fails' = fails + 1
      BY <2>3, <1>f DEF TrackerTrue
    <2>4. CASE status = "None"
      BY <1>3, <2>4, <2>2, <2>3 DEF TrackerTrue, ReceiveGood, EffectsFail
    <2> QED
      BY <1>3, <2>2, <2>3, <2>4 DEF ReceiveGood, EffectsFail
  <1>4. ASSUME NEW p \in Peers, NEW c \in Chunks, Receive(p, c) PROVE TrackerTrue'
    <2>1. CASE ReceiveBad(p, c) \/ UNCHANGED <<syncing, sync, disk, ghost, fails>>
      BY <1>2, <2>1 DEF ReceiveBad, sync
    <2> QED
      BY <1>3, <1>4, <2>1 DEF Receive
  <1>5. CASE Lose
    BY <1>2, <1>5 DEF Lose, sync
  <1>6. CASE Crash
    BY <1>6 DEF Crash, TrackerTrue, Filed, disk, ghost
  <1>7. CASE \/ Poll \/ Tick \/ UNCHANGED vars
             \/ \E p \in Peers, c \in Chunks : Serve(p, c) \/ Unasked(p, c)
    BY <1>2, <1>7, Zenon DEF Poll, Tick, Serve, Unasked, vars, sync, counters, disk, ghost
  <1> QED
    BY <1>1, <1>4, <1>5, <1>6, <1>7 DEF Next

(* What FetchesUseful and the type invariant say of the fetches.           *)
FetchesOK(f, R, S) ==
  /\ DOMAIN f \subseteq Chunks
  /\ \A c \in DOMAIN f : /\ f[c] \in [peer : Peers, age : 0..FetchTimeout]
                         /\ c \notin R /\ f[c].peer \in S
  /\ \A p \in Peers : Load(f, p) <= MaxPerPeer

LEMMA FetchesOKIs ==
  (SwarmTypeOK /\ FetchesUseful) =>
     FetchesOK(active, received, seeders)
  BY DEF SwarmTypeOK, FetchesUseful, FetchesOK

(* No fetch is fine.                                                       *)
LEMMA NoFetches ==
  ASSUME NEW R, NEW S PROVE FetchesOK(<<>>, R, S)
  <1> DEFINE f == <<>>
  <1>1. DOMAIN f = {}
    OBVIOUS
  <1>2. ASSUME NEW p \in Peers PROVE Load(f, p) <= MaxPerPeer
    <2>1. {c \in DOMAIN f : f[c].peer = p} = {}
      BY <1>1
    <2> QED
      BY <2>1, FS_EmptySet, SwarmConstants DEF Load
  <1> HIDE DEF f
  <1>3. FetchesOK(f, R, S)
    BY <1>1, <1>2 DEF FetchesOK
  <1> QED
    BY <1>3 DEF f

(* Fetches may go, if those left are of chunks not received, with seeders. *)
LEMMA FewerFetches ==
  ASSUME NEW f, NEW R, NEW S, FetchesOK(f, R, S), NEW K, K \subseteq DOMAIN f,
         NEW R2, NEW S2, \A c \in K : c \notin R2 /\ f[c].peer \in S2
  PROVE  FetchesOK(Restrict(f, K), R2, S2)
  <1> DEFINE g == Restrict(f, K)
  <1>1. DOMAIN g = K /\ \A c \in K : g[c] = f[c]
    BY DEF Restrict
  <1>2. ASSUME NEW p \in Peers PROVE Load(g, p) <= MaxPerPeer
    <2>1. Load(g, p) <= Load(f, p)
      BY RestrictLoad DEF FetchesOK
    <2>2. Load(f, p) \in Nat /\ Load(g, p) \in Nat /\ Load(f, p) <= MaxPerPeer
      BY <1>1, LoadNat, Zenon DEF FetchesOK
    <2> QED
      BY <2>1, <2>2, SwarmConstants
  <1> HIDE DEF g
  <1>3. FetchesOK(g, R2, S2)
    BY <1>1, <1>2 DEF FetchesOK
  <1> QED
    BY <1>3 DEF g

(* A poll drops the stalled fetches and adds those of next_requests.       *)
LEMMA PollFetches ==
  ASSUME SwarmTypeOK, FetchesUseful
  PROVE  LET live == Live(active)
             fresh == NextRequests(live)
         IN  /\ FetchesOK(Joined(live, fresh), received, seeders)
             /\ {<<fresh[c].peer, c>> : c \in DOMAIN fresh} \subseteq Peers \X Chunks
  <1> DEFINE live == Live(active)
             fresh == NextRequests(live)
             all == Joined(live, fresh)
             at(c) == SlotAt(Slots(live), ChunkRank(Missing(live), c))
  <1>s. seeders \subseteq Peers
    BY DEF SwarmTypeOK
  <1>1. FetchesOK(live, received, seeders)
    <2>1. FetchesOK(active, received, seeders)
      BY FetchesOKIs
    <2> DEFINE K == {c \in DOMAIN active : active[c].age < FetchTimeout}
    <2>2. K \subseteq DOMAIN active /\ \A c \in K : c \notin received /\ active[c].peer \in seeders
      BY <2>1 DEF FetchesOK
    <2> HIDE DEF K
    <2>3. FetchesOK(Restrict(active, K), received, seeders)
      BY <2>1, <2>2, FewerFetches
    <2> QED
      BY <2>3 DEF Live, K
  <1>2. fresh = [c \in Asked(live) |-> [peer |-> at(c)[2], age |-> 0]]
    BY NextRequestsIs
  <1>3. Asked(live) \subseteq Chunks /\ Asked(live) \cap received = {}
    BY DEF Asked, Missing
  <1>4. ASSUME NEW c \in Asked(live) PROVE at(c)[2] \in seeders
    <2>1. at(c) \in Slots(live)
      BY <1>s, AskedSlots
    <2>2. at(c) \in (0..MaxPerPeer - 1) \X seeders
      BY <2>1, <1>s, SlotsFinite
    <2> HIDE DEF at
    <2> QED
      BY <2>2
  <1> HIDE DEF live, at
  <1>5. /\ DOMAIN fresh = Asked(live)
        /\ \A c \in DOMAIN fresh :
             /\ fresh[c] \in [peer : Peers, age : 0..FetchTimeout]
             /\ c \notin received /\ fresh[c].peer \in seeders
    <2>1. DOMAIN fresh = Asked(live)
      BY <1>2, Zenon
    <2>2. ASSUME NEW c \in Asked(live)
          PROVE  /\ fresh[c] \in [peer : Peers, age : 0..FetchTimeout]
                 /\ c \notin received /\ fresh[c].peer \in seeders
      <3>1. fresh[c] = [peer |-> at(c)[2], age |-> 0]
        BY <1>2, Zenon
      <3>2. at(c)[2] \in seeders /\ at(c)[2] \in Peers /\ 0 \in 0..FetchTimeout
        <4>1. at(c)[2] \in seeders
          BY <1>4
        <4>2. at(c)[2] \in Peers
          BY <4>1, <1>s, Zenon
        <4>3. 0 \in 0..FetchTimeout
          BY SwarmConstants
        <4> QED
          BY <4>1, <4>2, <4>3
      <3> HIDE DEF fresh
      <3> QED
        BY <3>1, <3>2, <1>3
    <2> QED
      BY <2>1, <2>2
  <1>6. ASSUME NEW p \in Peers PROVE Load(all, p) <= MaxPerPeer
    BY <1>1, <1>s, RequestsLoad DEF FetchesOK
  <1> HIDE DEF fresh
  <1>7. /\ DOMAIN all = DOMAIN live \union DOMAIN fresh
        /\ \A c \in DOMAIN all : all[c] = IF c \in DOMAIN live THEN live[c] ELSE fresh[c]
    BY DEF Joined
  <1> HIDE DEF all
  <1>8. FetchesOK(all, received, seeders)
    BY <1>1, <1>3, <1>5, <1>6, <1>7 DEF FetchesOK
  <1>9. {<<fresh[c].peer, c>> : c \in DOMAIN fresh} \subseteq Peers \X Chunks
    BY <1>3, <1>5, <1>s
  <1> QED
    BY <1>8, <1>9 DEF all, fresh, live

(* Time makes the fetches older, not more.                                 *)
LEMMA TickFetches ==
  ASSUME SwarmTypeOK, FetchesUseful
  PROVE  LET older == [c \in DOMAIN active |->
                         [active[c] EXCEPT !.age = IF @ < FetchTimeout THEN @ + 1 ELSE @]]
         IN  FetchesOK(older, received, seeders)
  <1> DEFINE older == [c \in DOMAIN active |->
                         [active[c] EXCEPT !.age = IF @ < FetchTimeout THEN @ + 1 ELSE @]]
  <1>1. FetchesOK(active, received, seeders)
    BY FetchesOKIs
  <1>2. ASSUME NEW c \in DOMAIN active
        PROVE  /\ older[c] \in [peer : Peers, age : 0..FetchTimeout]
               /\ older[c].peer = active[c].peer
    <2>1. active[c] \in [peer : Peers, age : 0..FetchTimeout]
      BY <1>1 DEF FetchesOK
    <2>2. active[c].age \in 0..FetchTimeout
      BY <2>1
    <2>3. (IF active[c].age < FetchTimeout THEN active[c].age + 1 ELSE active[c].age)
             \in 0..FetchTimeout
      BY <2>2, SwarmConstants
    <2> QED
      BY <2>1, <2>3
  <1>3. DOMAIN older = DOMAIN active
    OBVIOUS
  <1> HIDE DEF older
  <1>4. ASSUME NEW p \in Peers PROVE Load(older, p) <= MaxPerPeer
    <2>1. {c \in DOMAIN older : older[c].peer = p} = {c \in DOMAIN active : active[c].peer = p}
      BY <1>2, <1>3
    <2> QED
      BY <2>1, <1>1 DEF Load, FetchesOK
  <1>5. FetchesOK(older, received, seeders)
    BY <1>1, <1>2, <1>3, <1>4 DEF FetchesOK
  <1> QED
    BY <1>5 DEF older

(* Every step leaves the fetches useful.                                   *)
LEMMA FetchesStep ==
  ASSUME SwarmTypeOK, FetchesUseful, [Next]_vars
  PROVE  FetchesOK(active', received', seeders')
  <1>0. FetchesOK(active, received, seeders)
    BY FetchesOKIs
  <1>u. ASSUME UNCHANGED <<active, received, seeders>>
        PROVE  FetchesOK(active', received', seeders')
    BY <1>0, <1>u
  <1>w. ASSUME NEW p, NEW f, FetchesOK(f, received, seeders)
        PROVE  FetchesOK(Without(f, p), received, seeders \ {p})
    <2> DEFINE K == {c \in DOMAIN f : f[c].peer # p}
    <2>1. \A c \in K : c \notin received /\ f[c].peer \in seeders \ {p}
      BY <1>w DEF FetchesOK
    <2> QED
      BY <2>1, <1>w, FewerFetches DEF Without
  <1>1. ASSUME NEW p \in Peers, BlobAvail(p) PROVE FetchesOK(active', received', seeders')
    <2>1. CASE seeders' = seeders \union {p} /\ UNCHANGED <<active, received>>
      BY <1>0, <2>1 DEF FetchesOK
    <2>2. CASE seeders' = seeders \ {p} /\ active' = Without(active, p) /\ UNCHANGED received
      BY <1>0, <1>w, <2>2
    <2>3. CASE active' = <<>>
      BY <2>3, NoFetches
    <2> QED
      BY <1>1, <2>1, <2>2, <2>3 DEF BlobAvail
  <1>2. ASSUME NEW q \in Peers, NEW d \in Chunks, Receive(q, d)
        PROVE  FetchesOK(active', received', seeders')
    <2> DEFINE K == DOMAIN active \ {d}
    <2>1. ASSUME NEW slice, ReceiveGood(d, slice) PROVE FetchesOK(active', received', seeders')
      <3>1. \A c \in K : c \notin received \union {d} /\ active[c].peer \in seeders
        BY <1>0 DEF FetchesOK
      <3>2. FetchesOK(Restrict(active, K), received \union {d}, seeders)
        BY <3>1, <1>0, FewerFetches
      <3> QED
        BY <3>2, <2>1 DEF ReceiveGood
    <2>2. CASE ReceiveBad(q, d)
      <3>1. \A c \in K : c \notin received /\ active[c].peer \in seeders
        BY <1>0 DEF FetchesOK
      <3>2. FetchesOK(Restrict(active, K), received, seeders)
        BY <3>1, <1>0, FewerFetches
      <3>3. FetchesOK(Without(Restrict(active, K), q), received, seeders \ {q})
        BY <3>2, <1>w
      <3> QED
        BY <3>3, <2>2 DEF ReceiveBad
    <2>3. CASE UNCHANGED sync
      BY <2>3, <1>u DEF sync
    <2> QED
      BY <1>2, <2>1, <2>2, <2>3 DEF Receive
  <1>3. CASE Poll
    BY <1>3, PollFetches DEF Poll
  <1>4. CASE Tick
    BY <1>4, TickFetches DEF Tick
  <1>5. CASE Crash
    BY <1>5, NoFetches DEF Crash
  <1>6. CASE \/ Lose \/ UNCHANGED vars
             \/ \E p \in Peers, c \in Chunks : Serve(p, c) \/ Unasked(p, c)
    BY <1>6, <1>u, Zenon DEF Lose, Serve, Unasked, vars, sync
  <1> QED
    BY <1>1, <1>2, <1>3, <1>4, <1>5, <1>6 DEF Next

(* Every step keeps the types.                                             *)
LEMMA TypeStep ==
  ASSUME SwarmTypeOK, FetchesUseful, [Next]_vars
  PROVE  SwarmTypeOK'
  <1> DEFINE Flags == syncing \in BOOLEAN /\ announced \in BOOLEAN
             Sets == /\ seeders \subseteq Peers /\ stored \subseteq Pieces
                     /\ {received, mask, offered, short} \subseteq SUBSET Chunks
             Mail == requests \subseteq Peers \X Chunks /\ replies \subseteq Peers \X Chunks
             State == status \in {"None", "Pending", "Downloading", "Available"}
             Counts == /\ avails \in 0..MaxAvails
                       /\ {losses, extras, fails, crashes} \subseteq 0..MaxFaults
  <1>0. Flags /\ Sets /\ Mail /\ State /\ Counts
    BY DEF SwarmTypeOK
  <1>f. FetchesOK(active', received', seeders')
    BY FetchesStep
  <1>q. ASSUME Flags', Sets', Mail', State', Counts' PROVE SwarmTypeOK'
    BY <1>f, <1>q DEF FetchesOK, SwarmTypeOK
  <1>c. ASSUME FaultLeft, NEW x \in {losses, extras, fails, crashes} PROVE x + 1 \in 0..MaxFaults
    BY <1>c, <1>0, SwarmConstants DEF FaultLeft
  <1>1. ASSUME NEW p \in Peers, BlobAvail(p) PROVE SwarmTypeOK'
    <2>1. Flags' /\ State'
      BY <1>0, <1>1, Zenon DEF BlobAvail
    <2>2. Sets'
      <3>1. seeders' \subseteq Peers
        BY <1>0, <1>1 DEF BlobAvail
      <3>2. offered' = offered \/ offered' \in Masks
        BY <1>1 DEF BlobAvail
      <3>3. offered' \in SUBSET Chunks
        BY <1>0, <3>2, SwarmConstants
      <3>4. received' = received \/ received' = {}
        BY <1>1 DEF BlobAvail, TrackerNew
      <3>5. stored' = stored /\ (mask' = mask \/ mask' = offered') /\ short' \in {short, {}}
        BY <1>1 DEF BlobAvail
      <3> QED
        BY <1>0, <3>1, <3>3, <3>4, <3>5
    <2>3. Mail'
      BY <1>0, <1>1 DEF BlobAvail, net
    <2>4. Counts'
      <3>1. avails' \in 0..MaxAvails
        BY <1>0, <1>1, SwarmConstants DEF BlobAvail
      <3>2. {losses', extras', crashes'} \subseteq 0..MaxFaults
        BY <1>0, <1>1 DEF BlobAvail
      <3>3. fails' = fails \/ (FaultLeft /\ fails' = fails + 1)
        BY <1>1 DEF BlobAvail
      <3>4. fails' \in 0..MaxFaults
        BY <1>0, <1>c, <3>3
      <3> QED
        BY <3>1, <3>2, <3>4
    <2> QED
      BY <1>q, <2>1, <2>2, <2>3, <2>4
  <1>2. ASSUME Poll PROVE SwarmTypeOK'
    <2>1. requests' \subseteq Peers \X Chunks
      BY <1>0, <1>2, PollFetches DEF Poll
    <2>2. Flags' /\ Sets' /\ Mail' /\ State' /\ Counts'
      BY <1>0, <1>2, <2>1 DEF Poll, disk, ghost, counters
    <2> QED
      BY <1>q, <2>2
  <1>3. ASSUME Tick PROVE SwarmTypeOK'
    BY <1>0, <1>3, <1>q DEF Tick, net, disk, ghost, counters
  <1>4. ASSUME NEW p \in Peers, NEW c \in Chunks, Serve(p, c) \/ Unasked(p, c)
        PROVE  SwarmTypeOK'
    <2>1. Mail'
      BY <1>0, <1>4 DEF Serve, Unasked
    <2>2. Flags' /\ Sets' /\ State'
      BY <1>0, <1>4 DEF Serve, Unasked, sync, disk, ghost
    <2>3. Counts'
      BY <1>0, <1>4, <1>c DEF Serve, Unasked, counters
    <2> QED
      BY <1>q, <2>1, <2>2, <2>3
  <1>5. ASSUME NEW p \in Peers, NEW c \in Chunks, Receive(p, c) PROVE SwarmTypeOK'
    <2>1. Mail'
      BY <1>0, <1>5 DEF Receive
    <2>2. avails' = avails /\ losses' = losses /\ extras' = extras /\ crashes' = crashes
      BY <1>5 DEF Receive
    <2>3. ASSUME NEW slice \in SlicesOf(p, c), ReceiveGood(c, slice) PROVE SwarmTypeOK'
      <3>s. slice \subseteq Pieces
        BY DEF SlicesOf, SlicesAt, PiecesOf
      <3>1. Counts'
        <4>1. fails' = fails \/ (FaultLeft /\ fails' = fails + 1)
          BY <2>3 DEF ReceiveGood, EffectsFail
        <4> QED
          BY <4>1, <2>2, <1>0, <1>c
      <3>2. State'
        BY <1>0, <2>3 DEF ReceiveGood, WriteEffects, EffectsFail, PutChunk, disk
      <3>3. Sets'
        <4>1. stored' \in {stored, stored \union slice} /\ mask' \in {mask, mask \union {c}, offered}
          BY <2>3 DEF ReceiveGood, WriteEffects, EffectsFail, PutChunk, disk
        <4>2. /\ received' = received \union {c} /\ UNCHANGED <<seeders, offered>>
              /\ short' \in {short, short \ {c}, short \union {c}}
          BY <2>3 DEF ReceiveGood
        <4> QED
          BY <1>0, <3>s, <4>1, <4>2
      <3>4. Flags'
        <4>1. syncing' \in BOOLEAN
          BY <2>3 DEF ReceiveGood
        <4>2. announced' = announced \/ announced' = TRUE
          BY <2>3 DEF ReceiveGood, WriteEffects, EffectsFail
        <4> QED
          BY <1>0, <4>1, <4>2, Zenon
      <3> QED
        BY <1>q, <2>1, <3>1, <3>2, <3>3, <3>4
    <2>4. CASE ReceiveBad(p, c) \/ UNCHANGED <<syncing, sync, disk, ghost, fails>>
      <3>1. Flags' /\ Sets' /\ State' /\ Counts'
        BY <1>0, <2>2, <2>4 DEF ReceiveBad, sync, disk, ghost
      <3> QED
        BY <1>q, <2>1, <3>1
    <2> QED
      BY <1>5, <2>3, <2>4 DEF Receive
  <1>6. ASSUME Lose PROVE SwarmTypeOK'
    <2>1. Counts'
      BY <1>0, <1>6, <1>c DEF Lose
    <2>2. Flags' /\ Sets' /\ Mail' /\ State'
      BY <1>0, <1>6 DEF Lose, sync, disk, ghost
    <2> QED
      BY <1>q, <2>1, <2>2
  <1>7. ASSUME Crash PROVE SwarmTypeOK'
    <2>1. Counts'
      BY <1>0, <1>7, <1>c DEF Crash
    <2>2. Flags' /\ Sets' /\ Mail' /\ State'
      BY <1>0, <1>7, Zenon DEF Crash, disk, ghost
    <2> QED
      BY <1>q, <2>1, <2>2
  <1>8. ASSUME UNCHANGED vars PROVE SwarmTypeOK'
    BY <1>0, <1>8, <1>q DEF vars, sync, net, disk, ghost, counters
  <1> QED
    BY <1>1, <1>2, <1>3, <1>4, <1>5, <1>6, <1>7, <1>8 DEF Next

(* The three together are inductive.                                       *)
LEMMA SwarmStep == SwarmInv /\ [Next]_vars => SwarmInv'
  <1> SUFFICES ASSUME SwarmInv, [Next]_vars PROVE SwarmInv'
    OBVIOUS
  <1>1. SwarmTypeOK' /\ TrackerTrue'
    BY TypeStep, TrackerStep DEF SwarmInv
  <1>2. FetchesUseful'
    <2>1. FetchesOK(active', received', seeders')
      BY FetchesStep DEF SwarmInv
    <2> QED
      BY <2>1 DEF FetchesOK, FetchesUseful, Load
  <1> QED
    BY <1>1, <1>2 DEF SwarmInv

(* The invariant holds of every download.                                  *)
THEOREM SwarmInvariant == Spec => []SwarmInv
  BY SwarmInitInv, SwarmStep, PTL DEF Spec

(* The fetches of a download are of chunks still missing, with peers still *)
(* seeding, and no peer has more of them than next_requests allows: for    *)
(* every number of chunks and peers and every limit.                       *)
THEOREM SwarmFetches == Spec => []FetchesUseful
  <1>1. SwarmInv => FetchesUseful
    BY DEF SwarmInv
  <1> QED
    BY <1>1, SwarmInvariant, PTL

(* A blob that is announced has every piece in its file, but for chunks    *)
(* that came only in slices too short for them, and an info that says so,  *)
(* for every number of chunks, slices, messages lost and crashes, so long  *)
(* as no write failed.                                                     *)
THEOREM SwarmAnnounced == Spec => []AnnouncedComplete
  <1>1. SwarmInv => AnnouncedComplete
    BY DEF SwarmInv, TrackerTrue, Filed, AnnouncedComplete
  <1> QED
    BY <1>1, SwarmInvariant, PTL
=============================================================================
