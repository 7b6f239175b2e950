-------------------------- MODULE CollectionsProof --------------------------
(***************************************************************************)
(* Lemmas about the sums and the queues of module Collections.  They are   *)
(* what the byte counters of the transport (in_flight, current_buffer_size *)
(* and used_bytes) and its retain calls need.                              *)
(***************************************************************************)
EXTENDS Collections, Integers, FiniteSetTheorems, SequenceTheorems, TLAPS

(***************************************************************************)
(* Sums.                                                                  *)
(***************************************************************************)
(* The units of one value are finite and as many as the value says.       *)
LEMMA ColumnSize ==
  ASSUME NEW k, NEW n \in Nat
  PROVE  /\ IsFiniteSet({k} \X (1..n))
         /\ Cardinality({k} \X (1..n)) = n
  <1>1. IsFiniteSet({k}) /\ Cardinality({k}) = 1
    BY FS_Singleton
  <1>2. IsFiniteSet(1..n) /\ Cardinality(1..n) = n
    BY FS_Interval, SMT
  <1>3. /\ IsFiniteSet({k} \X (1..n))
        /\ Cardinality({k} \X (1..n)) = Cardinality({k}) * Cardinality(1..n)
    BY <1>1, <1>2, FS_Product, Zenon
  <1> QED
    BY <1>1, <1>2, <1>3

(* A sum over a finite domain is a natural number.                        *)
LEMMA TotalType ==
  ASSUME NEW D, IsFiniteSet(D), NEW f \in [D -> Nat]
  PROVE  /\ IsFiniteSet(Units(f))
         /\ Total(f) \in Nat
  <1> DEFINE C == [k \in D |-> {k} \X (1..f[k])]
             T == {{k} \X (1..f[k]) : k \in D}
  <1>1. C \in Surjection(D, T)
    BY Zenon DEF Surjection
  <1>2. IsFiniteSet(T)
    BY <1>1, FS_Surjection
  <1>3. ASSUME NEW S \in T PROVE IsFiniteSet(S)
    <2>1. PICK k \in D : S = {k} \X (1..f[k])
      OBVIOUS
    <2>2. f[k] \in Nat
      OBVIOUS
    <2> QED
      BY <2>1, <2>2, ColumnSize, Zenon
  <1>4. IsFiniteSet(UNION T)
    BY <1>2, <1>3, FS_UNION, Zenon
  <1>5. IsFiniteSet(Units(f))
    BY <1>4 DEF Units
  <1> QED
    BY <1>5, FS_CardinalityType DEF Total

(* The sum over two disjoint parts of the domain.                         *)
LEMMA TotalSplit ==
  ASSUME NEW A, IsFiniteSet(A), NEW B, IsFiniteSet(B), A \cap B = {},
         NEW f \in [A \union B -> Nat]
  PROVE  Total(f) = Total([k \in A |-> f[k]]) + Total([k \in B |-> f[k]])
  <1> DEFINE g == [k \in A |-> f[k]]
             h == [k \in B |-> f[k]]
  <1>1. g \in [A -> Nat] /\ h \in [B -> Nat]
    OBVIOUS
  <1>2. IsFiniteSet(Units(g)) /\ IsFiniteSet(Units(h))
    BY <1>1, TotalType
  <1>3. Units(f) = Units(g) \union Units(h)
    BY <1>1 DEF Units
  <1>4. Units(g) \cap Units(h) = {}
    BY <1>1 DEF Units
  <1>5. Cardinality(Units(g) \cap Units(h)) = 0
    BY <1>4, FS_EmptySet, Zenon
  <1>6. Total(g) \in Nat /\ Total(h) \in Nat
    BY <1>1, TotalType
  <1> HIDE DEF g, h
  <1>7. Total(f) = Total(g) + Total(h) - 0
    BY <1>2, <1>3, <1>5, FS_Union DEF Total
  <1>8. Total(f) = Total(g) + Total(h)
    BY <1>6, <1>7
  <1> QED
    BY <1>8 DEF g, h

(* The sum over one element.                                              *)
LEMMA TotalSingle ==
  ASSUME NEW k, NEW f \in [{k} -> Nat]
  PROVE  Total(f) = f[k]
  <1>1. Units(f) = {k} \X (1..f[k])
    BY DEF Units
  <1> QED
    BY <1>1, ColumnSize, Zenon DEF Total

(* The sum over nothing.                                                  *)
LEMMA TotalEmpty ==
  ASSUME NEW f, DOMAIN f = {}
  PROVE  Total(f) = 0
  <1>1. Units(f) = {}
    BY DEF Units
  <1> QED
    BY <1>1, FS_EmptySet DEF Total

(* A sum of zeros.                                                        *)
LEMMA TotalZero ==
  ASSUME NEW D
  PROVE  Total([k \in D |-> 0]) = 0
  <1>1. Units([k \in D |-> 0]) = {}
    BY DEF Units
  <1> QED
    BY <1>1, FS_EmptySet DEF Total

(* One element taken out of a sum.                                        *)
LEMMA TotalRemove ==
  ASSUME NEW D, IsFiniteSet(D), NEW k \in D, NEW f \in [D -> Nat]
  PROVE  Total(f) = Total([j \in D \ {k} |-> f[j]]) + f[k]
  <1> DEFINE g == [j \in D \ {k} |-> f[j]]
             h == [j \in {k} |-> f[j]]
  <1>1. IsFiniteSet(D \ {k}) /\ IsFiniteSet({k})
    BY FS_Difference, FS_Singleton, Zenon
  <1>2. D = (D \ {k}) \union {k} /\ (D \ {k}) \cap {k} = {}
    OBVIOUS
  <1>3. Total(f) = Total(g) + Total(h)
    BY <1>1, <1>2, TotalSplit
  <1>4. Total(h) = h[k]
    BY TotalSingle
  <1> QED
    BY <1>3, <1>4

(* One value of a sum changed, or added.                                  *)
LEMMA TotalChange ==
  ASSUME NEW D, IsFiniteSet(D), NEW k \in D,
         NEW f \in [D -> Nat], NEW g \in [D -> Nat],
         \A j \in D \ {k} : g[j] = f[j]
  PROVE  Total(g) = Total(f) - f[k] + g[k]
  <1> DEFINE f0 == [j \in D \ {k} |-> f[j]]
             g0 == [j \in D \ {k} |-> g[j]]
  <1>1. f0 = g0
    OBVIOUS
  <1>2. Total(f) = Total(f0) + f[k] /\ Total(g) = Total(g0) + g[k]
    BY TotalRemove
  <1>3. IsFiniteSet(D \ {k}) /\ f0 \in [D \ {k} -> Nat]
    BY FS_Difference, Zenon
  <1>4. Total(f0) \in Nat
    BY <1>3, TotalType
  <1> HIDE DEF f0, g0
  <1> QED
    BY <1>1, <1>2, <1>4

(* A value is no more than the sum it belongs to.                         *)
LEMMA TotalBound ==
  ASSUME NEW D, IsFiniteSet(D), NEW k \in D, NEW f \in [D -> Nat]
  PROVE  f[k] <= Total(f)
  <1> DEFINE f0 == [j \in D \ {k} |-> f[j]]
  <1>1. IsFiniteSet(D \ {k}) /\ f0 \in [D \ {k} -> Nat]
    BY FS_Difference, Zenon
  <1>2. Total(f0) \in Nat
    BY <1>1, TotalType
  <1>3. Total(f) = Total(f0) + f[k]
    BY TotalRemove
  <1> HIDE DEF f0
  <1> QED
    BY <1>2, <1>3

(***************************************************************************)
(* Queues.                                                                *)
(***************************************************************************)
(* The rank of an element of a finite set of naturals.                    *)
Rank(S, i) == Cardinality({k \in S : k <= i})

(* Ranks tell the elements apart and run from 1 to the size of the set.   *)
LEMMA RankInjective ==
  ASSUME NEW S \in SUBSET Nat, IsFiniteSet(S)
  PROVE  /\ \A i \in S : Rank(S, i) \in 1..Cardinality(S)
         /\ \A i, j \in S : i < j => Rank(S, i) < Rank(S, j)
  <1> DEFINE Below(i) == {k \in S : k <= i}
  <1>1. \A i \in S : Below(i) \in SUBSET S /\ i \in Below(i)
    OBVIOUS
  <1>2. Cardinality(S) \in Nat
    BY FS_CardinalityType
  <1>3. ASSUME NEW i \in S
        PROVE  /\ IsFiniteSet(Below(i)) /\ Cardinality(Below(i)) \in Nat
               /\ Cardinality(Below(i)) <= Cardinality(S)
               /\ Cardinality(Below(i)) # 0
    <2>1. IsFiniteSet(Below(i)) /\ Cardinality(Below(i)) <= Cardinality(S)
      BY <1>1, FS_Subset
    <2>2. Cardinality(Below(i)) \in Nat
      BY <2>1, FS_CardinalityType
    <2>3. Below(i) # {}
      OBVIOUS
    <2>4. Cardinality(Below(i)) # 0
      BY <2>1, <2>3, FS_EmptySet
    <2> QED
      BY <2>1, <2>2, <2>4
  <1>4. ASSUME NEW i \in S, NEW j \in S, i < j
        PROVE  Cardinality(Below(i)) < Cardinality(Below(j))
    <2>1. Below(i) \in SUBSET Below(j) /\ Below(i) # Below(j)
      <3>1. j \in Below(j) /\ j \notin Below(i)
        BY <1>4
      <3>2. \A k \in S : k <= i => k <= j
        BY <1>4
      <3>3. Below(i) \in SUBSET Below(j)
        BY <3>2, Zenon
      <3> QED
        BY <3>1, <3>3
    <2>2. IsFiniteSet(Below(j))
      BY <1>3
    <2>3. /\ Cardinality(Below(i)) <= Cardinality(Below(j))
          /\ Cardinality(Below(i)) # Cardinality(Below(j))
      BY <2>1, <2>2, FS_Subset
    <2>4. Cardinality(Below(i)) \in Nat /\ Cardinality(Below(j)) \in Nat
      BY <1>3
    <2> QED
      BY <2>3, <2>4
  <1>5. \A i \in S : Rank(S, i) = Cardinality(Below(i))
    BY DEF Rank
  <1> HIDE DEF Below
  <1> QED
    BY <1>2, <1>3, <1>4, <1>5

(* Ascending lists a finite set of naturals: all of it, each element once. *)
LEMMA AscendingLists ==
  ASSUME NEW S \in SUBSET Nat, IsFiniteSet(S)
  PROVE  /\ Ascending(S) \in [1..Cardinality(S) -> S]
         /\ \A i \in S : \E j \in 1..Cardinality(S) : Ascending(S)[j] = i
         /\ \A j \in 1..Cardinality(S) : Rank(S, Ascending(S)[j]) = j
  <1> DEFINE N == Cardinality(S)
             r == [i \in S |-> Rank(S, i)]
  <1>1. N \in Nat /\ IsFiniteSet(1..N) /\ Cardinality(1..N) = N
    <2>1. N \in Nat
      BY FS_CardinalityType
    <2> QED
      BY <2>1, FS_Interval, SMT
  <1>2. r \in Injection(S, 1..N)
    <2>1. r \in [S -> 1..N]
      BY RankInjective
    <2>2. ASSUME NEW i \in S, NEW j \in S, i # j PROVE r[i] # r[j]
      <3>1. i \in Nat /\ j \in Nat
        OBVIOUS
      <3>2. i < j \/ j < i
        BY <2>2, <3>1
      <3>3. /\ i < j => Rank(S, i) < Rank(S, j)
            /\ j < i => Rank(S, j) < Rank(S, i)
            /\ Rank(S, i) \in 1..N /\ Rank(S, j) \in 1..N
        BY RankInjective
      <3>4. Rank(S, i) # Rank(S, j)
        BY <3>2, <3>3, <1>1
      <3> QED
        BY <3>4
    <2> QED
      BY <2>1, <2>2 DEF Injection, IsInjective
  <1>3. r \in Surjection(S, 1..N)
    BY <1>1, <1>2, FS_Injection
  <1>4. \A j \in 1..N : \E i \in S : Rank(S, i) = j
    BY <1>3, Zenon DEF Surjection
  <1>5. \A j \in 1..N : Ascending(S)[j] \in S /\ Rank(S, Ascending(S)[j]) = j
    BY <1>4 DEF Ascending, Rank
  <1>6. Ascending(S) \in [1..N -> S]
    BY <1>5, Zenon DEF Ascending
  <1>7. ASSUME NEW i \in S PROVE \E j \in 1..N : Ascending(S)[j] = i
    <2> DEFINE j == Rank(S, i)
    <2>1. j \in 1..N
      BY RankInjective
    <2>2. Ascending(S)[j] \in S /\ Rank(S, Ascending(S)[j]) = j
      BY <1>5, <2>1
    <2>3. r[Ascending(S)[j]] = r[i]
      BY <2>2
    <2>4. Ascending(S)[j] = i
      BY <1>2, <2>2, <2>3, Zenon DEF Injection, IsInjective
    <2> QED
      BY <2>1, <2>4
  <1> QED
    BY <1>5, <1>6, <1>7

(* A finite set of naturals that is not empty has a least element.        *)
LEMMA LeastElement ==
  ASSUME NEW S \in SUBSET Nat, IsFiniteSet(S), S # {}
  PROVE  \E i \in S : \A j \in S : i <= j
  <1> DEFINE a == Ascending(S)[1]
  <1>1. Cardinality(S) \in Nat /\ Cardinality(S) # 0
    BY FS_CardinalityType, FS_EmptySet
  <1>2. 1 \in 1..Cardinality(S)
    BY <1>1
  <1>3. a \in S /\ Rank(S, a) = 1
    BY <1>2, AscendingLists, Zenon
  <1> HIDE DEF a
  <1>4. ASSUME NEW j \in S, j < a PROVE FALSE
    <2>1. Rank(S, j) < 1 /\ Rank(S, j) \in 1..Cardinality(S)
      BY <1>3, <1>4, RankInjective
    <2> QED
      BY <1>1, <2>1
  <1>5. \A j \in S : a <= j
    BY <1>3, <1>4
  <1> QED
    BY <1>3, <1>5

(* ... and a greatest one.                                                *)
LEMMA GreatestElement ==
  ASSUME NEW S \in SUBSET Nat, IsFiniteSet(S), S # {}
  PROVE  \E i \in S : \A j \in S : i >= j
  <1> DEFINE n == Cardinality(S)
             a == Ascending(S)[n]
  <1>1. n \in Nat /\ n # 0
    BY FS_CardinalityType, FS_EmptySet
  <1>2. n \in 1..n
    BY <1>1
  <1>3. a \in S /\ Rank(S, a) = n
    BY <1>2, AscendingLists
  <1> HIDE DEF a
  <1>4. ASSUME NEW j \in S, a < j PROVE FALSE
    <2>1. n < Rank(S, j) /\ Rank(S, j) \in 1..n
      BY <1>3, <1>4, RankInjective
    <2> QED
      BY <1>1, <2>1
  <1>5. \A j \in S : a >= j
    BY <1>3, <1>4
  <1> QED
    BY <1>3, <1>5

(* retain keeps exactly the wanted entries.                               *)
LEMMA RetainEntries ==
  ASSUME NEW T, NEW q \in Seq(T), NEW K
  PROVE  /\ Retain(q, K) \in Seq(T)
         /\ Entries(Retain(q, K)) = Entries(q) \cap K
  <1> DEFINE P == {i \in DOMAIN q : q[i] \in K}
             a == Ascending(P)
             N == Cardinality(P)
  <1>1. Len(q) \in Nat /\ DOMAIN q = 1..Len(q) /\ q \in [1..Len(q) -> T]
    BY LenProperties
  <1>2. P \in SUBSET (1..Len(q))
    BY <1>1
  <1>3. IsFiniteSet(P)
    <2>1. IsFiniteSet(1..Len(q))
      BY <1>1, FS_Interval
    <2> HIDE DEF P
    <2> QED
      BY <1>2, <2>1, FS_Subset, Zenon
  <1>4. P \in SUBSET Nat
    BY <1>1
  <1>5. N \in Nat
    BY <1>3, FS_CardinalityType
  <1> HIDE DEF P
  <1>6. /\ a \in [1..N -> P] /\ DOMAIN a = 1..N
        /\ \A i \in P : \E j \in 1..N : a[j] = i
    BY <1>3, <1>4, AscendingLists
  <1> HIDE DEF a, N
  <1>7. Retain(q, K) = [j \in 1..N |-> q[a[j]]]
    BY <1>6 DEF Retain, P, a
  <1>8. \A j \in 1..N : q[a[j]] \in T /\ q[a[j]] \in K /\ a[j] \in DOMAIN q
    BY <1>1, <1>6 DEF P
  <1>9. Retain(q, K) \in Seq(T)
    BY <1>5, <1>7, <1>8
  <1>10. Entries(Retain(q, K)) = {q[a[j]] : j \in 1..N}
    BY <1>7 DEF Entries
  <1>11. Entries(Retain(q, K)) \subseteq Entries(q) \cap K
    BY <1>8, <1>10 DEF Entries
  <1>12. ASSUME NEW x \in Entries(q) \cap K
         PROVE  x \in Entries(Retain(q, K))
    <2>1. PICK i \in DOMAIN q : x = q[i]
      BY DEF Entries
    <2>2. i \in P
      BY <2>1 DEF P
    <2>3. PICK j \in 1..N : a[j] = i
      BY <2>2, <1>6
    <2> QED
      BY <2>1, <2>3, <1>10
  <1> QED
    BY <1>9, <1>11, <1>12

(* retain makes no duplicates.                                            *)
LEMMA RetainDistinct ==
  ASSUME NEW T, NEW q \in Seq(T), NEW K, Distinct(q)
  PROVE  Distinct(Retain(q, K))
  <1> DEFINE P == {i \in DOMAIN q : q[i] \in K}
             a == Ascending(P)
             N == Cardinality(P)
  <1>1. Len(q) \in Nat /\ DOMAIN q = 1..Len(q)
    BY LenProperties
  <1>2. P \in SUBSET (1..Len(q)) /\ P \in SUBSET Nat
    BY <1>1
  <1> HIDE DEF P
  <1>3. IsFiniteSet(1..Len(q))
    BY <1>1, FS_Interval
  <1>4. IsFiniteSet(P)
    BY <1>2, <1>3, FS_Subset, Zenon
  <1>5. /\ a \in [1..N -> P] /\ DOMAIN a = 1..N
        /\ \A j \in 1..N : Rank(P, a[j]) = j
    BY <1>2, <1>4, AscendingLists
  <1> HIDE DEF a, N
  <1>6. Retain(q, K) = [j \in 1..N |-> q[a[j]]]
    BY <1>5 DEF Retain, P, a
  <1>7. \A j \in 1..N : a[j] \in DOMAIN q
    BY <1>5 DEF P
  <1> QED
    BY <1>5, <1>6, <1>7 DEF Distinct

(* An entry at the back.                                                  *)
LEMMA AppendEntries ==
  ASSUME NEW T, NEW q \in Seq(T), NEW x \in T
  PROVE  /\ Append(q, x) \in Seq(T)
         /\ Entries(Append(q, x)) = Entries(q) \union {x}
         /\ Distinct(q) /\ x \notin Entries(q) => Distinct(Append(q, x))
  <1>1. /\ Append(q, x) \in Seq(T) /\ Len(q) \in Nat
        /\ DOMAIN q = 1..Len(q)
        /\ DOMAIN Append(q, x) = 1..(Len(q) + 1)
        /\ \A i \in 1..Len(q) : Append(q, x)[i] = q[i]
        /\ Append(q, x)[Len(q) + 1] = x
    OBVIOUS
  <1>2. 1..(Len(q) + 1) = (1..Len(q)) \union {Len(q) + 1}
    BY <1>1
  <1>3. Entries(Append(q, x)) = Entries(q) \union {x}
    BY <1>1, <1>2, ZenonT(30) DEF Entries
  <1>4. Distinct(q) /\ x \notin Entries(q) => Distinct(Append(q, x))
    BY <1>1, <1>2 DEF Distinct, Entries
  <1> QED
    BY <1>1, <1>3, <1>4

(* An entry at the front.                                                 *)
LEMMA PushFrontEntries ==
  ASSUME NEW T, NEW q \in Seq(T), NEW x \in T
  PROVE  /\ <<x>> \o q \in Seq(T)
         /\ Entries(<<x>> \o q) = Entries(q) \union {x}
         /\ Distinct(q) /\ x \notin Entries(q) => Distinct(<<x>> \o q)
  <1> DEFINE r == <<x>> \o q
  <1>1. /\ r \in Seq(T) /\ Len(q) \in Nat
        /\ DOMAIN q = 1..Len(q)
        /\ DOMAIN r = 1..(Len(q) + 1)
        /\ \A i \in 2..(Len(q) + 1) : r[i] = q[i - 1]
        /\ r[1] = x
    OBVIOUS
  <1> HIDE DEF r
  <1>2. \A i \in 1..(Len(q) + 1) :
          i = 1 \/ (i \in 2..(Len(q) + 1) /\ i - 1 \in 1..Len(q))
    BY <1>1
  <1>3. \A i \in 1..Len(q) : i + 1 \in 1..(Len(q) + 1) /\ r[i + 1] = q[i]
    BY <1>1
  <1>4. Entries(r) \subseteq Entries(q) \union {x}
    BY <1>1, <1>2 DEF Entries
  <1>5. Entries(q) \union {x} \subseteq Entries(r)
    <2>1. 1 \in 1..(Len(q) + 1)
      BY <1>1
    <2>2. x \in Entries(r)
      BY <1>1, <2>1 DEF Entries
    <2>3. Entries(q) \subseteq Entries(r)
      BY <1>1, <1>3 DEF Entries
    <2> QED
      BY <2>2, <2>3
  <1>6. ASSUME Distinct(q), x \notin Entries(q) PROVE Distinct(r)
    <2>1. \A i \in 2..(Len(q) + 1) : r[i] \in Entries(q)
      BY <1>1 DEF Entries
    <2>2. \A i, j \in 2..(Len(q) + 1) : r[i] = r[j] => i = j
      BY <1>1, <1>6 DEF Distinct
    <2> QED
      BY <1>1, <1>2, <1>6, <2>1, <2>2 DEF Distinct
  <1> QED
    BY <1>1, <1>4, <1>5, <1>6 DEF r

(* The front entry taken off.                                             *)
LEMMA TailEntries ==
  ASSUME NEW T, NEW q \in Seq(T), q # <<>>
  PROVE  /\ Head(q) \in T /\ Tail(q) \in Seq(T)
         /\ Head(q) \in Entries(q)
         /\ Entries(q) = Entries(Tail(q)) \union {Head(q)}
         /\ Len(Tail(q)) = Len(q) - 1
         /\ Distinct(q) => Distinct(Tail(q)) /\ Head(q) \notin Entries(Tail(q))
  <1> DEFINE t == Tail(q)
  <1>1. /\ t \in Seq(T) /\ Len(q) \in Nat \ {0} /\ Len(t) = Len(q) - 1
        /\ DOMAIN q = 1..Len(q) /\ DOMAIN t = 1..(Len(q) - 1)
        /\ \A i \in 1..(Len(q) - 1) : t[i] = q[i + 1]
        /\ Head(q) = q[1] /\ q[1] \in T
    OBVIOUS
  <1> HIDE DEF t
  <1>2. \A i \in 1..Len(q) : i = 1 \/ i - 1 \in 1..(Len(q) - 1)
    BY <1>1
  <1>3. \A i \in 1..Len(q) : i = 1 \/ t[i - 1] = q[i]
    BY <1>1
  <1>4. 1 \in 1..Len(q) /\ \A i \in 1..(Len(q) - 1) : i + 1 \in 1..Len(q)
    BY <1>1
  <1>5. Entries(q) \subseteq Entries(t) \union {Head(q)}
    BY <1>1, <1>2, <1>3, SMTT(20) DEF Entries
  <1>6. Entries(t) \union {Head(q)} \subseteq Entries(q)
    BY <1>1, <1>4, SMTT(20) DEF Entries
  <1>7. ASSUME Distinct(q) PROVE Distinct(t) /\ Head(q) \notin Entries(t)
    <2>1. \A i, j \in 1..(Len(q) - 1) : t[i] = t[j] => i + 1 = j + 1
      BY <1>1, <1>4, <1>7 DEF Distinct
    <2>2. \A i \in 1..(Len(q) - 1) : t[i] # q[1]
      BY <1>1, <1>4, <1>7 DEF Distinct
    <2> QED
      BY <1>1, <2>1, <2>2 DEF Distinct, Entries
  <1> QED
    BY <1>1, <1>5, <1>6, <1>7 DEF t

(* A queue built from a set lists each of its elements once.              *)
LEMMA AscendingEntries ==
  ASSUME NEW S \in SUBSET Nat, IsFiniteSet(S)
  PROVE  /\ Ascending(S) \in Seq(S)
         /\ Entries(Ascending(S)) = S /\ Distinct(Ascending(S))
  <1> DEFINE a == Ascending(S)
             n == Cardinality(S)
  <1>1. /\ a \in [1..n -> S]
        /\ \A i \in S : \E j \in 1..n : a[j] = i
        /\ \A j \in 1..n : Rank(S, a[j]) = j
    BY AscendingLists
  <1>2. n \in Nat
    BY FS_CardinalityType
  <1> HIDE DEF a, n
  <1>3. a \in Seq(S) /\ DOMAIN a = 1..n
    BY <1>1, <1>2
  <1>4. Entries(a) = S
    <2>1. \A j \in 1..n : a[j] \in S
      BY <1>1
    <2> QED
      BY <1>1, <1>3, <2>1, ZenonT(30) DEF Entries
  <1>5. Distinct(a)
    BY <1>1, <1>3, Zenon DEF Distinct
  <1> QED
    BY <1>3, <1>4, <1>5 DEF a

(* One queue behind another.                                              *)
LEMMA ConcatEntries ==
  ASSUME NEW T, NEW q \in Seq(T), NEW r \in Seq(T)
  PROVE  /\ q \o r \in Seq(T)
         /\ Entries(q \o r) = Entries(q) \union Entries(r)
         /\ Distinct(q) /\ Distinct(r) /\ Entries(q) \cap Entries(r) = {}
              => Distinct(q \o r)
  <1> DEFINE c == q \o r
             m == Len(q)
             n == Len(r)
  <1>1. /\ c \in Seq(T) /\ m \in Nat /\ n \in Nat
        /\ DOMAIN q = 1..m /\ DOMAIN r = 1..n /\ DOMAIN c = 1..(m + n)
        /\ \A i \in 1..m : c[i] = q[i]
        /\ \A i \in (m + 1)..(m + n) : c[i] = r[i - m]
    OBVIOUS
  <1> HIDE DEF c, m, n
  <1>2. \A i \in 1..(m + n) :
          i \in 1..m \/ (i \in (m + 1)..(m + n) /\ i - m \in 1..n)
    BY <1>1
  <1>3. /\ \A i \in 1..m : i \in 1..(m + n)
        /\ \A i \in 1..n : i + m \in 1..(m + n) /\ c[i + m] = r[i]
    BY <1>1
  <1>4. Entries(c) \subseteq Entries(q) \union Entries(r)
    BY <1>1, <1>2, Zenon DEF Entries
  <1>5. Entries(q) \subseteq Entries(c)
    BY <1>1, <1>3 DEF Entries
  <1>6. Entries(r) \subseteq Entries(c)
    BY <1>1, <1>3, SMTT(20) DEF Entries
  <1>7. ASSUME Distinct(q), Distinct(r), Entries(q) \cap Entries(r) = {}
        PROVE  Distinct(c)
    <2>1. \A i, j \in 1..m : c[i] = c[j] => i = j
      BY <1>1, <1>7 DEF Distinct
    <2>2. ASSUME NEW i \in (m + 1)..(m + n), NEW j \in (m + 1)..(m + n), c[i] = c[j]
          PROVE  i = j
      <3>1. i - m \in 1..n /\ j - m \in 1..n /\ r[i - m] = r[j - m]
        BY <1>1, <2>2
      <3>2. i - m = j - m
        BY <1>1, <1>7, <3>1, Zenon DEF Distinct
      <3> QED
        BY <1>1, <3>2
    <2>3. ASSUME NEW i \in 1..m, NEW j \in (m + 1)..(m + n)
          PROVE  c[i] # c[j]
      <3>1. c[i] \in Entries(q)
        BY <1>1 DEF Entries
      <3>2. j - m \in 1..n /\ c[j] = r[j - m]
        BY <1>1
      <3>3. c[j] \in Entries(r)
        BY <1>1, <3>2, Zenon DEF Entries
      <3> QED
        BY <1>7, <3>1, <3>3
    <2> QED
      BY <1>1, <1>2, <2>1, <2>2, <2>3 DEF Distinct
  <1> QED
    BY <1>1, <1>4, <1>5, <1>6, <1>7 DEF c

(* The front entry taken off after one was added at the back.             *)
LEMMA TailAppend ==
  ASSUME NEW T, NEW q \in Seq(T), q # <<>>, NEW x \in T
  PROVE  Tail(Append(q, x)) = Append(Tail(q), x)
  <1> DEFINE a == Append(q, x)
             t == Tail(q)
             n == Len(q)
  <1>1. /\ n \in Nat \ {0} /\ a \in Seq(T) /\ Len(a) = n + 1
        /\ \A i \in 1..n : a[i] = q[i]
        /\ a[n + 1] = x
    OBVIOUS
  <1>2. /\ t \in Seq(T) /\ Len(t) = n - 1
        /\ \A i \in 1..(n - 1) : t[i] = q[i + 1]
    OBVIOUS
  <1> HIDE DEF a, t, n
  <1>3. /\ Tail(a) \in Seq(T) /\ Len(Tail(a)) = n
        /\ \A i \in 1..n : Tail(a)[i] = a[i + 1]
    BY <1>1
  <1>4. /\ Append(t, x) \in Seq(T) /\ Len(Append(t, x)) = n
        /\ \A i \in 1..(n - 1) : Append(t, x)[i] = t[i]
        /\ Append(t, x)[n] = x
    BY <1>1, <1>2
  <1>5. \A i \in 1..n : Tail(a)[i] = Append(t, x)[i]
    BY <1>1, <1>2, <1>3, <1>4
  <1>6. Tail(a) = Append(t, x)
    BY <1>1, <1>3, <1>4, <1>5, SeqEqual, SMTT(20)
  <1> QED
    BY <1>6 DEF a, t
=============================================================================
