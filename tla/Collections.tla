---------------------------- MODULE Collections -----------------------------
(***************************************************************************)
(* The operators on queues and sums that the transport's bookkeeping is    *)
(* built from.  They are defined by counting instead of by recursion, so   *)
(* that lemmas about them can be proved (CollectionsProof).                *)
(***************************************************************************)
EXTENDS Naturals, Sequences, FiniteSets

(* The elements of a finite set of naturals, in increasing order: the     *)
(* order in which a loop over fragment indices visits them.               *)
Ascending(S) ==
  [j \in 1..Cardinality(S) |->
     CHOOSE i \in S : Cardinality({k \in S : k <= i}) = j]

(* VecDeque::retain: the entries of q that belong to K, in their order.   *)
Retain(q, K) ==
  LET keep == Ascending({i \in DOMAIN q : q[i] \in K})
  IN  [j \in DOMAIN keep |-> q[keep[j]]]

(* The set of the entries of a queue.                                     *)
Entries(q) == {q[i] : i \in DOMAIN q}

(* No entry of a queue occurs twice.                                      *)
Distinct(q) == \A i, j \in DOMAIN q : q[i] = q[j] => i = j

(* The sum of a function with natural values: every unit of every value   *)
(* is an element of Units(f).                                             *)
Units(f) == UNION {{k} \X (1..f[k]) : k \in DOMAIN f}
Total(f) == Cardinality(Units(f))
=============================================================================
