------------------------------ MODULE MCStore ------------------------------
(* The node store with few nodes, packs and crashes.                       *)
EXTENDS FsStore, TLC

(* The store does not tell nodes apart, except by their sequence numbers,  *)
(* which it is given.                                                      *)
Symmetry == Permutations(Node)
=============================================================================
