------------------------------- MODULE Iblt -------------------------------
(***************************************************************************)
(* The invertible Bloom lookup table of tox-reconcile (iblt.rs).  A cell   *)
(* holds the signed count, the XOR of the hashes and the XOR of the check  *)
(* hashes of the elements that map to it.  Every cell is linear in the set *)
(* inserted, so a subtracted sketch is determined by the two sets it was   *)
(* built from, and a cell by the differing elements that map to it.  The   *)
(* XOR of several distinct hashes is taken never to be a hash with a       *)
(* matching check hash.                                                    *)
(***************************************************************************)
EXTENDS FiniteSets, Naturals

CONSTANTS
    Tiers,      \* the tiers in use
    Cells,      \* Cells[t][x]: the cells of a tier-t sketch that x maps to
    Dmax        \* Dmax[t]: the differences a tier-t sketch may decode to

(* The differing elements in D that map to cell c. *)
InCell(t, D, c) == {x \in D : c \in Cells[t][x]}

(* is_pure: the count is 1 or -1 and the check hash matches. *)
IsPure(t, D, c) == Cardinality(InCell(t, D, c)) = 1

AllCells(t, D) == UNION {Cells[t][x] : x \in D}

(* What is left of the differences D when no cell is pure: peeling removes *)
(* one element of a pure cell after another, in any order, and stops at    *)
(* the largest set that has no pure cell.                                  *)
Residue(t, D) ==
    UNION {S \in SUBSET D : \A c \in AllCells(t, S) : ~IsPure(t, S, c)}

(* decode after subtract: the differing elements by side, or a failure if  *)
(* a cell is not empty in the end or more than d_max elements came out.    *)
Decode(t, self, other) ==
    LET D == (self \ other) \cup (other \ self) IN
    IF Residue(t, D) = {} /\ Cardinality(D) <= Dmax[t]
    THEN [ok |-> TRUE, in_self |-> self \ other, in_other |-> other \ self]
    ELSE [ok |-> FALSE, in_self |-> {}, in_other |-> {}]
=============================================================================
