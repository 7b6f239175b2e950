--------------------------- MODULE MCReceiverDedup ---------------------------
(* Six single-fragment messages whose ids straddle the wrap of the id      *)
(* space, more than the cache of completed messages holds.                 *)
EXTENDS SequenceReceiver

MCPackets ==
  {[id |-> m, idx |-> 0, total |-> 1, size |-> 1] : m \in {14, 15, 0, 1, 2, 3}}

MCTypePrio == [m \in 0..(IdSpace - 1) |-> 2]
=============================================================================
