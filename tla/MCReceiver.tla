----------------------------- MODULE MCReceiver -----------------------------
(* A message of two fragments, the last one short, and one of a single     *)
(* fragment compete for a quota that others use as well.  Stray packets of *)
(* an earlier session name another fragment count for the first; one is    *)
(* too far ahead for the bitmask of an ACK.                                *)
EXTENDS SequenceReceiver

MCPackets ==
  {[id |-> 3, idx |-> 0, total |-> 2, size |-> 3],
   [id |-> 3, idx |-> 1, total |-> 2, size |-> 1],
   [id |-> 3, idx |-> 2, total |-> 3, size |-> 1],
   [id |-> 3, idx |-> 0, total |-> 3, size |-> 3],
   [id |-> 0, idx |-> 0, total |-> 1, size |-> 3]}

MCTypePrio == [m \in 0..(IdSpace - 1) |-> IF m = 0 THEN 0 ELSE 4]
=============================================================================
