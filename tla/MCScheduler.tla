---------------------------- MODULE MCScheduler -----------------------------
(* Two messages and three levels.  A fragment costs more than the quantum  *)
(* of the lowest level, as a full fragment does with bulk data, and a      *)
(* message may be moved to another level once.                             *)
EXTENDS Scheduler

MCQuantums == [p \in 0..2 |-> CASE p = 0 -> 3 [] p = 1 -> 2 [] p = 2 -> 1]
=============================================================================
