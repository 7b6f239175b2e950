------------------------------ MODULE MCSwarm ------------------------------
(* A blob of two chunks and two peers, one of which may be wrong.  The     *)
(* infos come from a peer that has one chunk or from one that has all.     *)
EXTENDS Swarm

MCMasks == {{0}, Chunks}
=============================================================================
