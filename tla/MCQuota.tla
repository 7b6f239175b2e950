------------------------------- MODULE MCQuota ------------------------------
(* Three sessions; a reservation of priority Bulk may fill three quarters  *)
(* of the pool, a guaranteed one all of it.                                *)
EXTENDS QuotaCas
=============================================================================
