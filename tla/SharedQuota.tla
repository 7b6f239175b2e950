---------------------------- MODULE SharedQuota -----------------------------
(***************************************************************************)
(* What ReassemblyQuota (tox-sequenced/src/quota.rs) promises its users: a *)
(* pool from which sessions take and to which they give back, each in one  *)
(* step.  A limit is the share of the pool that the request's priority may *)
(* fill.                                                                   *)
(***************************************************************************)
EXTENDS Naturals

CONSTANTS Sessions, QuotaMax, Limits

VARIABLES used, held

PoolInit == used = 0 /\ held = [s \in Sessions |-> 0]

Take(s, n, limit) ==
  /\ used + n <= limit
  /\ used' = used + n
  /\ held' = [held EXCEPT ![s] = @ + n]

Give(s, n) ==
  /\ n <= held[s]
  /\ used' = used - n
  /\ held' = [held EXCEPT ![s] = @ - n]

PoolNext ==
  \E s \in Sessions, n \in 0..QuotaMax :
    \/ \E limit \in Limits : Take(s, n, limit)
    \/ Give(s, n)

PoolSpec == PoolInit /\ [][PoolNext]_<<used, held>>
=============================================================================
