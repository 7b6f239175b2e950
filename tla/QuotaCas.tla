------------------------------ MODULE QuotaCas ------------------------------
(***************************************************************************)
(* ReassemblyQuota (tox-sequenced/src/quota.rs) at the level of its atomic *)
(* instructions: reserve, reserve_guaranteed and release each load         *)
(* used_bytes and then try to exchange it, again and again until nobody    *)
(* came in between.  Every session has its own thread and clones of one    *)
(* quota share the counter.                                                *)
(*                                                                         *)
(* A relaxed load may return a value from before the operation began; that *)
(* is the load of an operation that began earlier and was slow.            *)
(***************************************************************************)
EXTENDS Collections

CONSTANTS
  Sessions,  \* the sessions that share the quota
  QuotaMax,  \* max_bytes
  Amounts,   \* sizes of the reservations
  Limits,    \* the thresholds of reserve and the one of reserve_guaranteed
  MaxOps     \* bound on the operations of one session

ASSUME QuotaAssumption ==
  /\ IsFiniteSet(Sessions) /\ QuotaMax \in Nat /\ MaxOps \in Nat
  /\ Amounts \subseteq Nat /\ Limits \subseteq 0..QuotaMax

VARIABLES
  used,  \* used_bytes
  held,  \* what each session's books say it has reserved
  pc,    \* "idle", "load" or "exchange"
  op,    \* the operation a session is in
  cur,   \* the value its load returned
  ops    \* operations each session has begun

quotaVars == <<used, held, pc, op, cur, ops>>

Ops ==
  [kind : {"reserve"}, n : Amounts, limit : Limits] \union
  [kind : {"release"}, n : Nat, limit : {QuotaMax}]

QuotaInit ==
  /\ used = 0 /\ held = [s \in Sessions |-> 0]
  /\ pc = [s \in Sessions |-> "idle"]
  /\ op = [s \in Sessions |-> [kind |-> "release", n |-> 0, limit |-> QuotaMax]]
  /\ cur = [s \in Sessions |-> 0] /\ ops = [s \in Sessions |-> 0]

Begin(s, o) ==
  /\ pc[s] = "idle" /\ ops[s] < MaxOps
  /\ pc' = [pc EXCEPT ![s] = "load"]
  /\ op' = [op EXCEPT ![s] = o]
  /\ ops' = [ops EXCEPT ![s] = @ + 1]
  /\ UNCHANGED <<used, held, cur>>

BeginReserve(s) ==
  \E n \in Amounts, limit \in Limits :
    Begin(s, [kind |-> "reserve", n |-> n, limit |-> limit])

(* A session gives back a part of what it holds, or all of it.            *)
BeginRelease(s) ==
  \E n \in 1..held[s] : Begin(s, [kind |-> "release", n |-> n, limit |-> QuotaMax])

(* (Mutant: a loop that waits for room.)                                  *)
LoadSpins(s) ==
  /\ pc[s] = "load"
  /\ op[s].kind = "reserve" => used + op[s].n <= op[s].limit
  /\ cur' = [cur EXCEPT ![s] = used] /\ pc' = [pc EXCEPT ![s] = "exchange"]
  /\ UNCHANGED <<used, held, op, ops>>

(* used_bytes.load, and the early return when there is no room.           *)
Load(s) ==
  /\ pc[s] = "load"
  /\ cur' = [cur EXCEPT ![s] = used]
  /\ pc' = [pc EXCEPT ![s] =
              IF op[s].kind = "reserve" /\ used + op[s].n > op[s].limit
              THEN "idle" ELSE "exchange"]
  /\ UNCHANGED <<used, held, op, ops>>

NewValue(s) ==
  IF op[s].kind = "reserve" THEN cur[s] + op[s].n
  ELSE IF cur[s] >= op[s].n THEN cur[s] - op[s].n ELSE 0

(* (Mutant: a plain store instead of compare_exchange.)                   *)
BlindStore(s) ==
  /\ pc[s] = "exchange"
  /\ used' = NewValue(s)
  /\ held' = [held EXCEPT ![s] =
                IF op[s].kind = "reserve" THEN @ + op[s].n ELSE @ - op[s].n]
  /\ pc' = [pc EXCEPT ![s] = "idle"]
  /\ UNCHANGED <<op, cur, ops>>

(* compare_exchange finds the loaded value and the session books it.      *)
ExchangeOk(s) ==
  /\ pc[s] = "exchange" /\ used = cur[s]
  /\ used' = NewValue(s)
  /\ held' = [held EXCEPT ![s] =
                IF op[s].kind = "reserve" THEN @ + op[s].n ELSE @ - op[s].n]
  /\ pc' = [pc EXCEPT ![s] = "idle"]
  /\ UNCHANGED <<op, cur, ops>>

(* Somebody else came first: the loop goes round.                         *)
ExchangeFailed(s) ==
  /\ pc[s] = "exchange" /\ used # cur[s]
  /\ pc' = [pc EXCEPT ![s] = "load"]
  /\ UNCHANGED <<used, held, op, cur, ops>>

Running(s) == Load(s) \/ ExchangeOk(s) \/ ExchangeFailed(s)

QuotaNext ==
  \E s \in Sessions : BeginReserve(s) \/ BeginRelease(s) \/ Running(s)

(* A thread inside an operation is not suspended for ever.                *)
QuotaSpec ==
  /\ QuotaInit /\ [][QuotaNext]_quotaVars
  /\ \A s \in Sessions : WF_quotaVars(Running(s))

(***************************************************************************)
(* Properties                                                             *)
(***************************************************************************)
(* Type invariant of the quota and of the threads that use it.            *)
QuotaTypeOK ==
  /\ used \in Nat /\ held \in [Sessions -> Nat]
  /\ pc \in [Sessions -> {"idle", "load", "exchange"}]
  /\ op \in [Sessions -> Ops] /\ cur \in [Sessions -> Nat]
  /\ ops \in [Sessions -> Nat]

(* used_bytes is the sum of what the sessions hold: no interleaving of    *)
(* loads and exchanges loses or doubles an update.                        *)
NoLostUpdate == used = Total(held)

(* The pool's hard maximum is never exceeded, although every thread tests *)
(* it against a value that may be stale by then.                          *)
HardMaximum == used <= QuotaMax

(* A release in progress asks for no more than its session holds, so the  *)
(* saturating subtraction never hides a deficit.                          *)
ReleaseCovered ==
  \A s \in Sessions :
    pc[s] # "idle" /\ op[s].kind = "release" => op[s].n <= held[s]

(* The loops implement the atomic pool.                                   *)
Pool == INSTANCE SharedQuota
ImplementsPool == Pool!PoolSpec

(* Every operation ends: a failed exchange means that somebody else's     *)
(* succeeded, and nobody has more than MaxOps operations.                 *)
OperationsEnd == \A s \in Sessions : pc[s] # "idle" ~> pc[s] = "idle"
=============================================================================
