--------------------------- MODULE QuotaCasProof ----------------------------
(***************************************************************************)
(* The shared reassembly quota is exact and implements an atomic pool, for *)
(* any number of sessions and any sizes.  The invariants the runs check    *)
(* are not inductive alone: a session about to exchange must also know     *)
(* that the value it loaded leaves room for its reservation.               *)
(***************************************************************************)
EXTENDS QuotaCas, CollectionsProof

(* What reserve has established between its test and its exchange.        *)
RoomSeen ==
  \A s \in Sessions :
    pc[s] = "exchange" /\ op[s].kind = "reserve"
      => cur[s] + op[s].n <= op[s].limit

QuotaInv ==
  QuotaTypeOK /\ ReleaseCovered /\ RoomSeen /\ NoLostUpdate /\ HardMaximum

(* Every operation is a reservation under a limit or a release.           *)
LEMMA OpsFields ==
  ASSUME NEW o \in Ops
  PROVE  /\ o.n \in Nat /\ o.limit \in Nat /\ o.limit <= QuotaMax
         /\ o.kind \in {"reserve", "release"}
  <1>1. QuotaMax \in Nat /\ Amounts \subseteq Nat
        /\ \A l \in Limits : l \in Nat /\ l <= QuotaMax
    BY QuotaAssumption
  <1>2. CASE o \in [kind : {"reserve"}, n : Amounts, limit : Limits]
    BY <1>1, <1>2, Zenon
  <1>3. CASE o \in [kind : {"release"}, n : Nat, limit : {QuotaMax}]
    BY <1>1, <1>3
  <1> QED
    BY <1>2, <1>3 DEF Ops

(* The quota starts with nothing used and nothing held.                   *)
LEMMA QuotaInitInv == QuotaInit => QuotaInv
  <1> SUFFICES ASSUME QuotaInit PROVE QuotaInv
    OBVIOUS
  <1>1. QuotaTypeOK
    BY QuotaAssumption DEF QuotaInit, QuotaTypeOK, Ops
  <1>2. ReleaseCovered /\ RoomSeen
    BY DEF QuotaInit, ReleaseCovered, RoomSeen
  <1>3. NoLostUpdate
    BY TotalZero DEF QuotaInit, NoLostUpdate
  <1>4. HardMaximum
    BY QuotaAssumption DEF QuotaInit, HardMaximum
  <1> QED
    BY <1>1, <1>2, <1>3, <1>4 DEF QuotaInv

(* The start of an operation.                                             *)
LEMMA BeginInv ==
  ASSUME QuotaInv, NEW s \in Sessions, NEW o \in Ops, Begin(s, o),
         o.kind = "release" => o.n <= held[s]
  PROVE  QuotaInv'
  <1>1. QuotaTypeOK'
    BY DEF QuotaInv, QuotaTypeOK, Begin
  <1>2. ReleaseCovered'
    BY DEF QuotaInv, QuotaTypeOK, ReleaseCovered, Begin
  <1>3. RoomSeen'
    BY DEF QuotaInv, QuotaTypeOK, RoomSeen, Begin
  <1>4. NoLostUpdate' /\ HardMaximum'
    BY DEF QuotaInv, NoLostUpdate, HardMaximum, Begin
  <1> QED
    BY <1>1, <1>2, <1>3, <1>4 DEF QuotaInv

(* The load and its early return.                                         *)
LEMMA LoadInv ==
  ASSUME QuotaInv, NEW s \in Sessions, Load(s)
  PROVE  QuotaInv'
  <1>1. QuotaTypeOK'
    BY DEF QuotaInv, QuotaTypeOK, Load
  <1>2. ReleaseCovered'
    BY DEF QuotaInv, QuotaTypeOK, ReleaseCovered, Load
  <1>3. RoomSeen'
    <2>1. op[s] \in Ops /\ used \in Nat
      BY DEF QuotaInv, QuotaTypeOK
    <2>2. op[s].n \in Nat /\ op[s].limit \in Nat
      BY <2>1, OpsFields
    <2> QED
      BY <2>1, <2>2 DEF QuotaInv, QuotaTypeOK, RoomSeen, Load
  <1>4. NoLostUpdate' /\ HardMaximum'
    BY DEF QuotaInv, NoLostUpdate, HardMaximum, Load
  <1> QED
    BY <1>1, <1>2, <1>3, <1>4 DEF QuotaInv

(* What a successful exchange does to the counter: the subtraction of a   *)
(* release does not saturate, and a reservation keeps to its limit.       *)
LEMMA ExchangeEffect ==
  ASSUME QuotaInv, NEW s \in Sessions, ExchangeOk(s)
  PROVE  \/ /\ op[s].kind = "reserve" /\ used + op[s].n <= op[s].limit
            /\ used' = used + op[s].n
            /\ held' = [held EXCEPT ![s] = held[s] + op[s].n]
         \/ /\ op[s].kind = "release" /\ op[s].n <= held[s] /\ op[s].n <= used
            /\ used' = used - op[s].n
            /\ held' = [held EXCEPT ![s] = held[s] - op[s].n]
  <1>1. op[s] \in Ops /\ held \in [Sessions -> Nat] /\ used \in Nat
    BY DEF QuotaInv, QuotaTypeOK
  <1>2. op[s].n \in Nat /\ op[s].kind \in {"reserve", "release"}
    BY <1>1, OpsFields
  <1>3. held[s] <= used
    BY <1>1, QuotaAssumption, TotalBound DEF QuotaInv, NoLostUpdate
  <1>4. CASE op[s].kind = "reserve"
    BY <1>1, <1>2, <1>4 DEF ExchangeOk, NewValue, QuotaInv, RoomSeen
  <1>5. CASE op[s].kind = "release"
    <2>1. op[s].n <= held[s]
      BY <1>5 DEF ExchangeOk, QuotaInv, ReleaseCovered
    <2>2. op[s].n <= used /\ cur[s] = used
      BY <1>1, <1>2, <1>3, <2>1 DEF ExchangeOk
    <2> QED
      BY <1>1, <1>2, <1>5, <2>1, <2>2 DEF ExchangeOk, NewValue
  <1> QED
    BY <1>2, <1>4, <1>5

(* The exchange that succeeds.                                            *)
LEMMA ExchangeOkInv ==
  ASSUME QuotaInv, NEW s \in Sessions, ExchangeOk(s)
  PROVE  QuotaInv'
  <1>1. /\ op[s] \in Ops /\ held \in [Sessions -> Nat] /\ used \in Nat
        /\ op[s].n \in Nat /\ op[s].limit \in Nat /\ op[s].limit <= QuotaMax
        /\ QuotaMax \in Nat /\ held[s] \in Nat
    BY QuotaAssumption, OpsFields DEF QuotaInv, QuotaTypeOK
  <1>2. used' \in Nat /\ held' \in [Sessions -> Nat]
    BY <1>1, ExchangeEffect
  <1>3. QuotaTypeOK'
    BY <1>2 DEF QuotaInv, QuotaTypeOK, ExchangeOk
  <1>4. ReleaseCovered'
    <2>1. \A t \in Sessions : pc'[t] # "idle" => t # s /\ held'[t] = held[t]
      BY <1>1 DEF ExchangeOk, QuotaInv, QuotaTypeOK
    <2> QED
      BY <2>1 DEF QuotaInv, QuotaTypeOK, ReleaseCovered, ExchangeOk
  <1>5. RoomSeen'
    BY DEF QuotaInv, QuotaTypeOK, RoomSeen, ExchangeOk
  <1>6. NoLostUpdate'
    <2>1. Total(held') = Total(held) - held[s] + held'[s]
      <3>1. \A t \in Sessions \ {s} : held'[t] = held[t]
        BY <1>1 DEF ExchangeOk
      <3> QED
        BY <1>1, <1>2, <3>1, QuotaAssumption, TotalChange
    <2>2. Total(held) = used
      BY DEF QuotaInv, NoLostUpdate
    <2>3. used' = used - held[s] + held'[s]
      BY <1>1, ExchangeEffect
    <2> QED
      BY <2>1, <2>2, <2>3 DEF NoLostUpdate
  <1>7. HardMaximum'
    BY <1>1, ExchangeEffect DEF QuotaInv, HardMaximum
  <1> QED
    BY <1>3, <1>4, <1>5, <1>6, <1>7 DEF QuotaInv

(* The exchange that fails.                                               *)
LEMMA ExchangeFailedInv ==
  ASSUME QuotaInv, NEW s \in Sessions, ExchangeFailed(s)
  PROVE  QuotaInv'
  <1>1. QuotaTypeOK'
    BY DEF QuotaInv, QuotaTypeOK, ExchangeFailed
  <1>2. ReleaseCovered' /\ RoomSeen'
    BY DEF QuotaInv, QuotaTypeOK, ReleaseCovered, RoomSeen, ExchangeFailed
  <1>3. NoLostUpdate' /\ HardMaximum'
    BY DEF QuotaInv, NoLostUpdate, HardMaximum, ExchangeFailed
  <1> QED
    BY <1>1, <1>2, <1>3 DEF QuotaInv

(* Every step of every session preserves the invariant.                   *)
LEMMA QuotaNextInv == QuotaInv /\ [QuotaNext]_quotaVars => QuotaInv'
  <1> SUFFICES ASSUME QuotaInv, [QuotaNext]_quotaVars PROVE QuotaInv'
    OBVIOUS
  <1>1. CASE UNCHANGED quotaVars
    BY <1>1 DEF quotaVars, QuotaInv, QuotaTypeOK, ReleaseCovered, RoomSeen,
                NoLostUpdate, HardMaximum
  <1>2. ASSUME NEW s \in Sessions, BeginReserve(s) PROVE QuotaInv'
    <2>1. PICK n \in Amounts, limit \in Limits :
            Begin(s, [kind |-> "reserve", n |-> n, limit |-> limit])
      BY <1>2 DEF BeginReserve
    <2>2. [kind |-> "reserve", n |-> n, limit |-> limit] \in Ops
      BY DEF Ops
    <2> QED
      BY <2>1, <2>2, BeginInv
  <1>3. ASSUME NEW s \in Sessions, BeginRelease(s) PROVE QuotaInv'
    <2>1. PICK n \in 1..held[s] :
            Begin(s, [kind |-> "release", n |-> n, limit |-> QuotaMax])
      BY <1>3 DEF BeginRelease
    <2>2. n \in Nat
      BY DEF QuotaInv, QuotaTypeOK
    <2>3. [kind |-> "release", n |-> n, limit |-> QuotaMax] \in Ops
      BY <2>2 DEF Ops
    <2>4. n <= held[s]
      BY DEF QuotaInv, QuotaTypeOK
    <2> QED
      BY <2>1, <2>3, <2>4, BeginInv
  <1>4. ASSUME NEW s \in Sessions, Running(s) PROVE QuotaInv'
    BY <1>4, LoadInv, ExchangeOkInv, ExchangeFailedInv DEF Running
  <1> QED
    BY <1>1, <1>2, <1>3, <1>4 DEF QuotaNext

(* The invariant of quota.rs: reserve, reserve_guaranteed and release keep *)
(* types, exactness and the hard maximum under every interleaving.         *)
THEOREM QuotaInvariant == QuotaSpec => []QuotaInv
  BY QuotaInitInv, QuotaNextInv, PTL DEF QuotaSpec

(* used_bytes always is the sum of what the sessions have booked: the     *)
(* compare-and-exchange loops of quota.rs lose no update.                 *)
THEOREM QuotaExactness == QuotaSpec => []NoLostUpdate
  <1>1. QuotaInv => NoLostUpdate
    BY DEF QuotaInv
  <1> QED
    BY <1>1, QuotaInvariant, PTL

(* The shared counter never exceeds max_bytes, although every thread      *)
(* tests a value that may be stale by the time it is used.                *)
THEOREM QuotaHardMaximum == QuotaSpec => []HardMaximum
  <1>1. QuotaInv => HardMaximum
    BY DEF QuotaInv
  <1> QED
    BY <1>1, QuotaInvariant, PTL

(* Every step of the loops is a step of the pool, or invisible to it.     *)
LEMMA QuotaStepRefines ==
  QuotaInv /\ [QuotaNext]_quotaVars => [Pool!PoolNext]_<<used, held>>
  <1> SUFFICES ASSUME QuotaInv, [QuotaNext]_quotaVars
               PROVE  [Pool!PoolNext]_<<used, held>>
    OBVIOUS
  <1>1. CASE UNCHANGED quotaVars
    BY <1>1 DEF quotaVars
  <1>2. ASSUME NEW s \in Sessions, BeginReserve(s) \/ BeginRelease(s)
        PROVE  UNCHANGED <<used, held>>
    BY <1>2 DEF BeginReserve, BeginRelease, Begin
  <1>3. ASSUME NEW s \in Sessions, Load(s) \/ ExchangeFailed(s)
        PROVE  UNCHANGED <<used, held>>
    BY <1>3 DEF Load, ExchangeFailed
  <1>4. ASSUME NEW s \in Sessions, ExchangeOk(s) PROVE Pool!PoolNext
    <2> DEFINE n == op[s].n
               limit == op[s].limit
    <2>1. /\ op[s] \in Ops /\ used \in Nat /\ used <= QuotaMax
          /\ QuotaMax \in Nat
      BY QuotaAssumption DEF QuotaInv, QuotaTypeOK, HardMaximum
    <2>2. n \in Nat /\ limit \in Nat /\ limit <= QuotaMax
      BY <2>1, OpsFields
    <2>3. CASE op[s].kind = "reserve"
      <3>1. limit \in Limits
        BY <2>1, <2>3 DEF Ops
      <3>2. Pool!Take(s, n, limit)
        BY <1>4, <2>3, ExchangeEffect DEF Pool!Take
      <3>3. n \in 0..QuotaMax
        BY <1>4, <2>1, <2>2, <2>3, ExchangeEffect
      <3> QED
        BY <3>1, <3>2, <3>3 DEF Pool!PoolNext
    <2>4. CASE op[s].kind = "release"
      <3>1. Pool!Give(s, n)
        BY <1>4, <2>4, ExchangeEffect DEF Pool!Give
      <3>2. n \in 0..QuotaMax
        BY <1>4, <2>1, <2>2, <2>4, ExchangeEffect
      <3> QED
        BY <3>1, <3>2 DEF Pool!PoolNext
    <2> QED
      BY <2>1, <2>3, <2>4, OpsFields
  <1> QED
    BY <1>1, <1>2, <1>3, <1>4 DEF QuotaNext, Running

(* The loops of quota.rs implement a pool whose operations are atomic.    *)
THEOREM QuotaRefinement == QuotaSpec => ImplementsPool
  <1>1. QuotaInit => Pool!PoolInit
    BY DEF QuotaInit, Pool!PoolInit
  <1> QED
    BY <1>1, QuotaStepRefines, QuotaInvariant, PTL
    DEF QuotaSpec, ImplementsPool, Pool!PoolSpec
=============================================================================
