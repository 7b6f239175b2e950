--------------------------- MODULE SchedulerProof ---------------------------
(***************************************************************************)
(* The priority scheduler keeps its deficits in bounds and its round       *)
(* complete, for any number of levels and messages, any quantums and any   *)
(* cap.  A visit needs a level to visit, so the invariant also says that a *)
(* call under way never has more visits left than the round has levels,    *)
(* and that no visits are left between calls.                              *)
(***************************************************************************)
EXTENDS Scheduler, CollectionsProof

RestBetweenCalls == ~calling => left = 0

SchedulerInv ==
  SchedulerTypeOK /\ DeficitBounded /\ RoundComplete /\ RestBetweenCalls

(* The constants, as the provers need them.                               *)
LEMMA Constants ==
  /\ Cap \in Nat /\ Sizes \subseteq Nat /\ NumPriorities \in Nat \ {0}
  /\ \A p \in Levels : Quantums[p] \in Nat
  /\ MaxUpdates \in Nat
  BY SchedulerAssumption DEF Levels

(* A new scheduler is empty.                                              *)
LEMMA SchedulerInitInv == SchedulerInit => SchedulerInv
  <1> SUFFICES ASSUME SchedulerInit PROVE SchedulerInv
    OBVIOUS
  <1>1. SchedulerTypeOK
    <2>1. needs \in [Levels -> BOOLEAN] /\ calling \in BOOLEAN
      BY Zenon DEF SchedulerInit
    <2>2. /\ deficits \in [Levels -> Int] /\ updates \in [Messages -> Nat]
          /\ left \in Nat
      BY Constants, SMT DEF SchedulerInit
    <2>3. queues \in [Levels -> Seq(Messages)] /\ active \in Seq(Levels)
      BY SMT DEF SchedulerInit
    <2>4. ready \in [Messages -> Sizes \union {0}] /\ picked \subseteq Messages
      BY Zenon DEF SchedulerInit
    <2> QED
      BY <2>1, <2>2, <2>3, <2>4 DEF SchedulerTypeOK
  <1>2. DeficitBounded
    BY Constants DEF SchedulerInit, DeficitBounded
  <1>3. RoundComplete /\ RestBetweenCalls
    BY DEF SchedulerInit, RoundComplete, RestBetweenCalls, Distinct, Entries
  <1> QED
    BY <1>1, <1>2, <1>3 DEF SchedulerInv

(* A message leaves a queue: what is left of it is a queue, and an empty  *)
(* queue stays empty.                                                     *)
LEMMA QueueWithout ==
  ASSUME SchedulerTypeOK, NEW l \in Levels, NEW K
  PROVE  /\ Retain(queues[l], K) \in Seq(Messages)
         /\ queues[l] = <<>> => Retain(queues[l], K) = <<>>
  <1>1. queues[l] \in Seq(Messages)
    BY DEF SchedulerTypeOK
  <1>2. /\ Retain(queues[l], K) \in Seq(Messages)
        /\ Entries(Retain(queues[l], K)) = Entries(queues[l]) \cap K
    BY <1>1, RetainEntries
  <1>3. ASSUME queues[l] = <<>> PROVE Retain(queues[l], K) = <<>>
    <2> DEFINE r == Retain(queues[l], K)
    <2>1. Entries(queues[l]) = {}
      BY <1>3 DEF Entries
    <2>2. Entries(r) = {}
      BY <1>2, <2>1
    <2>3. r \in Seq(Messages)
      BY <1>2
    <2> HIDE DEF r
    <2>4. DOMAIN r = {}
      BY <2>2, SMTT(20) DEF Entries
    <2>5. r = <<>>
      BY <2>3, <2>4
    <2> QED
      BY <2>5 DEF r
  <1> QED
    BY <1>2, <1>3

(* The round after update_message has activated a level.                  *)
LEMMA ActivatedRound ==
  ASSUME SchedulerInv, NEW p \in Levels
  PROVE  /\ Activated(p) \in Seq(Levels) /\ Distinct(Activated(p))
         /\ Entries(Activated(p)) = Entries(active) \union {p}
  <1>1. active \in Seq(Levels) /\ Distinct(active)
    BY DEF SchedulerInv, SchedulerTypeOK, RoundComplete
  <1>2. CASE p \in Entries(active)
    BY <1>1, <1>2 DEF Activated
  <1>3. CASE p \notin Entries(active)
    BY <1>1, <1>3, AppendEntries, PushFrontEntries DEF Activated
  <1> QED
    BY <1>2, <1>3

(* update_message.                                                        *)
LEMMA UpdateMessageInv ==
  ASSUME SchedulerInv, NEW m \in Messages, NEW p \in Levels,
         UpdateMessage(m, p)
  PROVE  SchedulerInv'
  <1>1. /\ active' \in Seq(Levels) /\ Distinct(active')
        /\ Entries(active') = Entries(active) \union {p}
    BY ActivatedRound DEF UpdateMessage
  <1>2. queues' \in [Levels -> Seq(Messages)]
    <2>1. \A l \in Levels : QueuedAt(m, p)[l] \in Seq(Messages)
      <3>1. queues[p] \in Seq(Messages)
        BY DEF SchedulerInv, SchedulerTypeOK
      <3> QED
        BY <3>1, QueueWithout DEF QueuedAt, SchedulerInv
    <2> QED
      BY <2>1, Zenon DEF UpdateMessage, QueuedAt
  <1>3. SchedulerTypeOK'
    <2>1. needs' \in [Levels -> BOOLEAN]
      BY Zenon DEF UpdateMessage, SchedulerInv, SchedulerTypeOK
    <2>2. updates' \in [Messages -> Nat]
      BY SMT DEF UpdateMessage, SchedulerInv, SchedulerTypeOK
    <2> QED
      BY <1>1, <1>2, <2>1, <2>2, Zenon
      DEF UpdateMessage, SchedulerInv, SchedulerTypeOK
  <1>4. DeficitBounded'
    BY <1>1 DEF UpdateMessage, SchedulerInv, DeficitBounded
  <1>5. RoundComplete'
    <2>1. ASSUME NEW l \in Levels, queues'[l] # <<>>
          PROVE  l \in Entries(active')
      <3>1. CASE l = p
        BY <1>1, <3>1
      <3>2. CASE l # p
        <4>1. queues[l] # <<>>
          BY <2>1, <3>2, QueueWithout
          DEF UpdateMessage, QueuedAt, SchedulerInv
        <4> QED
          BY <1>1, <4>1 DEF SchedulerInv, RoundComplete
      <3> QED
        BY <3>1, <3>2
    <2>2. left' = 0
      BY DEF UpdateMessage, SchedulerInv, RestBetweenCalls
    <2>3. left' <= Len(active')
      BY <1>1, <2>2
    <2> QED
      BY <1>1, <2>1, <2>3 DEF RoundComplete
  <1>6. RestBetweenCalls'
    BY DEF UpdateMessage, SchedulerInv, RestBetweenCalls
  <1> QED
    BY <1>3, <1>4, <1>5, <1>6 DEF SchedulerInv

(* remove_message.                                                        *)
LEMMA RemoveMessageInv ==
  ASSUME SchedulerInv, NEW m \in Messages, RemoveMessage(m)
  PROVE  SchedulerInv'
  <1> DEFINE qs == [l \in Levels |-> Retain(queues[l], Messages \ {m})]
             empty == {l \in Levels : qs[l] = <<>>}
  <1>1. /\ ~calling /\ queues' = qs
        /\ deficits' = [l \in Levels |-> IF l \in empty THEN 0 ELSE deficits[l]]
        /\ needs' = [l \in Levels |-> l \in empty \/ needs[l]]
        /\ active' = Retain(active, Levels \ empty)
        /\ updates' = [updates EXCEPT ![m] = 0]
        /\ UNCHANGED <<ready, calling, left, picked>>
    BY DEF RemoveMessage
  <1>2. \A l \in Levels : qs[l] \in Seq(Messages)
    BY QueueWithout DEF SchedulerInv
  <1>3. active \in Seq(Levels) /\ Distinct(active)
    BY DEF SchedulerInv, SchedulerTypeOK, RoundComplete
  <1>4. /\ active' \in Seq(Levels) /\ Distinct(active')
        /\ Entries(active') = Entries(active) \cap (Levels \ empty)
    BY <1>1, <1>3, RetainEntries, RetainDistinct, Zenon
  <1>5. SchedulerTypeOK'
    <2>1. queues' \in [Levels -> Seq(Messages)]
      BY <1>1, <1>2, Zenon
    <2>2. deficits' \in [Levels -> Int] /\ needs' \in [Levels -> BOOLEAN]
      BY <1>1 DEF SchedulerInv, SchedulerTypeOK
    <2>3. updates' \in [Messages -> Nat]
      BY <1>1 DEF SchedulerInv, SchedulerTypeOK
    <2> QED
      BY <1>1, <1>4, <2>1, <2>2, <2>3, Zenon DEF SchedulerInv, SchedulerTypeOK
  <1> HIDE DEF empty
  <1>6. DeficitBounded'
    <2>1. ASSUME NEW p \in Levels
          PROVE  /\ 0 <= deficits'[p] /\ deficits'[p] <= Cap
                 /\ p \notin Entries(active') => deficits'[p] = 0
      <3>1. CASE p \in empty
        BY <1>1, <3>1, Constants
      <3>2. CASE p \notin empty
        <4>1. deficits'[p] = deficits[p]
          BY <1>1, <3>2
        <4>2. p \notin Entries(active') => p \notin Entries(active)
          BY <1>4, <3>2
        <4> QED
          BY <4>1, <4>2 DEF SchedulerInv, DeficitBounded
      <3> QED
        BY <3>1, <3>2
    <2> QED
      BY <2>1 DEF DeficitBounded
  <1>7. RoundComplete'
    <2>1. ASSUME NEW l \in Levels, queues'[l] # <<>>
          PROVE  l \in Entries(active')
      <3>1. l \notin empty
        BY <1>1, <2>1 DEF empty
      <3>2. queues[l] # <<>>
        BY <1>1, <2>1, QueueWithout, Zenon DEF SchedulerInv
      <3> QED
        BY <1>4, <3>1, <3>2 DEF SchedulerInv, RoundComplete
    <2>2. left' = 0
      BY <1>1 DEF SchedulerInv, RestBetweenCalls
    <2>3. left' <= Len(active')
      BY <1>4, <2>2
    <2> QED
      BY <1>4, <2>1, <2>3 DEF RoundComplete
  <1>8. RestBetweenCalls'
    BY <1>1 DEF SchedulerInv, RestBetweenCalls
  <1> QED
    BY <1>5, <1>6, <1>7, <1>8 DEF SchedulerInv

(* A visit has a level to visit, and the level's deficit stays in bounds   *)
(* when it gets its quantum.                                               *)
LEMMA VisitedLevel ==
  ASSUME SchedulerInv, Visiting
  PROVE  /\ Level \in Levels /\ Level \in Entries(active)
         /\ active \in Seq(Levels) /\ active # <<>>
         /\ Deficit \in Int /\ 0 <= Deficit /\ Deficit <= Cap
  <1>1. active \in Seq(Levels) /\ left \in Nat /\ left > 0
        /\ left <= Len(active)
    BY DEF SchedulerInv, SchedulerTypeOK, RoundComplete, Visiting
  <1>2. active # <<>>
    BY <1>1
  <1>3. Level \in Levels /\ Level \in Entries(active)
    BY <1>1, <1>2, TailEntries DEF Level
  <1>4. /\ deficits[Level] \in Int /\ 0 <= deficits[Level]
        /\ deficits[Level] <= Cap
        /\ Quantums[Level] \in Nat /\ Cap \in Nat
    BY <1>3, Constants
    DEF SchedulerInv, SchedulerTypeOK, DeficitBounded
  <1>5. Deficit \in Int /\ 0 <= Deficit /\ Deficit <= Cap
    BY <1>4 DEF Deficit
  <1> QED
    BY <1>1, <1>2, <1>3, <1>5

(* The level goes to the back of the round.                               *)
LEMMA RoundRotated ==
  ASSUME SchedulerInv, Visiting
  PROVE  LET r == Append(Tail(active), Level)
         IN  /\ r \in Seq(Levels) /\ Distinct(r)
             /\ Entries(r) = Entries(active) /\ Len(r) = Len(active)
  <1>1. /\ active \in Seq(Levels) /\ active # <<>> /\ Distinct(active)
        /\ Level \in Levels
    BY VisitedLevel DEF SchedulerInv, RoundComplete
  <1>2. /\ Tail(active) \in Seq(Levels)
        /\ Entries(active) = Entries(Tail(active)) \union {Level}
        /\ Distinct(Tail(active)) /\ Level \notin Entries(Tail(active))
    BY <1>1, TailEntries DEF Level
  <1>3. Len(Append(Tail(active), Level)) = Len(active)
    BY <1>1
  <1> DEFINE t == Tail(active)
  <1> HIDE DEF t
  <1>4. /\ Append(t, Level) \in Seq(Levels)
        /\ Entries(Append(t, Level)) = Entries(t) \union {Level}
        /\ Distinct(t) /\ Level \notin Entries(t) => Distinct(Append(t, Level))
    BY <1>1, <1>2, AppendEntries, Zenon DEF t
  <1> QED
    BY <1>2, <1>3, <1>4 DEF t

(* The queue of the visited level is rotated past a ready message.        *)
LEMMA QueueRotated ==
  ASSUME SchedulerInv, Visiting, ReadyAt # {}
  PROVE  /\ FirstReady \in ReadyAt /\ FirstReady \in DOMAIN queues[Level]
         /\ queues[Level] # <<>> /\ ReadyMessage \in Messages
         /\ ready[ReadyMessage] \in Nat
         /\ Rotate(queues[Level], FirstReady) \in Seq(Messages)
         /\ Rotate(queues[Level], FirstReady - 1) \in Seq(Messages)
  <1> DEFINE q == queues[Level]
  <1>1. q \in Seq(Messages)
    BY VisitedLevel DEF SchedulerInv, SchedulerTypeOK
  <1>2. Len(q) \in Nat /\ DOMAIN q = 1..Len(q)
    BY <1>1
  <1>3. ReadyAt \in SUBSET (1..Len(q)) /\ ReadyAt \in SUBSET Nat
    BY <1>2 DEF ReadyAt
  <1>4. IsFiniteSet(1..Len(q))
    <2>1. 1 \in Int /\ Len(q) \in Int
      BY <1>2
    <2> HIDE DEF q
    <2> QED
      BY <2>1, FS_Interval
  <1>5. IsFiniteSet(ReadyAt)
    BY <1>3, <1>4, FS_Subset, Zenon
  <1>6. FirstReady \in ReadyAt
    BY <1>3, <1>5, LeastElement, Zenon DEF FirstReady
  <1>7. FirstReady \in 1..Len(q)
    BY <1>3, <1>6
  <1>8. q[FirstReady] \in Messages
    BY <1>1, <1>7
  <1>9. ready[ReadyMessage] \in Nat
    <2>1. ready \in [Messages -> Sizes \union {0}]
      BY DEF SchedulerInv, SchedulerTypeOK
    <2>2. ready[ReadyMessage] \in Sizes \union {0}
      BY <1>8, <2>1 DEF ReadyMessage
    <2>3. Sizes \union {0} \subseteq Nat
      BY Constants
    <2> QED
      BY <2>2, <2>3, Zenon
  <1> HIDE DEF q
  <1>10. ASSUME NEW k \in 0..Len(q) PROVE Rotate(q, k) \in Seq(Messages)
    <2>1. /\ \A i \in (k + 1)..Len(q) : q[i] \in Messages
          /\ \A i \in 1..k : q[i] \in Messages
      BY <1>1, <1>2
    <2>2. SubSeq(q, k + 1, Len(q)) \in Seq(Messages)
      BY <1>2, <2>1, SubSeqProperties
    <2>3. SubSeq(q, 1, k) \in Seq(Messages)
      BY <1>2, <2>1, SubSeqProperties
    <2> QED
      BY <2>2, <2>3, ConcatProperties DEF Rotate
  <1>11. FirstReady \in 0..Len(q) /\ FirstReady - 1 \in 0..Len(q)
    BY <1>2, <1>7
  <1>12. q # <<>>
    BY <1>2, <1>7
  <1> QED
    BY <1>2, <1>6, <1>7, <1>8, <1>9, <1>10, <1>11, <1>12 DEF q, ReadyMessage

(* The level of an empty queue leaves the round.                          *)
LEMMA VisitEmptyInv ==
  ASSUME SchedulerInv, VisitEmpty
  PROVE  SchedulerInv'
  <1>1. Visiting /\ queues[Level] = <<>>
    BY DEF VisitEmpty
  <1>2. /\ active \in Seq(Levels) /\ active # <<>> /\ Distinct(active)
        /\ Level \in Levels
    BY <1>1, VisitedLevel DEF SchedulerInv, RoundComplete
  <1>3. /\ active' \in Seq(Levels) /\ Distinct(active')
        /\ Entries(active) = Entries(active') \union {Level}
        /\ Len(active') = Len(active) - 1
    BY <1>2, TailEntries DEF VisitEmpty, Level
  <1>4. SchedulerTypeOK'
    <2>1. needs' \in [Levels -> BOOLEAN]
      BY Zenon DEF VisitEmpty, SchedulerInv, SchedulerTypeOK
    <2>2. deficits' \in [Levels -> Int]
      <3>1. deficits \in [Levels -> Int]
        BY DEF SchedulerInv, SchedulerTypeOK
      <3>2. deficits' = [deficits EXCEPT ![Level] = 0]
        BY DEF VisitEmpty
      <3> QED
        BY <1>2, <3>1, <3>2
    <2>3. left' \in Nat
      BY <1>1, SMT DEF VisitEmpty, Visiting, SchedulerInv, SchedulerTypeOK
    <2> QED
      BY <1>3, <2>1, <2>2, <2>3, Zenon
      DEF VisitEmpty, SchedulerInv, SchedulerTypeOK
  <1>5. DeficitBounded'
    BY <1>2, <1>3, Constants
    DEF VisitEmpty, SchedulerInv, SchedulerTypeOK, DeficitBounded
  <1>6. RoundComplete'
    <2>1. \A p \in Levels : queues'[p] # <<>> => p \in Entries(active')
      BY <1>1, <1>3 DEF VisitEmpty, SchedulerInv, RoundComplete
    <2>2. left' <= Len(active')
      BY <1>2, <1>3
      DEF VisitEmpty, SchedulerInv, SchedulerTypeOK, RoundComplete
    <2> QED
      BY <1>3, <2>1, <2>2 DEF RoundComplete
  <1>7. RestBetweenCalls'
    BY <1>1 DEF VisitEmpty, Visiting, RestBetweenCalls
  <1> QED
    BY <1>4, <1>5, <1>6, <1>7 DEF SchedulerInv

(* The level of a queue with nothing ready, or too little deficit, goes to *)
(* the back and keeps what it has saved.                                   *)
LEMMA PassOnInv ==
  ASSUME SchedulerInv, Visiting, PassOn,
         queues' \in [Levels -> Seq(Messages)],
         \A p \in Levels : queues'[p] # <<>> => queues[p] # <<>>
  PROVE  SchedulerInv'
  <1>1. /\ Level \in Levels /\ Level \in Entries(active)
        /\ Deficit \in Int /\ 0 <= Deficit /\ Deficit <= Cap
    BY VisitedLevel
  <1>2. /\ active' \in Seq(Levels) /\ Distinct(active')
        /\ Entries(active') = Entries(active) /\ Len(active') = Len(active)
    BY RoundRotated DEF PassOn
  <1>3. SchedulerTypeOK'
    <2>1. needs' \in [Levels -> BOOLEAN]
      BY Zenon DEF PassOn, SchedulerInv, SchedulerTypeOK
    <2>2. deficits' \in [Levels -> Int]
      BY <1>1, SMT DEF PassOn, SchedulerInv, SchedulerTypeOK
    <2>3. left' \in Nat
      BY SMT DEF PassOn, Visiting, SchedulerInv, SchedulerTypeOK
    <2> QED
      BY <1>2, <2>1, <2>2, <2>3, Zenon
      DEF PassOn, SchedulerInv, SchedulerTypeOK
  <1>4. DeficitBounded'
    BY <1>1, <1>2 DEF PassOn, SchedulerInv, SchedulerTypeOK, DeficitBounded
  <1>5. RoundComplete'
    <2>1. left' <= Len(active')
      BY <1>2 DEF PassOn, SchedulerInv, SchedulerTypeOK, RoundComplete
    <2> QED
      BY <1>2, <2>1 DEF SchedulerInv, RoundComplete
  <1>6. RestBetweenCalls'
    BY DEF PassOn, Visiting, RestBetweenCalls
  <1> QED
    BY <1>3, <1>4, <1>5, <1>6 DEF SchedulerInv

(* A visit that finds nothing ready.                                      *)
LEMMA VisitIdleInv ==
  ASSUME SchedulerInv, VisitIdle
  PROVE  SchedulerInv'
  BY PassOnInv DEF VisitIdle, SchedulerInv, SchedulerTypeOK

(* A visit to a level that can not afford the ready fragment yet.         *)
LEMMA VisitExhaustedInv ==
  ASSUME SchedulerInv, VisitExhausted
  PROVE  SchedulerInv'
  <1>1. Visiting /\ PassOn /\ ReadyAt # {}
        /\ queues' = [queues EXCEPT ![Level] =
                        Rotate(queues[Level], FirstReady - 1)]
    BY DEF VisitExhausted
  <1>2. /\ Rotate(queues[Level], FirstReady - 1) \in Seq(Messages)
        /\ queues[Level] # <<>> /\ Level \in Levels
        /\ queues \in [Levels -> Seq(Messages)]
    BY <1>1, QueueRotated, VisitedLevel DEF SchedulerInv, SchedulerTypeOK
  <1>3. /\ queues' \in [Levels -> Seq(Messages)]
        /\ \A p \in Levels : queues'[p] # <<>> => queues[p] # <<>>
    BY <1>1, <1>2
  <1> QED
    BY <1>1, <1>3, PassOnInv

(* A visit that picks a message and pays for it.                          *)
LEMMA VisitPicksInv ==
  ASSUME SchedulerInv, VisitPicks
  PROVE  SchedulerInv'
  <1> DEFINE rest == Deficit - ready[ReadyMessage]
  <1>1. /\ Visiting /\ ReadyAt # {} /\ rest >= 0
        /\ deficits' = [deficits EXCEPT ![Level] = rest]
        /\ queues' = [queues EXCEPT ![Level] =
                        Rotate(queues[Level], FirstReady)]
        /\ needs' = [needs EXCEPT ![Level] = rest = 0]
        /\ active' = IF rest > 0 THEN active ELSE Append(Tail(active), Level)
        /\ picked' = {ReadyMessage}
        /\ calling' = FALSE /\ left' = 0
        /\ UNCHANGED <<ready, updates>>
    BY DEF VisitPicks
  <1>2. /\ Level \in Levels /\ Level \in Entries(active)
        /\ Deficit \in Int /\ 0 <= Deficit /\ Deficit <= Cap
    BY <1>1, VisitedLevel
  <1>3. /\ ReadyMessage \in Messages /\ ready[ReadyMessage] \in Nat
        /\ queues[Level] # <<>>
        /\ Rotate(queues[Level], FirstReady) \in Seq(Messages)
    BY <1>1, QueueRotated
  <1>4. rest \in Int /\ 0 <= rest /\ rest <= Cap
    BY <1>1, <1>2, <1>3, Constants
  <1> HIDE DEF rest
  <1>5. /\ active' \in Seq(Levels) /\ Distinct(active')
        /\ Entries(active') = Entries(active)
    <2>1. CASE rest > 0
      BY <1>1, <2>1 DEF SchedulerInv, SchedulerTypeOK, RoundComplete
    <2>2. CASE ~(rest > 0)
      BY <1>1, <2>2, RoundRotated
    <2> QED
      BY <2>1, <2>2
  <1>6. SchedulerTypeOK'
    <2>1. needs' \in [Levels -> BOOLEAN]
      BY <1>1, Zenon DEF SchedulerInv, SchedulerTypeOK
    <2>2. deficits' \in [Levels -> Int] /\ left' \in Nat
      <3>1. deficits \in [Levels -> Int]
        BY DEF SchedulerInv, SchedulerTypeOK
      <3> QED
        BY <1>1, <1>4, <3>1, Zenon
    <2>3. queues' \in [Levels -> Seq(Messages)]
      BY <1>1, <1>3, Zenon DEF SchedulerInv, SchedulerTypeOK
    <2> QED
      BY <1>1, <1>3, <1>5, <2>1, <2>2, <2>3, Zenon
      DEF SchedulerInv, SchedulerTypeOK
  <1>7. DeficitBounded'
    BY <1>1, <1>2, <1>4, <1>5
    DEF SchedulerInv, SchedulerTypeOK, DeficitBounded
  <1>8. RoundComplete'
    <2>1. \A p \in Levels : queues'[p] # <<>> => queues[p] # <<>>
      BY <1>1, <1>2, <1>3 DEF SchedulerInv, SchedulerTypeOK
    <2>2. left' <= Len(active')
      BY <1>1, <1>5
    <2> QED
      BY <1>5, <2>1, <2>2 DEF SchedulerInv, RoundComplete
  <1>9. RestBetweenCalls'
    BY <1>1 DEF RestBetweenCalls
  <1> QED
    BY <1>6, <1>7, <1>8, <1>9 DEF SchedulerInv

(* The start of a call, its end with nothing, and changes of readiness.   *)
LEMMA QuietInv ==
  ASSUME SchedulerInv,
         UNCHANGED <<deficits, queues, active, needs, updates>>,
         ready' \in [Messages -> Sizes \union {0}],
         picked' \subseteq Messages, calling' \in BOOLEAN,
         left' \in Nat, left' <= Len(active), ~calling' => left' = 0
  PROVE  SchedulerInv'
  <1>1. SchedulerTypeOK'
    BY Zenon DEF SchedulerInv, SchedulerTypeOK
  <1>2. DeficitBounded' /\ RoundComplete' /\ RestBetweenCalls'
    BY DEF SchedulerInv, DeficitBounded, RoundComplete, RestBetweenCalls
  <1> QED
    BY <1>1, <1>2 DEF SchedulerInv

(* Every step preserves the invariant.                                    *)
LEMMA SchedulerNextInv ==
  SchedulerInv /\ [SchedulerNext]_schedulerVars => SchedulerInv'
  <1> SUFFICES ASSUME SchedulerInv, [SchedulerNext]_schedulerVars
               PROVE  SchedulerInv'
    OBVIOUS
  <1> USE DEF SchedulerInv
  <1>1. /\ ready \in [Messages -> Sizes \union {0}] /\ picked \subseteq Messages
        /\ calling \in BOOLEAN /\ left \in Nat /\ left <= Len(active)
        /\ active \in Seq(Levels) /\ (~calling => left = 0)
    BY DEF SchedulerTypeOK, RoundComplete, RestBetweenCalls
  <1>2. CASE UNCHANGED schedulerVars
    BY <1>1, <1>2, QuietInv DEF schedulerVars
  <1>3. CASE BeginNextMessage
    <2>1. Len(active) \in Nat
      BY <1>1
    <2> QED
      BY <1>1, <1>3, <2>1, QuietInv DEF BeginNextMessage
  <1>4. CASE FindNothing
    BY <1>1, <1>4, QuietInv, Zenon DEF FindNothing
  <1>5. ASSUME NEW m \in Messages, NEW size \in Sizes \union {0},
               SetReady(m, size)
        PROVE  SchedulerInv'
    <2>1. ready' \in [Messages -> Sizes \union {0}]
      BY <1>1, <1>5, Zenon DEF SetReady
    <2> QED
      BY <1>1, <1>5, <2>1, QuietInv DEF SetReady
  <1>6. CASE VisitEmpty \/ VisitIdle \/ VisitExhausted \/ VisitPicks
    BY <1>6, VisitEmptyInv, VisitIdleInv, VisitExhaustedInv, VisitPicksInv
  <1>7. ASSUME NEW m \in Messages,
               (\E p \in Levels : UpdateMessage(m, p)) \/ RemoveMessage(m)
        PROVE  SchedulerInv'
    BY <1>7, UpdateMessageInv, RemoveMessageInv
  <1> QED
    BY <1>2, <1>3, <1>4, <1>5, <1>6, <1>7 DEF SchedulerNext, NextMessage

(* The invariant of scheduler.rs.                                         *)
THEOREM SchedulerInvariant == SchedulerSpec => []SchedulerInv
  BY SchedulerInitInv, SchedulerNextInv, PTL DEF SchedulerSpec

(* A deficit of scheduler.rs stays between zero and the cap, and a level   *)
(* that is not in the round has saved nothing.                             *)
THEOREM SchedulerDeficits == SchedulerSpec => []DeficitBounded
  <1>1. SchedulerInv => DeficitBounded
    BY DEF SchedulerInv
  <1> QED
    BY <1>1, SchedulerInvariant, PTL

(* active_levels of scheduler.rs holds every level that has messages, and *)
(* no level twice: no message waits where next_message does not look.     *)
THEOREM SchedulerRound == SchedulerSpec => []RoundComplete
  <1>1. SchedulerInv => RoundComplete
    BY DEF SchedulerInv
  <1> QED
    BY <1>1, SchedulerInvariant, PTL
=============================================================================
