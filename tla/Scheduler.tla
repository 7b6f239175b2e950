----------------------------- MODULE Scheduler ------------------------------
(***************************************************************************)
(* PriorityScheduler (tox-sequenced/src/scheduler.rs): deficit round robin *)
(* over priority levels.  A call of next_message visits each active level  *)
(* at most once; a visit is a step, and left counts the visits that the    *)
(* call under way still has.  The closure is_ready is the function ready,  *)
(* which the session's window, queues and timers change between calls.     *)
(***************************************************************************)
EXTENDS Collections, Integers

CONSTANTS
  NumPriorities, \* NUM_PRIORITIES
  Quantums,      \* quantums, by level
  Cap,           \* 16384, the most a level saves up
  Messages,      \* message ids
  Sizes,         \* fragment sizes
  MaxUpdates     \* bound on the priorities a message is given in its life

ASSUME SchedulerAssumption ==
  /\ NumPriorities \in Nat \ {0} /\ Cap \in Nat
  /\ Quantums \in [0..(NumPriorities - 1) -> Nat \ {0}]
  /\ Sizes \subseteq 1..Cap /\ MaxUpdates \in Nat

VARIABLES
  deficits,  \* deficits
  queues,    \* active_queues
  active,    \* active_levels
  needs,     \* needs_quantum
  ready,     \* size of the fragment each message has ready, 0 for None
  calling,   \* next_message is under way
  left,      \* levels it may still visit
  picked,    \* what the last call returned, {} for None
  updates    \* how often each message may still be given a priority

schedulerVars ==
  <<deficits, queues, active, needs, ready, calling, left, picked, updates>>

Levels == 0..(NumPriorities - 1)

SchedulerInit ==
  /\ deficits = [p \in Levels |-> 0] /\ queues = [p \in Levels |-> <<>>]
  /\ active = <<>> /\ needs = [p \in Levels |-> TRUE]
  /\ ready = [m \in Messages |-> 0]
  /\ calling = FALSE /\ left = 0 /\ picked = {}
  /\ updates = [m \in Messages |-> MaxUpdates]

(***************************************************************************)
(* update_message.  Levels 0 and 1 enter the round at its front.          *)
(***************************************************************************)
(* (Mutant: a level is added whether or not it is in the round.)          *)
ActivatedAgain(p) == Append(active, p)

Activated(p) ==
  IF p \in Entries(active) THEN active
  ELSE IF p <= 1 THEN <<p>> \o active ELSE Append(active, p)

QueuedAt(m, p) ==
  [l \in Levels |->
     IF l # p THEN Retain(queues[l], Messages \ {m})
     ELSE IF m \in Entries(queues[p]) THEN queues[p]
     ELSE Append(queues[p], m)]

UpdateMessage(m, p) ==
  /\ ~calling
  /\ updates[m] > 0
  /\ updates' = [updates EXCEPT ![m] = @ - 1]
  /\ active' = Activated(p)
  /\ needs' = [needs EXCEPT ![p] = @ \/ p \notin Entries(active)]
  /\ queues' = QueuedAt(m, p)
  /\ UNCHANGED <<deficits, ready, calling, left, picked>>

(***************************************************************************)
(* remove_message: the levels left without a message leave the round.     *)
(* The message is done with, and its id is not used again.                *)
(***************************************************************************)
RemoveMessage(m) ==
  LET qs    == [l \in Levels |-> Retain(queues[l], Messages \ {m})]
      empty == {l \in Levels : qs[l] = <<>>}
  IN  /\ ~calling
      /\ \E l \in Levels : m \in Entries(queues[l])
      /\ queues' = qs
      /\ deficits' = [l \in Levels |-> IF l \in empty THEN 0 ELSE deficits[l]]
      /\ needs' = [l \in Levels |-> l \in empty \/ needs[l]]
      /\ active' = Retain(active, Levels \ empty)
      /\ updates' = [updates EXCEPT ![m] = 0]
      /\ UNCHANGED <<ready, calling, left, picked>>

(***************************************************************************)
(* next_message.                                                          *)
(***************************************************************************)
BeginNextMessage ==
  /\ ~calling
  /\ calling' = TRUE /\ left' = Len(active)
  /\ UNCHANGED <<deficits, queues, active, needs, ready, picked, updates>>

(* (Mutant: the picked message keeps its place.)                          *)
RotateNothing(q, k) == q
Rotate(q, k) == SubSeq(q, k + 1, Len(q)) \o SubSeq(q, 1, k)
Level == Head(active)
ReadyAt == {i \in DOMAIN queues[Level] : ready[queues[Level][i]] > 0}
FirstReady == CHOOSE i \in ReadyAt : \A j \in ReadyAt : i <= j

(* The deficit after the quantum that a level gets once per round.        *)
Deficit ==
  LET d == deficits[Level] + Quantums[Level]
  IN  IF ~needs[Level] THEN deficits[Level] ELSE IF d <= Cap THEN d ELSE Cap

Visiting == calling /\ left > 0

VisitEmpty ==
  /\ Visiting /\ queues[Level] = <<>>
  /\ deficits' = [deficits EXCEPT ![Level] = 0]
  /\ needs' = [needs EXCEPT ![Level] = TRUE]
  /\ active' = Tail(active) /\ left' = left - 1
  /\ UNCHANGED <<queues, ready, calling, picked, updates>>

(* The level goes to the back and keeps its deficit.                      *)
PassOn ==
  /\ deficits' = [deficits EXCEPT ![Level] = Deficit]
  /\ needs' = [needs EXCEPT ![Level] = TRUE]
  /\ active' = Append(Tail(active), Level) /\ left' = left - 1
  /\ UNCHANGED <<ready, calling, picked, updates>>

VisitIdle ==
  /\ Visiting /\ queues[Level] # <<>> /\ ReadyAt = {}
  /\ PassOn
  /\ UNCHANGED queues

ReadyMessage == queues[Level][FirstReady]

VisitExhausted ==
  /\ Visiting /\ ReadyAt # {} /\ Deficit < ready[ReadyMessage]
  /\ PassOn
  /\ queues' = [queues EXCEPT ![Level] = Rotate(@, FirstReady - 1)]

VisitPicks ==
  LET rest == Deficit - ready[ReadyMessage]
  IN  /\ Visiting /\ ReadyAt # {} /\ rest >= 0
      /\ deficits' = [deficits EXCEPT ![Level] = rest]
      /\ queues' = [queues EXCEPT ![Level] = Rotate(@, FirstReady)]
      /\ needs' = [needs EXCEPT ![Level] = rest = 0]
      /\ active' = IF rest > 0 THEN active ELSE Append(Tail(active), Level)
      /\ picked' = {ReadyMessage}
      /\ calling' = FALSE /\ left' = 0
      /\ UNCHANGED <<ready, updates>>

FindNothing ==
  /\ calling /\ left = 0
  /\ picked' = {} /\ calling' = FALSE
  /\ UNCHANGED <<deficits, queues, active, needs, ready, left, updates>>

NextMessage ==
  \/ BeginNextMessage
  \/ VisitEmpty \/ VisitIdle \/ VisitExhausted \/ VisitPicks
  \/ FindNothing

(* The session: windows, queues and timers make messages ready or not.    *)
SetReady(m, size) ==
  /\ ~calling
  /\ ready' = [ready EXCEPT ![m] = size]
  /\ UNCHANGED <<deficits, queues, active, needs, calling, left, picked, updates>>

SchedulerNext ==
  \/ NextMessage
  \/ \E m \in Messages :
       \/ \E p \in Levels : UpdateMessage(m, p)
       \/ RemoveMessage(m)
       \/ \E size \in Sizes \union {0} : SetReady(m, size)

(* flush_packets calls next_message as long as next_wakeup finds data.    *)
SchedulerSpec ==
  /\ SchedulerInit /\ [][SchedulerNext]_schedulerVars
  /\ WF_schedulerVars(NextMessage)

(***************************************************************************)
(* Properties                                                             *)
(***************************************************************************)
(* Type invariant of the scheduler.                                       *)
SchedulerTypeOK ==
  /\ deficits \in [Levels -> Int] /\ queues \in [Levels -> Seq(Messages)]
  /\ active \in Seq(Levels) /\ needs \in [Levels -> BOOLEAN]
  /\ ready \in [Messages -> Sizes \union {0}] /\ calling \in BOOLEAN
  /\ left \in Nat /\ picked \subseteq Messages /\ updates \in [Messages -> Nat]

(* A deficit is never negative, never above the cap, and a level that is  *)
(* not in the round has saved nothing.                                    *)
DeficitBounded ==
  \A p \in Levels :
    /\ 0 <= deficits[p] /\ deficits[p] <= Cap
    /\ p \notin Entries(active) => deficits[p] = 0

(* No level is in the round twice, and one with messages is in it: a      *)
(* message can not be stranded in a queue that next_message never visits. *)
RoundComplete ==
  /\ Distinct(active)
  /\ \A p \in Levels : queues[p] # <<>> => p \in Entries(active)
  /\ left <= Len(active)

(* No message starves: one that stays queued and ready is picked again    *)
(* and again, whatever its level.                                         *)
Queued(m) == \E p \in Levels : m \in Entries(queues[p])
NoStarvation ==
  \A m \in Messages :
    <>[](Queued(m) /\ ready[m] > 0) => []<>(picked = {m})
=============================================================================
