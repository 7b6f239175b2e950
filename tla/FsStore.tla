------------------------------ MODULE FsStore ------------------------------
(***************************************************************************)
(* The node store of one conversation (merkle-tox-fs/src/lib.rs): an       *)
(* append-only journal of node, promotion and ratchet records, immutable   *)
(* packs that compaction writes, the ratchet checkpoint and state.bin.     *)
(*                                                                         *)
(* Every operation holds the write lock of FsStore.inner, so only a crash  *)
(* or a failing file operation can come between two steps of one.  A       *)
(* compaction is therefore split at the file operations it performs, and   *)
(* every other operation is one action.  Crash is the end of the process:  *)
(* what it wrote stays written, a record it was appending may be torn.     *)
(*                                                                         *)
(* The nodes are those this device authors: the engine takes the sequence  *)
(* number of a new one from get_last_sequence_number (authoring.rs:449).   *)
(***************************************************************************)
EXTENDS Integers, Sequences, FiniteSets, FiniteSetsExt

CONSTANTS
  Node,              \* the nodes that may be stored
  CompactThreshold,  \* COMPACT_THRESHOLD
  MaxJournal,        \* bound on the records in the journal
  MaxPacks,          \* bound on the packs ever written
  MaxFails,          \* bound on the file operations that fail
  MaxFaults          \* bound on these, the crashes and the shutdowns

ASSUME StoreAssumption ==
  /\ IsFiniteSet(Node)
  /\ CompactThreshold \in Nat \ {0}
  /\ {MaxJournal, MaxPacks, MaxFails, MaxFaults} \subseteq Nat

VARIABLES
  journal,     \* journal.bin: its records, and what a broken append left
  generation,  \* generation_id in its header
  packFiles,   \* the pack files: by id, the status of each node in them
  ratchet,     \* ratchet.bin: last_sequence_number of this device
  stateFile,   \* state.bin: active_packs and active_journal_id
  up,          \* the process runs
  pc,          \* where a compaction is
  putting,     \* the nodes whose put_node waits for the compaction
  gathered,    \* ratchet_updates of the compaction, for this device
  volatile,    \* volatile_nodes: status and journal offset by node
  packs,       \* the packs opened
  state,       \* the ConvState in memory; heads and counters are payload
  lastSeq,     \* last_seq_numbers of this device
  seq,         \* sequence number of each node, 0 while it is not created
  acked,       \* ghost: of each node reported stored, the statuses due
  exposed,     \* ghost: a crash or a failure hit the store where it is weak
  crashes, fails

disk == <<journal, generation, packFiles, ratchet, stateFile>>
memory == <<volatile, packs, state, lastSeq>>
ghosts == <<seq, acked, exposed>>
compaction == <<pc, putting, gathered>>
vars == <<disk, up, compaction, memory, ghosts, crashes, fails>>

(* What a walk over the journal does not accept: a record cut after its    *)
(* length, the bytes of a length field that is itself incomplete, and the  *)
(* footer of a clean shutdown.  The records it accepts are of nodes (with  *)
(* their status), promotions and ratchet keys.                             *)
Remains == [kind : {"torn", "stub", "footer"}]

StoreInit ==
  /\ journal = <<>> /\ generation = 0 /\ packFiles = <<>> /\ ratchet = 0
  /\ stateFile = [packs |-> <<>>, journalId |-> 0]
  /\ up = TRUE /\ pc = "idle" /\ putting = {} /\ gathered = 0
  /\ volatile = <<>> /\ packs = <<>> /\ lastSeq = 0
  /\ state = stateFile
  /\ seq = [n \in Node |-> 0] /\ acked = <<>> /\ exposed = FALSE
  /\ crashes = 0 /\ fails = 0

-----------------------------------------------------------------------------
(* Journal::read_all: the records before the first that is not one.        *)
ReadAll(j) ==
  LET bad == {i \in 1..Len(j) : j[i] \in Remains}
  IN IF bad = {} THEN j ELSE SubSeq(j, 1, Min(bad) - 1)

(* (Mutant: the walk cuts nothing.)                                        *)
WalkedUncut(j) == j

(* What the walk leaves in the file.  It cuts the file at the first record *)
(* it rejects, but not when the file ends inside a length field.           *)
Walked(j) ==
  IF ReadAll(j) \o <<[kind |-> "stub"]>> = j THEN j ELSE ReadAll(j)

(* The node records of a journal, by position.                             *)
NodeRecords(j) == {i \in 1..Len(j) : j[i].kind = "node"}
NodesIn(j) == {j[i].node : i \in NodeRecords(j)}

(* (Mutant: promotions are not replayed.)                                  *)
ReplayedStatus(j) ==
  [n \in NodesIn(j) |->
     LET last == Max({i \in NodeRecords(j) : j[i].node = n})
     IN [offset |-> last, verified |-> j[last].verified]]

(* replay_journal: the last record of a node decides, and any promotion    *)
(* behind it.                                                              *)
Replayed(j) ==
  [n \in NodesIn(j) |->
     LET last == Max({i \in NodeRecords(j) : j[i].node = n})
     IN [offset |-> last,
         verified |-> \/ j[last].verified
                      \/ \E i \in last..Len(j) :
                           j[i] = [kind |-> "promotion", node |-> n]]]

HighestSeq(S) == Max({0} \union {seq[n] : n \in S})

(* The sequence number that compaction gathers for this device: a ratchet  *)
(* advance of a volatile node sets it, a node record only raises it.       *)
GatheredSeq(j) ==
  LET advances == {i \in 1..Len(j) : /\ j[i].kind = "ratchet"
                                     /\ j[i].node \in DOMAIN volatile}
      last == Max({0} \union advances)
      later == {j[i].node : i \in {k \in NodeRecords(j) : k > last}}
  IN Max({HighestSeq(later)} \union {seq[j[i].node] : i \in advances \intersect {last}})

(* PackIndex::build sorts the records by hash; where a node has several, a *)
(* lookup may find any of them.  Promotions are not looked at.             *)
PackOf(j) ==
  {p \in [NodesIn(j) -> BOOLEAN] :
     \A n \in NodesIn(j) : \E i \in NodeRecords(j) :
       j[i].node = n /\ j[i].verified = p[n]}

(* get_node: through the offset of a volatile node, else from the packs.   *)
Readable(n) ==
  IF n \in DOMAIN volatile
  THEN LET at == volatile[n].offset
       IN /\ at <= Len(journal)
          /\ journal[at].kind = "node" /\ journal[at].node = n
  ELSE \E i \in 1..Len(packs) : n \in DOMAIN packFiles[packs[i]]

Idle == up /\ pc = "idle"
FaultLeft == crashes + fails < MaxFaults

(* A call returned without an error: the nodes S are stored with status v. *)
Acknowledge(S, v) ==
  acked' = [n \in DOMAIN acked \union S |-> IF n \in S THEN {v[n]} ELSE acked[n]]

-----------------------------------------------------------------------------
(* Operations that append to the journal.                                  *)

(* put_node, up to the compaction it starts when enough nodes are          *)
(* volatile.  A node that is not stored yet is a new one of this device.   *)
PutNode(n, verified) ==
  /\ Idle /\ Len(journal) < MaxJournal
  /\ seq' = IF seq[n] = 0 THEN [seq EXCEPT ![n] = lastSeq + 1] ELSE seq
  /\ journal' = Append(journal, [kind |-> "node", node |-> n, verified |-> verified])
  /\ volatile' = [m \in DOMAIN volatile \union {n} |->
                    IF m = n THEN [offset |-> Len(journal'), verified |-> verified]
                    ELSE volatile[m]]
  /\ lastSeq' = Max({lastSeq, seq'[n]})
  /\ IF Cardinality(DOMAIN volatile') >= CompactThreshold
     THEN /\ pc' = "shadow" /\ putting' = {n}
          /\ acked' = [m \in DOMAIN acked |->
                         IF m = n THEN acked[m] \union {verified} ELSE acked[m]]
     ELSE Acknowledge({n}, [m \in {n} |-> verified]) /\ UNCHANGED <<pc, putting>>
  /\ UNCHANGED <<generation, packFiles, ratchet, stateFile, up, gathered, packs, state, exposed, crashes, fails>>

(* mark_verified: nothing to do for a node that is not volatile.           *)
MarkVerified(n) ==
  /\ Idle /\ Len(journal) < MaxJournal /\ n \in DOMAIN acked
  /\ IF n \in DOMAIN volatile /\ ~volatile[n].verified
     THEN /\ journal' = Append(journal, [kind |-> "promotion", node |-> n])
          /\ volatile' = [volatile EXCEPT ![n].verified = TRUE]
     ELSE UNCHANGED <<journal, volatile>>
  /\ Acknowledge({n}, [m \in {n} |-> TRUE])
  /\ UNCHANGED <<generation, packFiles, ratchet, stateFile, up, compaction, packs,
                 state, lastSeq, seq, exposed, crashes, fails>>

(* put_ratchet_key, for the node that was authored last: its WriteStore    *)
(* and its WriteRatchetKey are effects of one batch.                       *)
PutRatchetKey(n) ==
  /\ Idle /\ Len(journal) < MaxJournal
  /\ n \in DOMAIN acked /\ seq[n] = lastSeq
  /\ journal' = Append(journal, [kind |-> "ratchet", node |-> n])
  /\ UNCHANGED <<generation, packFiles, ratchet, stateFile, up, compaction, volatile,
                 packs, state, lastSeq, ghosts, crashes, fails>>

(* An append fails half way.  The call returns the error and the process   *)
(* goes on; what was written of the record stays in the file.              *)
AppendFails ==
  /\ Idle /\ fails < MaxFails /\ FaultLeft /\ Len(journal) < MaxJournal
  /\ \E k \in {"torn", "stub"} : journal' = Append(journal, [kind |-> k])
  /\ fails' = fails + 1 /\ exposed' = TRUE
  /\ UNCHANGED <<generation, packFiles, ratchet, stateFile, up, compaction, memory,
                 seq, acked, crashes>>

(* set_heads, set_admin_heads, update_epoch_metadata: each saves the whole *)
(* ConvState, by a rename.                                                 *)
SaveState ==
  /\ Idle
  /\ stateFile' = state
  /\ UNCHANGED <<journal, generation, packFiles, ratchet, up, compaction, memory,
                 ghosts, crashes, fails>>

-----------------------------------------------------------------------------
(* compact_internal, by itself or at the end of put_node.                  *)

Compact ==
  /\ Idle
  /\ pc' = "shadow" /\ putting' = {}
  /\ UNCHANGED <<disk, up, gathered, memory, ghosts, crashes, fails>>

(* Back to the caller, put_node or compact.                                *)
CompactReturns ==
  /\ pc' = "idle" /\ putting' = {} /\ gathered' = 0
  /\ Acknowledge(putting, [n \in putting |-> volatile[n].verified])

(* No node in the journal: nothing to do.                                  *)
CompactNothing ==
  /\ pc = "shadow" /\ NodesIn(ReadAll(journal)) = {}
  /\ journal' = Walked(journal)
  /\ CompactReturns
  /\ UNCHANGED <<generation, packFiles, ratchet, stateFile, up, memory, seq, exposed,
                 crashes, fails>>

(* (Mutant: the clock is read again for the id in the ConvState.)          *)
CompactShadowOtherId ==
  /\ pc = "shadow" /\ NodesIn(ReadAll(journal)) # {}
  /\ Len(packFiles) < MaxPacks
  /\ journal' = Walked(journal)
  /\ \E p \in PackOf(ReadAll(journal)) : packFiles' = Append(packFiles, p)
  /\ state' = [state EXCEPT !.packs = Append(@, Len(packFiles') + 1)]
  /\ gathered' = GatheredSeq(ReadAll(journal))
  /\ pc' = "truncate"
  /\ UNCHANGED <<generation, ratchet, stateFile, up, putting, volatile, packs, lastSeq,
                 ghosts, crashes, fails>>

(* The shadow write of a pack and of its index, and the pack's id in the   *)
(* ConvState in memory.                                                    *)
CompactShadow ==
  /\ pc = "shadow" /\ NodesIn(ReadAll(journal)) # {}
  /\ Len(packFiles) < MaxPacks
  /\ journal' = Walked(journal)
  /\ \E p \in PackOf(ReadAll(journal)) : packFiles' = Append(packFiles, p)
  /\ state' = [state EXCEPT !.packs = Append(@, Len(packFiles'))]
  /\ gathered' = GatheredSeq(ReadAll(journal))
  /\ pc' = "truncate"
  /\ UNCHANGED <<generation, ratchet, stateFile, up, putting, volatile, packs, lastSeq, ghosts, crashes, fails>>

(* Journal::truncate, with the pack's id as the next generation.           *)
CompactTruncate ==
  /\ pc = "truncate"
  /\ journal' = <<>> /\ generation' = Len(packFiles)
  /\ state' = [state EXCEPT !.journalId = Len(packFiles)]
  /\ pc' = "ratchet"
  /\ UNCHANGED <<packFiles, ratchet, stateFile, up, putting, gathered, volatile, packs,
                 lastSeq, ghosts, crashes, fails>>

(* (Mutant: the slot takes the gathered number even when it is lower.)     *)
CompactRatchetLowers ==
  /\ pc = "ratchet"
  /\ ratchet' = gathered
  /\ lastSeq' = Max({lastSeq, gathered})
  /\ pc' = "commit"
  /\ UNCHANGED <<journal, generation, packFiles, stateFile, up, putting, gathered, volatile,
                 packs, state, ghosts, crashes, fails>>

(* ratchet.bin is loaded, raised and saved; its two buffers make the save  *)
(* atomic.                                                                 *)
CompactRatchet ==
  /\ pc = "ratchet"
  /\ ratchet' = Max({ratchet, gathered})
  /\ lastSeq' = Max({lastSeq, gathered})
  /\ pc' = "commit"
  /\ UNCHANGED <<journal, generation, packFiles, stateFile, up, putting, gathered, volatile,
                 packs, state, ghosts, crashes, fails>>

CompactCommit ==
  /\ pc = "commit"
  /\ stateFile' = state
  /\ pc' = "open"
  /\ UNCHANGED <<journal, generation, packFiles, ratchet, up, putting, gathered, memory,
                 ghosts, crashes, fails>>

CompactOpen ==
  /\ pc = "open"
  /\ packs' = Append(packs, Len(packFiles))
  /\ volatile' = <<>>
  /\ CompactReturns
  /\ UNCHANGED <<disk, up, state, lastSeq, seq, exposed, crashes, fails>>

(* A file operation of the compaction fails: the error goes to the caller  *)
(* and what was done until then stays done, in memory and on disk.  From   *)
(* the truncation on, the volatile nodes point into a journal that does    *)
(* not hold them any more.                                                 *)
CompactFails ==
  /\ up /\ pc # "idle" /\ fails < MaxFails /\ FaultLeft
  /\ fails' = fails + 1
  /\ exposed' = (exposed \/ pc \in {"ratchet", "commit", "open"})
  /\ pc' = "idle" /\ putting' = {} /\ gathered' = 0
  /\ UNCHANGED <<disk, up, memory, seq, acked, crashes>>

-----------------------------------------------------------------------------
(* The end of the process and its next start.                              *)

(* Memory is gone.  exposed: between the truncation of the journal and the *)
(* save of state.bin no file on disk leads to the nodes being compacted.   *)
Crash ==
  /\ up /\ FaultLeft
  /\ crashes' = crashes + 1 /\ up' = FALSE
  /\ \/ UNCHANGED journal
     \/ pc = "idle" /\ journal' = Append(journal, [kind |-> "torn"])
  /\ exposed' = (exposed \/ pc \in {"ratchet", "commit"})
  /\ pc' = "idle" /\ putting' = {} /\ gathered' = 0
  /\ volatile' = <<>> /\ packs' = <<>> /\ lastSeq' = 0
  /\ state' = [packs |-> <<>>, journalId |-> 0]
  /\ UNCHANGED <<generation, packFiles, ratchet, stateFile, seq, acked, fails>>

(* Drop of the ConversationContext writes the footer.                      *)
Shutdown ==
  /\ Idle /\ FaultLeft
  /\ crashes' = crashes + 1 /\ up' = FALSE
  /\ journal' = Append(Walked(journal), [kind |-> "footer"])
  /\ volatile' = <<>> /\ packs' = <<>> /\ lastSeq' = 0
  /\ state' = [packs |-> <<>>, journalId |-> 0]
  /\ UNCHANGED <<generation, packFiles, ratchet, stateFile, compaction, ghosts, fails>>

(* The packs that state.bin names can be opened.                           *)
CanReopen == \A i \in 1..Len(stateFile.packs) : stateFile.packs[i] <= Len(packFiles)

(* ensure_conversation and replay_journal.  A journal of another           *)
(* generation than state.bin's is emptied, unless state.bin has none yet.  *)
Reopen ==
  /\ ~up /\ CanReopen
  /\ up' = TRUE
  /\ state' = stateFile /\ packs' = stateFile.packs
  /\ IF stateFile.journalId \notin {0, generation}
     THEN journal' = <<>> /\ generation' = stateFile.journalId
     ELSE journal' = Walked(journal) /\ UNCHANGED generation
  /\ LET records == ReadAll(journal')
     IN /\ volatile' = Replayed(records)
        /\ lastSeq' = Max({ratchet, HighestSeq(NodesIn(records))})
  /\ UNCHANGED <<packFiles, ratchet, stateFile, compaction, ghosts, crashes, fails>>

Next ==
  \/ \E n \in Node, verified \in BOOLEAN : PutNode(n, verified)
  \/ \E n \in Node : MarkVerified(n) \/ PutRatchetKey(n)
  \/ SaveState \/ AppendFails
  \/ Compact \/ CompactNothing \/ CompactShadow \/ CompactTruncate
  \/ CompactRatchet \/ CompactCommit \/ CompactOpen \/ CompactFails
  \/ Crash \/ Shutdown \/ Reopen

Spec == StoreInit /\ [][Next]_vars

-----------------------------------------------------------------------------
(* A node whose put_node returned can be read back, through compactions,   *)
(* crashes, shutdowns and restarts, unless a crash fell between the        *)
(* truncation of the journal and the save of state.bin or a file operation *)
(* failed where compact_internal or append do not undo it.                 *)
NodesDurable ==
  Idle /\ ~exposed => \A n \in DOMAIN acked : Readable(n)

(* get_last_sequence_number covers every node this device was told is      *)
(* stored, so the engine never gives a sequence number twice: neither the  *)
(* compaction, which drops the records it was computed from, nor a restart *)
(* loses it.                                                               *)
SequenceCovered ==
  Idle /\ ~exposed => \A n \in DOMAIN acked : seq[n] <= lastSeq

(* state.bin never names a pack that is not completely written, so the     *)
(* conversation can always be opened again: ensure_conversation propagates *)
(* the error of Pack::open.                                                *)
Reopens == CanReopen

(* Replaying the journal gives back the status that put_node or            *)
(* mark_verified last reported, for every node still in the journal; after *)
(* a put_node that did not return, that status or the one it was given.    *)
StatusReplayed ==
  Idle /\ ~exposed =>
    \A n \in DOMAIN acked \intersect DOMAIN volatile : volatile[n].verified \in acked[n]
=============================================================================
