------------------------------- MODULE Swarm -------------------------------
(***************************************************************************)
(* The download of one blob from several peers: SwarmSync and ChunkTracker *)
(* (merkle-tox-core/src/cas.rs), the BLOB messages of the engine           *)
(* (engine/handlers/mod.rs) and the blob file and its info on disk         *)
(* (merkle-tox-fs/src/lib.rs, blob.rs).                                    *)
(*                                                                         *)
(* A chunk is made of pieces.  BLOB_DATA carries a slice, the pieces from  *)
(* the offset its sender chose up to the length of its data, and a proof   *)
(* that is good or not for that slice: it is chosen when the message       *)
(* arrives, as nothing looks into it before.  The info that starts the     *)
(* download names the right root, and the blob is a whole number of chunks.*)
(* Messages travel over tox-sequenced: they overtake each other, and a     *)
(* connection that breaks loses them.                                      *)
(***************************************************************************)
EXTENDS Integers, Sequences, FiniteSets, FiniteSetsExt, SequencesExt, TLC

CONSTANTS
  NumChunks,    \* the blob's size, in chunks of CHUNK_SIZE
  Parts,        \* the pieces of a chunk
  MaxSlice,     \* bound on the pieces of one BLOB_DATA
  Peers,        \* the peers, by their keys
  Faulty,       \* the peers whose slices or roots may be wrong
  Masks,        \* received_mask of the infos that peers send
  MaxPerPeer,   \* fetches in flight with one peer (4)
  MaxRequests,  \* requests of one poll (4)
  FetchTimeout, \* FETCH_TIMEOUT, in ticks
  MaxAvails,    \* bound on the BLOB_AVAIL messages
  MaxFaults     \* bound on messages lost or sent unasked, failing writes and crashes

Chunks == 0..(NumChunks - 1)
Pieces == 0..(NumChunks * Parts - 1)
PiecesOf(c) == {i \in Pieces : i \div Parts = c}

ASSUME SwarmAssumption ==
  /\ {NumChunks, Parts} \subseteq Nat \ {0} /\ MaxSlice \in Nat
  /\ Peers \subseteq Nat /\ IsFiniteSet(Peers) /\ Faulty \subseteq Peers
  /\ Masks \subseteq SUBSET Chunks
  /\ {MaxPerPeer, MaxRequests, FetchTimeout} \subseteq Nat \ {0}
  /\ {MaxAvails, MaxFaults} \subseteq Nat

VARIABLES
  syncing,   \* blob_syncs has an entry for the blob
  seeders, received, active,  \* SwarmSync: seeders, tracker, active_fetches
  offered,   \* SwarmSync: received_mask of its info
  requests,  \* BLOB_REQ messages on the way, as <<peer, chunk>>
  replies,   \* BLOB_DATA messages on the way, as <<peer, chunk of the offset>>
  stored,    \* the pieces written to the blob file
  status, mask,  \* BlobInfo on disk: status ("None": no info), received_mask
  announced, \* ghost: NodeEvent::BlobAvailable was emitted
  short,     \* ghost: the chunks received only in slices that do not cover them
  avails, losses, extras, fails, crashes

sync == <<seeders, received, active, offered>>
net == <<requests, replies>>
disk == <<stored, status, mask>>
ghost == <<announced, short>>
counters == <<avails, losses, extras, fails, crashes>>
vars == <<syncing, sync, net, disk, ghost, counters>>

SwarmInit ==
  /\ syncing = FALSE /\ seeders = {} /\ received = {} /\ active = <<>>
  /\ offered = {} /\ requests = {} /\ replies = {}
  /\ stored = {} /\ status = "None" /\ mask = {} /\ announced = FALSE
  /\ short = {} /\ avails = 0 /\ losses = 0 /\ extras = 0 /\ fails = 0 /\ crashes = 0

-----------------------------------------------------------------------------
FaultLeft == losses + extras + fails + crashes < MaxFaults

(* (Mutant: remove_seeder leaves the peer's fetches.)                      *)
WithoutNothing(fetches, p) == fetches

Without(fetches, p) == Restrict(fetches, {c \in DOMAIN fetches : fetches[c].peer # p})
Load(fetches, p) == Cardinality({c \in DOMAIN fetches : fetches[c].peer = p})

(* (Mutant: a new tracker starts from the peer's received_mask.)           *)
TrackerOfMask(m) == m

(* ChunkTracker::new: no chunk is received, whatever the info's mask says. *)
TrackerNew(m) == {}

(* The BLOB_AVAIL handler: add_seeder, remove_seeder, or a new SwarmSync   *)
(* with the peer's info, which WriteBlobInfo stores unless it fails.       *)
BlobAvail(p) ==
  /\ avails < MaxAvails /\ avails' = avails + 1
  /\ \/ /\ syncing /\ seeders' = seeders \union {p}
        /\ UNCHANGED <<syncing, received, active, offered, status, mask, short, fails>>
     \/ /\ syncing /\ p \in Faulty
        /\ seeders' = seeders \ {p} /\ active' = Without(active, p)
        /\ UNCHANGED <<syncing, received, offered, status, mask, short, fails>>
     \/ /\ ~syncing /\ status # "Available"
        /\ syncing' = TRUE /\ seeders' = {p} /\ active' = <<>>
        /\ offered' \in Masks /\ received' = TrackerNew(offered') /\ short' = {}
        /\ \/ status' = "Pending" /\ mask' = offered' /\ UNCHANGED fails
           \/ FaultLeft /\ fails' = fails + 1 /\ UNCHANGED <<status, mask>>
  /\ UNCHANGED <<net, stored, announced, losses, extras, crashes>>

(* next_requests gives the missing chunks, in order, each to the seeder    *)
(* with the fewest fetches, the lowest key among equals: the k-th chunk    *)
(* gets the k-th of the free slots <<load, peer>> in that order.           *)
Slots(fetches) ==
  {s \in (0..MaxPerPeer - 1) \X seeders : s[1] >= Load(fetches, s[2])}

Before(s, t) == s[1] < t[1] \/ (s[1] = t[1] /\ s[2] < t[2])

NextRequests(fetches) ==
  LET missing == Chunks \ (received \union DOMAIN fetches)
      Rank(c) == Cardinality({d \in missing : d < c})
      slots == Slots(fetches)
      Slot(k) == CHOOSE s \in slots : Cardinality({t \in slots : Before(t, s)}) = k
  IN [c \in {c \in missing : Rank(c) < MaxRequests /\ Rank(c) < Cardinality(slots)} |->
        [peer |-> Slot(Rank(c))[2], age |-> 0]]

(* (Mutant: fetches never time out.)                                       *)
LiveForever(fetches) == fetches

(* clear_stalled_fetches.                                                  *)
Live(fetches) ==
  Restrict(fetches, {c \in DOMAIN fetches : fetches[c].age < FetchTimeout})

Joined(f, g) ==
  [c \in DOMAIN f \union DOMAIN g |-> IF c \in DOMAIN f THEN f[c] ELSE g[c]]

(* The blob part of the engine's poll.                                     *)
Poll ==
  /\ syncing
  /\ LET live == Live(active)
         fresh == NextRequests(live)
     IN /\ active' = Joined(live, fresh)
        /\ requests' = requests \union {<<fresh[c].peer, c>> : c \in DOMAIN fresh}
  /\ UNCHANGED <<syncing, seeders, received, offered, replies, disk, ghost, counters>>

(* Time passes for the fetches.                                            *)
Tick ==
  /\ \E c \in DOMAIN active : active[c].age < FetchTimeout
  /\ active' = [c \in DOMAIN active |->
                  [active[c] EXCEPT !.age = IF @ < FetchTimeout THEN @ + 1 ELSE @]]
  /\ UNCHANGED <<syncing, seeders, received, offered, net, disk, ghost, counters>>

(* The slices that start in chunk c: an honest peer answers with the whole *)
(* chunk, a faulty one with any, empty, short or over the chunk's end.     *)
SlicesAt(c) ==
  {Pieces \intersect (a..(a + n - 1)) : a \in PiecesOf(c), n \in 0..MaxSlice}

SlicesOf(p, c) == {PiecesOf(c)} \union (IF p \in Faulty THEN SlicesAt(c) ELSE {})

(* A peer's BLOB_REQ handler.                                              *)
Serve(p, c) ==
  /\ <<p, c>> \in requests
  /\ requests' = requests \ {<<p, c>>} /\ replies' = replies \union {<<p, c>>}
  /\ UNCHANGED <<syncing, sync, disk, ghost, counters>>

(* BLOB_DATA that answers no request, which the handler does not tell from *)
(* an answer.                                                              *)
Unasked(p, c) ==
  /\ p \in Faulty /\ FaultLeft /\ extras' = extras + 1
  /\ replies' = replies \union {<<p, c>>}
  /\ UNCHANGED <<syncing, sync, requests, disk, ghost, avails, losses, fails, crashes>>

(* put_chunk of the file store: the slice, then the info, where the chunk  *)
(* the slice starts in counts as received.  The blob is finalized when the *)
(* mask is full and the file has the blob's length.                        *)
PutChunk(c, slice) ==
  /\ status # "None"
  /\ stored' = stored \union slice /\ mask' = mask \union {c}
  /\ status' = IF mask' = Chunks /\ NumChunks * Parts - 1 \in stored' THEN "Available"
               ELSE IF status = "Pending" THEN "Downloading" ELSE status

(* The effects of BLOB_DATA, in order: WriteChunk and, with the last       *)
(* chunk, WriteBlobInfo with the download's own info and the event.        *)
WriteEffects(c, slice) ==
  IF received' # Chunks
  THEN PutChunk(c, slice) /\ UNCHANGED announced
  ELSE /\ status # "None" /\ stored' = stored \union slice
       /\ status' = "Available" /\ mask' = offered /\ announced' = TRUE

(* The effects cut short by an error, which drops those that follow: no    *)
(* info to add the chunk to, or a write that fails before the slice is     *)
(* written, before its info is, or before the last info is.                *)
EffectsFail(c, slice) ==
  /\ \/ status = "None" /\ UNCHANGED <<disk, fails>>
     \/ /\ status # "None" /\ FaultLeft /\ fails' = fails + 1
        /\ \/ stored' \in {stored, stored \union slice} /\ UNCHANGED <<status, mask>>
           \/ received' = Chunks /\ PutChunk(c, slice)
  /\ UNCHANGED announced

(* The BLOB_DATA handler: on_chunk_received, then the effects.  The check  *)
(* of the proof is of the slice as it came, so that one that does not      *)
(* cover its chunk passes too.  The tracker and blob_syncs change before   *)
(* any effect is tried.                                                    *)
ReceiveGood(c, slice) ==
  /\ received' = received \union {c}
  /\ short' = IF PiecesOf(c) \subseteq slice THEN short \ {c}
              ELSE IF c \in received THEN short ELSE short \union {c}
  /\ active' = Restrict(active, DOMAIN active \ {c})
  /\ syncing' = (received' # Chunks) /\ UNCHANGED <<seeders, offered>>
  /\ (WriteEffects(c, slice) /\ UNCHANGED fails) \/ EffectsFail(c, slice)

(* A slice that fails its check ends the seeder's part.                    *)
ReceiveBad(p, c) ==
  /\ p \in Faulty
  /\ seeders' = seeders \ {p}
  /\ active' = Without(Restrict(active, DOMAIN active \ {c}), p)
  /\ UNCHANGED <<syncing, received, offered, disk, ghost, fails>>

Receive(p, c) ==
  /\ <<p, c>> \in replies /\ replies' = replies \ {<<p, c>>}
  /\ \/ /\ syncing
        /\ (\E slice \in SlicesOf(p, c) : ReceiveGood(c, slice)) \/ ReceiveBad(p, c)
     \/ ~syncing /\ UNCHANGED <<syncing, sync, disk, ghost, fails>>
  /\ UNCHANGED <<requests, avails, losses, extras, crashes>>

Lose ==
  /\ FaultLeft /\ losses' = losses + 1
  /\ \/ \E r \in requests : requests' = requests \ {r} /\ UNCHANGED replies
     \/ \E m \in replies : replies' = replies \ {m} /\ UNCHANGED requests
  /\ UNCHANGED <<syncing, sync, disk, ghost, avails, extras, fails, crashes>>

(* The process ends: blob_syncs and the connections are gone.              *)
Crash ==
  /\ FaultLeft /\ crashes' = crashes + 1
  /\ syncing' = FALSE /\ seeders' = {} /\ received' = {} /\ active' = <<>>
  /\ offered' = {} /\ requests' = {} /\ replies' = {}
  /\ UNCHANGED <<disk, ghost, avails, losses, extras, fails>>

Next ==
  \/ \E p \in Peers : BlobAvail(p)
  \/ Poll \/ Tick
  \/ \E p \in Peers, c \in Chunks : Serve(p, c) \/ Unasked(p, c) \/ Receive(p, c)
  \/ Lose \/ Crash

(* Polls are periodic, time passes, peers answer what reaches them and the *)
(* transport delivers.                                                     *)
Fairness ==
  /\ WF_vars(Poll) /\ WF_vars(Tick)
  /\ \A p \in Peers, c \in Chunks : WF_vars(Serve(p, c)) /\ WF_vars(Receive(p, c))

Spec == SwarmInit /\ [][Next]_vars /\ Fairness

-----------------------------------------------------------------------------
(* Type invariant of the download, its messages and its files.             *)
SwarmTypeOK ==
  /\ syncing \in BOOLEAN /\ announced \in BOOLEAN
  /\ seeders \subseteq Peers /\ stored \subseteq Pieces
  /\ {received, mask, offered, short} \subseteq SUBSET Chunks
  /\ DOMAIN active \subseteq Chunks
  /\ \A c \in DOMAIN active : active[c] \in [peer : Peers, age : 0..FetchTimeout]
  /\ requests \subseteq Peers \X Chunks /\ replies \subseteq Peers \X Chunks
  /\ status \in {"None", "Pending", "Downloading", "Available"}
  /\ avails \in 0..MaxAvails /\ {losses, extras, fails, crashes} \subseteq 0..MaxFaults

(* Every fetch is of a chunk still missing, with a peer still a seeder,    *)
(* and no peer has more than the four that next_requests allows, whatever  *)
(* answers come late, come twice or come from peers removed meanwhile.     *)
FetchesUseful ==
  /\ \A c \in DOMAIN active : c \notin received /\ active[c].peer \in seeders
  /\ \A p \in Peers : Load(active, p) <= MaxPerPeer

(* When BlobAvailable is announced the blob's info says Available and its  *)
(* file holds every piece, also after crashes in the middle of the         *)
(* download, except in the chunks whose slices did not cover them, and     *)
(* provided no write failed.                                               *)
AnnouncedComplete ==
  announced /\ fails = 0 =>
    status = "Available" /\ \A c \in Chunks \ short : PiecesOf(c) \subseteq stored

(* A download ends, or every seeder of it is gone: no chunk is forgotten   *)
(* when a fetch times out or its seeder is removed.                        *)
DownloadEnds == syncing ~> (~syncing \/ seeders = {})
=============================================================================
