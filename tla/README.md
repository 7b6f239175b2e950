# A TLA+ verification of rs-toxcore-c

This directory holds TLA+ models of the synchronization suite of rs-toxcore-c and of
its chat client toxxi, the configurations that check them with TLC, and proofs that
TLAPS checks. `PROJECT.json` names every run, mutant, theorem and hazard, and maps each
definition to the lines it models.

## The system

| Part | State | Operations | What makes it hard |
|---|---|---|---|
| `tox-sequenced`: session | outgoing messages with their queues, reassemblers, pending ACKs, completed cache | send, handle packet, flush, cleanup | loss, duplication, reordering, probes and timeouts racing late ACKs, id wrap |
| `tox-sequenced`: quota | one atomic counter shared by all sessions | reserve, reserve guaranteed, release | compare-and-exchange loops on stale loads |
| `tox-sequenced`: scheduler | a queue and a deficit for each level, the round | add, update, remove, next message | starvation, levels lost from the round |
| `merkle-tox-fs`: node store | journal, packs, ratchet checkpoint, state.bin; volatile nodes | put, mark verified, compact, open | crashes and failures between file operations |
| `merkle-tox-core`: blob download | seeders, chunk tracker, active fetches; info and file | BLOB messages, poll | late answers, bad seeders, failing writes, crashes |
| `merkle-tox-core`: sync sessions | heads, missing and in-flight hashes, sketches and tiers, budgets, penalties | handlers of the SYNC and FETCH messages, poll, gossip | lost requests, rate limits, handshakes crossing, sketches that do not decode |
| `tox-reconcile` | cells of a Bloom lookup table | insert, subtract, decode | differences too large for a tier |
| `merkle-tox-core`: verification | wire, speculative and verified nodes, identities, caches | handle node, two reverification passes, revalidation, side effects | nodes arriving before their parents, keys and authorisations |
| `merkle-tox-core`: keys and authoring | epochs, sender keys, ratchets, pending exchanges | author, rotate, rekey, distribute, acknowledge, retry, reload | reuse of a key, sides of a chain that diverge, devices locked out |
| `toxxi`: workers | Tox instance, transfers, conference lists; files and logs | actions, events | three threads and four queues, numbers that are reused |
| `toxxi`: model and update | conversations, windows, transfers, session maps, saved state | events, commands, tick | stale numbers, resending, crashes |
| `toxxi`: text field | text, selection, undo, layout, history, completion, menus | keys, drawing | indexes into lists that the next key changes |
| clock, SQLite store, client, workbench, bots, `tox-proto`, `toxcore` | | | see "Not modelled" |

The engine hands messages to a session of `tox-sequenced` for each peer; sessions of
all peers share the quota; a session asks the scheduler which message to send next.
The engine answers each message with a list of effects, which the node performs in
order on the store and on the sessions, and which it abandons at the first error.
Nodes reach the engine through the sync sessions, are verified against the identities
that earlier nodes established, and are read with the keys that other nodes carry.
toxxi is a separate program on top of `toxcore`.

## Modules

| Module | Models | Correspondence |
|---|---|---|
| `Collections` | helpers | sums, queues and sets that replace `FlatMap` and bit sets |
| `SequenceSender` | sending half of `session.rs`, `outgoing.rs` | `outgoing` maps ids to the fields of `OutgoingMessage`; a flush is several steps and keeps other calls out |
| `SequenceReceiver` | receiving half of `session.rs`, `reassembly/` | `incoming`, `completed`, `packs` (pending ACKs), `bufSize`, `used` (the quota), `others` (the other sessions' share) |
| `Transport` | a connection | a sender, an instance of the receiver and packets that may be delivered again or never |
| `MessageChannel` | what the transport promises | abstract; `Transport` implements it |
| `QuotaCas` | `quota.rs` | one step for a load and its test, one for the exchange |
| `SharedQuota` | an atomic pool | abstract; `QuotaCas` implements it |
| `Scheduler` | `scheduler.rs` | one step for each visit of a level |
| `FsStore` | `merkle-tox-fs/src/lib.rs`, `journal.rs`, `state.rs`, `pack.rs` | files and memory apart; compaction is one step for each file operation, every other operation is one action |
| `Swarm` | `cas.rs`, BLOB handlers, `put_chunk` | `seeders`, `received`, `active` are `SwarmSync`; `stored`, `status`, `mask` are on disk |
| `Iblt` | `tox-reconcile/src/iblt.rs` | a hash is the set of cells it falls into; `Decode` peels pure cells until none is left |
| `Sync` | `engine/session/`, the SYNC, FETCH, CAPS and POW handlers, the session part of `poll` | `nodes`, `opaque`, `heads` are a device's store, `sess` its `PeerSession`s, `net` the messages under way; one action for each handler |
| `Identity` | `identity.rs` | operators on a record of authorisations, revocations, members and the path cache |
| `Verification` | `processor/`, the MERKLE_NODE handler, `load_conversation_state` | `eng` is one engine; `Deliver` is the whole handler with its side effects and reverification; `scene` is the history that arrives |
| `Ratchet` | `conversation.rs` | operators on the state of one conversation: epochs, chains, sender keys |
| `Keys` | `authoring.rs`, the key part of `processor/` and of `poll` | `eng` maps devices to engines, `nodes` is what they authored; a key is the history that derives it, so keys are equal when they are derived alike |
| `ToxxiModel`, `ToxxiUpdate`, `ToxxiCommands` | `model.rs`, `update.rs`, `commands/` | operators on the record of the model; a handler returns the model and the requests to both workers, in order |
| `ToxxiWorker` | `worker.rs` and the part of toxcore it relies on | operators on the Tox instance, the transfers and the deferred chunks |
| `ToxxiInput`, `ToxxiKeys` | `widgets/input_box.rs`; the key handler, completion, menus | operators on the record of a text field and of everything that takes keys |
| `Toxxi` | `main.rs`, `app.rs`, `io.rs`, `script.rs`, `waits.rs` | composes the above: `rx` is the queue of the interface, `toTox` and `toIo` those of the workers, `disk` survives a crash |
| `*Proof` | | theorems about the module they extend |
| `MC*` | | instances for TLC |

Data is abstract where no property tells it apart. A payload is its length. The
round-trip estimate and the congestion window are inputs drawn from small sets, so
the sender is checked for every behaviour of the estimators. A chunk is good or bad.
A node is a model value with its parents, sender and kind. `next_requests` is stated
without its loop: the k-th missing chunk gets the k-th free slot in the order of load
and key. In `Sync` nodes are authentic and authors authorised, which `Verification`
decides; identical messages under way are one; the minutes of a penalty are scaled to
1, 2 and 3. In `Toxxi` names, roles and user statuses are labels, and a text is told
apart by the time it was written at; in its text field a text is a sequence of signs
of one column each.

`MCVerify`, `MCKeys` and `MCToxxi` check short histories ("scenes") that the initial
state chooses from. A scene says which operations happen and how often; their order, and
everything the system does by itself, is left to the checker. Scenes keep combinations of
unrelated operations out, which would only multiply the states.

Ghost variables record history only: `events`, `delivered` and `claimed` in the
transport, `acked`, `seq` and `exposed` in the store, `announced` in the download,
`ghost` in toxxi. `exposed` becomes true when a crash or a failure falls where the code
does not undo it.

## Runs

| Run | Checks | Bounds | Distinct states |
|---|---|---|---|
| `MCSender` | flight counter and queues exact, no fragment forgotten | one message of four fragments, two ticks | 48,100 |
| `MCReceiver` | reservations and quota exact, every fragment acknowledged that an ACK can name | two messages, two stray packets, other sessions, three ticks | 55,866 |
| `MCReceiverDedup` | delivered at most once | six ids across the wrap, a cache of three | 78,761 |
| `MCTransport` | acknowledged implies delivered; implements `MessageChannel` | one message of three fragments | 82,588 |
| `MCQuota` | implements `SharedQuota`, operations end | three sessions, two operations each | 35,322 |
| `MCScheduler` | round complete, no starvation | two messages, three levels | 81,264 |
| `MCStore` | nodes durable, sequence numbers covered, reopens, statuses replayed | two nodes, two packs, two faults | 2,278,302 |
| `MCSwarm` | fetches useful and bounded, announced is complete, download ends | two chunks, two peers, one fault | 175,087 |
| `MCSync` | no opaque node that could be opened, devices converge | two devices, three nodes, one fault | 234,532 |
| `MCVerify` | exactly the entitled nodes are verified, ancestors exact, nobody accused | four histories of up to eleven nodes, one reload | 12,200 |
| `MCKeys` | keys used once, messages readable, revoked device blind, nobody blocked | three devices, twelve histories | 179,296 |
| `MCToxxi` | texts answered, sent once, delivered, filed right and kept; files complete; peers agree; text field sound | 25 scenes | 424,465 |

Why the bounds are enough to reach the interesting cases:

- Four fragments are the fewest with three acknowledgements above a hole, the
  threshold of fast retransmit.
- In `MCReceiver` the bitmask of an ACK has one bit and a stray packet names three
  fragments, so a fragment can lie beyond the bitmask.
- The id space of `MCReceiverDedup` wraps and its ids outnumber the completed cache.
  The code has a cache of 1024, far above the 32 ids that may still be new and the
  32 open reassemblies; the property needs that order, and the instance keeps it.
- In `MCScheduler` the lowest quantum is smaller than a fragment, so a level needs
  several rounds.
- `CompactThreshold = 2` makes compaction happen after every second record; two packs
  make an older one shadow a newer one. Nodes are interchangeable, so `MCStore` uses
  symmetry; it checks no liveness.
- In `MCSwarm` one peer may send bad chunks or roots; a fault is a lost message, a
  failed write or a crash. Two announcements are enough for a second seeder or for a
  restart after a crash.
- In `MCSync` a device joins with a shallow sync of one node from a device that has
  written a genesis, a key and a text that needs the key, so that fetching parents,
  opening opaque nodes and advancing heads all happen. Two of the nodes fall into the
  same cells of a small sketch, which then does not decode and is repeated in a larger
  tier. The fault is a lost message, a lost link or a minute in which a device is slow.
- `MCVerify` delivers content in any order once its key has come and the rest after its
  parents, with concurrent branches in any order and every node any number of times.
  The quota of nodes that cannot be read is not exceeded in it. With a smaller one
  `EntitledVerified` fails: a node stored unverified that comes again after a reload,
  when its sender's key is gone, is counted as unreadable, its wire form is evicted, and
  its signature can no longer be checked.
- In `MCKeys` an epoch holds two messages and eight sequence numbers, so epochs end by
  use; every trigger of a rotation, a rekey, an announcement and a retry is reached by
  one of its histories, and so is a restart.
- Each scene of `MCToxxi` is about one conversation of threads (a send that fails, a
  transfer, a room that is left and joined, keys pressed in one batch). The text field is
  five columns wide with a prompt of one, so a text of five signs wraps; three
  entries of undo are fewer than a scene's edits.

Deadlock is not checked where the system may rest: when the operations of `MCQuota`
are used up, when the bounds of the store are reached, when a download or a scene is over.

Fairness is used by six runs. `MCQuota` assumes that a thread inside an operation
keeps running. `MCScheduler` assumes that the session keeps asking for the next
message, which its poll does. `MCSwarm` assumes that the engine polls, that time
passes, that a peer answers a request that reaches it, and that the transport delivers
what is not lost. Losses are bounded. A seeder that never answers is outside that
assumption: with the lowest key it can be given the same chunk after each timeout.
`MCSync` assumes the same of polls, time and delivery, and that a link that was lost comes
back. `MCKeys` assumes that an engine is polled and time passes. `MCToxxi` assumes that
the three threads take what is in their queues and that ticks come; whether a friend
stays connected is part of the property. `Sync`, `Keys` and `Toxxi` state fairness by the
effect of a step (whenever a step can be taken again and again, one is taken), which TLC
evaluates without computing ENABLED of the handlers.

Every property of a passing run has a mutant in `PROJECT.json`, a plausible bug in the
code under which TLC finds that property violated.

## What the properties exclude

Modelling showed behaviour that properties have to leave out. Each is a hazard of
`PROJECT.json` with its line.

- **Transport.** A refused growth drops a reassembly whose fragments were acknowledged;
  the sender then reports a message as acknowledged that never arrives. `MCTransport`
  has a quota that is large enough. A completed message is forgotten after 30 seconds
  and a later retransmission can be delivered again. `is_ready` can miss a timeout after
  a probe, because it looks at the front of a queue that holds an older transmission.
- **Store.** Compaction truncates the journal before it saves `state.bin`; a crash in
  between loses the nodes although their pack is complete, while
  `doc/merkle-tox-storage-format.md` says that state transitions are crash-safe.
  Compaction drops promotions, and the older of two records wins. An append that fails
  half way is not cut off. `NodesDurable` and `StatusReplayed` exclude these.
- **Download.** The store continues the peer's `received_mask` as its own: when the last
  chunk is written first, the blob on disk is marked Available with a hole in it. A
  chunk whose write failed is not asked for again. `AnnouncedComplete` is about the
  announcement and excludes failed writes.
- **Sync.** Gossip sends sketches of the smallest tier only. When two devices differ by
  more than it holds, the receiver penalises the sender each time, and they do not
  converge by gossip.
- **Verification.** A Leave is a content node, so the revocations it adds are never among
  the admin ancestors of a node, and the devices of a member who left stay authorised,
  although `identity.rs` means to revoke them. The quota of the opaque store is not
  reached; eviction loses nodes.
- **Keys.** `add_epoch` does not clear `shared_keys_sent_to`: a device that was given a
  sender key of an earlier epoch gets none of the new one, until its next distribution.
  A text overtaken by a later one of its author is refused as a replay. Concurrent
  rotations give one epoch two conversation keys. A restart loses sender keys, signing
  keys and pre-key secrets. `Readable` excludes these. `load_conversation_state` gives
  the lowest key held to epoch 0: a device that joined in a later epoch counts from 1
  again after a restart, and in the model two texts of different restarts can then take
  one message key. `KeysUnique` excludes such a device (`moved`); the histories of
  `MCKeys` restart devices that hold the first key.
- **toxxi.** Message ids restart after a crash, so a text left Pending in an old session
  can be resent under a new one's id. Answers that name a number which has changed are
  lost, and the text stays Sending. A script's `wait_read_receipt` never returns. A file
  whose last chunk was deferred is shown as Failed although it was sent. Ctrl-U and
  Ctrl-K keep the selection: the next key slices outside the text and the client panics,
  which the model counts as a crash.

## Proofs

| Module | Inductive invariant | Theorems |
|---|---|---|
| `QuotaCasProof` | `QuotaTypeOK`, `ReleaseCovered`, `RoomSeen`, `NoLostUpdate`, `HardMaximum` | exactness, hard maximum, refinement of `SharedQuota` |
| `SchedulerProof` | `SchedulerTypeOK`, `DeficitBounded`, `RoundComplete`, `RestBetweenCalls` | deficits, completeness of the round |
| `SequenceReceiverProof` | `ReceiverTypeOK`, `ReservationExact`, `QuotaExact`, `SessionBounded`, `ReservedCoversStored`; `AckInv` | the four books of the receiver, every fragment acknowledged |
| `SequenceSenderProof` | `SenderInv` | flight counter exact, queues exact, no fragment forgotten |
| `FsStoreProof` | `StoreInv` | nodes durable, sequence numbers covered, reopens, statuses replayed |
| `SwarmProof` | `SwarmTypeOK`, `FetchesUseful`, `TrackerTrue` | fetches useful and bounded, announced is complete |
| `SyncProof` | `SyncInv` | opaque nodes wait for a key, verified exactly what can be, devices agree, history exists, heads cover, nothing forgotten |
| `CollectionsProof` | | lemmas on sums, queues, sets and greatest elements |

The theorems hold for every value of the constants that satisfies the named assumption
of each module: finitely many sessions, packets, peers or nodes, natural sizes, limits at
most the maximum, and in `Sync` what every DAG has: a node ranks above its parents, the
keys it is encrypted under came with nodes of its history (nodes of type Admin are sent
in the clear), and what a device starts with it has with its history.

- **Quota.** The maximum alone is not inductive: an exchange uses a value loaded earlier.
  `RoomSeen` records what the test established about the loaded value, and a successful
  exchange means that this value is still the counter. `ReleaseCovered` keeps the
  saturating subtraction of `release` from hiding a deficit. The refinement maps the
  successful exchange to the atomic operation and every other step to a stutter.
- **Scheduler.** `RestBetweenCalls` says that no visits are left between calls, without
  which an operation between two calls could leave more visits than levels.
- **Receiver.** The four statements need each other: the session's bound is kept because
  admission tests the sum that `ReservationExact` identifies, and the shared quota is kept
  because `QuotaExact` relates it to that sum. `CollectionsProof` supplies how a sum
  changes when one reassembler is added, changed or removed. `EveryFragmentAcked` needs
  in addition that a message in the completed cache has no reassembler (`AckInv`):
  otherwise a pending ACK would be built from the reassembler and the fragments of the
  completed message would stay unacknowledged.
- **Sender.** `QueuesExact` is not inductive: `trigger_loss` and `on_nack` put fragments on
  the retransmission queue by what the peer says, and only fragments that were sent may
  get there. `SenderInv` adds that acknowledged, queued and airborne fragments are among
  the first `next` ones, that everything below `hca` (highest_cumulative_ack) is
  acknowledged, that each airborne fragment has its last transmission in the in-flight
  queue, and that the wire holds packets of fragments sent only. The counter is then a
  sum over messages of a sum over airborne fragments, and each operation changes it by
  the bytes of the fragments whose state it changes.
- **Store.** `StoreInv` has three parts. `FilesInv` holds whatever fails: a pack that is
  named exists. `DiskInv` says what the files must lead to while the process may end at
  any moment: every node reported stored is in the journal or in a pack of `state.bin`,
  except between the truncation and the save of `state.bin`, and every sequence number is
  in the journal, in the ratchet checkpoint or gathered for it. `MemoryInv` says that
  `volatile_nodes` is what a replay of the journal would give. `SequenceCovered` needs
  `Ordered`: compaction lets the last ratchet key decide the number it saves, so no node
  record before that key may have a higher one, which holds because a ratchet key is
  written for the node authored last. A walk cuts a torn tail and nothing else, so what
  a restart reads is the journal as it was (`WalkTail`). TLC checked `StoreInv` on the
  instance of `MCStore` before it was proved.
- **Download.** `next_requests` gives chunk number k the k-th free slot of the seeders.
  Ranks among a finite set of slots are distinct and without gaps, so two chunks never
  share a slot and no seeder gets more fetches than it has slots, which bounds its load
  with the fetches still live. `AnnouncedComplete` needs `TrackerTrue`: a download that
  runs has its info on disk, and its tracker believes in no chunk that is not in the file.

- **Sync.** The passes of a device are fixpoints. `VerifiedIn` satisfies its recursive
  equation because the pass is monotone, so that the intersection of all sets closed under
  it is one (`PassFixpoint`). Two such sets for the same store are equal, and one for a
  larger store is larger, as a node of least rank outside would have its parents inside
  (`PassGrows`): this gives `VerifiedAgree` and that no verification is taken back. The
  passes over the opaque nodes grow by at least one node or stop, so that a pass per
  opaque node is enough (`IterateStops`), and what is left misses a key. `OpaqueWaits`
  alone is not inductive: a device that authors the very node an opaque one waits for
  would not look at the opaque store again. `HistoryExists` excludes it, since what
  the opaque node needs has been authored before it, and this in turn needs that every node
  in the network has been authored (`Sound`) and that authors build on verified nodes
  (`VerifiedExact`). TLC checked `SyncInv` on the instance of `MCSync` before it was proved.

Model-checked only:

- all liveness, and `ImplementsChannel`, `AckedImpliesDelivered` and
  `DeliveredAtMostOnce`. The last three are not true for every value of the constants:
  they need a quota that refuses no growth, a time to live that no reassembly reaches, and
  a completed cache that outlasts the ids that may still be new;
- verification, whose reverification and ancestry are recursive operators, with which the
  provers cannot work;
- the convergence of sync, which is liveness, and its sessions, which a fold over the nodes
  received computes;
- keys and toxxi, whose handlers are compositions of operators on nested records.

## Not modelled

- Loss of power. The store never syncs a file, and a crash here is the end of the process.
- The files of wire nodes, conversation keys and the child index of the store, and
  `remove_ratchet_key`, which changes memory only.
- Blobs that are not a whole number of chunks, and the Bao outboard.
- Congestion controllers, the smoothed round-trip time and the network clock: they compute
  in floating point, and what they give is an input of the models.
- Cryptography and encodings, which keep no state. `tox-proto` and its macros are
  recursion over data.
- SQLite, whose transactions are atomic.
- Of the keys: skipped message keys, soft anchors, trust-restored devices, and the cap on
  handshake retries, whose counter no code increments.
- Of the engine: expiry of certificates, the ranks in the order of eviction from the
  opaque store, blob queries for missing blobs, and difficulty votes, which are never called.
- `merkle-tox-client`, which folds verified nodes into a chat; the workbench and the bots.
- The C library behind `toxcore`; what toxxi relies on of it is in `ToxxiWorker`: numbers
  are the lowest free ones and change when a profile is loaded, a chunk is taken only at
  the position that is due, a friend who disconnects ends transfers and receipts.
- Drawing in toxxi other than the layout of the text field; commands that change labels
  or settings only; the key that composes a /file accept line.
