# Verification of One Link's durable delivery

One Link is a peer-to-peer program for chat, file transfer, calls and folder
sync: a Python daemon (`src/src/one_link`) with Rust crates (`src/native`). It
keeps no central store, so every promise it makes to a user ("queued",
"accepted", "delivered", "recording", "updated") rests on what daemons have
written to their own disks and told each other over sessions that break. This
directory models the protocols behind those promises, model-checks them with
TLC and proves their safety with TLAPS. Line numbers of every definition are in
`PROJECT.json` under `map`, the hazards each property is for under `hazards`.

## Inventory

| Component | State it keeps | Operations | What is hard | What makes it correct |
|---|---|---|---|---|
| Capsule repository (`capsule_store.py`) | SQLite index (staging, pending, received, delivered), one sealed file per id | `store_capsule`, `mark_attempt_failed`, `mark_delivered`, `due_outbound`, recovery in `__init__` | three durable writes per store, any of which may fail or be the last before a crash | a committed row has its file; a returned record is kept; recovery leaves nothing staging |
| Capsule delivery (`daemon.py`, `capsule_transport.py`) | outbox rows, delivery tasks, sessions, inbound assemblers and their accounting, replay cache | drain loop, attempt, OFFER/CHUNK/COMPLETE/RECEIPT handlers, pruning | awaits between a read and its use, lost receipts, timeouts that leave work running, restarts of either side, limits | confirmed implies durable; eventually confirmed; memory bounded |
| UI delivery idempotency (`ui_delivery_idempotency.py`) | one encrypted row per client delivery id: phase, owner epoch, transfer id, wire delivery id, answer | `probe`, `bind`, `mark_queued`, `release_before_dispatch`, `reclaim_dispatching_before_wire`, `record_response`, `record_reconciled_response` | overlapping requests with one epoch, cancellation across a commit, commits that raise although they are durable | one owner, one transfer, one answer per id |
| Browser admission (`server.py`, `api_send_file`) | requests in flight | the handler around the store, and cancel, retry and delete of a transfer | every step is an await that may be cancelled | accepted implies queued |
| Transfer ledger and send pump (`daemon.py`, `state.py`) | transfer rows, fail-stop markers, resume tasks | `queue_file_transfer`, `resume_paused_transfers_for`, `send_file`, boot reconciliation, user actions | stale rows written back after an await, one commit receipt for several offers | a transfer is sent once and ends |
| File receive (`daemon.py`, `resume.py`) | `_incoming_files`, `_pending_file_offers`, resume registry and sidecar, staging and public files, transfer rows with prepare and evidence | FILE_OFFER, chunks, finalization, commit and its recovery, accept, decline, abort, park, reap, restart | the commit runs in a thread and crosses four durable steps; two deliveries of one content share a slot | a receipt means a published file; published once; nothing without consent |
| Transfer reservations (`transfer_safety.py`) | promised bytes per volume | `reserve`, `resize_remaining`, `consume`, `release` | many owners of one disk, threads that write before they retire | promises fit the disk, cover the writers and end with them |
| Chat outbox (`daemon.py`, `state.py`, `server.py`) | messages, outbox rows, flush slots, one session per peer, receipts | `send_text`, `send_edit`, `send_delete`, `send_reaction`, `enqueue_text_outbox`, `flush_outbox_for`, cancel, the receiver's handlers | lost and late answers, abandoned requests, a flush beside foreground sends | nothing accepted is lost; nothing applied twice; the outbox drains |
| Calls, recording consent (`call_signaling.py`, `recording_consent.py`, `call_manager.py`, `call_api.py`) | phases of call and consent, call table, pre-invite media, resume ledger | invite, answer, decline, hang up, ask, grant, withdraw, stop, timers, reaping, restart | messages that cross, retried copies, restarts in a call | no recording one side did not agree to; the sides agree; every ring ends |
| Replay window, ratchets (`replay_window.py`, `double_ratchet.py`) | highest counter and bitmap, skipped keys | `check` | boundaries of the window | no counter accepted twice, none refused wrongly |
| Transactional updater (`update_transaction.py`, `update_helper.py`) | journal, bundle, stage, backup and quarantine trees, high-water ledger, handoff | prepare, activate, health commit, rollback, recover, abort | a crash between any two durable steps, a helper that dies | an intact bundle always; forward only; a living helper settles |
| Blob store, chunk cache (`blobstore.py`, `chunk_cache_gc.py`) | blobs, chunks | put, collect | collection beside a transfer | a blob is complete |
| Folder sync, CRDT (`foldersync.py`, `crdt.py`) | version vectors, tombstones | local edit, merge | concurrent edits and deletes | convergence |
| Groups (`groups.py`, `groups_crypto.py`) | members, key epochs | invite, remove, rekey | concurrent membership changes | removed members cannot read |
| Channels, discovery, rendezvous, relay | sessions, leases, routes | connect, register, expire | network I/O | leases expire |
| Native log and chunk store (`native/ol_wal`, `native/ol_chunk_store`) | segments, memtable | append, sync, replay | torn tail | a synced record is replayed |
| Supervisor, capabilities, pairing, device mesh, heuristics, UI | see `PROJECT.json` | | | |

How the modelled parts interact. The call manager hands a finalized capsule to
the repository; the drain loop reads due rows, opens a session and sends
frames; the receiver's frame handler assembles, verifies, stores in *its*
repository and sends a receipt on the same channel, ahead of the ordinary ACK.
A browser posts a file under a client delivery id; the handler binds the id in
the idempotency store, queues a transfer in the ledger, records its answer and
nudges the pump; at the other daemon the offer meets the reservation ledger,
the accept-first prompt and the resume sidecar, and its receipt closes the
transfer. Chat frames share one locked session per peer with the flush of the
outbox. Call signalling uses the same sessions, with retries over fresh ones.
The updater replaces the bundle all of this runs from, through a helper
process.

## Modules

| Module | Models |
|---|---|
| `CapsuleContract` | what delivery promises: a capsule is queued, stored, confirmed, once each and in that order |
| `CapsuleDelivery` | senders, channels and one receiver, refining `CapsuleContract` |
| `CapsuleStore` | one repository at the level of its single durable writes |
| `UiDelivery` | the idempotency store, `api_send_file`, and the ledger and pump as they rely on each other |
| `FileReceive` | the receiver of one file content, with every durable step of its commit |
| `TransferReservations` | the disk admission ledgers and all their callers |
| `ChatOutbox` | one-to-one messages, the outbox and the receiver's commits |
| `CallSignaling` | one call of two peers with recording consent |
| `CallRegistry` | one daemon's table of calls and pre-invite media |
| `ReplayWindow` | the sliding window as functions of a bitmap |
| `UpdateTransaction` | the journaled update, its recovery and its helper |
| `Sums` | sums over finite sets, for the quotas and the disk promises |
| `*Proofs` | theorems about the module of that name; `CapsuleDeliveryProofs` also has those of `CapsuleStore`, `CallSignalingProofs` those of `CallRegistry`, `UiDeliveryProofs` those of `ReplayWindow` |
| `MC*` | instances for TLC |

A definition whose comment starts with "Mutant:" is a wrong variant of the
definition that follows it; `PROJECT.json` pairs each with the property that
detects it. No behaviour uses them.

### CapsuleStore

`content`, `status`, `attempts`, `due` are the columns of a row, `file` the
sealed file under the id's name, `pc`, `opId`, `opContent` the operation that
holds the repository lock. `store_capsule` is split at its durable writes:
`StoreNew` (staging INSERT), `SaveSealed` (atomic replace), `Commit` (UPDATE),
and on an error `RollbackDelete`, `RollbackUnlink`; `StoreExisting` answers or
refuses an id that has a row, `StoreLeftover` settles a staging row a failed
rollback left. `Restart` may come between any two of them and runs
`_recover_staging` whole. A content stands for everything rows are compared by.
`promised` and `leftover` are history variables.

### CapsuleDelivery

One action per step between two awaits. Sender: `CommitOutbound`,
`DrainCapsuleOutbox` (a batch starts when the previous one has ended),
`StartDelivery`, `SendFrame`, `ReadAck`, `ReadReceipt`, then `ReceiptGet`,
`ReceiptMark`, `ReceiptAnnounce`, and `SettleRead`, `SettleMark` at the end of an
attempt. Receiver: `HandleOffer`, `OfferGet`, `OfferLoad` / `OfferOpen`,
`HandleChunk`, `HandleComplete`, `ReplayGet`, `ReplayReceipt`, `StoreBegin`,
`StoreCommit` / `StoreFail`, `AfterStore` / `AfterStoreFail`. Each non-final step
reads or writes what the code does before its next await, so a value read
early is stale when used, as in the code.

- A channel slot belongs to an attempt. The code shares one session per peer
  among attempts; separate slots allow more interleavings at the receiver.
- `send_to` gives up after 2 s without an ACK and drops the session while the
  receiver's handler still runs (`AckTimeout`); the handler's slot stays taken
  until it ends (`Reclaim`). The 40 s frame deadline cancels a receipt handler
  whose `mark_delivered` goes on in its worker thread (`FrameTimeout`, `orphan`,
  `RunOrphan`).
- The receiver ACKs a frame even when its handler raised or refused it, which is
  why only a receipt counts.
- The inbound TTL is not refreshed by chunks and is applied only when a
  capsule message arrives (`PruneInbound`). Expiry of an assembly whose attempt
  is still open counts as a fault; of an abandoned one it does not.
- The completed-replay cache is a bounded set with any eviction, which includes
  the code's LRU order.
- `ReceiverCrash` settles staging rows either way: `CapsuleStore` shows which.
- Peers are authenticated and pinned, and send what they captured, so contract,
  hash and signature comparisons succeed. `Revoke` and `Grant` change the policy
  that admits a peer's capsules.

### UiDelivery

`row` is the store's table, `epoch` the running server's `owner_epoch`,
`poisoned` its fail-closed flag, `ledger[c][t]` the transfer of id `c` under
transfer id `t` with its wire delivery id in `wireIds`. `pc`, `tx`, `wd`, `body`
are a request's progress and locals. Every store operation either commits
(`Commits`), refuses by its own rules (`Refuses`), or raises (`Raises`): with no
effect, or with the row durable and the store poisoned because the path sync
after COMMIT failed. `_blocking_file_io` waits for its worker when the task is
cancelled, so an operation always takes effect and the cancellation is seen
after it (`Continue`). `queue_file_transfer` is split into its read
(`QueueGet`) and its upsert (`QueueInsert`), each of which may raise. An attempt
to send ends confirmed or not (`Finish`), waiting (`Park`) or failed for good
(`SendFails`, `SourceGone`).

- All requests for an id carry the same contract, so contract conflicts (409)
  are left out.
- `Start` covers the form up to the probe; a request that sends its file first
  skips the probe, so both entries are possible.
- No code of this release calls `mark_dispatching`; rows at `dispatching` exist
  only as left by an older one (`Legacy`), with their transfer in any state.
- The ledger's many statuses and delivery states are folded to those the handler
  tells apart: `pristine` (queued, no offer evidence), `active`, `waiting`,
  `complete`, `unconfirmed`, `failed`. A resumed transfer counts as waiting
  until its offer is durable.
- `UserCancel`, `UserRetry`, `UserDelete` are the API's; `LateSend` is a
  `send_file` that had read the row before and writes it back. `delete_transfer`
  keeps rows with commit evidence.
- `Restart` includes the boot reconciliation of active transfers.
- `told` and `userActed` are history variables.

### FileReceive

A writer is one `IncomingFile`; a path is the private staging file it opened
and the public name chosen for it. `Offer` has one alternative per way the
handler ends: replayed receipt, recovery of a prepared commit, refusal, resume,
hold for the user, new writer. A retry within the session goes on with the
writer in the table: its missing chunks are counted again before the ledger is
asked, so that a refused retry leaves the new set behind (`RetryRefused`), and
one whose sidecar or row cannot be written parks it (`RetryUnrecorded`).
`Accept` is `accept_file_offer`: the grant goes to whatever writer the table
holds, then other devices may be asked for chunks (`Assist`, `AcceptResumes`)
before the answer looks the writer up again (`Reply`). `Commit` runs verify, prepare, link, unlink, row
and receipt as separate steps in its thread; `Recover` is
`_recover_prepared_inbound_commit` with its own steps. `Restart` rebuilds the
memory from sidecar, rows and files, as boot does.

- `scenario` fixes the settings and bounds of a behaviour: one run explores
  several settings without exploring them together.
- The chunk cache is represented by chunks that may be missing at assembly.
- `allowed` is the sender's place in `_file_accept_allow`: after an accept-all,
  here or at the prompt of another file (`AllowPeer`), every offer is granted
  without a prompt until the next restart (`Waived`). The other prompts that an
  accept-all answers are further `Accept` steps.
- `consented` and `borrowed` are history: the deliveries the user accepted, one by
  one or by an accept-all in force when they were offered, and those whose writer was met by an answer to, or a grant for, another delivery of
  the content (`Lends`: `accept_file_offer` takes whatever writer
  `_incoming_files` holds for the blob).
- A retry with another chunk map (`manifest_matches` false) migrates the partial;
  what is on disk of it is any number of chunks here, so the migration is not a
  step of its own. `_incoming_files_require_accept` is fixed for a behaviour.
- When the `fsync` after the unlink of the staging name fails, the code has
  removed both names (`daemon.py:1543`), the model still has the staging file. The
  commit fails either way; after a failing disk no property promises progress.
- `retriable` is what the sender was told, which decides whether it offers again.
- `Orderly` (no overlapping handlers, nothing borrowed) is what `ReceiptHonest`
  and `NoDuplicate` are stated for; see the known deviations. `ReservationsMatch`
  is an equality: the writer in the table has a reservation and nothing else has.

### TransferReservations

Two volumes or one (`separate`). `reserve`, `resize_remaining`, `consume` and
`release` are operators on a ledger; the actions are their callers: offers
(with the release of an earlier share when a retry needs none), chunk handlers,
the finalizing thread that writes (`ThreadWrite`) and later retires what it
wrote (`ThreadConsume`), a chunk that vanished from the cache (`CacheMiss`),
parking, abort, uploads, other programs and restarts. Sizes are in chunks.

What a transfer misses (`cache`, the code's `cdc_missing`) is not what its promise
covers: a refused retry has replaced the set before the ledger was asked, and a
cache miss enlarges it although the cache volume denies the bytes. What counts is
what the sender was asked for (`due`), because only that comes. `OfferRefused`
therefore sets `cache` and leaves `due`; `CacheMiss` asks again only with a promise
(`AskedAgain`). An accept asks for the whole set (`Accept`), and for an offer whose
retry was refused meanwhile that is more than was promised: `stale` marks such a
writer and `WriterCovered` excepts it once it is accepted (see the known
deviations). Chunks that come from helping devices, for a `stale` writer or from
other programs count in `foreign`, since no promise is made or retired for them.

- Limits are positive here; in the code 0 means unlimited, and then the
  corresponding bound of `PromisesFit` says nothing.
- A thread that is at work when its transfer is aborted retires nothing more in
  the model. In the code it may still call `consume` by id once
  (`daemon.py:16199`; its handle is closed), which would charge one chunk to a
  reservation that the same delivery made anew in between.

### ChatOutbox

A message is the number of its creation. The foreground request of message `n`
is process `n`, the flush is process `Flush`; whoever waits for the answer to
its frame owns the session. `Succeeded` and `Failed` are what each caller of
`send_to` does with its answer: the flush goes on or stops at its first error,
`send_text` tries once more after a transient error and then falls back to the
outbox, an edit, delete or reaction leaves its outbox row to the flush.
`Abandon` is the 20 s limit of `api_send`: the lock is released while the frame,
and later its answer, stay in the session, which is why `ReadAnswer` has to skip
stale answers. Frames of a dropped session may be read later (`ReceiveLate`).

- `Commit` is the receiver's transaction: receipt and effect together, and the
  effect only if the receipt is new. Edits do not compare timestamps, so that an
  edit that arrives late wins; `ViewsAgree` is about actions received in order.
- Bodies are the number of the message that wrote them.
- `cancelled` and `silent` (changes made while the peer did not resolve, which
  are never sent) are history.

### CallSignaling

`Lifecycle` and `Consent` are the two pure machines, `LifecycleSends` and
`ConsentSends` the messages they emit. `session` is first in, first out; a
send whose acknowledgement is missed may be repeated over a fresh channel
(`fresh`), with the first copy lost or not. `Restart` restores the phase from
the resume ledger and loses consent and capsule builder. `ImmuneConvert`,
`Finalize` and `ReapStale` change one side without a message
(`hist.unilateral`).

### CallRegistry

`calls` is the manager table, `admissions` and `media` the pre-invite cache.
Ages are not counted: any unanswered call or admission may be found stale.
`Initiate` and the admission of peers' calls reap first, as the registry does.

### ReplayWindow

`bits` is the set of bit positions; `Shifted` is the masked left shift. Python
integers do not overflow, so the mask is the only width. `accepted` is the
reference: the set of all numbers accepted so far.

### UpdateTransaction

One action per durable step: a journal write, a rename, the start and the end of
a `shutil.rmtree` (`Partial` between them), a ledger append. `Crash` frees the
lock and loses everything but the disk. The helper's handoff stays open when it
dies, and `Launch` needs it finished.

- In the program only a helper recovers. `recover_update_transaction` is an
  exported entry point all the same, with a lock of its own; in half of the
  behaviours (`direct`) it is called beside the helper as well (`DirectRecovery`),
  so that the safety properties also cover recovery after every crash and two
  processes at the lock. No fairness is assumed of it, and `Recovers` is about
  the other half.
- The helper's terminal transition needs the lock too: while a direct caller has
  it, the handoff may stay open (`End`). That its write fails is left out: the
  model then lets a helper be launched where the code refuses it.

- A bundle is its release; manifest digests tell bundles apart exactly.
- Download and signature checks come before the model; `CandidateAllowed` is the
  rollback-index and version rule.

## Runs

| Run | Checks | Shows |
|---|---|---|
| `capsule_store` | `ReadyIsReadable`, `KeepsPromises`, `StagingHasOwner` | the repository survives any three errors or crashes between its writes, with two contents of one direction and one of the other competing for two ids |
| `capsule_delivery` | `DeliveredIsDurable`, `AnnouncedOnceAndTrue`, `SlotsBounded`, `NoStrandedAssembler`, `ImplementsContract` | two capsules, two overlapping attempts, two faults: safety and the refinement |
| `capsule_delivery_live` | `BytesBounded`, `EventuallyDelivered` | two senders compete for a byte budget that fits one; every queued capsule is delivered after the faults end |
| `ui_delivery` | `SoleOwner`, `OneTransfer`, `AnswersAgree`, `AcceptedIsQueued`, `ReconciledIsTrue` | three requests, two ids, room for one, possibly a row of an older release, all kinds of fault |
| `ui_delivery_live` | `BoundIsSent` | a bound id is sent or shown as failed |
| `calls` | `NoSilentRecording`, `SidesAgree`, `CallsEnd` | one call with crossing messages; lossy, restarting and reliable sessions |
| `call_registry` | `RegistryBounded`, `OneDialledCall` | three ids and two peers against tight limits |
| `file_receive` | `ReceiptHonest`, `NoDuplicate`, `ReservationsMatch`, `ConsentIsTheirs`, `EventuallyConfirmed` | six settings of the receiver, with faults, crashes, retries, prompts, accept-all and helping devices |
| `replay_window` | `WindowExact`, `NoReplay`, `NoFalseReject` | all sequences of frames over a window of three, jumps of any size, good and bad timestamps |
| `reservations` | `PromisesFit`, `WriterCovered`, `NoLeak` | two incoming files and an upload on volumes that cannot hold them all, with refused retries, held offers and cache misses |
| `updater` | `BundleKept`, `HealthIsFinal`, `SettledClean`, `OnlyForward`, `Recovers` | two transactions over three releases with two crashes and two errors, the helper alone or recovery called beside it |
| `chat_outbox` | `AcceptedIsKept`, `ViewsAgree`, `OutboxDrains` | three messages with one fault or two with two, an outbox of two rows and a flush of two |

Type invariants are not among the runs' properties: theorems prove them.

### Bounds

The capsule hazards involve at most two attempts of one capsule that
overlap (a late one and its retry) or two capsules that compete for a slot:
two capsules and two slots give both, and two faults give a crash during the
recovery from a timeout. Limits are set so that they bind (`PerPeerMax = 1`,
`ReplayMax = 1`, `BytesMax` below the sum of the sizes). In `UiDelivery` an owner,
its duplicate and a third request that comes after a release need three slots;
`MaxMints = 2` lets a second transfer id or delivery id appear if the code would
make one; `MaxFaults = 3` allows a cancellation, a failed store write and a
restart in one behaviour. `CallSignaling` explores sets of budgets
(`Budgets`): two recording taps per user where nothing is lost, which gives
requests, grants and withdrawals that cross, and fewer taps with a lost send, a
restart or both. In `FileReceive` a delivery that is retried twice needs three
writers, and five when it crashes twice on the way. In `UpdateTransaction` the
second transaction meets what the first left; three releases allow one newer,
one older and one equal candidate. `ChatOutbox` needs a text and two actions
on it for anything to be out of order, two rows for a queue, and two faults for
a crash or a cancelled row after a lost answer. `WindowSize = 3` has an inner,
a last and a first position outside; the proofs cover every size.

Deadlock checking is off where the workload is finite and ends, or where the
system may rest (all but `replay_window`, `chat_outbox`
and the `ui_delivery` runs).

### Fairness

`CapsuleDelivery` assumes weak fairness of what the daemons do by
themselves: the drain loop, backoff timers, handlers, worker threads, session
clean-up, the expiry of abandoned assemblies, and that a revoked peer is admitted
again (otherwise nothing can be delivered). `UiDelivery` assumes that handlers
run, that the pump and the peer go on, and that the client keeps asking under
its id, as the browser does. `CallSignaling`: the invite timer, the close of
an ended call and the reading of the session run. `FileReceive`: event loop,
worker threads and reaper run, and the sender offers again what is not
confirmed, as its resume pump does. `UpdateTransaction`: whoever holds the lock
goes on, a helper that lives goes on to its next call, and the deadline passes.
Nobody has to launch a helper or to call recovery, so `Recovers` excepts a helper
that died (`Orphaned`). `ChatOutbox`: the event loop runs runnable tasks, the receiver reads
its socket, and the two devices keep meeting (`Contact`: a session comes up or
another frame is acknowledged). The code has no timer that would flush an
outbox without one, so that is again an assumption about the world.
Faults, user actions and commits of new work are never fair, and faults are
finite in number.

## Known deviations

Where the code does something else than a comment, docstring or document of the
repository says. The first column is the configuration that reproduces it
(`tlc -config X.cfg MC<module>` reports the violation); these configurations
are kept for that purpose, beside the runs.

| Configuration | Property | What happens |
|---|---|---|
| `CapsuleDelivery_rollback` | `ReplayReconstructs` | `capsule_store.py:857`: the DELETE that rolls a failed store back is not guarded. If it fails too, the row stays `staging`, and every later offer of that capsule is dropped until the receiver restarts, although `daemon.py:11961` drops the assembler "so an exact sender replay can reconstruct cleanly". |
| `UiDelivery_cancel` | `InProgressIsTrue` | `server.py:27055` (and 26964): a request cancelled while `queue_file_transfer` fails keeps the admission. Every retry is told "The original delivery is still in progress" until the server restarts. The phone path releases in the same place (`server.py:10260`). |
| `CallSignaling_withdrawn` | `RecordingAlwaysAgreed` | `recording_consent.py:173`: a grant carries no request id, so the grant of a withdrawn request answers the next one; one side then records and the other does not, against "Both ends must explicitly tap" (`recording_consent.py:7`). |
| `CallSignaling_ghost` | `NoGhostRing` | `daemon.py:5794`: the repeated copy of an invite rings again after the call was refused; the comment calls the retry safe because messages are keyed by `call_id`. |
| `CallSignaling_resume` | `ResumeHeard` | `call_signaling.py:524` sends `RESUME_OFFER`; the dispatch knows only `CALL_RESUME_OFFER` (`daemon.py:2245`). |
| `CallSignaling_window` | `ResumeWindowCloses` | nothing creates `RESUME_WINDOW_EXPIRED` (`call_manager.py:451`); `docs/LIVING_PRESENCE_ARCHITECTURE.md:1581` gives the window ten minutes. |
| `CallRegistry_media` | `MediaIsBound` | `call_manager.py:787`: a call reaped inside `open` leaves its SDP and ICE caches without call or admission, outside "one bounded pre-invite media namespace" (`daemon.py:11579`). |
| `CallRegistry_stubs` | `FreshCallOpens` | `call_manager.py:801`: calls left in capture count against the limits and are never reaped, so that after enough declined calls no new one opens (`call_api.py:382` promises a fresh call). |
| `FileReceive_published` | `PublishedStays` | `daemon.py:9008`: with overlapping handlers the recovery of a retried offer unlinks the staging file between the commit's link and unlink; the commit then fails and removes the public file after the receipt was sent. |
| `FileReceive_parked` | `CommitNotParked` | `daemon.py:7709`: only CDC finalization sets `finalizing`, so the reaper parks a long stream commit, which the comment there excludes. |
| `FileReceive_reaper` | `ReapsItsOwn` | `daemon.py:7703`: the reaper finds the writer of a stale row by content alone and may park the one of another delivery. |
| `FileReceive_kept` | `CompletedLetsGo` | `daemon.py:9299`: a recovered commit keeps its resume entry; until a restart every other delivery of the content is refused as `resume_owned_by_another_delivery`. |
| `FileReceive_prompt` | `AnswersOnlyItsOwn` | `daemon.py:22328`: aborting a writer leaves its prompt in `_pending_file_offers`, and `accept_file_offer` (22674) grants whatever writer the content has by then. The answer to a stale prompt thus counts for another delivery of the same content, although the docstring (22659) has it resume "a HELD incoming file", the one the user was shown. |
| `TransferReservations_stale` | `EveryWriterCovered` | `daemon.py:9436`: a retry replaces the missing set of the live writer before admission (9597), and a refusal does not undo it. If the offer is held for the user, the accept then asks for the whole set (22574), although the comment at 9698 has capacity "atomically promised" before bytes touch the volume. |
| `UpdateTransaction_repair` | `RecoveryRepairs` | `update_transaction.py:2252`: recovery has no rule for `rollback_intent`, which the rollback journals first (2007), so an interrupted rollback is never repaired however often recovery is called, against "Repair or resume every journaled crash boundary deterministically" (2143). |
| `UpdateTransaction_orphan` | `ExpiryRestores` | `update_helper.py:799`: a helper that died leaves its handoff unfinished, every launch is refused from then on, and nothing else recovers. A candidate without health marker thus stays installed after its deadline, against "expiry restores the byte-validated previous bundle" (`docs/TRANSACTIONAL_UPDATER.md:53`). |

Others that the models contain, as exceptions the properties name:

- `FileReceive`, overlapping handlers: while a stream commit runs, an offer of the
  same delivery on another channel opens a second writer and both publish
  (`daemon.py:9059`). `ReceiptHonest`, `NoDuplicate` and `ReservationsMatch` are
  therefore stated for handlers that do not overlap, and the first two also leave
  out behaviours in which a stale answer met another delivery's writer.
- `FileReceive`: a publish that fails after the prepare record is answered
  "retryable", but its staging file is removed and the record stays, so that every
  later offer is blocked as `prepared_recovery_pending` (`daemon.py:23540`).
  `EventuallyConfirmed` is for disks that do not fail.
- `UpdateTransaction`: a crash inside the removal of the backup leaves a partial
  tree that the next recovery refuses (`Wedged`), while
  `docs/TRANSACTIONAL_UPDATER.md:51` has recovery handle "a crash on either side
  of every boundary"; an `OSError` in the helper's clean-up escapes its
  `except UpdateTransactionError` (1409-1434) and leaves the handoff open
  (`Orphaned`).
- `ChatOutbox`: an edit that is retried by the flush after a newer one was sent
  directly is committed last, and the two sides show different bodies
  (`ViewsAgree` assumes order). A row the receiver refuses for ever (an action on
  a text it lacks, an edit of a text it deleted) stays at the head of the outbox
  and the rows behind it wait (`Stuck`). A cancelled row may still be delivered
  by a flush that has it in its snapshot, although `state.py:7516` says "Drop a
  pending entry without delivery". A crash after `send_text` persisted and
  before its first answer leaves a text in the history that nothing sends. A
  delete or reaction while the peer is offline is never sent (`silent`).
  Rows added after the flush's snapshot wait for the next flush, although the
  comment at `daemon.py:31239` has the running one pick them up.

## Proofs

TLAPS proves, for every value of the constants that satisfies the named
assumptions (types of the parameters only), every safety invariant and safety
action property that a run checks, and the refinement of `CapsuleContract`.

**Sums.** What the folds of the community modules add up to: the empty sum, one
element more, one value changed, monotonicity. The library's induction theorems
cannot be instantiated here, so each induction is written out: if a statement
failed for some subset, it would fail for a smallest one, and that is refuted.

**CapsuleDeliveryProofs, the repository.** `ReadyIsReadable` and `KeepsPromises` are not inductive:
a commit is safe only because the lock holder's row is staging and its file is
the one just saved. `OpInv` says so, `RowInv` ties statuses to directions.
Theorems: `StoreTypeCorrect`, `CommittedRowsAreReadable`, `StoredContentIsKept`,
`StagingRowsHaveOwners`, `DeliveryIsFinal`.

**CapsuleDeliveryProofs, the protocol.** `IndInv` is `TypeOK`, `DeliveredIsDurable` and: every
slot in use has a capsule (`SlotInv`); everything that will lead to a receipt,
or is one, speaks of a durable row (`EvidenceInv`), which is why late receipts,
orphaned workers and stale replay entries are harmless; one store runs at a
time (`LockInv`); nothing happens before queueing (`QueuedInv`); a receipt
handler that read "pending" is the only one to announce (`NoticeInv`).
`AssemblyInv` adds finiteness of the accounting for the limits. From both follow
`DeliveryTypeCorrect`, `DeliveredOnlyIfDurable`, `AnnouncementsAreTrue`,
`InboundSlotsBounded`, `AssemblersAreClosed`; `NextRefines` maps every step to a
step of the contract or a stutter, which gives `DeliveryImplementsContract`.
`BytesBounded` is inductive beside these: only an offer adds to the accounting
(`OffersChange`), at the moment its capacity test holds (`InboundBytesBounded`).

**UiDeliveryProofs, the browser's deliveries.** The argument is one discipline, `Lawful`, that each handler
step is shown to obey: it writes only the row of its own id, only if that is
unanswered and not held by somebody else, goes on as an owner only if it holds
the row afterwards, and tells the client only what the row says.
`LawfulKeepsCore` derives `CoreInv` from it (`RowInv`, `BindingInv`, `HoldInv`,
`SoleOwner`, `AnswersAgree`). A second discipline, `LawfulClaim`, says that a step
claims only what the ledger shows; with the ledger's own moves it keeps
`LedgerInv` (`BoundOnly`, `ReadInv`, `OneIdentity`, `AcceptedIsQueued`,
`ReconciledIsTrue`). Theorems: `UiTypeCorrect`, `AdmissionHasOneOwner`,
`AnswersNeverChange`, `OneDeliveryPerId`, `AdmissionsAreQueued`,
`ReconciliationsAreTrue`.

**UiDeliveryProofs, the replay window.** `WindowExact` with `MarkAccepted` (the mark itself was
accepted) is inductive; the heart is that a shift by `seq - high` moves exactly
the bits of numbers still in the window. Theorems: `WindowTypeCorrect`,
`WindowIsExact`, `NothingReplayed`, `NothingFalselyRejected`, for every window
size.

**UpdateTransactionProofs.** `UpdateInv` is `TypeOK` and: for each journal phase
which bundle each path may hold, on both sides of the rename it announces
(`DiskInv`); what the high-water ledger and the health marker say of the
candidate (`LedgerInv`); for each step of the lock holder what the steps before it
have established (`StepInv`); `LaunchInv` and `ProbeInv` for the helper. The
properties alone are not inductive: `BundleKept` needs that the backup a
rollback restores is the bundle that was moved there. Theorems:
`UpdateTypeOK`, `UpdateBundleKept`, `UpdateHealthIsFinal`, `UpdateSettledClean`,
`UpdateOnlyForward`.

**ChatOutboxProofs.** `ChatInv` is `AcceptedIsKept` with the shape of the state,
`Fresh` (a number not yet written occurs nowhere) and `Acked` (a durable answer
in flight speaks of a committed message), without which an answer could be
believed wrongly. First come lemmas on the set of elements of a sequence
(append, tail, removal), then one lemma per action. `ViewsAgree` compares two
folds, so both are first characterised without the fold: what the sender shows
is what its highest-numbered edit, delete and reaction say (`MineFits`), what the
receiver shows is what the commits at the last positions say (`TheirsFit`). With
everything received in order, last by number and last by position are the same
message. `TypeOK` comes last, because it bounds the outbox and the bodies: with
both invariants, `Limits` is inductive, as every step leaves the outbox alone,
removes a row, or adds one where it has room (`RowMoves`). Theorems:
`ChatInvariant`, `ChatAcceptedIsKept`, `ViewInvariant`, `ChatViewsAgree`,
`ChatTypeCorrect`.

**CallSignalingProofs, one call.** `RecordingInv` adds to `NoSilentRecording` that a request or
a grant in flight was sent by a user who tapped (`Asked`), and that a side which
waits for an answer has asked, and one that is asked was asked by a user who
tapped (`Meant`). Steps that do none of this are `Calm`, and one lemma covers them
all; what is left are the user's taps and the messages about consent.
`SidesAgree` needs the whole conversation of a session that loses nothing
(`Undisturbed`): which phases and messages about the call fit together
(`PhasesFit`, `Meeting`), and a table, `Talk`, of what can be under way in both
directions for each pair of consent phases; `Spells` relates a queue to its word
in the table, without the messages about the call. Every tap and every message
takes a line of the table to a line of the table. Theorems: `RecordingInvariant`,
`RecordingIsMutual`, `CallInvariant`, `SidesReachAgreement`.

**CallSignalingProofs, the call table.** `RegistryInv` adds finiteness to the limits, because
cardinalities mean nothing without it. Reaping, closing, pruning and restarting
only take away (`TableShrinks`, `CacheShrinks`); opening is guarded by the
capacity tests (`TableOpens`). Theorems: `RegistryInvariant`,
`RegistryIsBounded`, `DialledOnce`.

**TransferReservationsProofs.** `Booked` says of each transfer which ids it is
booked under, on which volume, and that each booking covers what it owes (`Owed`:
what the sender was asked for, and for a held offer without a refused retry the
whole missing set, because its accept will ask for that), also between the
thread's write and its retirement. `Backed` tells which writers this holds for;
`WriterCovered` and `NoLeak` follow. The promise may exceed what is owed, after
chunks came from helping devices. Steps of one transfer are `Local` and leave the
bookings of the others alone. `PromisesFit` is then proved with `Fitting`:
promised bytes against free space, the bytes that came on no promise and those
already landed, where a step of one transfer changes one term of a sum (`Sums`).
Theorems: `TypeCorrect`, `WritersCovered`, `NoPromiseLeaks`, `NeverOverbooked`.

**FileReceiveProofs.** Four invariants, each resting on those before it.

- `Shape`: types, that nothing is kept, written or published under a path of
  another delivery (`Owned`), and that a stream with all its chunks is no longer
  receiving (`Roomy`). Gives
  `ReceiveTypeCorrect`, for overlapping channels too.
- `ConsentInv`: everything that lets bytes be asked for (a granted writer, a
  grant in the sidecar or the registry, an accepted prompt) speaks of a delivery
  whose consent was given, by an answer or by an accept-all in force, or lent
  (`Backed`). Steps that grant nothing are `Discreet`. Gives `ConsentComesFirst`, for overlapping channels too.
- `AloneInv`: without overlap one writer at most commits, the one in the table or
  one the table has let go, and one handler at most is suspended (`Alone`), which
  `ReservationsMatch` needs; an accept that waits for other devices waits for
  the table's writer, and that writer is granted (`Joined`). Gives `ReservationsFollowTable`.
- `FitInv`: per delivery, what rows, evidence and files say of each other
  (`Stored`), and what each step of a receive, a commit, a recovery, a prompt and a
  suspended answer may rely on (`Receiving`, `Committing`, `Recovering`, `Asked`,
  `Waiting`). A step leaves a delivery `Untouched`, is `Receding` (gives up what it
  had), `Working` (the commit's own step), or an offer. The heart is that a
  prepare record names the one path that may be published, whichever of the
  durable steps a crash or an error cut. Gives `ReceiptsHold` and
  `OneFilePerDelivery`.

Only model-checked: all liveness (`EventuallyDelivered`, `BoundIsSent`,
`CallsEnd`, `EventuallyConfirmed`, `Recovers`, `OutboxDrains`: fairness is out of
the prover's reach).

## Not modelled, and the plan

Not modelled at all: cryptography (sealing, the ratchets' key schedule,
handshakes), frame encoding, form parsing, byte staging, logging, the user
interface, heuristics (tuning, forecasting) and network I/O (discovery, QUIC,
relay). These keep no state a protocol property speaks of, or their steps are
opaque to a model. The modelled components are the ones in which a promise to
the user crosses a crash, a retry or another task; they are a small part
of the program's lines, most of which are HTTP handlers, presentation,
packaging and transports. Left out inside modelled components: the phone upload path
(intents and resumable chunks), folder archives and group fan-out of files,
group messages, read markers, disappearing messages, clearing the history,
media frames and their attestation, release discovery and download.

Details left out where they do not reach a property:

- `CapsuleDelivery`: the drain's `LIMIT` and order (`daemon.py:12072`; with more
  capsules than the batch the later ones wait for the next drain); after the
  frame deadline the model drops the session, the code leaves it to the next
  send.
- `CallSignaling`: the capability check that drops messages after a revocation
  and the trust refusal of invites (`daemon.py:12520`, 12232). `SidesAgree`
  excepts calls that a timer ended on one side only (`hist.unilateral`).
  `CallRegistry`: a restart restores the table as it is, not as last saved; the
  limits of the whole device do not bind in the run, only in the theorem.
- `ChatOutbox`: every request carries a `client_msg_id`. Without one
  (`server.py:25514`) a text whose answer was lost is queued under a second id and
  may be shown twice. Rows also disappear when a peer is revoked or its traces are
  cleared (`state.py:7542`, 5436), which are user actions like `CancelOutbox`. The
  receiver's edit cooldown and author checks compare what the sender set and do
  not bind for an honest one; expiry of texts by their TTL is left out.

Next, in this order:

1. **Proofs** of what the properties leave to hypotheses: which of
   `ReceiptHonest` and `NoDuplicate` survives a lent consent, and the parts of
   `ReservationsMatch` that hold for overlapping handlers.
2. **Send pump**: `send_file`, `resume_paused_transfers_for`, the fail-stop
   marker, the 200-row window, and the upsert of a stale row over a user's
   cancel; composed with `FileReceive`, abstract specification "a file is
   published once". Replaces `Pump` of `UiDelivery`.
3. **Phone upload** on the same idempotency store.
4. **Write-ahead log** (`native/ol_wal`) and **CRDT** convergence (`crdt.py`).
5. **Groups**: membership and key epochs. **Rendezvous** leases.
6. `CapsuleStore` as the refinement of the row `CapsuleDelivery` keeps per
   capsule.
