-------------------------- MODULE CapsuleDelivery --------------------------
(***************************************************************************)
(* Durable async-capsule delivery (daemon.py, capsule_transport.py): a     *)
(* sender daemon's outbox, the authenticated channels an attempt runs on,  *)
(* and a receiver daemon's bounded assembly, durable commit and receipt.   *)
(*                                                                         *)
(* A capsule stands for its whole immutable contract (id, call, payload    *)
(* hash, provenance): senders are authenticated and honest, so the         *)
(* contract comparisons of the code always compare equal and are left out. *)
(* What is kept is every await: a value read from the store on one side of *)
(* an await is used in a later step, when others have run.                 *)
(*                                                                         *)
(* Frames of capsule c: 0 is CAPSULE_OFFER, 1..NChunks[c] are the          *)
(* CAPSULE_CHUNKs and NChunks[c] + 1 is CAPSULE_COMPLETE.                  *)
(***************************************************************************)
EXTENDS Integers, FiniteSets, Functions

CONSTANTS
    Capsules,        \* capsules that may be queued at some sender
    Channels,        \* channel slots: attempts that overlap at the receiver
    Peers,           \* sending devices
    Owner,           \* Owner[c]: the peer that captured capsule c
    NChunks,         \* NChunks[c]: CHUNK frames of c
    Size,            \* Size[c]: declared payload bytes of c
    InboundMax,      \* CAPSULE_INBOUND_MAX
    PerPeerMax,      \* CAPSULE_INBOUND_PER_PEER_MAX
    BytesMax,        \* CAPSULE_INBOUND_BYTES_MAX
    BytesPerPeerMax, \* CAPSULE_INBOUND_BYTES_PER_PEER_MAX
    ReplayMax,       \* CAPSULE_COMPLETED_REPLAY_MAX
    NoCapsule,       \* marks a channel slot no attempt uses
    MaxFaults,       \* bound on crashes, timeouts, refusals and I/O errors
    RollbackCanFail  \* whether the store's rollback DELETE may fail as well

NoFrame == -1

ASSUME CapsuleAssumption ==
    /\ NoCapsule \notin Capsules
    /\ Owner \in [Capsules -> Peers]
    /\ NChunks \in [Capsules -> Nat \ {0}]
    /\ Size \in [Capsules -> Nat \ {0}]
    /\ InboundMax \in Nat /\ PerPeerMax \in Nat /\ ReplayMax \in Nat
    /\ BytesMax \in Nat /\ BytesPerPeerMax \in Nat
    /\ MaxFaults \in Nat
    /\ RollbackCanFail \in BOOLEAN

VARIABLES
    \* the senders: durable outbox rows, then the delivery task of each capsule
    outbox,     \* status of the outbound row
    due,        \* capsules whose next_attempt_ms has passed
    task,       \* program counter of _deliver_capsule_record
    next,       \* the frame the task is sending
    seen,       \* the row status a receipt handler read before its await
    orphan,     \* capsules whose cancelled receipt handler left a
                \* mark_delivered call running in its worker thread
    notified,   \* "capsule_delivered" events broadcast so far (2: many)
    \* the channels
    cap,        \* the capsule whose attempt holds the slot
    sopen,      \* slots the sender still reads and writes
    ropen,      \* slots the receiver still reads and writes
    fwd,        \* the frame in flight or in the receiver's handler
    reply,      \* replies the sender has not read; RECEIPT is ahead of ACK
    h,          \* program counter of the receiver's handler of the slot
    \* the receiver: its durable rows, then the state a restart loses
    rrow,       \* status of the inbound row
    meta,       \* capsules in _capsule_inbound_meta
    expired,    \* those of meta older than CAPSULE_INBOUND_TTL_S
    registry,   \* capsules with an InboundCapsule assembler
    chunks,     \* the chunk numbers an assembler holds
    done,       \* assemblers marked _completed
    replay,     \* capsules in _capsule_completed_replays
    allowed,    \* peers whose capsules the receiver's policy admits
    faults      \* faults injected so far

senderVars   == <<outbox, due, task, next, seen, orphan, notified>>
channelVars  == <<cap, sopen, ropen, fwd, reply, h>>
inboundVars  == <<meta, expired, registry, chunks, done>>
receiverVars == <<rrow, inboundVars, replay>>
vars == <<senderVars, channelVars, receiverVars, allowed, faults>>

Last(c) == NChunks[c] + 1

TaskPC == {"idle", "queued", "send", "await", "receipt", "marking", "marked",
           "settle", "settleMark"}
HandlerPC == {"idle", "offerGet", "offerOpen", "offerLoad", "replayGet",
              "replied", "storing", "staged", "stored", "storeFailed"}

TypeOK ==
    /\ outbox \in [Capsules -> {"none", "pending", "delivered"}]
    /\ due \subseteq Capsules
    /\ task \in [Capsules -> TaskPC]
    /\ next \in [Capsules -> Nat]
    /\ seen \in [Capsules -> {"none", "pending", "delivered"}]
    /\ orphan \subseteq Capsules
    /\ notified \in [Capsules -> 0..2]
    /\ cap \in [Channels -> Capsules \cup {NoCapsule}]
    /\ sopen \subseteq Channels
    /\ ropen \subseteq Channels
    /\ fwd \in [Channels -> Nat \cup {NoFrame}]
    /\ reply \in [Channels -> SUBSET {"RECEIPT", "ACK"}]
    /\ h \in [Channels -> HandlerPC]
    /\ rrow \in [Capsules -> {"none", "staging", "received"}]
    /\ meta \subseteq Capsules
    /\ expired \subseteq meta
    /\ registry \subseteq Capsules
    /\ chunks \in [Capsules -> SUBSET Nat]
    /\ done \subseteq Capsules
    /\ replay \subseteq Capsules
    /\ allowed \subseteq Peers
    /\ faults \in 0..MaxFaults

Init ==
    /\ outbox = [c \in Capsules |-> "none"]
    /\ due = {}
    /\ task = [c \in Capsules |-> "idle"]
    /\ next = [c \in Capsules |-> 0]
    /\ seen = [c \in Capsules |-> "none"]
    /\ orphan = {}
    /\ notified = [c \in Capsules |-> 0]
    /\ cap = [k \in Channels |-> NoCapsule]
    /\ sopen = {}
    /\ ropen = {}
    /\ fwd = [k \in Channels |-> NoFrame]
    /\ reply = [k \in Channels |-> {}]
    /\ h = [k \in Channels |-> "idle"]
    /\ rrow = [c \in Capsules |-> "none"]
    /\ meta = {}
    /\ expired = {}
    /\ registry = {}
    /\ chunks = [c \in Capsules |-> {}]
    /\ done = {}
    /\ replay = {}
    /\ allowed = Peers
    /\ faults = 0

Fault == faults < MaxFaults /\ faults' = faults + 1

----------------------------------------------------------------------------
(* The senders' durable outbox.                                            *)

\* Mutant: the UPDATE to delivered matches no row.
MarkDeliveredLost(c) == UNCHANGED outbox

\* mark_delivered under the store lock: pending rows become delivered, a
\* delivered row stays as it is.
MarkDelivered(c) ==
    outbox' = [outbox EXCEPT ![c] = IF @ = "pending" THEN "delivered" ELSE @]

\* Mutant: a failed attempt is recorded whatever the row's status has become.
MarkAttemptFailedBlind(c) ==
    /\ due' = due \ {c}
    /\ outbox' = [outbox EXCEPT ![c] = "pending"]

\* mark_attempt_failed under the store lock: a delivered row is left alone,
\* a pending one waits for its backoff.
MarkAttemptFailed(c) ==
    /\ due' = IF outbox[c] = "pending" THEN due \ {c} ELSE due
    /\ UNCHANGED outbox

\* _commit_outbound_capsule: a finalized capsule becomes a pending row, due
\* at once.
CommitOutbound(c) ==
    /\ outbox[c] = "none"
    /\ outbox' = [outbox EXCEPT ![c] = "pending"]
    /\ due' = due \cup {c}
    /\ UNCHANGED <<task, next, seen, orphan, notified>>
    /\ UNCHANGED <<channelVars, receiverVars, allowed, faults>>

\* next_attempt_ms passes.
BackoffElapses(c) ==
    /\ outbox[c] = "pending"
    /\ c \notin due
    /\ due' = due \cup {c}
    /\ UNCHANGED <<outbox, task, next, seen, orphan, notified>>
    /\ UNCHANGED <<channelVars, receiverVars, allowed, faults>>

\* _capsule_delivery_loop, _drain_capsule_outbox of daemon p: when the
\* deliveries of its previous batch have all ended, read the rows that are due
\* and start one delivery per row.
DrainCapsuleOutbox(p) ==
    LET own == {c \in Capsules : Owner[c] = p}
        batch == {c \in own \cap due : outbox[c] = "pending"}
    IN
    /\ \A c \in own : task[c] = "idle"
    /\ batch # {}
    /\ task' = [c \in Capsules |-> IF c \in batch THEN "queued" ELSE task[c]]
    /\ UNCHANGED <<outbox, due, next, seen, orphan, notified>>
    /\ UNCHANGED <<channelVars, receiverVars, allowed, faults>>

----------------------------------------------------------------------------
(* One delivery attempt: _deliver_capsule_record and send_to.              *)

\* The row read by the drain may have been delivered since: the attempt uses
\* it all the same.
StartDelivery(c, k) ==
    /\ task[c] = "queued"
    /\ cap[k] = NoCapsule
    /\ task' = [task EXCEPT ![c] = "send"]
    /\ next' = [next EXCEPT ![c] = 0]
    /\ cap' = [cap EXCEPT ![k] = c]
    /\ sopen' = sopen \cup {k}
    /\ ropen' = ropen \cup {k}
    /\ UNCHANGED <<outbox, due, seen, orphan, notified, fwd, reply, h>>
    /\ UNCHANGED <<receiverVars, allowed, faults>>

\* The peer is not reachable or did not advertise ASYNC_CAPSULE_V1.
PeerUnreachable(c) ==
    /\ task[c] = "queued"
    /\ Fault
    /\ task' = [task EXCEPT ![c] = "settle"]
    /\ UNCHANGED <<outbox, due, next, seen, orphan, notified>>
    /\ UNCHANGED <<channelVars, receiverVars, allowed>>

SendFrame(c, k) ==
    /\ task[c] = "send"
    /\ cap[k] = c /\ k \in sopen \cap ropen
    /\ fwd' = [fwd EXCEPT ![k] = next[c]]
    /\ task' = [task EXCEPT ![c] = "await"]
    /\ UNCHANGED <<outbox, due, next, seen, orphan, notified>>
    /\ UNCHANGED <<cap, sopen, ropen, reply, h, receiverVars, allowed, faults>>

\* send_to reads the frame's ACK; a RECEIPT ahead of it is dispatched first.
ReadAck(c, k) ==
    /\ task[c] = "await"
    /\ cap[k] = c /\ k \in sopen
    /\ reply[k] = {"ACK"}
    /\ reply' = [reply EXCEPT ![k] = {}]
    /\ IF next[c] = Last(c)
         THEN /\ task' = [task EXCEPT ![c] = "settle"]
              /\ sopen' = sopen \ {k}
              /\ UNCHANGED next
         ELSE /\ task' = [task EXCEPT ![c] = "send"]
              /\ next' = [next EXCEPT ![c] = @ + 1]
              /\ UNCHANGED sopen
    /\ UNCHANGED <<outbox, due, seen, orphan, notified>>
    /\ UNCHANGED <<cap, ropen, fwd, h, receiverVars, allowed, faults>>

\* No ACK within FOREGROUND_ACK_DEADLINE_S: the session is dropped and what
\* the receiver still sends on it is lost.
AckTimeout(c, k) ==
    /\ task[c] = "await"
    /\ cap[k] = c /\ k \in sopen
    /\ reply[k] = {}
    /\ Fault
    /\ sopen' = sopen \ {k}
    /\ task' = [task EXCEPT ![c] = "settle"]
    /\ UNCHANGED <<outbox, due, next, seen, orphan, notified>>
    /\ UNCHANGED <<cap, ropen, fwd, reply, h, receiverVars, allowed>>

\* The receiver closed the channel and nothing it sent is left to read.
ChannelDown(c, k) ==
    /\ task[c] \in {"send", "await"}
    /\ cap[k] = c /\ k \in sopen \ ropen
    /\ reply[k] = {}
    /\ sopen' = sopen \ {k}
    /\ task' = [task EXCEPT ![c] = "settle"]
    /\ UNCHANGED <<outbox, due, next, seen, orphan, notified>>
    /\ UNCHANGED <<cap, ropen, fwd, reply, h, receiverVars, allowed, faults>>

\* A RECEIPT is dispatched to _handle_capsule_transport_message.
ReadReceipt(c, k) ==
    /\ task[c] = "await"
    /\ cap[k] = c /\ k \in sopen
    /\ "RECEIPT" \in reply[k]
    /\ reply' = [reply EXCEPT ![k] = @ \ {"RECEIPT"}]
    /\ task' = [task EXCEPT ![c] = "receipt"]
    /\ UNCHANGED <<outbox, due, next, seen, orphan, notified>>
    /\ UNCHANGED <<cap, sopen, ropen, fwd, h, receiverVars, allowed, faults>>

\* The peer is no longer pinned: the receipt is dropped.
RefuseReceipt(c, k) ==
    /\ task[c] = "await"
    /\ cap[k] = c /\ k \in sopen
    /\ "RECEIPT" \in reply[k]
    /\ Fault
    /\ reply' = [reply EXCEPT ![k] = @ \ {"RECEIPT"}]
    /\ UNCHANGED senderVars
    /\ UNCHANGED <<cap, sopen, ropen, fwd, h, receiverVars, allowed>>

\* pending = await to_thread(store.get, ...)
ReceiptGet(c) ==
    /\ task[c] = "receipt"
    /\ seen' = [seen EXCEPT ![c] = outbox[c]]
    /\ task' = [task EXCEPT ![c] = "marking"]
    /\ UNCHANGED <<outbox, due, next, orphan, notified>>
    /\ UNCHANGED <<channelVars, receiverVars, allowed, faults>>

\* record = await to_thread(store.mark_delivered, ...)
ReceiptMark(c) ==
    /\ task[c] = "marking"
    /\ MarkDelivered(c)
    /\ task' = [task EXCEPT ![c] = "marked"]
    /\ UNCHANGED <<due, next, seen, orphan, notified>>
    /\ UNCHANGED <<channelVars, receiverVars, allowed, faults>>

\* if pending.status != "delivered": broadcast capsule_delivered
ReceiptAnnounce(c) ==
    /\ task[c] = "marked"
    /\ notified' = [notified EXCEPT ![c] =
                      IF seen[c] # "delivered" /\ @ < 2 THEN @ + 1 ELSE @]
    /\ task' = [task EXCEPT ![c] = "await"]
    /\ seen' = [seen EXCEPT ![c] = "none"]
    /\ UNCHANGED <<outbox, due, next, orphan>>
    /\ UNCHANGED <<channelVars, receiverVars, allowed, faults>>

\* CAPSULE_DELIVERY_FRAME_TIMEOUT_S cancels a send_to whose receipt handler
\* is waiting for the store. The worker thread is not cancelled: a submitted
\* mark_delivered still runs. Only an ACK nobody waits for is left unread.
FrameTimeout(c, k) ==
    /\ task[c] \in {"receipt", "marking", "marked"}
    /\ cap[k] = c /\ k \in sopen
    /\ Fault
    /\ orphan' = IF task[c] = "marking" THEN orphan \cup {c} ELSE orphan
    /\ sopen' = sopen \ {k}
    /\ task' = [task EXCEPT ![c] = "settle"]
    /\ UNCHANGED <<outbox, due, next, seen, notified>>
    /\ UNCHANGED <<cap, ropen, fwd, reply, h, receiverVars, allowed>>

RunOrphan(c) ==
    /\ c \in orphan
    /\ MarkDelivered(c)
    /\ orphan' = orphan \ {c}
    /\ UNCHANGED <<due, task, next, seen, notified>>
    /\ UNCHANGED <<channelVars, receiverVars, allowed, faults>>

\* current = await to_thread(store.get, ...), after the last frame as well as
\* after an exception.
SettleRead(c) ==
    /\ task[c] = "settle"
    /\ task' = [task EXCEPT ![c] =
                  IF outbox[c] = "pending" THEN "settleMark" ELSE "idle"]
    /\ UNCHANGED <<outbox, due, next, seen, orphan, notified>>
    /\ UNCHANGED <<channelVars, receiverVars, allowed, faults>>

SettleMark(c) ==
    /\ task[c] = "settleMark"
    /\ MarkAttemptFailed(c)
    /\ task' = [task EXCEPT ![c] = "idle"]
    /\ UNCHANGED <<next, seen, orphan, notified>>
    /\ UNCHANGED <<channelVars, receiverVars, allowed, faults>>

\* Every sender process of peer p is lost with its sockets; rows stay.
SenderCrash(p) ==
    LET own == {c \in Capsules : Owner[c] = p} IN
    /\ Fault
    /\ task' = [c \in Capsules |-> IF c \in own THEN "idle" ELSE task[c]]
    /\ orphan' = orphan \ own
    /\ sopen' = {k \in sopen : cap[k] \notin own}
    /\ UNCHANGED <<outbox, due, next, seen, notified>>
    /\ UNCHANGED <<cap, ropen, fwd, reply, h, receiverVars, allowed>>

\* A slot neither side uses any more; a frame the receiver never read is lost.
Reclaim(k) ==
    /\ cap[k] # NoCapsule
    /\ k \notin sopen
    /\ h[k] = "idle"
    /\ cap' = [cap EXCEPT ![k] = NoCapsule]
    /\ ropen' = ropen \ {k}
    /\ fwd' = [fwd EXCEPT ![k] = NoFrame]
    /\ reply' = [reply EXCEPT ![k] = {}]
    /\ UNCHANGED <<sopen, h, senderVars, receiverVars, allowed, faults>>

----------------------------------------------------------------------------
(* The receiver: _handle_capsule_transport_message, one handler per channel, *)
(* each suspended at its awaits.                                             *)

\* The handler returns (or swallows its error) and the peer loop ACKs the
\* frame; a reply on a channel the sender left is lost.
Finish(k, msgs) ==
    /\ h' = [h EXCEPT ![k] = "idle"]
    /\ fwd' = [fwd EXCEPT ![k] = NoFrame]
    /\ reply' = [reply EXCEPT ![k] =
                   IF k \in sopen \cap ropen THEN msgs \cup {"ACK"} ELSE {}]
    /\ UNCHANGED <<cap, sopen, ropen>>

\* The handler suspends at its next await.
Suspend(k, pc) ==
    /\ h' = [h EXCEPT ![k] = pc]
    /\ UNCHANGED <<cap, sopen, ropen, fwd, reply>>

\* _prune_inbound_capsules: what is left open once expired offers are dropped.
Pruned(S) == S \ expired

PruneInbound ==
    /\ meta' = Pruned(meta)
    /\ registry' = Pruned(registry)
    /\ done' = Pruned(done)
    /\ expired' = {}

\* The chunk buffers of the assemblers that survive pruning.
PrunedChunks == [c \in Capsules |-> IF c \in expired THEN {} ELSE chunks[c]]

\* Closing capsule c in the registry and in the accounting.
CloseInbound(c) ==
    /\ registry' = registry \ {c}
    /\ meta' = meta \ {c}
    /\ done' = done \ {c}
    /\ expired' = expired \ {c}
    /\ chunks' = [chunks EXCEPT ![c] = {}]

\* _remember_completed_capsule: a bounded memory of finished capsules; which
\* older one makes room is left open.
Remember(c) ==
    LET all == replay \cup {c} IN
    IF Cardinality(all) <= ReplayMax
      THEN replay' = all
      ELSE \E d \in all \ {c} : replay' = all \ {d}

\* A peer that is unpinned, lacks the feature or has neither call capability
\* is ignored, before or after pruning.
HandleRefused(k) ==
    /\ fwd[k] # NoFrame /\ h[k] = "idle" /\ k \in ropen
    /\ Owner[cap[k]] \notin allowed
    /\ \/ PruneInbound /\ chunks' = PrunedChunks
       \/ UNCHANGED inboundVars
    /\ Finish(k, {})
    /\ UNCHANGED <<senderVars, rrow, replay, allowed, faults>>

Accepts(k, frames) ==
    /\ cap[k] # NoCapsule
    /\ fwd[k] \in frames /\ h[k] = "idle" /\ k \in ropen
    /\ Owner[cap[k]] \in allowed

\* The store's lock is held while a store_capsule is between its INSERT and
\* its outcome.
StoreLockFree == \A k \in Channels : h[k] # "staged"

HandleOffer(k) ==
    /\ Accepts(k, {0})
    /\ PruneInbound
    /\ chunks' = PrunedChunks
    /\ Suspend(k, "offerGet")
    /\ UNCHANGED <<senderVars, rrow, replay, allowed, faults>>

\* existing = await to_thread(store.get, ...). A row still staging cannot be
\* loaded: the offer is dropped.
OfferGet(k) ==
    /\ h[k] = "offerGet"
    /\ StoreLockFree
    /\ \/ rrow[cap[k]] = "none" /\ Suspend(k, "offerOpen")
       \/ rrow[cap[k]] = "received" /\ Suspend(k, "offerLoad")
       \/ rrow[cap[k]] = "staging" /\ Finish(k, {})
    /\ UNCHANGED <<senderVars, receiverVars, allowed, faults>>

\* Mutant: the replay of a durable capsule is not remembered.
OfferLoadForgets(k) ==
    /\ h[k] = "offerLoad"
    /\ Finish(k, {})
    /\ UNCHANGED <<senderVars, receiverVars, allowed, faults>>

\* The durable capsule matches the offer: its replay is remembered.
OfferLoad(k) ==
    /\ h[k] = "offerLoad"
    /\ Remember(cap[k])
    /\ Finish(k, {})
    /\ UNCHANGED <<senderVars, rrow, inboundVars, allowed, faults>>

PeerEntries(p) == {c \in meta : Owner[c] = p}

Bytes(S) == SumFunctionOnSet(Size, S)

\* Mutant: the per-peer slot check admits one offer too many.
HasCapacityOffByOne(c) ==
    /\ Cardinality(meta) < InboundMax
    /\ Cardinality(PeerEntries(Owner[c])) <= PerPeerMax
    /\ Bytes(meta) + Size[c] <= BytesMax

\* Mutant: the byte budgets are compared without the offer at hand.
HasCapacityUncounted(c) ==
    /\ Cardinality(meta) < InboundMax
    /\ Cardinality(PeerEntries(Owner[c])) < PerPeerMax
    /\ Bytes(meta) <= BytesMax
    /\ Bytes(PeerEntries(Owner[c])) <= BytesPerPeerMax

HasCapacity(c) ==
    /\ Cardinality(meta) < InboundMax
    /\ Cardinality(PeerEntries(Owner[c])) < PerPeerMax
    /\ Bytes(meta) + Size[c] <= BytesMax
    /\ Bytes(PeerEntries(Owner[c])) + Size[c] <= BytesPerPeerMax
    /\ Cardinality(registry) < InboundMax

\* The store had no row when it was asked. A known offer is left as it is, a
\* new one opens an assembler if there is room.
OfferOpen(k) ==
    LET c == cap[k] IN
    /\ h[k] = "offerOpen"
    /\ IF c \notin meta /\ HasCapacity(c)
         THEN /\ meta' = meta \cup {c}
              /\ registry' = registry \cup {c}
              /\ chunks' = [chunks EXCEPT ![c] = {}]
              /\ done' = done \ {c}
              /\ UNCHANGED expired
         ELSE UNCHANGED inboundVars
    /\ Finish(k, {})
    /\ UNCHANGED <<senderVars, rrow, replay, allowed, faults>>

\* A chunk of a remembered capsule is ignored; one without an open assembler,
\* or for a finalized one, is an error. All are ACKed.
HandleChunk(k) ==
    LET c == cap[k] IN
    /\ Accepts(k, 1..NChunks[c])
    /\ PruneInbound
    /\ chunks' = IF /\ c \notin replay
                    /\ c \in Pruned(meta) \cap Pruned(registry)
                    /\ c \notin done
                   THEN [PrunedChunks EXCEPT ![c] = @ \cup {fwd[k]}]
                   ELSE PrunedChunks
    /\ Finish(k, {})
    /\ UNCHANGED <<senderVars, rrow, replay, allowed, faults>>

\* verify_and_finalize succeeds on every chunk of an unfinished assembler.
Verified(c) ==
    /\ c \in Pruned(meta) \cap Pruned(registry)
    /\ c \notin done
    /\ chunks[c] = 1..NChunks[c]

HandleComplete(k) ==
    LET c == cap[k] IN
    /\ Accepts(k, {Last(c)})
    /\ meta' = Pruned(meta)
    /\ registry' = Pruned(registry)
    /\ expired' = {}
    /\ \/ /\ c \in replay
          /\ Suspend(k, "replayGet")
          /\ done' = Pruned(done)
       \/ /\ c \notin replay /\ Verified(c)
          /\ Suspend(k, "storing")
          /\ done' = Pruned(done) \cup {c}
       \/ /\ c \notin replay /\ ~Verified(c)
          /\ Finish(k, {})
          /\ done' = Pruned(done)
    /\ chunks' = PrunedChunks
    /\ UNCHANGED <<senderVars, rrow, replay, allowed, faults>>

\* A remembered completion is receipted again if the store has an inbound row.
ReplayGet(k) ==
    /\ h[k] = "replayGet"
    /\ StoreLockFree
    /\ IF rrow[cap[k]] = "none" THEN Finish(k, {}) ELSE Suspend(k, "replied")
    /\ UNCHANGED <<senderVars, receiverVars, allowed, faults>>

ReplayReceipt(k) ==
    /\ h[k] = "replied"
    /\ Finish(k, {"RECEIPT"})
    /\ UNCHANGED <<senderVars, receiverVars, allowed, faults>>

\* store_capsule up to its staging INSERT. An existing row is returned; a
\* staging row left behind is first recovered from its sealed file.
StoreBegin(k) ==
    LET c == cap[k] IN
    /\ h[k] = "storing"
    /\ StoreLockFree
    /\ \/ /\ rrow[c] \in {"none", "staging"}
          /\ rrow' = [rrow EXCEPT ![c] = "staging"]
          /\ Suspend(k, "staged")
       \/ /\ rrow[c] \in {"staging", "received"}
          /\ rrow' = [rrow EXCEPT ![c] = "received"]
          /\ Suspend(k, "stored")
    /\ UNCHANGED <<senderVars, inboundVars, replay, allowed, faults>>

\* The sealed file is durable and the row becomes "received".
StoreCommit(k) ==
    /\ h[k] = "staged"
    /\ rrow' = [rrow EXCEPT ![cap[k]] = "received"]
    /\ Suspend(k, "stored")
    /\ UNCHANGED <<senderVars, inboundVars, replay, allowed, faults>>

\* Mutant: the error of a failed commit is swallowed.
StoreFailSwallowed(k) ==
    /\ h[k] = "staged"
    /\ Fault
    /\ rrow' = [rrow EXCEPT ![cap[k]] = "none"]
    /\ Suspend(k, "stored")
    /\ UNCHANGED <<senderVars, inboundVars, replay, allowed>>

\* An I/O error: the staging row is deleted, unless that fails as well.
StoreFail(k) ==
    /\ h[k] = "staged"
    /\ Fault
    /\ \/ rrow' = [rrow EXCEPT ![cap[k]] = "none"]
       \/ RollbackCanFail /\ UNCHANGED rrow
    /\ Suspend(k, "storeFailed")
    /\ UNCHANGED <<senderVars, inboundVars, replay, allowed>>

\* The assembler is closed, the completion remembered and receipted.
AfterStore(k) ==
    /\ h[k] = "stored"
    /\ CloseInbound(cap[k])
    /\ Remember(cap[k])
    /\ Finish(k, {"RECEIPT"})
    /\ UNCHANGED <<senderVars, rrow, allowed, faults>>

\* Mutant: the finalized assembler stays open after a failed commit.
AfterStoreFailKeepsAssembler(k) ==
    /\ h[k] = "storeFailed"
    /\ Finish(k, {})
    /\ UNCHANGED <<senderVars, receiverVars, allowed, faults>>

\* The finalized assembler is dropped so that a retry can start over.
AfterStoreFail(k) ==
    /\ h[k] = "storeFailed"
    /\ CloseInbound(cap[k])
    /\ Finish(k, {})
    /\ UNCHANGED <<senderVars, rrow, replay, allowed, faults>>

\* An offer outlives CAPSULE_INBOUND_TTL_S. For a transfer in progress that
\* is a fault: the deadline is far longer than an undisturbed transfer.
ExpireInbound(c) ==
    /\ c \in meta \ expired
    /\ expired' = expired \cup {c}
    /\ \/ (\E k \in sopen : cap[k] = c) /\ Fault
       \/ (\A k \in sopen : cap[k] # c) /\ UNCHANGED faults
    /\ UNCHANGED <<senderVars, channelVars, rrow, meta, registry, chunks, done>>
    /\ UNCHANGED <<replay, allowed>>

\* The receiver stops and starts again. Its memory is lost, and the repository
\* settles every staging row by what its sealed file holds.
ReceiverCrash ==
    /\ Fault
    /\ \E settled \in [{c \in Capsules : rrow[c] = "staging"} -> {"none", "received"}] :
         rrow' = [c \in Capsules |->
                    IF rrow[c] = "staging" THEN settled[c] ELSE rrow[c]]
    /\ meta' = {} /\ expired' = {} /\ registry' = {} /\ done' = {}
    /\ replay' = {}
    /\ ropen' = {}
    /\ h' = [k \in Channels |-> "idle"]
    /\ fwd' = [k \in Channels |-> NoFrame]
    /\ chunks' = [c \in Capsules |-> {}]
    /\ UNCHANGED <<senderVars, cap, sopen, reply, allowed>>

Revoke(p) ==
    /\ p \in allowed
    /\ Fault
    /\ allowed' = allowed \ {p}
    /\ UNCHANGED <<senderVars, channelVars, receiverVars>>

Grant(p) ==
    /\ p \notin allowed
    /\ allowed' = allowed \cup {p}
    /\ UNCHANGED <<senderVars, channelVars, receiverVars, faults>>

----------------------------------------------------------------------------
SenderStep(c) ==
    \/ CommitOutbound(c) \/ BackoffElapses(c) \/ PeerUnreachable(c)
    \/ ReceiptGet(c) \/ ReceiptMark(c) \/ ReceiptAnnounce(c)
    \/ RunOrphan(c) \/ SettleRead(c) \/ SettleMark(c)

AttemptStep(c, k) ==
    \/ StartDelivery(c, k) \/ SendFrame(c, k) \/ ReadAck(c, k)
    \/ AckTimeout(c, k) \/ ChannelDown(c, k) \/ ReadReceipt(c, k)
    \/ RefuseReceipt(c, k) \/ FrameTimeout(c, k)

HandlerStep(k) ==
    \/ HandleRefused(k) \/ HandleOffer(k) \/ OfferGet(k) \/ OfferLoad(k)
    \/ OfferOpen(k) \/ HandleChunk(k) \/ HandleComplete(k) \/ ReplayGet(k)
    \/ ReplayReceipt(k) \/ StoreBegin(k) \/ StoreCommit(k) \/ StoreFail(k)
    \/ AfterStore(k) \/ AfterStoreFail(k)

Next ==
    \/ \E c \in Capsules : SenderStep(c) \/ ExpireInbound(c)
    \/ \E c \in Capsules, k \in Channels : AttemptStep(c, k)
    \/ \E k \in Channels : HandlerStep(k) \/ Reclaim(k)
    \/ \E p \in Peers : DrainCapsuleOutbox(p) \/ SenderCrash(p) \/ Revoke(p) \/ Grant(p)
    \/ ReceiverCrash

Spec == Init /\ [][Next]_vars

\* Everything the two daemons do on their own goes on; commits by the user,
\* faults and policy revocations need not happen.
Fairness ==
    /\ \A c \in Capsules :
         /\ WF_vars(BackoffElapses(c))
         /\ WF_vars(RunOrphan(c))
         /\ WF_vars(ReceiptGet(c) \/ ReceiptMark(c) \/ ReceiptAnnounce(c))
         /\ WF_vars(SettleRead(c) \/ SettleMark(c))
         /\ WF_vars(ExpireInbound(c) /\ UNCHANGED faults)
         /\ WF_vars(\E k \in Channels :
              \/ StartDelivery(c, k) \/ SendFrame(c, k) \/ ReadAck(c, k)
              \/ ChannelDown(c, k) \/ ReadReceipt(c, k))
    /\ \A k \in Channels :
         WF_vars(HandlerStep(k) /\ UNCHANGED faults) /\ WF_vars(Reclaim(k))
    /\ \A p \in Peers : WF_vars(DrainCapsuleOutbox(p)) /\ WF_vars(Grant(p))

FairSpec == Spec /\ Fairness

----------------------------------------------------------------------------
(* What makes delivery correct.                                            *)

\* A sender clears its outbox only for a capsule the receiver holds durably,
\* whatever crashes, timeouts, late receipts and retries came before
\* (mark_delivered is reached from a receipt alone, and a receipt follows the
\* encrypted file's fsync and the row's commit).
DeliveredIsDurable ==
    \A c \in Capsules : outbox[c] = "delivered" => rrow[c] = "received"

\* A capsule_delivered event tells the truth and is broadcast at most once per
\* capsule, although the handler compares a status read before an await.
AnnouncedOnceAndTrue ==
    \A c \in Capsules :
      /\ notified[c] <= 1
      /\ notified[c] = 1 => outbox[c] = "delivered"

\* The accounting that admits offers covers exactly the assemblers that hold
\* memory, and keeps their number within the limits, in total and per peer,
\* although an offer is admitted an await after it was pruned and looked up.
SlotsBounded ==
    /\ registry = meta
    /\ Cardinality(meta) <= InboundMax
    /\ \A p \in Peers : Cardinality(PeerEntries(p)) <= PerPeerMax

\* The payload bytes declared by the open offers stay within both budgets.
BytesBounded ==
    /\ Bytes(meta) <= BytesMax
    /\ \A p \in Peers : Bytes(PeerEntries(p)) <= BytesPerPeerMax

\* An assembler is marked finalized only while the handler that finalized it
\* is still committing or cleaning up: no capsule is left behind "already
\* finalized" with nobody to close it.
NoStrandedAssembler ==
    \A c \in done : \E k \in Channels :
      cap[k] = c /\ h[k] \in {"storing", "staged", "stored", "storeFailed"}

\* Once the faults are over every queued capsule reaches the receiver and its
\* outbox row is cleared.
EventuallyDelivered ==
    \A c \in Capsules : outbox[c] = "pending" ~> outbox[c] = "delivered"

\* After a failed durable commit the sender's replays reconstruct the capsule:
\* the receiver drops its finalized assembler "so an exact sender replay can
\* reconstruct cleanly instead of getting stuck" (daemon.py, the except branch
\* around store_capsule), and the outbox "safely replays until it receives an
\* exact commit receipt".
ReplayReconstructs ==
    \A c \in Capsules :
      (\E k \in Channels : cap[k] = c /\ h[k] = "storeFailed") ~> rrow[c] = "received"

\* How far a capsule is, as the contract sees it.
Stage(c) ==
    CASE outbox[c] = "delivered" -> "confirmed"
      [] outbox[c] = "pending" /\ rrow[c] = "received" -> "stored"
      [] outbox[c] = "pending" /\ rrow[c] # "received" -> "queued"
      [] OTHER -> "none"

Contract == INSTANCE CapsuleContract WITH stage <- [c \in Capsules |-> Stage(c)]

\* The protocol with all its retries implements the contract: a capsule is
\* queued, stored and confirmed, each once and in that order.
ImplementsContract == Contract!Spec

=============================================================================
