----------------------------- MODULE UiDelivery -----------------------------
(***************************************************************************)
(* Idempotent file delivery for the browser UI: the encrypted store of     *)
(* client delivery ids (ui_delivery_idempotency.py), the HTTP handler that *)
(* admits a file against it (server.py, api_send_file) and the transfer    *)
(* ledger both rely on (daemon.py, queue_file_transfer and the resume      *)
(* pump).                                                                  *)
(*                                                                         *)
(* A browser repeats a request whose answer it lost, under the same client *)
(* delivery id. Requests overlap, are cancelled when the browser goes      *)
(* away, and die with the server; the store is shared by all of them and   *)
(* the server's owner_epoch tells this process's rows from those of a dead *)
(* one. All requests for an id carry the same contract (peer, content,     *)
(* name), so that the contract comparisons succeed and are left out.       *)
(***************************************************************************)
EXTENDS Integers, FiniteSets

CONSTANTS
    Ids,         \* client delivery ids
    Requests,    \* request slots: requests alive at the same time
    MaxRecords,  \* max_records of the store
    Legacy,      \* ids whose row an older release may have left at "dispatching"
    FaultKinds,  \* which of AllFaults may happen
    MaxFaults,   \* bound on the number of faults
    MaxMints     \* bound on the transfer ids, and delivery ids, made for an id

AllFaults == {"cancel", "ledger", "store", "restart", "network", "source", "user"}

ASSUME UiAssumption ==
    /\ MaxRecords \in Nat
    /\ Legacy \subseteq Ids
    /\ FaultKinds \subseteq AllFaults
    /\ MaxFaults \in Nat
    /\ MaxMints \in Nat \ {0}

NoOwner == 0      \* owner_epoch ''
OldEpoch == 1     \* the owner_epoch of an older release's process
NoAnswer == "none"
Answers == {"accepted", "done", "unconfirmed", "paused", "failed"}

VARIABLES
    row,        \* the durable row of each client delivery id
    poisoned,   \* the store has failed closed
    epoch,      \* owner_epoch of the running server
    ledger,     \* ledger[c][t]: the transfer row of id c under transfer id t
    wireIds,    \* wireIds[c][t]: its delivery_id (0: never inserted)
    req,        \* the client delivery id a request slot serves
    pc,         \* program counter of api_send_file
    tx,         \* transfer id of the request's binding
    wd,         \* delivery_id of the ledger row the request was given
    body,       \* the answer the request is about to record
    cancelled,  \* requests whose task was cancelled during an await
    told,       \* answers that reached a client
    userActed,  \* ids whose transfer the user cancelled, retried or deleted
    faults

storeVars   == <<row, poisoned, epoch>>
ledgerVars  == <<ledger, wireIds, userActed>>
requestVars == <<req, tx, wd, body>>
vars == <<storeVars, ledgerVars, requestVars, pc, cancelled, told, faults>>

Phases   == {"none", "bound", "queued", "dispatching", "result"}
Statuses == {"none", "pristine", "active", "waiting", "complete", "unconfirmed", "failed"}
PCs      == {"idle", "probe", "bind", "ledgerRead", "reclaim", "reconcile", "queueGet",
             "queueInsert", "mark", "record", "release"}
Mints    == 1..MaxMints

Rows     == [phase : Phases, owner : Nat, tid : 0..MaxMints, did : 0..MaxMints,
             resp : Answers \cup {NoAnswer}]

TypeOK ==
    /\ row \in [Ids -> Rows]
    /\ poisoned \in BOOLEAN
    /\ epoch \in Nat
    /\ ledger \in [Ids -> [Mints -> Statuses]]
    /\ wireIds \in [Ids -> [Mints -> 0..MaxMints]]
    /\ req \in [Requests -> Ids]
    /\ pc \in [Requests -> PCs]
    /\ tx \in [Requests -> 0..MaxMints]
    /\ wd \in [Requests -> 0..MaxMints]
    /\ body \in [Requests -> Answers \cup {NoAnswer}]
    /\ cancelled \subseteq Requests
    /\ told \in [Ids -> SUBSET Answers]
    /\ userActed \subseteq Ids
    /\ faults \in 0..MaxFaults

\* A store in which some ids of Legacy have crossed the dispatch boundary of an
\* older release, their transfers in any state; the rest is fresh.
Init ==
    /\ \E old \in SUBSET Legacy : \E s \in [Legacy -> Statuses] :
         /\ Cardinality(old) <= MaxRecords
         /\ row = [c \in Ids |->
              IF c \in old
                THEN [phase |-> "dispatching", owner |-> OldEpoch, tid |-> 1,
                      did |-> 1, resp |-> NoAnswer]
                ELSE [phase |-> "none", owner |-> NoOwner, tid |-> 0, did |-> 0,
                      resp |-> NoAnswer]]
         /\ ledger = [c \in Ids |-> [t \in Mints |->
                        IF c \in old /\ t = 1 THEN s[c] ELSE "none"]]
         /\ wireIds = [c \in Ids |-> [t \in Mints |->
                        IF c \in old /\ t = 1 THEN 1 ELSE 0]]
    /\ poisoned = FALSE
    /\ epoch = OldEpoch + 1
    /\ req \in [Requests -> Ids]
    /\ pc = [r \in Requests |-> "idle"]
    /\ tx = [r \in Requests |-> 0]
    /\ wd = [r \in Requests |-> 0]
    /\ body = [r \in Requests |-> NoAnswer]
    /\ cancelled = {}
    /\ told = [c \in Ids |-> {}]
    /\ userActed = {}
    /\ faults = 0

Fault(kind) ==
    /\ kind \in FaultKinds
    /\ faults < MaxFaults
    /\ faults' = faults + 1

----------------------------------------------------------------------------
(* The store: one FULL-sync transaction at a time.                         *)

Answered(c) == row[c].resp # NoAnswer

\* The row of c is held by a request of the running server.
HeldHere(c) == row[c].owner = epoch

\* The transaction commits.
Commits(c, new) ==
    /\ ~poisoned
    /\ row' = [row EXCEPT ![c] = new]
    /\ UNCHANGED <<poisoned, faults>>

\* The transaction raises: BEGIN or COMMIT failed and nothing changed, or the
\* row is committed and only the path sync failed. All but a failed BEGIN
\* leave the store poisoned, and a poisoned store refuses everything.
Raises(c, new) ==
    \/ poisoned /\ UNCHANGED <<row, poisoned, faults>>
    \/ ~poisoned /\ Fault("store") /\ UNCHANGED row /\ poisoned' \in BOOLEAN
    \/ ~poisoned /\ Fault("store") /\ row' = [row EXCEPT ![c] = new] /\ poisoned' = TRUE

\* A read-only transaction raises.
ReadRaises ==
    /\ UNCHANGED row
    /\ \/ poisoned /\ UNCHANGED <<poisoned, faults>>
       \/ ~poisoned /\ Fault("store") /\ poisoned' \in BOOLEAN

\* The operation refuses by its own rules: rolled back, nothing is poisoned.
Refuses == ~poisoned /\ UNCHANGED <<row, poisoned, faults>>

\* _require_owned_row, then the phase test of each operation.
Owned(c) == HeldHere(c) /\ ~Answered(c)

----------------------------------------------------------------------------
(* The request handler. _blocking_file_io waits for its worker even when   *)
(* the task is cancelled: the operation always takes effect, and the       *)
(* cancellation is seen after it.                                          *)

\* The request goes on at p, or at q if it was cancelled meanwhile.
Continue(r, p, q) ==
    LET to == IF r \in cancelled THEN q ELSE p IN
    /\ pc' = [pc EXCEPT ![r] = to]
    /\ cancelled' = IF to = "idle" THEN cancelled \ {r} ELSE cancelled

\* The request ends without a final answer.
End(r) == Continue(r, "idle", "idle") /\ UNCHANGED told

\* The request ends and its client, if it is still there, gets answer a.
Reply(r, a) ==
    /\ Continue(r, "idle", "idle")
    /\ told' = IF r \in cancelled THEN told ELSE [told EXCEPT ![req[r]] = @ \cup {a}]

Goto(r, p, q) == Continue(r, p, q) /\ UNCHANGED told

\* A client sends, or repeats, the request for c. Only a request that sends its
\* metadata first is probed before its body is read.
Start(r, c) ==
    /\ pc[r] = "idle"
    /\ req' = [req EXCEPT ![r] = c]
    /\ \E p \in {"probe", "bind"} : pc' = [pc EXCEPT ![r] = p]
    /\ tx' = [tx EXCEPT ![r] = 0]
    /\ wd' = [wd EXCEPT ![r] = 0]
    /\ body' = [body EXCEPT ![r] = NoAnswer]
    /\ UNCHANGED <<storeVars, ledgerVars, cancelled, told, faults>>

\* The client goes away, or the server cancels the handler.
Cancel(r) ==
    /\ pc[r] # "idle"
    /\ r \notin cancelled
    /\ Fault("cancel")
    /\ cancelled' = cancelled \cup {r}
    /\ UNCHANGED <<storeVars, ledgerVars, requestVars, pc, told>>

\* probe: a recorded answer is replayed and a duplicate of a request of this
\* server is told "in progress", both before the body is read.
Probe(r) ==
    LET c == req[r] IN
    /\ pc[r] = "probe"
    /\ \/ ReadRaises /\ End(r)
       \/ /\ Refuses
          /\ \/ Answered(c) /\ Reply(r, row[c].resp)
             \/ Owned(c) /\ End(r)
             \/ ~Answered(c) /\ ~HeldHere(c) /\ Goto(r, "bind", "idle")
    /\ UNCHANGED <<epoch, ledgerVars, requestVars>>

\* Mutant: a request cancelled during bind does not give the row back.
BindNewKeepsRow(r) ==
    LET new == [phase |-> "bound", owner |-> epoch, tid |-> 1, did |-> 0,
                resp |-> NoAnswer] IN
    /\ pc[r] = "bind" /\ row[req[r]].phase = "none"
    /\ Commits(req[r], new) /\ Goto(r, "queueGet", "idle")
    /\ tx' = [tx EXCEPT ![r] = 1]
    /\ UNCHANGED <<epoch, ledgerVars, req, wd, body>>

\* bind of an id without a row. A transfer id whose INSERT is rolled back
\* leaves no trace.
BindNew(r) ==
    LET c == req[r]
        full == Cardinality({d \in Ids : row[d].phase # "none"}) >= MaxRecords
        new == [phase |-> "bound", owner |-> epoch, tid |-> 1, did |-> 0,
                resp |-> NoAnswer]
    IN
    /\ pc[r] = "bind"
    /\ row[c].phase = "none"
    /\ \/ full /\ (Refuses \/ ReadRaises) /\ End(r)
       \/ ~full /\ Commits(c, new) /\ Goto(r, "queueGet", "release")
       \/ ~full /\ Raises(c, new) /\ End(r)
    /\ tx' = [tx EXCEPT ![r] = 1]
    /\ UNCHANGED <<epoch, ledgerVars, req, wd, body>>

\* Mutant: a row taken over from a dead server gets a new transfer id.
BindExistingMints(r) ==
    LET c == req[r]
        t == row[c].tid + 1
        takeOver == ~Answered(c) /\ ~HeldHere(c) /\ t \in Mints
    IN
    /\ pc[r] = "bind" /\ row[c].phase # "none"
    /\ \/ /\ takeOver /\ Commits(c, [row[c] EXCEPT !.owner = epoch, !.tid = t])
          /\ Goto(r, "queueGet", "release") /\ tx' = [tx EXCEPT ![r] = t]
       \/ ~takeOver /\ (Refuses \/ ReadRaises) /\ End(r) /\ UNCHANGED tx
    /\ UNCHANGED <<epoch, ledgerVars, req, wd, body>>

\* Mutant: a row is taken over without looking at its owner_epoch.
BindExistingIgnoresOwner(r) ==
    LET c == req[r] IN
    /\ pc[r] = "bind" /\ row[c].phase \in {"bound", "queued"}
    /\ Commits(c, [row[c] EXCEPT !.owner = epoch]) /\ Goto(r, "queueGet", "release")
    /\ tx' = [tx EXCEPT ![r] = row[c].tid]
    /\ UNCHANGED <<epoch, ledgerVars, req, wd, body>>

\* bind of an id whose row exists: replay an answer, report the attempt of
\* another request, look into the ledger for what an older server dispatched,
\* or take over what a dead or finished attempt left before dispatch.
BindExisting(r) ==
    LET c == req[r]
        new == [row[c] EXCEPT !.owner = epoch]
    IN
    /\ pc[r] = "bind"
    /\ row[c].phase # "none"
    /\ tx' = [tx EXCEPT ![r] = row[c].tid]
    /\ \/ Answered(c) /\ Refuses /\ Reply(r, row[c].resp)
       \/ Owned(c) /\ Refuses /\ End(r)
       \/ /\ ~Answered(c) /\ ~HeldHere(c) /\ row[c].phase = "dispatching"
          /\ Refuses /\ Goto(r, "ledgerRead", "idle")
       \/ /\ ~Answered(c) /\ ~HeldHere(c) /\ row[c].phase # "dispatching"
          /\ Commits(c, new) /\ Goto(r, "queueGet", "release")
       \/ /\ ~Answered(c) /\ ~HeldHere(c) /\ row[c].phase # "dispatching"
          /\ Raises(c, new) /\ End(r)
       \/ ReadRaises /\ End(r)
    /\ UNCHANGED <<epoch, ledgerVars, req, wd, body>>

\* Mutant: a failed row is not asked for its delivery_state.
VerdictByStatus(s) ==
    CASE s = "complete" -> "done"
      [] s \in {"unconfirmed", "failed"} -> "failed"
      [] OTHER -> "paused"

\* What a ledger row lets the handler conclude about an older dispatch.
Verdict(s) ==
    CASE s = "complete"    -> "done"
      [] s = "unconfirmed" -> "unconfirmed"
      [] s = "failed"      -> "failed"
      [] OTHER             -> "paused"

\* The ledger is read in an await of its own: what is concluded from it is used
\* when the pump has gone on. A transfer that is being resumed still has the
\* status "paused" until its offer is committed.
LedgerRead(r) ==
    LET s == ledger[req[r]][tx[r]] IN
    /\ pc[r] = "ledgerRead"
    /\ \/ s \in {"none", "active"} /\ End(r) /\ UNCHANGED <<body, faults>>
       \/ /\ s # "none" /\ s # "pristine"
          /\ body' = [body EXCEPT ![r] = Verdict(s)]
          /\ Goto(r, "reconcile", "idle") /\ UNCHANGED faults
       \/ /\ s = "pristine"
          /\ body' = [body EXCEPT ![r] = Verdict(s)]
          /\ Goto(r, "reclaim", "idle") /\ UNCHANGED faults
       \/ Fault("ledger") /\ End(r) /\ UNCHANGED body
    /\ UNCHANGED <<storeVars, ledgerVars, req, tx, wd>>

\* reclaim_dispatching_before_wire: the older dispatch provably never reached
\* the wire. If that is refused the transfer is reported as paused.
Reclaim(r) ==
    LET c == req[r]
        may == row[c].phase = "dispatching" /\ ~Answered(c) /\ ~HeldHere(c)
        new == [row[c] EXCEPT !.phase = "queued", !.owner = epoch]
    IN
    /\ pc[r] = "reclaim"
    /\ \/ may /\ Commits(c, new) /\ Goto(r, "queueGet", "release")
       \/ may /\ Raises(c, new) /\ Goto(r, "reconcile", "idle")
       \/ ~may /\ (Refuses \/ ReadRaises) /\ Goto(r, "reconcile", "idle")
    /\ UNCHANGED <<epoch, ledgerVars, requestVars>>

\* record_reconciled_response of what the ledger showed.
Reconcile(r) ==
    LET c == req[r]
        may == row[c].phase = "dispatching" /\ ~Answered(c) /\ ~HeldHere(c)
        new == [row[c] EXCEPT !.phase = "result", !.owner = epoch, !.resp = body[r]]
    IN
    /\ pc[r] = "reconcile"
    /\ \/ may /\ Commits(c, new) /\ Reply(r, body[r])
       \/ may /\ Raises(c, new) /\ End(r)
       \/ ~may /\ row[c].resp = body[r] /\ Refuses /\ Reply(r, body[r])
       \/ ~may /\ row[c].resp # body[r] /\ Refuses /\ End(r)
       \/ ~may /\ ReadRaises /\ End(r)
    /\ UNCHANGED <<epoch, ledgerVars, requestVars>>

\* queue_file_transfer, first half: an existing transfer row is returned. It
\* raises if peer or staged source do not pass its checks or the row cannot be
\* read. Both halves run in one worker that a cancellation waits for.
QueueGet(r) ==
    LET c == req[r] IN
    /\ pc[r] = "queueGet"
    /\ \/ /\ ledger[c][tx[r]] # "none"
          /\ wd' = [wd EXCEPT ![r] = wireIds[c][tx[r]]]
          /\ Goto(r, "mark", "idle")
          /\ UNCHANGED faults
       \/ /\ ledger[c][tx[r]] = "none"
          /\ pc' = [pc EXCEPT ![r] = "queueInsert"]
          /\ UNCHANGED <<wd, cancelled, told, faults>>
       \/ /\ Fault("ledger")
          /\ Goto(r, "release", "idle")
          /\ UNCHANGED wd
    /\ UNCHANGED <<storeVars, ledgerVars, req, tx, body>>

\* Second half: the upsert of a new row with a fresh delivery_id. A failed
\* upsert leaves no row.
QueueInsert(r) ==
    LET c == req[r]
        d == wireIds[c][tx[r]] + 1
    IN
    /\ pc[r] = "queueInsert"
    /\ \/ /\ d <= MaxMints
          /\ ledger' = [ledger EXCEPT ![c][tx[r]] = "pristine"]
          /\ wireIds' = [wireIds EXCEPT ![c][tx[r]] = d]
          /\ wd' = [wd EXCEPT ![r] = d]
          /\ Goto(r, "mark", "idle")
          /\ UNCHANGED <<userActed, faults>>
       \/ /\ Fault("ledger")
          /\ Goto(r, "release", "idle")
          /\ UNCHANGED <<ledgerVars, wd>>
    /\ UNCHANGED <<storeVars, req, tx, body>>

\* Mutant: the delivery_id is not stored with the row.
MarkQueuedDropsIdentity(r) ==
    /\ pc[r] = "mark"
    /\ Commits(req[r], [row[req[r]] EXCEPT !.phase = "queued"])
    /\ Goto(r, "record", "release")
    /\ UNCHANGED <<epoch, ledgerVars, requestVars>>

\* mark_queued. Cancelled after its commit, the request gives the row back.
MarkQueued(r) ==
    LET c == req[r]
        may == /\ Owned(c) /\ row[c].phase \in {"bound", "queued"}
               /\ row[c].did \in {0, wd[r]}
        new == [row[c] EXCEPT !.phase = "queued", !.did = wd[r]]
    IN
    /\ pc[r] = "mark"
    /\ \/ may /\ Commits(c, new) /\ Goto(r, "record", "release")
       \/ may /\ Raises(c, new) /\ Goto(r, "release", "idle")
       \/ ~may /\ (Refuses \/ ReadRaises) /\ Goto(r, "release", "idle")
    /\ UNCHANGED <<epoch, ledgerVars, requestVars>>

\* Mutant: the client is told before the commit is known to have succeeded.
RecordResponseEager(r) ==
    LET c == req[r]
        new == [row[c] EXCEPT !.phase = "result", !.resp = "accepted"]
    IN
    /\ pc[r] = "record"
    /\ Commits(c, new) \/ Raises(c, new)
    /\ Reply(r, "accepted")
    /\ UNCHANGED <<epoch, ledgerVars, requestVars>>

\* record_response of the 202 admission, then the reply and the nudge of the
\* pump. After a failure the client learns that the outcome is unknown and the
\* row is kept.
RecordResponse(r) ==
    LET c == req[r]
        new == [row[c] EXCEPT !.phase = "result", !.resp = "accepted"]
    IN
    /\ pc[r] = "record"
    /\ \/ Owned(c) /\ Commits(c, new) /\ Reply(r, "accepted")
       \/ Owned(c) /\ Raises(c, new) /\ End(r)
       \/ ~Owned(c) /\ row[c].resp = "accepted" /\ Refuses /\ Reply(r, "accepted")
       \/ ~Owned(c) /\ row[c].resp # "accepted" /\ Refuses /\ End(r)
       \/ ~Owned(c) /\ ReadRaises /\ End(r)
    /\ UNCHANGED <<epoch, ledgerVars, requestVars>>

\* release_before_dispatch; an error is logged and forgotten.
Release(r) ==
    LET c == req[r]
        may == Owned(c) /\ row[c].phase # "dispatching"
        new == [row[c] EXCEPT !.owner = NoOwner]
    IN
    /\ pc[r] = "release"
    /\ \/ may /\ (Commits(c, new) \/ Raises(c, new))
       \/ ~may /\ (Refuses \/ ReadRaises)
    /\ End(r)
    /\ UNCHANGED <<epoch, ledgerVars, requestVars>>

----------------------------------------------------------------------------
(* The daemon's queue pump, and the server's life.                         *)

Move(c, t, from, to) ==
    /\ ledger[c][t] \in from
    /\ ledger' = [ledger EXCEPT ![c][t] = to]
    /\ UNCHANGED <<storeVars, wireIds, requestVars, pc, cancelled, told>>

PumpMove(c, t, from, to) == Move(c, t, from, to) /\ UNCHANGED userActed

\* resume_paused_transfers_for, up to the durable offer of send_file. Until
\* then the row counts as paused.
Resume(c, t) == PumpMove(c, t, {"pristine", "waiting"}, "active") /\ UNCHANGED faults

\* The peer's commit receipt is accounted for, or the peer cannot give one.
Finish(c, t) ==
    /\ \E s \in {"complete", "unconfirmed"} : PumpMove(c, t, {"active"}, s)
    /\ UNCHANGED faults

\* _mark_transfer_waiting: the attempt failed, or the peer is not there.
Park(c, t) ==
    Fault("network") /\ PumpMove(c, t, {"pristine", "active", "waiting"}, "waiting")

\* The attempt fails for good: the peer refuses, or the error is no transient one.
SendFails(c, t) ==
    Fault("network") /\ PumpMove(c, t, {"pristine", "active", "waiting"}, "failed")

\* The staged source is gone.
SourceGone(c, t) == Fault("source") /\ PumpMove(c, t, {"pristine", "waiting"}, "failed")

\* The user cancels, retries or deletes the transfer. delete_transfer keeps a
\* row that an unconfirmed offer left: such a row is only cancelled.
UserMove(c, t, from, to) ==
    /\ Fault("user")
    /\ Move(c, t, from, to)
    /\ userActed' = userActed \cup {c}

UserCancel(c, t) == UserMove(c, t, {"pristine", "waiting", "active"}, "failed")
UserRetry(c, t)  == UserMove(c, t, {"failed"}, "active")
UserDelete(c, t) == UserMove(c, t, {"pristine", "waiting", "failed", "complete"}, "none")

\* A send that had read the row before the user acted writes it again, under
\* the delivery_id it had read.
LateSend(c, t) ==
    /\ c \in userActed
    /\ wireIds[c][t] # 0
    /\ PumpMove(c, t, {"none", "failed"}, "active")
    /\ UNCHANGED faults

\* The process dies and a new server opens the store. Transfers in flight are
\* made resumable on boot.
Restart ==
    /\ Fault("restart")
    /\ epoch' = epoch + 1
    /\ poisoned' = FALSE
    /\ pc' = [r \in Requests |-> "idle"]
    /\ cancelled' = {}
    /\ ledger' = [c \in Ids |-> [t \in Mints |->
                    IF ledger[c][t] = "active" THEN "waiting" ELSE ledger[c][t]]]
    /\ UNCHANGED <<row, wireIds, userActed, requestVars, told>>

----------------------------------------------------------------------------
Bind(r) == BindNew(r) \/ BindExisting(r)

Handle(r) ==
    \/ Probe(r) \/ Bind(r) \/ LedgerRead(r) \/ Reclaim(r) \/ Reconcile(r)
    \/ QueueGet(r) \/ QueueInsert(r) \/ MarkQueued(r) \/ RecordResponse(r)
    \/ Release(r)

Pump(c, t) ==
    \/ Resume(c, t) \/ Finish(c, t) \/ Park(c, t) \/ SendFails(c, t) \/ SourceGone(c, t)
    \/ LateSend(c, t)

User(c, t) == UserCancel(c, t) \/ UserRetry(c, t) \/ UserDelete(c, t)

Next ==
    \/ \E r \in Requests : Handle(r) \/ Cancel(r)
    \/ \E r \in Requests, c \in Ids : Start(r, c)
    \/ \E c \in Ids, t \in Mints : Pump(c, t) \/ User(c, t)
    \/ Restart

Spec == Init /\ [][Next]_vars

\* The event loop runs every handler, the pump and the peer go on, and a client
\* keeps asking.
Fairness ==
    /\ \A r \in Requests : WF_vars(Handle(r) /\ UNCHANGED faults)
    /\ \A c \in Ids : WF_vars(\E r \in Requests : Start(r, c))
    /\ \A c \in Ids, t \in Mints : WF_vars(Resume(c, t)) /\ WF_vars(Finish(c, t))

FairSpec == Spec /\ Fairness

----------------------------------------------------------------------------
(* What makes delivery idempotent.                                         *)

\* The requests that act as the owner of c's admission.
OwnersOf(c) ==
    {r \in Requests : /\ req[r] = c
                      /\ pc[r] \in {"queueGet", "queueInsert", "mark", "record", "release"}}

\* At most one live request admits a delivery id, although all requests of a
\* server share its owner_epoch and a cancelled one gives the row back.
SoleOwner ==
    \A c \in Ids : \A q, r \in OwnersOf(c) : q = r

\* Whatever is retried, cancelled, taken over or restarted, one client delivery
\* id puts at most one transfer into the ledger, and under one delivery_id, by
\* which the peer recognises a repeated offer, unless the user deletes it.
OneTransfer ==
    \A c \in Ids :
      /\ \A s, t \in Mints : wireIds[c][s] # 0 /\ wireIds[c][t] # 0 => s = t
      /\ \A t \in Mints : wireIds[c][t] > 1 => c \in userActed

\* An answer that reached a client is the durable one: every later request
\* replays the same answer.
AnswersAgree == \A c \in Ids : told[c] \subseteq {row[c].resp}

\* "accepted" is recorded only for a transfer the ledger holds, under the
\* delivery_id the ledger gave it; afterwards only the user removes it.
AcceptedIsQueued ==
    \A c \in Ids : row[c].resp = "accepted" =>
      /\ row[c].tid \in Mints
      /\ wireIds[c][row[c].tid] = row[c].did
      /\ ledger[c][row[c].tid] # "none" \/ c \in userActed

\* A final answer reconciled from the ledger is still what the ledger says,
\* although the row it was read from is not locked while the answer is
\* recorded, unless the user changed it.
ReconciledIsTrue ==
    \A c \in Ids \ userActed :
      LET s == ledger[c][row[c].tid] IN
      /\ row[c].resp = "done" => s = "complete"
      /\ row[c].resp = "unconfirmed" => s = "unconfirmed"
      /\ row[c].resp = "failed" => s = "failed"

\* A row that a retry cannot take over has somebody at work: the retry is
\* answered "The original delivery is still in progress".
InProgressIsTrue ==
    \A c \in Ids :
      Owned(c) /\ ~poisoned =>
        \/ OwnersOf(c) # {}
        \/ row[c].tid \in Mints /\ ledger[c][row[c].tid] # "none"

\* A bound delivery is eventually sent, or ends in a failure the ledger shows.
BoundIsSent ==
    \A c \in Ids :
      row[c].phase \in {"bound", "queued"} ~>
        /\ row[c].tid \in Mints
        /\ ledger[c][row[c].tid] \in {"complete", "unconfirmed", "failed"}

=============================================================================
