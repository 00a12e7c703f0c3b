----------------------------- MODULE FileReceive -----------------------------
(***************************************************************************)
(* Receiving one file content from one peer (daemon.py): the FILE_OFFER    *)
(* handler with its admission, accept-first hold and resume, the stream    *)
(* and CDC chunk handlers, the durable commit (verify, prepare, publish,   *)
(* record), the recovery of a prepared commit from a retried offer, and    *)
(* abort, park, the stuck-transfer reaper and restarts.                    *)
(*                                                                         *)
(* `_incoming_files` is keyed by the content hash and a delivery by its    *)
(* id, so several deliveries of one content meet in one table slot. A      *)
(* writer is one IncomingFile object; a path is the private staging file   *)
(* a writer opened together with the public name chosen for it. Every      *)
(* channel negotiates commit receipts, and publication is the hard link    *)
(* of POSIX hosts. Peers send chunks only of files that were asked for.    *)
(***************************************************************************)
EXTENDS Naturals, FiniteSets

CONSTANTS
    Deliveries,    \* delivery ids under which the peer offers the content
    Chunks,        \* chunks of the content
    None,          \* no sidecar
    MaxWriters,    \* bound on the IncomingFile objects of a behaviour
    Scenarios      \* settings of the daemon and bounds of a behaviour:
                   \*   offered  the deliveries the peer makes
                   \*   writers  bound on the IncomingFile objects
                   \*   faults   bound on I/O errors, refusals, aborts, stalls
                   \*   crashes  bound on the restarts
                   \*   require  files are held until the user accepts
                   \*   swarm    other trusted devices may hold chunks
                   \*   overlap  handlers of the content run during each
                   \*            other's awaits (several channels)

ASSUME FileReceiveAssumption ==
    /\ Chunks \in Nat \ {0} /\ MaxWriters \in Nat \ {0}
    /\ Scenarios \subseteq
          [offered : SUBSET Deliveries, writers : 0..MaxWriters, faults : Nat,
           crashes : Nat, require : BOOLEAN, swarm : BOOLEAN, overlap : BOOLEAN]

Writers == 1..MaxWriters
Modes   == {"stream", "cdc"}

VARIABLES
    scenario,  \* the settings and bounds of this behaviour
    table,     \* _incoming_files[blob]: a writer, or 0
    made,      \* writers created so far
    writer,    \* writer[w]: the fields of the IncomingFile
    open,      \* writers whose file handle is open
    task,      \* task[w]: where the commit of w is
    reserved,  \* deliveries with a reservation in the ledger
    held,      \* _pending_file_offers: "no", "held" or "accepted"
    suspended, \* handlers waiting on an await
    registry,  \* _resume_registry: a sidecar, or None
    due,       \* a scheduled _finish_cdc_file that has not started
    recovery,  \* recovery[d]: a running _recover_prepared_inbound_commit
    sidecar,   \* the resume sidecar on disk, or None
    staged,    \* paths whose staging file exists
    chunks,    \* chunks[p]: valid chunks in the staging file of p
    public,    \* paths whose public file exists
    row,       \* row[d]: the status column of the transfer row
    prepared,  \* prepared[d]: path of file_commit_prepare, or 0
    evidence,  \* evidence[d]: path of file_commit_evidence, or 0
    stalled,   \* deliveries whose row was not updated for the deadline
    allowed,   \* the peer is in _file_accept_allow
    consented, \* deliveries the user accepted, one by one or all (history)
    borrowed,  \* deliveries whose writer met another one's consent (history)
    confirmed, \* deliveries a positive receipt was sent for
    retriable, \* deliveries whose last commit answer was "retryable"
    faults, crashes

tableVars == <<table, made, writer, open>>
memVars   == <<held, suspended, registry, due, recovery>>
fileVars  == <<staged, chunks, public>>
rowVars   == <<row, prepared, evidence, stalled>>
consentVars == <<allowed, consented, borrowed>>
wireVars  == <<consentVars, confirmed, retriable>>
bounds    == <<faults, crashes>>
vars == <<scenario, tableVars, task, reserved, memVars, sidecar, fileVars, rowVars,
          wireVars, bounds>>

Sidecars == [delivery : Deliveries, path : Writers, granted : BOOLEAN]

WriterFields ==
    [delivery : Deliveries, mode : Modes, path : Writers,
     missing : 0..Chunks, granted : BOOLEAN, wanted : BOOLEAN,
     finalizing : BOOLEAN]

TaskSteps == {"idle", "assemble", "verify", "verified", "publish", "linked",
              "published", "failed", "unrecorded"}

Suspensions ==
    [kind : {"accept", "decline"}, delivery : Deliveries]
        \cup [kind : {"offer", "assist"}, delivery : Deliveries,
              writer : Writers, missing : 0..Chunks]

TableTyped ==
    /\ table \in 0..made /\ made \in 0..MaxWriters
    /\ writer \in [1..made -> WriterFields]
    /\ open \subseteq 1..made

MemoryTyped ==
    /\ task \in [Writers -> TaskSteps]
    /\ reserved \subseteq Deliveries
    /\ held \in [Deliveries -> {"no", "held", "accepted"}]
    /\ suspended \subseteq Suspensions
    /\ registry \in Sidecars \cup {None}
    /\ due \in BOOLEAN
    /\ recovery \in [Deliveries ->
           [at : {"idle", "start", "final", "verified", "both", "publish",
                  "linked", "published"},
            path : 0..MaxWriters]]

FilesTyped ==
    /\ sidecar \in Sidecars \cup {None}
    /\ staged \subseteq Writers /\ public \subseteq Writers
    /\ chunks \in [Writers -> 0..Chunks]

RowsTyped ==
    /\ row \in [Deliveries ->
           {"none", "offered", "active", "paused", "failed", "complete"}]
    /\ prepared \in [Deliveries -> 0..MaxWriters]
    /\ evidence \in [Deliveries -> 0..MaxWriters]
    /\ stalled \subseteq Deliveries

BoundsTyped ==
    /\ allowed \in BOOLEAN
    /\ consented \subseteq Deliveries /\ borrowed \subseteq Deliveries
    /\ confirmed \subseteq Deliveries /\ retriable \subseteq Deliveries
    /\ scenario \in Scenarios
    /\ faults \in 0..scenario.faults /\ crashes \in 0..scenario.crashes

\* Tables, files and rows of the receiver stay well formed; a row's status
\* is one the daemon knows.
TypeOK == TableTyped /\ MemoryTyped /\ FilesTyped /\ RowsTyped /\ BoundsTyped

RequireAccept == scenario.require
Swarm == scenario.swarm
Overlap == scenario.overlap

Idle == [at |-> "idle", path |-> 0]

Init ==
    /\ scenario \in Scenarios
    /\ table = 0 /\ made = 0 /\ writer = << >> /\ open = {}
    /\ task = [w \in Writers |-> "idle"]
    /\ reserved = {}
    /\ held = [d \in Deliveries |-> "no"]
    /\ suspended = {} /\ registry = None /\ due = FALSE
    /\ recovery = [d \in Deliveries |-> Idle]
    /\ sidecar = None /\ staged = {} /\ public = {}
    /\ chunks = [p \in Writers |-> 0]
    /\ row = [d \in Deliveries |-> "none"]
    /\ prepared = [d \in Deliveries |-> 0]
    /\ evidence = [d \in Deliveries |-> 0]
    /\ stalled = {} /\ allowed = FALSE /\ consented = {} /\ borrowed = {}
    /\ confirmed = {} /\ retriable = {}
    /\ faults = 0 /\ crashes = 0

Fault == faults < scenario.faults /\ faults' = faults + 1

\* Without overlap a suspended handler runs on before anything else does.
Serial == Overlap \/ suspended = {}

\* _update_transfer: the status moves, the metadata stays.
SetRow(d, s) ==
    /\ row' = [row EXCEPT ![d] = s]
    /\ stalled' = stalled \ {d}
    /\ UNCHANGED <<prepared, evidence>>

DeliveryOf(w) == writer[w].delivery
PathOf(w)     == writer[w].path

\* What is done in the name of delivery d meets whatever writer the table
\* holds for the content; if that is one of another delivery, it borrows.
Lends(d) == borrowed' = borrowed \cup
               ({DeliveryOf(v) : v \in {table} \ {0}} \ {d})

----------------------------------------------------------------------------
(* Giving a writer up.                                                     *)

\* _abort_incoming_file: whatever writer the table holds for the content is
\* popped, this writer's reservation is released, its output unlinked.
AbortIncoming(w, s) ==
    /\ table' = 0 /\ open' = open \ {w}
    /\ reserved' = reserved \ {DeliveryOf(w)}
    /\ sidecar' = None
    /\ SetRow(DeliveryOf(w), s)
    /\ IF task[w] = "unrecorded"
       THEN public' = public \ {PathOf(w)} /\ UNCHANGED staged
       ELSE staged' = staged \ {PathOf(w)} /\ UNCHANGED public
    /\ UNCHANGED chunks

\* Mutant: parking a writer keeps its reservation.
ParkKeepsReservation(w, granted) ==
    /\ table' = 0 /\ open' = open \ {w}
    /\ UNCHANGED reserved
    /\ held' = [held EXCEPT ![DeliveryOf(w)] = "no"]
    /\ IF writer[w].mode = "cdc"
       THEN LET sc == [delivery |-> DeliveryOf(w), path |-> PathOf(w),
                       granted |-> granted]
            IN  sidecar' = sc /\ registry' = sc /\ UNCHANGED staged
       ELSE /\ staged' = staged \ {PathOf(w)}
            /\ sidecar' = None
            /\ UNCHANGED registry
    /\ UNCHANGED <<chunks, public>>

\* _park_incoming_file_for_resume: the sidecar keeps the writer's consent.
Park(w, granted) ==
    /\ table' = 0 /\ open' = open \ {w}
    /\ reserved' = reserved \ {DeliveryOf(w)}
    /\ held' = [held EXCEPT ![DeliveryOf(w)] = "no"]
    /\ IF writer[w].mode = "cdc"
       THEN LET sc == [delivery |-> DeliveryOf(w), path |-> PathOf(w),
                       granted |-> granted]
            IN  sidecar' = sc /\ registry' = sc /\ UNCHANGED staged
       ELSE /\ staged' = staged \ {PathOf(w)}
            /\ sidecar' = None
            /\ UNCHANGED registry
    /\ UNCHANGED <<chunks, public>>

\* FILE_ABORT, a bad chunk, a revoked capability, cancel_resumable_transfer.
Abort ==
    /\ Serial /\ table # 0 /\ Fault
    /\ AbortIncoming(table, "failed")
    /\ UNCHANGED <<made, writer, task, memVars, wireVars, crashes>>

\* A row in flight is not updated for STUCK_TRANSFER_DEADLINE_MS.
Stall(d) ==
    /\ Fault
    /\ row[d] \in {"offered", "active", "paused"} /\ d \notin stalled
    /\ stalled' = stalled \cup {d}
    /\ UNCHANGED <<tableVars, task, reserved, memVars, sidecar, fileVars,
                   row, prepared, evidence, wireVars, crashes>>

\* _reap_stuck_transfers: the stale row is paused and the writer the table
\* holds for its content is parked.
Reap(d) ==
    /\ Serial /\ d \in stalled /\ held[d] # "held"
    /\ row[d] \in {"offered", "active", "paused"}
    /\ row[d] = "paused" => table # 0
    /\ table # 0 => ~writer[table].finalizing
    /\ SetRow(d, "paused")
    /\ IF table # 0 THEN Park(table, writer[table].granted)
       ELSE UNCHANGED <<table, open, reserved, held, registry, sidecar,
                        fileVars>>
    /\ UNCHANGED <<made, writer, task, suspended, due, recovery, wireVars,
                   bounds>>

----------------------------------------------------------------------------
(* FILE_OFFER.                                                             *)

\* A delivery without prepare or commit evidence, its content not being
\* finalized and not held: _verified_prior_inbound_commit says "absent".
Fresh(d) ==
    /\ row[d] # "complete" /\ prepared[d] = 0
    /\ table # 0 => ~writer[table].finalizing

\* When the peer may offer at all.
MayOffer ==
    /\ Serial
    /\ Overlap \/ (/\ \A w \in Writers : task[w] = "idle"
                   /\ \A d \in Deliveries : recovery[d] = Idle
                   /\ ~due)

\* A committed delivery is answered with its receipt again.
OfferReplay(d) ==
    /\ MayOffer
    /\ row[d] = "complete" /\ evidence[d] \in public
    /\ confirmed' = confirmed \cup {d}
    /\ UNCHANGED <<tableVars, task, reserved, memVars, sidecar, fileVars,
                   rowVars, consentVars, retriable, bounds>>

\* A prepared delivery is not received again: its commit is recovered.
OfferRecover(d) ==
    /\ MayOffer
    /\ row[d] # "complete" /\ prepared[d] # 0 /\ recovery[d] = Idle
    /\ recovery' = [recovery EXCEPT ![d] = [at |-> "start",
                                            path |-> prepared[d]]]
    /\ UNCHANGED <<tableVars, task, reserved, held, suspended, registry, due,
                   sidecar, fileVars, rowVars, wireVars, bounds>>

\* The ownership rules: the content is not being received under another
\* delivery, nor is a partial of another delivery kept for it.
Admissible(d) ==
    /\ Fresh(d) /\ held[d] = "no"
    /\ table # 0 => DeliveryOf(table) = d
    /\ registry # None => registry.delivery = d

\* The retry of an offer whose writer can go on as it is.
InSessionRetry(d, m) ==
    /\ table # 0 /\ writer[table].mode = m
    /\ m = "stream" => chunks[PathOf(table)] = 0

\* Offers are answered at once: accept-first is off, or the user chose to
\* accept all from this device.
Waived == ~RequireAccept \/ allowed

\* The user who accepts all has accepted what is offered from then on.
Noted(d) ==
    /\ consented' = consented \cup {e \in {d} : allowed}
    /\ UNCHANGED <<allowed, borrowed>>

\* The end of the handler: sidecar, transfer row (replaced, metadata and
\* all), and the hold, the answer, or an error instead of either. W is the
\* writer the handler holds, sc the sidecar so far.
OfferTail(d, W, missing, sc, answer) ==
    /\ sidecar' = IF W.mode = "cdc"
                  THEN [delivery |-> d, path |-> W.path, granted |-> W.granted]
                  ELSE sc
    /\ row' = [row EXCEPT ![d] = "offered"]
    /\ prepared' = [prepared EXCEPT ![d] = 0]
    /\ evidence' = [evidence EXCEPT ![d] = 0]
    /\ stalled' = stalled \ {d}
    /\ held' = IF answer = "hold" THEN [held EXCEPT ![d] = "held"] ELSE held
    /\ due' = (due \/ (answer = "ask" /\ W.mode = "cdc" /\ missing = 0))

\* The offer is answered at once, or the swarm is asked first.
OfferContinues(w, d, W, sc) ==
    LET Put(V) == [v \in 1..made' |-> IF v = w THEN V ELSE writer[v]]
    IN  IF W.mode = "cdc" /\ W.missing > 0 /\ W.granted /\ Swarm
        THEN /\ suspended' = suspended \cup
                   {[kind |-> "offer", delivery |-> d, writer |-> w,
                     missing |-> W.missing]}
             /\ writer' = Put(W)
             /\ sidecar' = sc
             /\ UNCHANGED <<rowVars, held, due>>
        ELSE /\ writer' = Put([W EXCEPT !.wanted = @ \/ W.granted])
             /\ OfferTail(d, W, W.missing, sc,
                          IF W.granted THEN "ask" ELSE "hold")
             /\ UNCHANGED suspended

\* The sender offers again when its attempt has ended: it was answered
\* "retryable", the receiver holds no writer, or the session broke.
NextAttempt(d) ==
    /\ IF table = 0 \/ d \in retriable THEN UNCHANGED faults ELSE Fault
    /\ retriable' = retriable \ {d}

\* The writer the retry goes on with, its missing chunks counted again.
Retried(m) ==
    {[writer[table] EXCEPT !.missing = IF m = "cdc" THEN missing ELSE 0] :
        missing \in 0..(Chunks - chunks[PathOf(table)])}

OfferRetry(d, m) ==
    /\ MayOffer /\ Admissible(d) /\ InSessionRetry(d, m) /\ NextAttempt(d)
    /\ reserved' = reserved \cup {d}
    /\ Noted(d)
    /\ UNCHANGED <<table, made, open>>
    /\ \E W \in Retried(m) :
          OfferContinues(table, d, [W EXCEPT !.granted = @ \/ Waived], sidecar)
    /\ UNCHANGED <<task, registry, recovery, fileVars, confirmed, crashes>>

\* The path of a new writer: the one of the partial kept for the delivery,
\* if the content comes in chunks, or a new one.
Resumes(m)  == registry # None /\ m = "cdc"
NewPath(m)  == IF Resumes(m) THEN registry.path ELSE made + 1
OnDisk(p)   == IF p \in staged THEN chunks[p] ELSE 0

\* What the unlink of a replaced writer leaves.
AfterReplace(m) ==
    IF table = 0 THEN staged ELSE staged \ ({PathOf(table)} \ {NewPath(m)})

\* The sidecar once a stream has replaced a live writer.
KeptSidecar(m) == IF table # 0 /\ m = "stream" THEN None ELSE sidecar

\* Mutant: a partial that is resumed counts as accepted.
GrantedOnResume(m) ==
    Waived \/ Resumes(m) \/ (table # 0 /\ writer[table].granted)

\* The consent of a new writer: no prompt is due, or it is inherited from
\* the partial or the writer before it.
Granted(m) ==
    \/ Waived
    \/ Resumes(m) /\ registry.granted
    \/ table # 0 /\ writer[table].granted

\* A new writer, admitted by the ledger; it may replace one of this delivery
\* that cannot go on.
OfferNew(d, m) ==
    /\ MayOffer /\ Admissible(d) /\ ~InSessionRetry(d, m) /\ NextAttempt(d)
    /\ made < scenario.writers /\ made' = made + 1 /\ table' = made + 1
    /\ open' = (open \ {table}) \cup {made + 1}
    /\ reserved' = reserved \cup {d}
    /\ registry' = None
    /\ staged' = AfterReplace(m) \cup {NewPath(m)}
    /\ chunks' = [chunks EXCEPT ![NewPath(m)] = OnDisk(NewPath(m))]
    /\ \E missing \in 0..(Chunks - OnDisk(NewPath(m))) :
          OfferContinues(made + 1, d,
              [delivery |-> d, mode |-> m, path |-> NewPath(m),
               missing |-> IF m = "cdc" THEN missing ELSE 0,
               granted |-> Granted(m),
               wanted |-> FALSE, finalizing |-> FALSE], KeptSidecar(m))
    /\ Noted(d)
    /\ UNCHANGED <<task, recovery, public, confirmed, crashes>>

\* The ledger refuses the retry; the writer's missing chunks have been
\* counted again by then.
RetryRefused(d, m) ==
    /\ MayOffer /\ Admissible(d) /\ InSessionRetry(d, m) /\ Fault
    /\ \E W \in Retried(m) : writer' = [writer EXCEPT ![table] = W]
    /\ UNCHANGED <<table, made, open, task, reserved, memVars, sidecar,
                   fileVars, rowVars, wireVars, crashes>>

\* The ledger refuses a new writer: its staging file is unlinked, but a
\* resumed partial goes back to the registry.
OfferRefused(d, m) ==
    /\ MayOffer /\ Admissible(d) /\ ~InSessionRetry(d, m) /\ Fault
    /\ reserved' = IF table = 0 THEN reserved \ {d} ELSE reserved
    /\ IF Resumes(m)
       THEN /\ sidecar' = registry
            /\ staged' = staged \cup {registry.path}
            /\ chunks' = [chunks EXCEPT ![registry.path] = OnDisk(registry.path)]
            /\ UNCHANGED registry
       ELSE registry' = None /\ UNCHANGED <<sidecar, staged, chunks>>
    /\ UNCHANGED <<tableVars, task, held, suspended, due, recovery, public,
                   rowVars, wireVars, crashes>>

\* Sidecar or transfer row of a retry cannot be written: its writer is
\* parked.
RetryUnrecorded(d, m) ==
    /\ MayOffer /\ Admissible(d) /\ InSessionRetry(d, m) /\ Fault
    /\ \E W \in Retried(m) :
          writer' = [writer EXCEPT ![table] =
                        [W EXCEPT !.granted = @ \/ Waived]]
    /\ Park(table, writer[table].granted \/ Waived)
    /\ Noted(d)
    /\ UNCHANGED <<made, task, suspended, due, recovery, rowVars, confirmed,
                   retriable, crashes>>

\* The same for a new writer.
OfferUnrecorded(d, m) ==
    /\ MayOffer /\ Admissible(d) /\ ~InSessionRetry(d, m) /\ Fault
    /\ made < scenario.writers /\ made' = made + 1 /\ table' = 0
    /\ open' = open \ {table}
    /\ LET p  == NewPath(m)
           sc == [delivery |-> d, path |-> p, granted |-> Granted(m)]
       IN  /\ writer' = [v \in 1..made' |-> IF v \in 1..made THEN writer[v] ELSE
                            [delivery |-> d, mode |-> m, path |-> p,
                             missing |-> 0, granted |-> Granted(m),
                             wanted |-> FALSE, finalizing |-> FALSE]]
           /\ chunks' = [chunks EXCEPT ![p] = OnDisk(p)]
           /\ IF m = "cdc"
              THEN /\ staged' = AfterReplace(m) \cup {p}
                   /\ sidecar' = sc /\ registry' = sc
              ELSE /\ staged' = AfterReplace(m)
                   /\ sidecar' = None /\ registry' = None
    /\ reserved' = reserved \ {d}
    /\ Noted(d)
    /\ UNCHANGED <<task, held, suspended, due, recovery, public, rowVars,
                   confirmed, retriable, crashes>>

\* The swarm has answered: the handler goes on with what it knew, on
\* whatever writer the table holds by now, and asks for what is missing,
\* holds the offer, or fails on an empty slot.
OfferResumes(s) ==
    LET answer == CASE Waived -> "ask"
                    [] ~Waived /\ table = 0 -> "error"
                    [] ~Waived /\ table # 0 ->
                          IF writer[table].granted THEN "ask" ELSE "hold"
    IN  /\ s \in suspended /\ s.kind = "offer"
        /\ suspended' = suspended \ {s}
        /\ \E missing \in 0..s.missing :
              /\ OfferTail(s.delivery, writer[s.writer], missing, sidecar, answer)
              /\ writer' = [v \in 1..made |->
                    IF v = table
                    THEN [writer[v] EXCEPT !.missing = missing,
                                           !.wanted = @ \/ answer = "ask"]
                    ELSE writer[v]]
        /\ Lends(s.delivery)
        /\ UNCHANGED <<table, made, open, task, reserved, registry, recovery,
                       fileVars, allowed, consented, confirmed, retriable,
                       bounds>>

\* Its sidecar or row cannot be written: the table's writer is parked.
ResumeUnrecorded(s) ==
    /\ s \in suspended /\ s.kind = "offer" /\ Fault
    /\ suspended' = suspended \ {s}
    /\ \E missing \in 0..s.missing :
          writer' = [v \in 1..made |->
             IF v = table THEN [writer[v] EXCEPT !.missing = missing]
             ELSE writer[v]]
    /\ IF table # 0 THEN Park(table, writer[table].granted)
       ELSE UNCHANGED <<table, open, reserved, held, registry, sidecar,
                        fileVars>>
    /\ UNCHANGED <<made, task, due, recovery, rowVars, wireVars, crashes>>

----------------------------------------------------------------------------
(* Consent.                                                                *)

\* _reply_to_accepted_file_offer: the content is asked for, which whatever
\* writer the table holds will receive. W is the writers so far, rest the
\* handlers that still wait.
Reply(d, W, rest) ==
    /\ suspended' = rest \cup {[kind |-> "accept", delivery |-> d]}
    /\ writer' = [v \in 1..made |->
          IF v = table THEN [W[v] EXCEPT !.wanted = TRUE] ELSE W[v]]
    /\ due' = (due \/ (table # 0 /\ W[table].mode = "cdc"
                                /\ W[table].missing = 0))

\* The accept is answered, or the sender's channel is gone and the row
\* waits for it. stale is what is left of the stalled rows.
Answered(d, W, rest, stale) ==
    \/ /\ Reply(d, W, rest)
       /\ stalled' = stale
       /\ UNCHANGED <<row, prepared, evidence, faults>>
    \/ /\ Fault
       /\ SetRow(d, "paused")
       /\ writer' = W /\ suspended' = rest
       /\ UNCHANGED due

Assist(d) == [kind |-> "assist", delivery |-> d, writer |-> table,
              missing |-> writer[table].missing]

\* accept_file_offer: consent is noted on whatever writer the table holds
\* for the content, and in its sidecar; then the swarm is asked, or the
\* answer is given. With all, later offers of the peer need no prompt, and
\* those that wait are accepted in turn (further steps of this action).
Accept(d, all) ==
    LET W == [v \in 1..made |->
                 IF v = table THEN [writer[v] EXCEPT !.granted = TRUE]
                 ELSE writer[v]]
    IN  /\ Serial /\ held[d] # "no"
        /\ \A s \in suspended : s.delivery = d => s.kind \notin {"accept", "assist"}
        /\ held' = [held EXCEPT ![d] = "accepted"]
        /\ allowed' = (allowed \/ all)
        /\ consented' = consented \cup {d} /\ Lends(d)
        /\ sidecar' = IF table # 0 /\ writer[table].mode = "cdc"
                      THEN [delivery |-> DeliveryOf(table),
                            path |-> PathOf(table), granted |-> TRUE]
                      ELSE sidecar
        /\ IF table # 0 /\ writer[table].mode = "cdc"
                        /\ writer[table].missing > 0 /\ Swarm
           THEN /\ suspended' = suspended \cup {Assist(d)}
                /\ writer' = W
                /\ UNCHANGED <<due, rowVars, faults>>
           ELSE Answered(d, W, suspended, stalled)
        /\ UNCHANGED <<table, made, open, task, reserved, registry, recovery,
                       fileVars, confirmed, retriable, crashes>>

\* The swarm has answered: the writer that was granted misses less, and the
\* content is asked for.
AcceptResumes(s) ==
    /\ s \in suspended /\ s.kind = "assist"
    /\ \E missing \in 0..s.missing :
          Answered(s.delivery, [writer EXCEPT ![s.writer].missing = missing],
                   suspended \ {s}, stalled \ {s.delivery})
    /\ Lends(s.delivery)
    /\ UNCHANGED <<table, made, open, task, reserved, held, registry, recovery,
                   sidecar, fileVars, allowed, consented, confirmed, retriable,
                   crashes>>

\* The user accepts all from the peer at the prompt of another file.
AllowPeer ==
    /\ Serial /\ RequireAccept /\ ~allowed /\ allowed' = TRUE
    /\ UNCHANGED <<tableVars, task, reserved, memVars, sidecar, fileVars,
                   rowVars, consented, borrowed, confirmed, retriable, bounds>>

\* The offer is retried after an accept whose answer was not delivered.
OfferAccepted(d) ==
    /\ MayOffer /\ Fresh(d) /\ held[d] = "accepted"
    /\ [kind |-> "accept", delivery |-> d] \notin suspended
    /\ Reply(d, writer, suspended) /\ Lends(d)
    /\ UNCHANGED <<table, made, open, task, reserved, held, registry, recovery,
                   sidecar, fileVars, rowVars, allowed, consented, confirmed,
                   retriable, bounds>>

\* _mark_file_offer_accepted, once the answer is out.
AcceptMarks(d) ==
    LET s == [kind |-> "accept", delivery |-> d]
    IN  /\ s \in suspended /\ suspended' = suspended \ {s}
        /\ held' = [held EXCEPT ![d] = "no"]
        /\ SetRow(d, "active")
        /\ UNCHANGED <<tableVars, task, reserved, registry, due, recovery,
                       sidecar, fileVars, wireVars, bounds>>

Decline(d) ==
    /\ Serial /\ held[d] = "held"
    /\ held' = [held EXCEPT ![d] = "no"]
    /\ suspended' = suspended \cup {[kind |-> "decline", delivery |-> d]}
    /\ UNCHANGED <<tableVars, task, reserved, registry, due, recovery, sidecar,
                   fileVars, rowVars, wireVars, bounds>>

\* decline_file_offer after FILE_DECLINED is out: the writer the table holds
\* for the content is aborted.
DeclineAborts(d) ==
    LET s == [kind |-> "decline", delivery |-> d]
    IN  /\ s \in suspended /\ suspended' = suspended \ {s}
        /\ IF table = 0
           THEN /\ SetRow(d, "failed")
                /\ UNCHANGED <<table, open, reserved, sidecar, fileVars>>
           ELSE /\ table' = 0 /\ open' = open \ {table}
                /\ reserved' = reserved \ {DeliveryOf(table)}
                /\ sidecar' = None
                /\ staged' = staged \ {PathOf(table)}
                /\ row' = [e \in Deliveries |->
                      IF e \in {d, DeliveryOf(table)} THEN "failed" ELSE row[e]]
                /\ stalled' = stalled \ {d, DeliveryOf(table)}
                /\ UNCHANGED <<prepared, evidence, chunks, public>>
        /\ UNCHANGED <<made, writer, task, held, registry, due, recovery,
                       wireVars, bounds>>

----------------------------------------------------------------------------
(* Chunks.                                                                 *)

\* FILE_CHUNK, FILE_BIN_CHUNK: the last chunk goes on into the commit.
StreamChunk(w) ==
    /\ writer[w].mode = "stream" /\ task[w] = "idle"
    /\ chunks' = [chunks EXCEPT ![PathOf(w)] = @ + 1]
    /\ IF chunks[PathOf(w)] + 1 = Chunks
       THEN task' = [task EXCEPT ![w] = "verify"] /\ open' = open \ {w}
       ELSE UNCHANGED <<task, open>>
    /\ SetRow(DeliveryOf(w), "active")
    /\ UNCHANGED <<table, writer, reserved, due, sidecar, staged, public>>

\* FILE_CDC_CHUNK, FILE_NATIVE_CHUNK: the last missing chunk replaces the
\* row's metadata and schedules _finish_cdc_file; a write to a handle that
\* was closed aborts the transfer.
CdcChunk(w) ==
    /\ writer[w].mode = "cdc" /\ writer[w].missing > 0
    /\ IF w \notin open
       THEN /\ AbortIncoming(w, "failed")
            /\ UNCHANGED <<task, writer, due>>
       ELSE /\ writer' = [writer EXCEPT ![w].missing = @ - 1]
            /\ chunks' = [chunks EXCEPT ![PathOf(w)] =
                             IF @ < Chunks THEN @ + 1 ELSE @]
            /\ IF writer[w].missing = 1
               THEN /\ due' = TRUE
                    /\ row' = [row EXCEPT ![DeliveryOf(w)] = "active"]
                    /\ prepared' = [prepared EXCEPT ![DeliveryOf(w)] = 0]
                    /\ evidence' = [evidence EXCEPT ![DeliveryOf(w)] = 0]
                    /\ stalled' = stalled \ {DeliveryOf(w)}
               ELSE UNCHANGED <<due, rowVars>>
            /\ UNCHANGED <<table, open, task, reserved, sidecar, staged,
                           public>>

Chunk ==
    /\ Serial /\ table # 0 /\ writer[table].wanted
    /\ StreamChunk(table) \/ CdcChunk(table)
    /\ UNCHANGED <<made, held, suspended, registry, recovery, wireVars, bounds>>

----------------------------------------------------------------------------
(* The commit of a received file. Worker-thread steps interleave with      *)
(* everything; steps of the event loop are Serial.                         *)

At(w, s) == task' = [task EXCEPT ![w] = s]

\* _finish_cdc_file begins.
FinishStart ==
    /\ Serial /\ due /\ due' = FALSE
    /\ IF /\ table # 0 /\ writer[table].mode = "cdc"
          /\ ~writer[table].finalizing
       THEN /\ writer' = [writer EXCEPT ![table].finalizing = TRUE]
            /\ At(table, "assemble")
       ELSE UNCHANGED <<writer, task>>
    /\ UNCHANGED <<table, made, open, reserved, held, suspended, registry,
                   recovery, sidecar, fileVars, rowVars, wireVars, bounds>>

\* _finish_cdc_file_assemble: cached chunks are filled in and the whole
\* content is hashed; the handle is closed.
Assemble(w) ==
    /\ task[w] = "assemble"
    /\ \/ /\ w \in open /\ open' = open \ {w}
          /\ chunks' = [chunks EXCEPT ![PathOf(w)] = Chunks]
          /\ At(w, "verify")
          /\ UNCHANGED faults
       \/ /\ IF w \in open THEN Fault ELSE UNCHANGED faults
          /\ At(w, "failed")
          /\ UNCHANGED <<open, chunks>>
    /\ UNCHANGED <<table, made, writer, reserved, memVars, sidecar, staged,
                   public, rowVars, wireVars, crashes>>

\* A chunk the cache was counted on for is gone: the writer goes back to
\* receiving, and the sender is told to offer again.
CacheMiss(w) ==
    /\ Serial /\ task[w] = "assemble" /\ w \in open /\ Fault
    /\ chunks[PathOf(w)] < Chunks
    /\ writer' = [writer EXCEPT ![w].finalizing = FALSE,
                                ![w].missing = Chunks - chunks[PathOf(w)]]
    /\ At(w, "idle")
    /\ SetRow(DeliveryOf(w), "paused")
    /\ retriable' = retriable \cup {DeliveryOf(w)}
    /\ UNCHANGED <<table, made, open, reserved, memVars, sidecar, fileVars,
                   consentVars, confirmed, crashes>>

\* _verify_staged_file, in a thread.
Verify(w) ==
    /\ task[w] = "verify"
    /\ IF PathOf(w) \in staged /\ chunks[PathOf(w)] = Chunks
       THEN At(w, "verified") ELSE At(w, "failed")
    /\ UNCHANGED <<tableVars, reserved, memVars, sidecar, fileVars, rowVars,
                   wireVars, bounds>>

\* Mutant: the file is published without the durable recovery coordinates.
PrepareSkipped(w) ==
    /\ Serial /\ task[w] = "verified"
    /\ SetRow(DeliveryOf(w), "active")
    /\ At(w, "publish")
    /\ UNCHANGED <<tableVars, reserved, memVars, sidecar, fileVars, wireVars,
                   bounds>>

\* Mutant: the receipt leaves with the durable prepare.
PrepareAnswers(w) ==
    /\ Serial /\ task[w] = "verified"
    /\ row' = [row EXCEPT ![DeliveryOf(w)] = "active"]
    /\ prepared' = [prepared EXCEPT ![DeliveryOf(w)] = PathOf(w)]
    /\ confirmed' = confirmed \cup {DeliveryOf(w)}
    /\ At(w, "publish")
    /\ UNCHANGED <<tableVars, reserved, memVars, sidecar, fileVars, evidence,
                   stalled, consentVars, retriable, bounds>>

\* _record_incoming_file_commit_prepare
Prepare(w) ==
    LET d == DeliveryOf(w)
    IN  /\ Serial /\ task[w] = "verified"
        /\ \/ /\ row' = [row EXCEPT ![d] = "active"]
              /\ prepared' = [prepared EXCEPT ![d] = PathOf(w)]
              /\ stalled' = stalled \ {d}
              /\ At(w, "publish")
              /\ UNCHANGED <<evidence, faults>>
           \/ /\ Fault /\ At(w, "failed") /\ UNCHANGED rowVars
        /\ UNCHANGED <<tableVars, reserved, memVars, sidecar, fileVars,
                       wireVars, crashes>>

\* publish_file_noreplace: the hard link, in a thread.
Link(w) ==
    /\ task[w] = "publish"
    /\ IF PathOf(w) \in staged \ public
       THEN public' = public \cup {PathOf(w)} /\ At(w, "linked")
       ELSE At(w, "failed") /\ UNCHANGED public
    /\ UNCHANGED <<tableVars, reserved, memVars, sidecar, staged, chunks,
                   rowVars, wireVars, bounds>>

\* The rest of _publish_verified_staging: the private name is unlinked; if
\* that or a sync before or after it fails, the public one is.
Unlink(w) ==
    /\ task[w] = "linked"
    /\ \/ /\ PathOf(w) \in staged \cap public
          /\ staged' = staged \ {PathOf(w)}
          /\ At(w, "published")
          /\ UNCHANGED <<public, faults>>
       \/ /\ IF PathOf(w) \in staged \cap public THEN Fault
             ELSE UNCHANGED faults
          /\ public' = public \ {PathOf(w)}
          /\ staged' \in {staged, staged \ {PathOf(w)}}
          /\ At(w, "failed")
    /\ UNCHANGED <<tableVars, reserved, memVars, sidecar, chunks, rowVars,
                   wireVars, crashes>>

Recorded(d, p) ==
    /\ row' = [row EXCEPT ![d] = "complete"]
    /\ evidence' = [evidence EXCEPT ![d] = p]
    /\ prepared' = [prepared EXCEPT ![d] = 0]
    /\ stalled' = stalled \ {d}
    /\ confirmed' = confirmed \cup {d}

\* _record_incoming_file_commit, then the table slot and the reservation are
\* given up, the sidecar dropped and the positive receipt sent.
Record(w) ==
    LET d == DeliveryOf(w)
    IN  /\ Serial /\ task[w] = "published"
        /\ \/ /\ Recorded(d, PathOf(w))
              /\ table' = 0
              /\ reserved' = reserved \ {d}
              /\ sidecar' = IF writer[w].mode = "cdc" THEN None ELSE sidecar
              /\ writer' = [writer EXCEPT ![w].finalizing = FALSE]
              /\ At(w, "idle")
              /\ UNCHANGED faults
           \/ /\ Fault /\ At(w, "unrecorded")
              /\ UNCHANGED <<table, writer, reserved, sidecar, rowVars,
                             confirmed>>
        /\ UNCHANGED <<made, open, memVars, fileVars, consentVars, retriable,
                       crashes>>

\* The commit raised: a CDC writer is aborted, a stream's output is
\* quarantined, and the sender is told it may try again.
FinishFails(w) ==
    LET d == DeliveryOf(w)
    IN  /\ Serial /\ task[w] \in {"failed", "unrecorded"}
        /\ IF writer[w].mode = "cdc"
           THEN AbortIncoming(w, "failed")
           ELSE /\ table' = 0
                /\ reserved' = reserved \ {d}
                /\ SetRow(d, "failed")
                /\ IF task[w] = "unrecorded"
                   THEN public' = public \ {PathOf(w)} /\ UNCHANGED staged
                   ELSE staged' = staged \ {PathOf(w)} /\ UNCHANGED public
                /\ UNCHANGED <<open, chunks, sidecar>>
        /\ writer' = [writer EXCEPT ![w].finalizing = FALSE]
        /\ At(w, "idle")
        /\ retriable' = retriable \cup {d}
        /\ UNCHANGED <<made, memVars, consentVars, confirmed, bounds>>

----------------------------------------------------------------------------
(* _recover_prepared_inbound_commit, from a retried offer.                 *)

RecAt(d, s) == recovery' = [recovery EXCEPT ![d] =
                               IF s = "idle" THEN Idle ELSE [@ EXCEPT !.at = s]]

\* Mutant: a file that was published already is not looked for.
RecStartStagedOnly(d) ==
    /\ Serial /\ recovery[d].at = "start"
    /\ LET p == recovery[d].path
       IN  RecAt(d, CASE p \in staged \ public -> "publish"
                      [] OTHER -> "idle")
    /\ UNCHANGED <<tableVars, task, reserved, held, suspended, registry, due,
                   sidecar, fileVars, rowVars, wireVars, bounds>>

\* The announcement is out: what is on disk decides how to go on.
RecStart(d) ==
    /\ Serial /\ recovery[d].at = "start"
    /\ LET p == recovery[d].path
       IN  RecAt(d, CASE p \in public -> "final"
                      [] p \in staged \ public -> "publish"
                      [] OTHER -> "idle")
    /\ UNCHANGED <<tableVars, task, reserved, held, suspended, registry, due,
                   sidecar, fileVars, rowVars, wireVars, bounds>>

\* The public file is verified in a thread.
RecFinal(d) ==
    /\ recovery[d].at = "final"
    /\ RecAt(d, IF recovery[d].path \in public THEN "verified" ELSE "idle")
    /\ UNCHANGED <<tableVars, task, reserved, held, suspended, registry, due,
                   sidecar, fileVars, rowVars, wireVars, bounds>>

\* A staging file that is left is verified as well.
RecBoth(d) ==
    /\ Serial /\ recovery[d].at = "verified" /\ recovery[d].path \in staged
    /\ RecAt(d, "both")
    /\ UNCHANGED <<tableVars, task, reserved, held, suspended, registry, due,
                   sidecar, fileVars, rowVars, wireVars, bounds>>

\* The file is linked to its public name, in a thread.
RecLink(d) ==
    /\ recovery[d].at = "publish"
    /\ LET p == recovery[d].path
       IN  IF p \in staged \ public /\ chunks[p] = Chunks
           THEN public' = public \cup {p} /\ RecAt(d, "linked")
           ELSE RecAt(d, "idle") /\ UNCHANGED public
    /\ UNCHANGED <<tableVars, task, reserved, held, suspended, registry, due,
                   sidecar, staged, chunks, rowVars, wireVars, bounds>>

\* As Unlink.
RecUnlink(d) ==
    /\ recovery[d].at = "linked"
    /\ LET p == recovery[d].path
       IN  \/ /\ p \in staged \cap public
              /\ staged' = staged \ {p} /\ RecAt(d, "published")
              /\ UNCHANGED <<public, faults>>
           \/ /\ IF p \in staged \cap public THEN Fault ELSE UNCHANGED faults
              /\ public' = public \ {p} /\ RecAt(d, "idle")
              /\ staged' \in {staged, staged \ {p}}
    /\ UNCHANGED <<tableVars, task, reserved, held, suspended, registry, due,
                   sidecar, chunks, rowVars, wireVars, crashes>>

\* The staging file that was left has gone meanwhile.
RecGiveUp(d) ==
    /\ Serial /\ recovery[d].at = "both" /\ recovery[d].path \notin staged
    /\ RecAt(d, "idle")
    /\ UNCHANGED <<tableVars, task, reserved, held, suspended, registry, due,
                   sidecar, fileVars, rowVars, wireVars, bounds>>

\* A staging file that was left is unlinked, the terminal row written and
\* the receipt sent. Table, reservation,
\* registry and sidecar stay as they are.
RecRecord(d) ==
    LET p == recovery[d].path
    IN  /\ Serial
        /\ \/ recovery[d].at = "both" /\ p \in staged
           \/ recovery[d].at = "verified" /\ p \notin staged
           \/ recovery[d].at = "published"
        /\ staged' = staged \ {p}
        /\ Recorded(d, p)
        /\ RecAt(d, "idle")
        /\ UNCHANGED <<tableVars, task, reserved, held, suspended, registry,
                       due, sidecar, chunks, public, consentVars, retriable,
                       bounds>>

----------------------------------------------------------------------------
(* The process stops, in order or not, and starts again: memory is lost,   *)
(* rows in flight are paused and scan_inbox keeps a sidecar whose staging  *)
(* file is there.                                                          *)

Restart ==
    /\ crashes < scenario.crashes /\ crashes' = crashes + 1
    /\ table' = 0 /\ open' = {} /\ reserved' = {} /\ suspended' = {}
    /\ task' = [w \in Writers |-> "idle"]
    /\ held' = [d \in Deliveries |-> "no"]
    /\ recovery' = [d \in Deliveries |-> Idle]
    /\ due' = FALSE
    /\ sidecar' = IF sidecar # None /\ sidecar.path \in staged
                  THEN sidecar ELSE None
    /\ registry' = sidecar'
    /\ row' = [d \in Deliveries |->
                  IF row[d] \in {"offered", "active"} THEN "paused" ELSE row[d]]
    /\ stalled' = {} /\ allowed' = FALSE
    /\ UNCHANGED <<made, writer, fileVars, prepared, evidence, consented,
                   borrowed, confirmed, retriable, faults>>

Offer(d) ==
    \/ OfferReplay(d) \/ OfferRecover(d) \/ OfferAccepted(d)
    \/ \E m \in Modes : \/ OfferRetry(d, m) \/ OfferNew(d, m)
                        \/ RetryRefused(d, m) \/ OfferRefused(d, m)
                        \/ RetryUnrecorded(d, m) \/ OfferUnrecorded(d, m)
    \/ \E s \in suspended :
          s.delivery = d /\ (OfferResumes(s) \/ ResumeUnrecorded(s))

Consent(d) ==
    \/ \E all \in BOOLEAN : Accept(d, all)
    \/ \E s \in suspended : s.delivery = d /\ AcceptResumes(s)
    \/ AcceptMarks(d) \/ Decline(d) \/ DeclineAborts(d)

Commit(w) ==
    \/ Assemble(w) \/ CacheMiss(w) \/ Verify(w) \/ Prepare(w) \/ Link(w)
    \/ Unlink(w) \/ Record(w) \/ FinishFails(w)

Recover(d) ==
    \/ RecStart(d) \/ RecFinal(d) \/ RecBoth(d) \/ RecLink(d) \/ RecUnlink(d)
    \/ RecGiveUp(d) \/ RecRecord(d)

Next ==
    /\ UNCHANGED scenario
    /\ \/ Abort \/ Chunk \/ FinishStart \/ Restart \/ AllowPeer
       \/ \E d \in scenario.offered :
             Stall(d) \/ Reap(d) \/ Offer(d) \/ Consent(d) \/ Recover(d)
       \/ \E w \in 1..made : Commit(w)

Spec == Init /\ [][Next]_vars

Kept(d) == UNCHANGED scenario /\ d \in scenario.offered

\* The sender keeps offering what is not confirmed and sends the chunks it
\* is asked for; event loop and worker threads run on.
SenderFair(d) ==
    /\ WF_vars(Kept(d) /\ (OfferReplay(d) \/ OfferRecover(d) \/ OfferAccepted(d)))
    /\ WF_vars(/\ Kept(d) /\ (table = 0 \/ d \in retriable)
               /\ \E m \in Modes : OfferRetry(d, m) \/ OfferNew(d, m))

LiveSpec ==
    /\ Spec
    /\ WF_vars(UNCHANGED scenario /\ Chunk)
    /\ WF_vars(UNCHANGED scenario /\ FinishStart)
    /\ \A d \in Deliveries :
          /\ SenderFair(d)
          /\ WF_vars(Kept(d) /\ \E s \in suspended : s.delivery = d /\ OfferResumes(s))
          /\ WF_vars(Kept(d) /\ Recover(d))
          /\ WF_vars(Kept(d) /\ Reap(d))
    /\ \A w \in Writers : WF_vars(UNCHANGED scenario /\ w \in 1..made /\ Commit(w))

----------------------------------------------------------------------------
(* Properties. ReceiptHonest, NoDuplicate and ReservationsMatch are         *)
(* claimed for a receiver whose handlers of one content run one after the  *)
(* other: with several channels they fail (README, known deviations). The  *)
(* first two also leave out behaviours in which an answer to one prompt    *)
(* met the writer of another delivery.                                     *)

Orderly == ~Overlap /\ borrowed = {}

\* A delivery that was confirmed to its sender is on disk under its public
\* name, and the ledger says so (the receipt follows the durable commit).
ReceiptHonest ==
    Orderly => \A d \in confirmed : row[d] = "complete" /\ evidence[d] \in public

\* A delivery leaves one public file, whatever was retried.
NoDuplicate ==
    Orderly =>
        \A p, q \in public :
            (p \in 1..made /\ q \in 1..made /\ DeliveryOf(p) = DeliveryOf(q))
                => p = q

\* Reservations belong to the receive in progress: the writer that may still
\* write has one, and nothing else has.
ReservationsMatch ==
    ~Overlap =>
        reserved = IF table = 0 THEN {} ELSE {DeliveryOf(table)}

\* The partial kept for resume is not one of a delivery that completed: the
\* registry would refuse every other delivery of the content for its sake.
CompletedLetsGo == registry # None => row[registry.delivery] # "complete"

\* Bytes of a delivery are asked for only after the user accepted it, at its
\* prompt or by an accept-all that was in force when it was offered, across
\* parked partials, retries and restarts (accept-first); or, when the consent
\* to another delivery of the content met its writer, after that consent.
ConsentIsTheirs ==
    RequireAccept =>
        \A w \in 1..made : writer[w].wanted =>
            /\ consented # {}
            /\ DeliveryOf(w) \in consented \cup borrowed

\* An answer to the prompt of one delivery does not count for another.
AnswersOnlyItsOwn == RequireAccept => borrowed = {}

\* A file that was published and recorded is never taken away again.
PublishedStays ==
    [][\A d \in Deliveries :
          row[d] = "complete" /\ evidence[d] \in public
              => evidence[d] \in public']_vars

\* The stuck-transfer reaper leaves a commit alone.
CommitNotParked ==
    [][\A d \in Deliveries : Reap(d) /\ table # 0 => task[table] = "idle"]_vars

\* The reaper parks the writer of the row that is stale.
ReapsItsOwn ==
    [][\A d \in Deliveries : Reap(d) /\ table # 0 => DeliveryOf(table) = d]_vars

\* While the disk does not fail and no file waits for the user, every
\* delivery is confirmed in the end, wherever the receiver crashes.
EventuallyConfirmed ==
    scenario.faults = 0 /\ ~RequireAccept
        => \A d \in Deliveries : d \in scenario.offered => <>(d \in confirmed)

=============================================================================
