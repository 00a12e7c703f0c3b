----------------------------- MODULE ChatOutbox -----------------------------
(***************************************************************************)
(* One-to-one chat between a sender and a receiver: texts, edits, deletes  *)
(* and reactions, the durable outbox, its flush, and the receiver that     *)
(* answers every frame after a durable commit.                             *)
(*                                                                         *)
(* A message is the number of its creation; its row in the sender's        *)
(* `messages` table is msgs[n].  The foreground request of message n is    *)
(* the process n, the outbox flush is the process Flush; a process owns    *)
(* the session while it waits for the answer to its one frame.             *)
(***************************************************************************)
EXTENDS Integers, Sequences, FiniteSets, SequencesExt

CONSTANTS
    MaxMsgs,      \* bound: the largest number of messages of a budget
    MaxPending,   \* MAX_OUTBOX_PENDING_PER_PEER
    FlushBatch,   \* rows of one list_outbox snapshot
    Actions,      \* the kinds of action the user may take on a text
    Budgets       \* bound: how many messages, and how many faults (with the
                  \* user's resends and cancellations), a behaviour may have

ASSUME ChatAssumption ==
    /\ {MaxMsgs, MaxPending, FlushBatch} \subseteq Nat \ {0}
    /\ Actions \subseteq {"edit", "delete", "add", "remove"}
    /\ Budgets \subseteq [msgs: 1..MaxMsgs, faults: Nat]

VARIABLES
    msgs,       \* sender: rows written by _persist(direction="out")
    mine,       \* sender: how each text reads here
    outbox,     \* sender: pending rows, oldest first
    done,       \* sender: rows marked delivered
    cancelled,  \* history: rows the user dropped
    silent,     \* history: texts changed here while the peer was offline
    told,       \* what the request of each message was answered
    task,       \* foreground request: idle, or the attempt it is at
    inflight,   \* _outbox_flush_inflight
    sched,      \* a scheduled flush task has not run yet
    rows,       \* rest of the running flush's snapshot (<<>>: no flush runs)
    owner,      \* who holds the session lock
    out,        \* frames of the live session not read by the receiver
    back,       \* answers of the live session not read by the sender
    old,        \* frames of dropped sessions that may still be read
    got,        \* receiver: receipts in the order of their commits
    theirs,     \* receiver: how each text reads there
    budget      \* what is left of it

sender == <<msgs, mine, outbox, done, cancelled, silent, told>>
flusher == <<inflight, sched, rows>>
wire == <<owner, out, back, old>>
receiver == <<got, theirs>>
vars == <<sender, task, flusher, wire, receiver, budget>>

Ids == 1..MaxMsgs
Flush == MaxMsgs + 1
Nobody == 0
Known == 1..Len(msgs)
Texts == {n \in Known : msgs[n].kind = "text"}
ActionsOn(t) == {n \in Known : msgs[n].kind # "text" /\ msgs[n].target = t}
Pending == ToSet(outbox)
Received == ToSet(got)

Unwritten == [body |-> 0, gone |-> FALSE, mark |-> FALSE]

TypeOK ==
    /\ msgs \in BoundedSeq([kind: {"text"} \cup Actions, target: Ids], MaxMsgs)
    /\ {mine, theirs} \subseteq
         [Ids -> [body: 0..MaxMsgs, gone: BOOLEAN, mark: BOOLEAN]]
    /\ Pending \cup done \cup cancelled \cup silent \cup Received \cup old
         \subseteq Known
    /\ Len(outbox) <= MaxPending
    /\ told \in [Ids -> {"none", "sent", "queued", "failed"}]
    /\ task \in [Ids -> {"idle", "first", "again"}]
    /\ {inflight, sched} \subseteq BOOLEAN
    /\ owner \in {Nobody, Flush} \cup Known
    /\ ToSet(rows) \cup ToSet(out) \cup {a.of : a \in ToSet(back)} \subseteq Known
    /\ budget \in [msgs: 0..MaxMsgs, faults: Nat]

Init ==
    /\ msgs = <<>> /\ outbox = <<>> /\ rows = <<>>
    /\ out = <<>> /\ back = <<>> /\ got = <<>>
    /\ mine = [t \in Ids |-> Unwritten] /\ theirs = mine
    /\ done = {} /\ cancelled = {} /\ silent = {} /\ old = {}
    /\ told = [n \in Ids |-> "none"] /\ task = [n \in Ids |-> "idle"]
    /\ inflight = FALSE /\ sched = FALSE
    /\ owner = Nobody
    /\ budget \in Budgets

Fault == budget.faults > 0 /\ budget' = [budget EXCEPT !.faults = @ - 1]

-----------------------------------------------------------------------------
(* The message store: what an action does to a text, on either side.       *)

Apply(view, kind, n) ==
    CASE kind \in {"text", "edit"}  -> [view EXCEPT !.body = n]
      [] kind = "delete"            -> [view EXCEPT !.gone = TRUE]
      [] kind \in {"add", "remove"} -> [view EXCEPT !.mark = (kind = "add")]

\* enqueue_outbox: a known message keeps the row it has.
Enqueued(n) == n \in Pending \cup done
HasRoom == Len(outbox) < MaxPending
Enqueue(n) == outbox' = IF Enqueued(n) THEN outbox ELSE Append(outbox, n)

\* list_outbox, as the flush reads it.
Snapshot == SubSeq(outbox, 1, IF Len(outbox) < FlushBatch THEN Len(outbox)
                              ELSE FlushBatch)

WithoutRow(n) == RemoveAt(outbox, CHOOSE i \in DOMAIN outbox : outbox[i] = n)

\* mark_outbox_delivered: only a row that is still pending is marked.
MarkDelivered(n) ==
    IF n \in Pending
    THEN outbox' = WithoutRow(n) /\ done' = done \cup {n}
    ELSE UNCHANGED <<outbox, done>>

-----------------------------------------------------------------------------
(* The user.                                                               *)

Write(kind, target) ==
    /\ budget.msgs > 0 /\ budget' = [budget EXCEPT !.msgs = @ - 1]
    /\ msgs' = Append(msgs, [kind |-> kind, target |-> target])
    /\ mine' = [mine EXCEPT ![target] = Apply(@, kind, Len(msgs) + 1)]

\* api_send to a reachable peer: send_text persists before it sends.
SendText ==
    /\ Write("text", Len(msgs) + 1)
    /\ task' = [task EXCEPT ![Len(msgs')] = "first"]
    /\ UNCHANGED <<outbox, done, cancelled, silent, told, flusher, wire, receiver>>

\* api_send to a peer that does not resolve: enqueue_text_outbox.
SendTextOffline ==
    /\ HasRoom
    /\ Write("text", Len(msgs) + 1)
    /\ Enqueue(Len(msgs'))
    /\ told' = [told EXCEPT ![Len(msgs')] = "queued"]
    /\ UNCHANGED <<done, cancelled, silent, task, flusher, wire, receiver>>

\* api_send again with the same client_msg_id: the original frame is rebuilt.
ResendText(n) ==
    /\ n \in Texts /\ task[n] = "idle" /\ told[n] \in {"none", "failed"}
    /\ Fault
    /\ task' = [task EXCEPT ![n] = "first"]
    /\ UNCHANGED <<sender, flusher, wire, receiver>>

\* send_edit, send_delete, send_reaction: row, effect and outbox row commit
\* together, then the frame is sent once.
Act(kind, t) ==
    /\ kind \in {"edit", "delete"} => ~mine[t].gone
    /\ HasRoom
    /\ Write(kind, t)
    /\ Enqueue(Len(msgs'))
    /\ task' = [task EXCEPT ![Len(msgs')] = "again"]
    /\ UNCHANGED <<done, cancelled, silent, told, flusher, wire, receiver>>

\* api_delete_message and the reaction API while the peer does not resolve:
\* the change stays here.
ActOffline(kind, t) ==
    /\ kind # "edit" /\ (kind = "delete" => ~mine[t].gone)
    /\ Fault
    /\ mine' = [mine EXCEPT ![t] = Apply(@, kind, 0)]
    /\ silent' = silent \cup {t}
    /\ UNCHANGED <<msgs, outbox, done, cancelled, told, task, flusher, wire,
                   receiver>>

\* api_cancel_outbox.
CancelOutbox(n) ==
    /\ n \in Pending
    /\ Fault
    /\ outbox' = WithoutRow(n)
    /\ cancelled' = cancelled \cup {n}
    /\ UNCHANGED <<msgs, mine, done, silent, told, task, flusher, wire, receiver>>

-----------------------------------------------------------------------------
(* send_to: one frame, one answer, under the session's lock.               *)

Processes == Ids \cup {Flush}
Wants(p) == owner # p /\ IF p = Flush THEN rows # <<>> ELSE task[p] # "idle"
FrameOf(p) == IF p = Flush THEN Head(rows) ELSE p

\* _schedule_outbox_flush: the slot is claimed before the task exists.
ScheduleFlush ==
    /\ inflight' = TRUE
    /\ sched' = (sched \/ ~inflight)

\* Mutant: a failed flush keeps its in-flight slot.
FlushStopsKeepsSlot ==
    /\ rows' = <<>>
    /\ UNCHANGED <<inflight, sched>>

\* The flush ends at its first error.
FlushStops ==
    /\ rows' = <<>>
    /\ inflight' = FALSE
    /\ UNCHANGED sched

\* _drop_outbound_session: what was sent may still arrive, no answer will.
DropSession ==
    /\ owner' = Nobody
    /\ out' = <<>> /\ back' = <<>>
    /\ old' = old \cup ToSet(out)

GivesUp(p) ==
    /\ task' = [task EXCEPT ![p] = "idle"]
    /\ told' = [told EXCEPT ![p] = "failed"]
    /\ UNCHANGED outbox

\* A queueable failure of api_send ends in the outbox or, when that is full,
\* in an error.
Fallback(n) ==
    IF Enqueued(n) \/ HasRoom
    THEN /\ Enqueue(n)
         /\ task' = [task EXCEPT ![n] = "idle"]
         /\ told' = [told EXCEPT ![n] = "queued"]
    ELSE GivesUp(n)

\* Only send_text tries twice, and only after a transient error.
TriesAgain(n, why) == task[n] = "first" /\ why = "lost"
Queues(n, why) == msgs[n].kind = "text" /\ why # "denied"

\* What the caller of send_to does with the exception; `why` is "lost" (a
\* transient error), "busy", "refused" or "denied" (the receiver's answer).
Failed(p, why) ==
    \/ /\ p = Flush
       /\ FlushStops
       /\ UNCHANGED <<sender, task>>
    \/ /\ p # Flush /\ TriesAgain(p, why)
       /\ task' = [task EXCEPT ![p] = "again"]
       /\ UNCHANGED <<sender, flusher>>
    \/ /\ p # Flush /\ ~TriesAgain(p, why)
       /\ IF Queues(p, why) THEN Fallback(p) ELSE GivesUp(p)
       /\ UNCHANGED <<msgs, mine, done, cancelled, silent, flusher>>

\* What the caller does with the durable ACK.
Succeeded(p) ==
    IF p = Flush
    THEN /\ MarkDelivered(Head(rows))
         /\ rows' = Tail(rows)
         /\ sched' = (sched \/ ~inflight)
         /\ inflight' = (Len(rows) > 1)
         /\ UNCHANGED <<msgs, mine, cancelled, silent, told, task>>
    ELSE /\ task' = [task EXCEPT ![p] = "idle"]
         /\ told' = [told EXCEPT ![p] = "sent"]
         /\ IF msgs[p].kind = "text" THEN UNCHANGED <<outbox, done>>
            ELSE MarkDelivered(p)
         /\ ScheduleFlush
         /\ UNCHANGED <<msgs, mine, cancelled, silent, rows>>

SendFrame(p) ==
    /\ Wants(p) /\ owner = Nobody
    /\ owner' = p
    /\ out' = Append(out, FrameOf(p))
    /\ UNCHANGED <<sender, task, flusher, back, old, receiver, budget>>

\* No frame is sent: the dial or the handshake fails, the session was dropped
\* by another, or the chat capability is off here.
SendFails(p, why) ==
    /\ Wants(p)
    /\ Fault
    /\ Failed(p, why)
    /\ UNCHANGED <<wire, receiver>>

\* Mutant: the `of` of an ACK is not compared.
AnswersFrameAny(p) == TRUE
AnswersFrame(p) == Head(back).of = FrameOf(p)

\* An ACK of an earlier frame of this session is skipped.
ReadAnswer(p) ==
    /\ owner = p /\ back # <<>>
    /\ IF ~AnswersFrame(p)
       THEN /\ back' = Tail(back)
            /\ UNCHANGED <<sender, task, flusher, owner, out, old>>
       ELSE IF Head(back).says = "durable"
       THEN /\ Succeeded(p)
            /\ owner' = Nobody /\ back' = Tail(back)
            /\ UNCHANGED <<out, old>>
       ELSE Failed(p, Head(back).says) /\ DropSession
    /\ UNCHANGED <<receiver, budget>>

\* FOREGROUND_ACK_DEADLINE_S passes, or the link breaks.
AnswerLost(p) ==
    /\ owner = p
    /\ Fault
    /\ Failed(p, "lost")
    /\ DropSession
    /\ UNCHANGED receiver

\* The 20 s limit of api_send cancels send_text: the lock is released and the
\* session is kept with the frame in it.
Abandon(n) ==
    /\ n \in Texts /\ task[n] # "idle"
    /\ Fault
    /\ Fallback(n)
    /\ owner' = IF owner = n THEN Nobody ELSE owner
    /\ UNCHANGED <<msgs, mine, done, cancelled, silent, flusher, out, back, old,
                   receiver>>

-----------------------------------------------------------------------------
(* flush_outbox_for.                                                       *)

BeginFlush ==
    /\ rows' = Snapshot
    /\ inflight' = (outbox # <<>>)

\* The scheduled task; it gives up its slot when another flush runs.
FlushTask ==
    /\ sched
    /\ sched' = FALSE
    /\ IF rows # <<>> THEN inflight' = FALSE /\ UNCHANGED rows ELSE BeginFlush
    /\ UNCHANGED <<sender, task, wire, receiver, budget>>

\* The peer does not resolve.
FlushOffline ==
    /\ sched
    /\ Fault
    /\ sched' = FALSE /\ inflight' = FALSE
    /\ UNCHANGED <<sender, task, rows, wire, receiver>>

\* api_flush_outbox.
ApiFlush ==
    /\ rows = <<>> /\ outbox # <<>>
    /\ BeginFlush
    /\ UNCHANGED <<sender, task, sched, wire, receiver, budget>>

\* A session comes up, or another frame is acknowledged.
Contact ==
    /\ ~inflight
    /\ ScheduleFlush
    /\ UNCHANGED <<sender, task, rows, wire, receiver, budget>>

-----------------------------------------------------------------------------
(* The receiver.                                                           *)

\* The target must be known, and an edit needs a text that is not deleted.
Admits(n) ==
    \/ msgs[n].kind = "text"
    \/ /\ msgs[n].target \in Received
       /\ msgs[n].kind = "edit" => ~theirs[msgs[n].target].gone

\* Mutant: a replayed action takes effect again.
CommitEveryTime(n) ==
    IF ~Admits(n) THEN UNCHANGED receiver
    ELSE /\ got' = IF n \in Received THEN got ELSE Append(got, n)
         /\ theirs' = [theirs EXCEPT ![msgs[n].target] = Apply(@, msgs[n].kind, n)]

\* One transaction: the receipt, and the effect when the receipt is new.
Commit(n) ==
    IF n \in Received \/ ~Admits(n) THEN UNCHANGED receiver
    ELSE /\ got' = Append(got, n)
         /\ theirs' = [theirs EXCEPT ![msgs[n].target] = Apply(@, msgs[n].kind, n)]

Verdict(n) == IF n \in Received \/ Admits(n) THEN "durable" ELSE "refused"

Answer(n, says) ==
    /\ out' = Tail(out)
    /\ back' = Append(back, [of |-> n, says |-> says])
    /\ UNCHANGED <<sender, task, flusher, owner, old>>

Receive ==
    /\ out # <<>>
    /\ Commit(Head(out))
    /\ Answer(Head(out), Verdict(Head(out)))
    /\ UNCHANGED budget

\* Rate limit or storage failure, or for a text the chat capability is off;
\* nothing is written.
ReceiveRejects(says) ==
    /\ out # <<>>
    /\ says = "denied" => msgs[Head(out)].kind = "text"
    /\ Fault
    /\ Answer(Head(out), says)
    /\ UNCHANGED receiver

\* A frame of a dropped session is read late; its answer reaches nobody.
ReceiveLate(n) ==
    /\ n \in old
    /\ Commit(n)
    /\ old' = old \ {n}
    /\ UNCHANGED <<sender, task, flusher, owner, out, back, budget>>

-----------------------------------------------------------------------------
\* The sender's process dies: requests and flush are gone, the tables stay.
Crash ==
    /\ Fault
    /\ task' = [n \in Ids |-> "idle"]
    /\ rows' = <<>> /\ inflight' = FALSE /\ sched' = FALSE
    /\ DropSession
    /\ UNCHANGED <<sender, receiver>>

Step(p) == SendFrame(p) \/ ReadAnswer(p)

Next ==
    \/ SendText \/ SendTextOffline
    \/ \E n \in Known : ResendText(n) \/ CancelOutbox(n) \/ Abandon(n)
    \/ \E t \in Texts, kind \in Actions : Act(kind, t) \/ ActOffline(kind, t)
    \/ \E p \in Processes : \/ Step(p) \/ AnswerLost(p)
                            \/ \E why \in {"lost", "denied"} : SendFails(p, why)
    \/ FlushTask \/ FlushOffline \/ ApiFlush \/ Contact
    \/ Receive
    \/ \E says \in {"busy", "denied"} : ReceiveRejects(says)
    \/ \E n \in old : ReceiveLate(n)
    \/ Crash

Spec == Init /\ [][Next]_vars

\* The event loop runs every runnable process, the receiver reads its socket,
\* and the two devices keep meeting.
Fairness ==
    /\ \A p \in Processes : WF_vars(Step(p))
    /\ WF_vars(FlushTask) /\ WF_vars(Contact) /\ WF_vars(Receive)

FairSpec == Spec /\ Fairness

-----------------------------------------------------------------------------
(***************************************************************************)
(* Properties.                                                             *)
(***************************************************************************)

\* A request answered "sent" is committed at the receiver (send_to demands a
\* durable ACK of this very frame); one answered "queued", and every edit,
\* delete or reaction the sender shows, is committed there, still pending, or
\* was cancelled by the user; a row marked delivered is committed.
AcceptedIsKept ==
    /\ \A n \in Known : told[n] = "sent" => n \in Received
    /\ \A n \in Known : told[n] = "queued" \/ msgs[n].kind # "text"
         => n \in Received \cup Pending \cup cancelled
    /\ done \subseteq Received

\* The receiver has every action on t, committed in the order they were taken.
InOrder(t) ==
    /\ ActionsOn(t) \subseteq Received
    /\ \A i, j \in DOMAIN got :
         i < j /\ {got[i], got[j]} \subseteq ActionsOn(t) => got[i] < got[j]

\* Once the receiver has committed every action on a text in the order they
\* were taken, it shows the text as the sender does, whatever is delivered
\* again afterwards (retries of the flush, late frames of dropped sessions).
\* What was done to a text while the peer did not resolve is never sent.
ViewsAgree ==
    \A t \in (Texts \cap Received) \ silent :
        InOrder(t) => theirs[t] = mine[t]

\* A pending row that the receiver refuses.
Stuck == \E n \in Pending \ Received : ~Admits(n)

\* Every pending row leaves the outbox while the two devices keep meeting,
\* unless a row is stuck that the receiver refuses: an action whose text it
\* does not have, or an edit of a text it has deleted.
OutboxDrains == \A n \in Ids : n \in Pending ~> (n \notin Pending \/ Stuck)

=============================================================================
