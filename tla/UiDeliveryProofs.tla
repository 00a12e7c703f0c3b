-------------------------- MODULE UiDeliveryProofs --------------------------
(***************************************************************************)
(* Nothing is applied twice: idempotence of file delivery for any set of   *)
(* ids and requests, any capacity and any number of faults (UiDelivery),   *)
(* and of the frames of a session (ReplayWindow, at the end).              *)
(***************************************************************************)
EXTENDS UiDelivery, ReplayWindow, TLAPS

Bound   == PCs \ {"idle", "probe", "bind"}
Owning  == {"queueGet", "queueInsert", "mark", "record", "release"}
Reading == {"reclaim", "reconcile"}
Admitting == {"bound", "queued"}

\* What holds of every row by itself.
GoodRow(v) ==
    /\ v \in Rows
    /\ v.phase = "none" => v.owner = NoOwner /\ v.tid = 0 /\ v.resp = NoAnswer
    /\ v.phase # "none" => v.tid # 0
    /\ v.phase = "result" <=> v.resp # NoAnswer

RowInv == epoch # NoOwner /\ \A c \in Ids : GoodRow(row[c])

\* A request past bind works with the transfer id of its row.
BindingInv ==
    \A r \in Requests :
      /\ pc[r] \in Bound => row[req[r]].phase # "none" /\ tx[r] = row[req[r]].tid
      /\ pc[r] \in Reading => body[r] \in Answers \ {"accepted"}

\* A request that acts as an owner holds an unanswered, undispatched row.
HoldInv ==
    \A r \in Requests :
      pc[r] \in Owning => Owned(req[r]) /\ row[req[r]].phase \in Admitting

CoreInv == TypeOK /\ RowInv /\ BindingInv /\ HoldInv /\ SoleOwner /\ AnswersAgree

USE UiAssumption DEF Mints, NoAnswer, NoOwner, OldEpoch

----------------------------------------------------------------------------
(* What every step of a request respects.                                  *)

\* The step leaves the other requests alone.
OwnStep(r) ==
    /\ UNCHANGED <<epoch, req>>
    /\ \A q \in Requests \ {r} : pc'[q] = pc[q] /\ tx'[q] = tx[q] /\ body'[q] = body[q]

\* The step writes at most the row of its own id, and only if that row is
\* unanswered and nobody else's.
LawfulWrite(r) ==
    LET c == req[r] IN
    /\ \A d \in Ids \ {c} : row'[d] = row[d]
    /\ GoodRow(row'[c])
    /\ \/ row'[c] = row[c]
       \/ /\ ~Answered(c) /\ (~HeldHere(c) \/ pc[r] \in Owning)
          /\ row[c].phase # "none" => row'[c].tid = row[c].tid /\ row'[c].phase # "none"

\* Where the request goes next agrees with what it has.
LawfulMove(r) ==
    LET c == req[r] IN
    /\ pc'[r] \in Owning =>
         /\ pc[r] \in Owning \/ ~HeldHere(c)
         /\ row'[c].owner = epoch /\ row'[c].resp = NoAnswer
         /\ row'[c].phase \in Admitting
    /\ pc'[r] \in Bound => row'[c].phase # "none" /\ tx'[r] = row'[c].tid
    /\ pc'[r] \in Reading => body'[r] \in Answers \ {"accepted"}

\* The client is told nothing, or what the row now says.
LawfulReply(r) ==
    LET c == req[r] IN
    \/ told' = told
    \/ row'[c].resp # NoAnswer /\ told' = [told EXCEPT ![c] = @ \cup {row'[c].resp}]

Lawful(r) == OwnStep(r) /\ LawfulWrite(r) /\ LawfulMove(r) /\ LawfulReply(r)

LEMMA OneOwner ==
    ASSUME TypeOK, SoleOwner, NEW q \in Requests, NEW s \in Requests, req[q] = req[s],
           pc[q] \in Owning, pc[s] \in Owning
    PROVE  q = s
  BY DEF TypeOK, SoleOwner, OwnersOf, Owning

LEMMA LawfulKeepsCore ==
    ASSUME CoreInv, TypeOK', NEW r \in Requests, Lawful(r)
    PROVE  CoreInv'
<1>1. RowInv'
  <2> SUFFICES ASSUME NEW c \in Ids PROVE GoodRow(row'[c])
    BY DEF RowInv, CoreInv, Lawful, OwnStep
  <2>1. CASE c = req[r]
    BY <2>1 DEF Lawful, LawfulWrite
  <2>2. CASE c # req[r]
    BY <2>2 DEF CoreInv, RowInv, Lawful, LawfulWrite
  <2>3. QED
    BY <2>1, <2>2
<1>2. BindingInv'
  <2> SUFFICES ASSUME NEW q \in Requests
               PROVE  /\ pc'[q] \in Bound =>
                           row'[req'[q]].phase # "none" /\ tx'[q] = row'[req'[q]].tid
                      /\ pc'[q] \in Reading => body'[q] \in Answers \ {"accepted"}
    BY DEF BindingInv
  <2>1. CASE q = r
    BY <2>1 DEF Lawful, OwnStep, LawfulMove
  <2>2. CASE q # r
    <3>1. pc'[q] = pc[q] /\ tx'[q] = tx[q] /\ body'[q] = body[q] /\ req'[q] = req[q]
      BY <2>2 DEF Lawful, OwnStep
    <3>2. row[req[q]].phase # "none" =>
            row'[req[q]].phase # "none" /\ row'[req[q]].tid = row[req[q]].tid
      BY DEF CoreInv, TypeOK, Lawful, LawfulWrite
    <3>3. QED
      BY <3>1, <3>2 DEF CoreInv, BindingInv
  <2>3. QED
    BY <2>1, <2>2
<1>3. HoldInv'
  <2> SUFFICES ASSUME NEW q \in Requests, pc'[q] \in Owning
               PROVE  (Owned(req[q]) /\ row[req[q]].phase \in Admitting)'
    BY DEF HoldInv
  <2>1. CASE q = r
    BY <2>1 DEF Lawful, OwnStep, LawfulMove, Owned, HeldHere, Answered
  <2>2. CASE q # r
    <3>1. pc[q] \in Owning /\ Owned(req[q]) /\ row[req[q]].phase \in Admitting
      BY <2>2 DEF CoreInv, HoldInv, Lawful, OwnStep
    <3>2. row'[req[q]] = row[req[q]]
      <4>1. CASE req[q] # req[r]
        BY <4>1 DEF CoreInv, TypeOK, Lawful, LawfulWrite
      <4>2. CASE req[q] = req[r]
        BY <2>2, <3>1, <4>2, OneOwner DEF CoreInv, Lawful, LawfulWrite, Owned, HeldHere
      <4>3. QED BY <4>1, <4>2
    <3>3. QED
      BY <3>1, <3>2 DEF Lawful, OwnStep, Owned, HeldHere, Answered
  <2>3. QED
    BY <2>1, <2>2
<1>4. SoleOwner'
  <2> SUFFICES ASSUME NEW q \in Requests, NEW s \in Requests, req[q] = req[s],
                      pc'[q] \in Owning, pc'[s] \in Owning
               PROVE  q = s
    BY DEF SoleOwner, OwnersOf, Owning, Lawful, OwnStep
  <2>1. ASSUME NEW u \in Requests, pc[u] \in Owning, u # r, req[u] = req[r],
               pc'[r] \in Owning
        PROVE  FALSE
    BY <2>1, OneOwner DEF CoreInv, HoldInv, Owned, HeldHere, Lawful, LawfulMove
  <2>2. CASE q # r /\ s # r
    BY <2>2, OneOwner DEF CoreInv, Lawful, OwnStep
  <2>3. QED
    BY <2>1, <2>2 DEF Lawful, OwnStep
<1>5. AnswersAgree'
  <2> SUFFICES ASSUME NEW c \in Ids PROVE told'[c] \subseteq {row'[c].resp}
    BY DEF AnswersAgree
  <2>1. told[c] \subseteq {row[c].resp} /\ (told[c] # {} => row[c].resp # NoAnswer)
    BY DEF CoreInv, AnswersAgree, TypeOK, Answers
  <2>2. told[c] \subseteq {row'[c].resp}
    BY <2>1 DEF CoreInv, TypeOK, Lawful, LawfulWrite, Answered
  <2>3. CASE c = req[r]
    BY <2>2, <2>3 DEF CoreInv, TypeOK, Lawful, LawfulReply
  <2>4. CASE c # req[r]
    BY <2>2, <2>4 DEF CoreInv, TypeOK, Lawful, LawfulReply
  <2>5. QED
    BY <2>3, <2>4
<1>6. QED
  BY <1>1, <1>2, <1>3, <1>4, <1>5 DEF CoreInv

----------------------------------------------------------------------------
(* Every step of a request is lawful.                                      *)

\* What a transaction that may write v into the row of c can do.
LEMMA StoreOutcome ==
    ASSUME TypeOK, NEW c \in Ids, NEW v \in Rows,
           Commits(c, v) \/ Raises(c, v) \/ ReadRaises \/ Refuses
    PROVE  /\ row' \in [Ids -> Rows]
           /\ poisoned' \in BOOLEAN
           /\ faults' \in 0..MaxFaults
           /\ row' = row \/ row' = [row EXCEPT ![c] = v]
<1> USE DEF Commits, Raises, ReadRaises, Refuses, Fault
<1>1. row' = row \/ row' = [row EXCEPT ![c] = v]
  OBVIOUS
<1>2. row' \in [Ids -> Rows]
  BY <1>1 DEF TypeOK
<1>3. faults' \in 0..MaxFaults
  BY DEF TypeOK
<1>4. poisoned' \in BOOLEAN
  BY Zenon DEF TypeOK
<1>5. QED
  BY <1>1, <1>2, <1>3, <1>4

LEMMA ReadOutcome ==
    ASSUME TypeOK, ReadRaises \/ Refuses
    PROVE  row' = row /\ poisoned' \in BOOLEAN /\ faults' \in 0..MaxFaults
<1> USE DEF ReadRaises, Refuses, Fault
<1>1. row' = row
  OBVIOUS
<1>2. faults' \in 0..MaxFaults
  BY DEF TypeOK
<1>3. poisoned' \in BOOLEAN
  BY Zenon DEF TypeOK
<1>4. QED
  BY <1>1, <1>2, <1>3

\* Where a request may go.
LEMMA MoveOutcome ==
    ASSUME TypeOK, NEW r \in Requests, NEW p \in PCs, NEW q \in PCs, Continue(r, p, q)
    PROVE  /\ pc' \in [Requests -> PCs]
           /\ cancelled' \subseteq Requests
           /\ pc'[r] \in {p, q}
           /\ \A s \in Requests \ {r} : pc'[s] = pc[s]
  BY DEF Continue, TypeOK

\* What a client may be told.
LEMMA ReplyOutcome ==
    ASSUME TypeOK, NEW r \in Requests, NEW a \in Answers, Reply(r, a)
    PROVE  /\ Continue(r, "idle", "idle")
           /\ told' \in [Ids -> SUBSET Answers]
           /\ told' = told \/ told' = [told EXCEPT ![req[r]] = @ \cup {a}]
<1>1. Continue(r, "idle", "idle") /\ (told' = told \/ told' = [told EXCEPT ![req[r]] = @ \cup {a}])
  BY DEF Reply
<1>2. told \in [Ids -> SUBSET Answers] /\ told[req[r]] \cup {a} \in SUBSET Answers
  BY DEF TypeOK
<1>3. told' \in [Ids -> SUBSET Answers]
  BY <1>1, <1>2
<1>4. QED
  BY <1>1, <1>3

LEMMA WriteOutcome ==
    ASSUME TypeOK, NEW r \in Requests, NEW v \in Rows, GoodRow(row[req[r]]), GoodRow(v),
           row[req[r]].phase # "none" => v.tid = row[req[r]].tid /\ v.phase # "none",
           \/ row' = row
           \/ /\ row' = [row EXCEPT ![req[r]] = v]
              /\ ~Answered(req[r]) /\ (~HeldHere(req[r]) \/ pc[r] \in Owning)
    PROVE  LawfulWrite(r)
<1>1. CASE row' = row
  BY <1>1 DEF LawfulWrite
<1>2. CASE row' = [row EXCEPT ![req[r]] = v]
  BY <1>2 DEF LawfulWrite, TypeOK
<1>3. QED
  BY <1>1, <1>2

LEMMA ProbeLawful ==
    ASSUME CoreInv, NEW r \in Requests, Probe(r) PROVE TypeOK' /\ Lawful(r)
<1> DEFINE c == req[r]
<1> USE DEF CoreInv
<1>1. c \in Ids /\ row' = row /\ poisoned' \in BOOLEAN /\ faults' \in 0..MaxFaults
  BY ReadOutcome DEF Probe, TypeOK
<1>2. /\ pc' \in [Requests -> PCs] /\ cancelled' \subseteq Requests
      /\ pc'[r] \in {"idle", "bind"}
      /\ \A s \in Requests \ {r} : pc'[s] = pc[s]
      /\ told' \in [Ids -> SUBSET Answers]
      /\ LawfulReply(r)
  <2>1. CASE End(r) \/ Goto(r, "bind", "idle")
    BY <2>1, MoveOutcome DEF End, Goto, PCs, LawfulReply, TypeOK
  <2>2. CASE Answered(c) /\ Reply(r, row[c].resp)
    <3>1. row[c].resp \in Answers /\ row'[c].resp = row[c].resp /\ row[c].resp # NoAnswer
      BY <1>1, <2>2 DEF TypeOK, Rows, Answered
    <3>2. QED
      BY <2>2, <3>1, ReplyOutcome, MoveOutcome DEF PCs, LawfulReply
  <2>3. QED
    BY <2>1, <2>2 DEF Probe
<1>3. TypeOK'
  BY <1>1, <1>2 DEF TypeOK, Probe, ledgerVars, requestVars
<1>4. OwnStep(r) /\ LawfulWrite(r) /\ LawfulMove(r)
  BY <1>1, <1>2 DEF Probe, requestVars, OwnStep, LawfulWrite, LawfulMove, RowInv, Owning,
     Bound, Reading
<1>5. QED
  BY <1>2, <1>3, <1>4 DEF Lawful

LEMMA BindNewLawful ==
    ASSUME CoreInv, NEW r \in Requests, BindNew(r) PROVE TypeOK' /\ Lawful(r)
<1> DEFINE c == req[r]
           new == [phase |-> "bound", owner |-> epoch, tid |-> 1, did |-> 0, resp |-> NoAnswer]
<1> USE DEF CoreInv
<1>1. c \in Ids /\ new \in Rows /\ GoodRow(new) /\ GoodRow(row[c]) /\ row[c].phase = "none"
  BY DEF BindNew, TypeOK, RowInv, GoodRow, Rows, Phases
<1>2. ~Answered(c) /\ ~HeldHere(c)
  BY <1>1 DEF RowInv, GoodRow, Answered, HeldHere
<1>3. /\ row' \in [Ids -> Rows] /\ poisoned' \in BOOLEAN /\ faults' \in 0..MaxFaults
      /\ row' = row \/ row' = [row EXCEPT ![c] = new]
  BY <1>1, StoreOutcome DEF BindNew
<1>4. /\ pc' \in [Requests -> PCs] /\ cancelled' \subseteq Requests
      /\ \A s \in Requests \ {r} : pc'[s] = pc[s]
      /\ pc'[r] \in {"idle", "queueGet", "release"} /\ told' = told
  BY MoveOutcome DEF BindNew, End, Goto, PCs
<1>5. pc'[r] # "idle" => row' = [row EXCEPT ![c] = new]
  BY MoveOutcome DEF BindNew, End, Goto, PCs, Commits
<1>6. /\ UNCHANGED <<epoch, ledger, wireIds, userActed, req, wd, body>>
      /\ tx' = [tx EXCEPT ![r] = 1]
  BY DEF BindNew, ledgerVars
<1>7. TypeOK'
  BY <1>3, <1>4, <1>6 DEF TypeOK
<1>8. OwnStep(r)
  BY <1>4, <1>6 DEF OwnStep, TypeOK
<1>9. LawfulWrite(r)
  BY <1>1, <1>2, <1>3, WriteOutcome
<1>10. LawfulMove(r)
  BY <1>1, <1>2, <1>4, <1>5, <1>6 DEF LawfulMove, TypeOK, Owning, Bound, Reading, Admitting
<1>11. QED
  BY <1>4, <1>7, <1>8, <1>9, <1>10 DEF Lawful, LawfulReply

LEMMA BindExistingLawful ==
    ASSUME CoreInv, NEW r \in Requests, BindExisting(r) PROVE TypeOK' /\ Lawful(r)
<1> DEFINE c == req[r]
           new == [row[c] EXCEPT !.owner = epoch]
<1> USE DEF CoreInv
<1>1. c \in Ids /\ row[c] \in Rows /\ GoodRow(row[c]) /\ row[c].phase # "none"
  BY DEF BindExisting, TypeOK, RowInv
<1>2. new \in Rows /\ GoodRow(new)
  BY <1>1 DEF TypeOK, GoodRow, Rows
<1>3. /\ row' \in [Ids -> Rows] /\ poisoned' \in BOOLEAN /\ faults' \in 0..MaxFaults
      /\ row' = row \/ row' = [row EXCEPT ![c] = new]
  BY <1>1, <1>2, StoreOutcome DEF BindExisting
<1>4. row' = row \/ (~Answered(c) /\ ~HeldHere(c))
  BY DEF BindExisting, Refuses, ReadRaises
<1>5. /\ pc' \in [Requests -> PCs] /\ cancelled' \subseteq Requests
      /\ \A s \in Requests \ {r} : pc'[s] = pc[s]
      /\ pc'[r] \in {"idle", "ledgerRead", "queueGet", "release"}
      /\ pc'[r] \in {"queueGet", "release"} =>
           /\ ~Answered(c) /\ ~HeldHere(c) /\ row[c].phase # "dispatching"
           /\ row' = [row EXCEPT ![c] = new]
      /\ told' \in [Ids -> SUBSET Answers]
      /\ LawfulReply(r)
  <2>1. CASE Answered(c) /\ Refuses /\ Reply(r, row[c].resp)
    <3>1. row[c].resp \in Answers /\ row'[c].resp = row[c].resp /\ row[c].resp # NoAnswer
      BY <1>1, <2>1 DEF Rows, Answered, Refuses
    <3>2. QED
      BY <2>1, <3>1, ReplyOutcome, MoveOutcome DEF PCs, LawfulReply
  <2>2. CASE End(r) \/ Goto(r, "ledgerRead", "idle")
    BY <2>2, MoveOutcome DEF End, Goto, PCs, LawfulReply, TypeOK
  <2>3. CASE /\ ~Answered(c) /\ ~HeldHere(c) /\ row[c].phase # "dispatching"
             /\ Commits(c, new) /\ Goto(r, "queueGet", "release")
    BY <2>3, MoveOutcome DEF Goto, PCs, LawfulReply, Commits, TypeOK
  <2>4. QED
    BY <2>1, <2>2, <2>3 DEF BindExisting
<1>6. /\ UNCHANGED <<epoch, ledger, wireIds, userActed, req, wd, body>>
      /\ tx' = [tx EXCEPT ![r] = row[c].tid]
  BY DEF BindExisting, ledgerVars
<1>7. TypeOK'
  BY <1>1, <1>3, <1>5, <1>6 DEF TypeOK, Rows
<1>8. OwnStep(r)
  BY <1>5, <1>6 DEF OwnStep, TypeOK
<1>9. LawfulWrite(r)
  BY <1>1, <1>2, <1>3, <1>4, WriteOutcome DEF Rows
<1>10. LawfulMove(r)
  <2>1. pc'[r] \in {"queueGet", "release"} =>
          /\ row'[c].owner = epoch /\ row'[c].resp = NoAnswer /\ row'[c].phase \in Admitting
    BY <1>1, <1>5 DEF TypeOK, Rows, Phases, GoodRow, Answered, Admitting
  <2>2. row'[c].phase # "none" /\ tx'[r] = row'[c].tid
    BY <1>1, <1>3, <1>6 DEF TypeOK, Rows
  <2>3. QED
    BY <1>5, <2>1, <2>2 DEF LawfulMove, Owning, Bound, Reading
<1>11. QED
  BY <1>5, <1>7, <1>8, <1>9, <1>10 DEF Lawful

LEMMA LedgerReadLawful ==
    ASSUME CoreInv, NEW r \in Requests, LedgerRead(r) PROVE TypeOK' /\ Lawful(r)
<1> DEFINE c == req[r]
<1> USE DEF CoreInv
<1>1. c \in Ids /\ GoodRow(row[c]) /\ row[c].phase # "none" /\ tx[r] = row[c].tid
  BY DEF LedgerRead, TypeOK, RowInv, BindingInv, Bound, PCs
<1>2. /\ pc' \in [Requests -> PCs] /\ cancelled' \subseteq Requests
      /\ \A s \in Requests \ {r} : pc'[s] = pc[s]
      /\ pc'[r] \in {"idle", "reclaim", "reconcile"} /\ told' = told
  BY MoveOutcome DEF LedgerRead, End, Goto, PCs
<1>3. Verdict(ledger[c][tx[r]]) \in Answers \ {"accepted"}
  BY DEF Verdict, Answers
<1>4. /\ body' = body \/ body' = [body EXCEPT ![r] = Verdict(ledger[c][tx[r]])]
      /\ pc'[r] # "idle" => body' = [body EXCEPT ![r] = Verdict(ledger[c][tx[r]])]
  BY MoveOutcome DEF LedgerRead, End, PCs
<1>5. /\ UNCHANGED <<row, poisoned, epoch, ledger, wireIds, userActed, req, tx, wd>>
      /\ faults' \in 0..MaxFaults
  BY DEF LedgerRead, storeVars, ledgerVars, Fault, TypeOK
<1>6. TypeOK'
  BY <1>1, <1>2, <1>3, <1>4, <1>5 DEF TypeOK
<1>7. OwnStep(r) /\ LawfulWrite(r)
  BY <1>1, <1>2, <1>4, <1>5 DEF OwnStep, LawfulWrite, TypeOK
<1>8. LawfulMove(r)
  BY <1>1, <1>2, <1>3, <1>4, <1>5 DEF LawfulMove, TypeOK, Owning, Bound, Reading
<1>9. QED
  BY <1>2, <1>6, <1>7, <1>8 DEF Lawful, LawfulReply

LEMMA ReclaimLawful ==
    ASSUME CoreInv, NEW r \in Requests, Reclaim(r) PROVE TypeOK' /\ Lawful(r)
<1> DEFINE c == req[r]
           may == row[c].phase = "dispatching" /\ ~Answered(c) /\ ~HeldHere(c)
           new == [row[c] EXCEPT !.phase = "queued", !.owner = epoch]
<1> USE DEF CoreInv
<1>1. /\ c \in Ids /\ row[c] \in Rows /\ GoodRow(row[c]) /\ row[c].phase # "none"
      /\ tx[r] = row[c].tid /\ body[r] \in Answers \ {"accepted"}
  BY DEF Reclaim, TypeOK, RowInv, BindingInv, Bound, Reading, PCs
<1>2. /\ new \in Rows /\ (may => GoodRow(new))
      /\ new.owner = epoch /\ new.phase = "queued"
      /\ new.tid = row[c].tid /\ new.resp = row[c].resp
  BY <1>1 DEF TypeOK, GoodRow, Rows, Phases
<1>3. /\ row' \in [Ids -> Rows] /\ poisoned' \in BOOLEAN /\ faults' \in 0..MaxFaults
      /\ row' = row \/ row' = [row EXCEPT ![c] = new]
  BY <1>1, <1>2, StoreOutcome DEF Reclaim
<1>4. row' = row \/ may
  BY DEF Reclaim, Refuses, ReadRaises
<1>5. /\ pc' \in [Requests -> PCs] /\ cancelled' \subseteq Requests
      /\ \A s \in Requests \ {r} : pc'[s] = pc[s]
      /\ pc'[r] \in {"idle", "reconcile", "queueGet", "release"} /\ told' = told
  BY MoveOutcome DEF Reclaim, Goto, PCs
<1>6. pc'[r] \in {"queueGet", "release"} => may /\ row' = [row EXCEPT ![c] = new]
  BY MoveOutcome DEF Reclaim, Goto, PCs, Commits
<1>7. UNCHANGED <<epoch, ledger, wireIds, userActed, req, tx, wd, body>>
  BY DEF Reclaim, ledgerVars, requestVars
<1>8. TypeOK'
  BY <1>3, <1>5, <1>7 DEF TypeOK
<1>9. OwnStep(r)
  BY <1>5, <1>7 DEF OwnStep
<1>10. LawfulWrite(r)
  <2>1. CASE may
    BY <1>1, <1>2, <1>3, <2>1, WriteOutcome DEF Rows
  <2>2. CASE row' = row
    BY <1>1, <2>2 DEF LawfulWrite
  <2>3. QED
    BY <1>4, <2>1, <2>2
<1>11. LawfulMove(r)
  <2>1. pc'[r] \in {"queueGet", "release"} =>
          /\ row'[c].owner = epoch /\ row'[c].resp = NoAnswer /\ row'[c].phase \in Admitting
    BY <1>1, <1>2, <1>6 DEF TypeOK, Answered, Admitting
  <2>2. row'[c].phase # "none" /\ tx'[r] = row'[c].tid
    BY <1>1, <1>2, <1>3, <1>7 DEF TypeOK
  <2>3. QED
    BY <1>1, <1>5, <1>6, <1>7, <2>1, <2>2 DEF LawfulMove, Owning, Bound, Reading
<1>12. QED
  BY <1>5, <1>8, <1>9, <1>10, <1>11 DEF Lawful, LawfulReply

LEMMA ReconcileLawful ==
    ASSUME CoreInv, NEW r \in Requests, Reconcile(r) PROVE TypeOK' /\ Lawful(r)
<1> DEFINE c == req[r]
           may == row[c].phase = "dispatching" /\ ~Answered(c) /\ ~HeldHere(c)
           new == [row[c] EXCEPT !.phase = "result", !.owner = epoch, !.resp = body[r]]
<1> USE DEF CoreInv
<1>1. /\ c \in Ids /\ row[c] \in Rows /\ GoodRow(row[c]) /\ row[c].phase # "none"
      /\ body[r] \in Answers \ {"accepted"}
  BY DEF Reconcile, TypeOK, RowInv, BindingInv, Bound, Reading, PCs
<1>2. new \in Rows /\ GoodRow(new) /\ body[r] # NoAnswer
  BY <1>1 DEF TypeOK, GoodRow, Rows, Phases, Answers
<1>3. /\ row' \in [Ids -> Rows] /\ poisoned' \in BOOLEAN /\ faults' \in 0..MaxFaults
      /\ row' = row \/ row' = [row EXCEPT ![c] = new]
  BY <1>1, <1>2, StoreOutcome DEF Reconcile
<1>4. row' = row \/ may
  BY DEF Reconcile, Refuses, ReadRaises
<1>5. /\ pc' \in [Requests -> PCs] /\ cancelled' \subseteq Requests
      /\ \A s \in Requests \ {r} : pc'[s] = pc[s]
      /\ pc'[r] = "idle"
      /\ told' \in [Ids -> SUBSET Answers]
      /\ LawfulReply(r)
  <2>1. CASE End(r)
    BY <2>1, MoveOutcome DEF End, PCs, LawfulReply, TypeOK
  <2>2. CASE Reply(r, body[r]) /\ row'[c].resp = body[r]
    BY <1>1, <1>2, <2>2, ReplyOutcome, MoveOutcome DEF PCs, LawfulReply
  <2>3. CASE may /\ Commits(c, new) /\ Reply(r, body[r])
    BY <1>1, <2>2, <2>3 DEF Commits, TypeOK, Rows
  <2>4. CASE row[c].resp = body[r] /\ Refuses /\ Reply(r, body[r])
    BY <2>2, <2>4 DEF Refuses
  <2>5. QED
    BY <2>1, <2>3, <2>4 DEF Reconcile
<1>6. UNCHANGED <<epoch, ledger, wireIds, userActed, req, tx, wd, body>>
  BY DEF Reconcile, ledgerVars, requestVars
<1>7. TypeOK'
  BY <1>3, <1>5, <1>6 DEF TypeOK
<1>8. OwnStep(r) /\ LawfulMove(r)
  BY <1>5, <1>6 DEF OwnStep, LawfulMove, Owning, Bound, Reading
<1>9. LawfulWrite(r)
  BY <1>1, <1>2, <1>3, <1>4, WriteOutcome DEF Rows
<1>10. QED
  BY <1>5, <1>7, <1>8, <1>9 DEF Lawful

LEMMA QueueGetLawful ==
    ASSUME CoreInv, NEW r \in Requests, QueueGet(r) PROVE TypeOK' /\ Lawful(r)
<1> DEFINE c == req[r]
<1> USE DEF CoreInv
<1>1. /\ c \in Ids /\ row[c] \in Rows /\ GoodRow(row[c]) /\ row[c].phase \in Admitting
      /\ tx[r] = row[c].tid /\ Owned(c) /\ pc[r] \in Owning
  BY DEF QueueGet, TypeOK, RowInv, BindingInv, HoldInv, Bound, Owning, Admitting, PCs
<1>2. /\ UNCHANGED <<row, poisoned, epoch, ledger, wireIds, userActed, req, tx, body>>
      /\ wd' \in [Requests -> 0..MaxMints] /\ faults' \in 0..MaxFaults
  <2>1. row[c].tid \in 1..MaxMints
    BY <1>1 DEF GoodRow, Rows, Admitting
  <2>2. wireIds[c][tx[r]] \in 0..MaxMints
    BY <1>1, <2>1 DEF TypeOK
  <2>3. wd' = wd \/ wd' = [wd EXCEPT ![r] = wireIds[c][tx[r]]]
    BY DEF QueueGet
  <2>4. QED
    BY <2>2, <2>3 DEF QueueGet, Fault, storeVars, ledgerVars, TypeOK
<1>3. /\ pc' \in [Requests -> PCs] /\ cancelled' \subseteq Requests /\ told' = told
      /\ \A s \in Requests \ {r} : pc'[s] = pc[s]
      /\ pc'[r] \in {"idle", "mark", "queueInsert", "release"}
  <2>1. CASE Goto(r, "mark", "idle")
    BY <2>1, MoveOutcome DEF Goto, PCs
  <2>2. CASE pc' = [pc EXCEPT ![r] = "queueInsert"] /\ UNCHANGED <<wd, cancelled, told>>
    BY <2>2 DEF TypeOK, PCs
  <2>3. CASE Goto(r, "release", "idle")
    BY <2>3, MoveOutcome DEF Goto, PCs
  <2>4. QED
    BY <2>1, <2>2, <2>3 DEF QueueGet
<1>4. TypeOK'
  BY <1>2, <1>3 DEF TypeOK
<1>5. OwnStep(r) /\ LawfulWrite(r)
  BY <1>1, <1>2, <1>3 DEF OwnStep, LawfulWrite
<1>6. LawfulMove(r)
  BY <1>1, <1>2, <1>3
  DEF LawfulMove, Owned, HeldHere, Answered, Owning, Bound, Reading, Admitting
<1>7. QED
  BY <1>3, <1>4, <1>5, <1>6 DEF Lawful, LawfulReply

LEMMA QueueInsertLawful ==
    ASSUME CoreInv, NEW r \in Requests, QueueInsert(r) PROVE TypeOK' /\ Lawful(r)
<1> DEFINE c == req[r]
           d == wireIds[c][tx[r]] + 1
<1> USE DEF CoreInv
<1>1. /\ c \in Ids /\ row[c] \in Rows /\ GoodRow(row[c]) /\ row[c].phase \in Admitting
      /\ tx[r] = row[c].tid /\ Owned(c) /\ pc[r] \in Owning
  BY DEF QueueInsert, TypeOK, RowInv, BindingInv, HoldInv, Bound, Owning, Admitting, PCs
<1>2. UNCHANGED <<row, poisoned, epoch, userActed, req, tx, body>>
  BY DEF QueueInsert, storeVars, ledgerVars
<1>3. /\ ledger' \in [Ids -> [Mints -> Statuses]] /\ wireIds' \in [Ids -> [Mints -> 0..MaxMints]]
      /\ wd' \in [Requests -> 0..MaxMints] /\ faults' \in 0..MaxFaults
  <2>1. row[c].tid \in 1..MaxMints
    BY <1>1 DEF GoodRow, Rows, Admitting
  <2>2. d \in Nat
    BY <1>1, <2>1 DEF TypeOK
  <2>3. CASE /\ d <= MaxMints
             /\ ledger' = [ledger EXCEPT ![c][tx[r]] = "pristine"]
             /\ wireIds' = [wireIds EXCEPT ![c][tx[r]] = d]
             /\ wd' = [wd EXCEPT ![r] = d]
             /\ UNCHANGED faults
    BY <1>1, <2>1, <2>2, <2>3 DEF TypeOK, Statuses
  <2>4. CASE Fault("ledger") /\ UNCHANGED <<ledgerVars, wd>>
    BY <2>4 DEF Fault, ledgerVars, TypeOK
  <2>5. QED
    BY <2>3, <2>4 DEF QueueInsert
<1>4. /\ pc' \in [Requests -> PCs] /\ cancelled' \subseteq Requests /\ told' = told
      /\ \A s \in Requests \ {r} : pc'[s] = pc[s]
      /\ pc'[r] \in {"idle", "mark", "release"}
  BY MoveOutcome DEF QueueInsert, Goto, PCs
<1>5. TypeOK'
  BY <1>2, <1>3, <1>4 DEF TypeOK
<1>6. OwnStep(r) /\ LawfulWrite(r)
  BY <1>1, <1>2, <1>4 DEF OwnStep, LawfulWrite
<1>7. LawfulMove(r)
  BY <1>1, <1>2, <1>4
  DEF LawfulMove, Owned, HeldHere, Answered, Owning, Bound, Reading, Admitting
<1>8. QED
  BY <1>4, <1>5, <1>6, <1>7 DEF Lawful, LawfulReply

LEMMA MarkQueuedLawful ==
    ASSUME CoreInv, NEW r \in Requests, MarkQueued(r) PROVE TypeOK' /\ Lawful(r)
<1> DEFINE c == req[r]
           new == [row[c] EXCEPT !.phase = "queued", !.did = wd[r]]
<1> USE DEF CoreInv
<1>1. /\ c \in Ids /\ row[c] \in Rows /\ GoodRow(row[c]) /\ row[c].phase \in Admitting
      /\ tx[r] = row[c].tid /\ Owned(c) /\ pc[r] \in Owning
  BY DEF MarkQueued, TypeOK, RowInv, BindingInv, HoldInv, Bound, Owning, Admitting, PCs
<1>2. /\ new \in Rows /\ GoodRow(new) /\ new.tid = row[c].tid
      /\ new.phase = "queued" /\ new.owner = row[c].owner /\ new.resp = row[c].resp
  BY <1>1 DEF TypeOK, GoodRow, Rows, Phases, Answers, Admitting, Owned, Answered
<1>3. /\ row' \in [Ids -> Rows] /\ poisoned' \in BOOLEAN /\ faults' \in 0..MaxFaults
      /\ row' = row \/ row' = [row EXCEPT ![c] = new]
  BY <1>1, <1>2, StoreOutcome DEF MarkQueued
<1>4. UNCHANGED <<epoch, ledger, wireIds, userActed, req, tx, wd, body>>
  BY DEF MarkQueued, ledgerVars, requestVars
<1>5. /\ pc' \in [Requests -> PCs] /\ cancelled' \subseteq Requests /\ told' = told
      /\ \A s \in Requests \ {r} : pc'[s] = pc[s]
      /\ pc'[r] \in {"idle", "record", "release"}
  BY MoveOutcome DEF MarkQueued, Goto, PCs
<1>6. TypeOK'
  BY <1>3, <1>4, <1>5 DEF TypeOK
<1>7. OwnStep(r) /\ LawfulWrite(r)
  BY <1>1, <1>2, <1>3, <1>4, <1>5, WriteOutcome DEF OwnStep, Owned
<1>8. LawfulMove(r)
  <2>1. /\ row'[c].owner = epoch /\ row'[c].resp = NoAnswer /\ row'[c].phase \in Admitting
        /\ row'[c].tid = row[c].tid
    BY <1>1, <1>2, <1>3 DEF TypeOK, Owned, HeldHere, Answered, Admitting
  <2>2. QED
    BY <1>1, <1>4, <1>5, <2>1 DEF LawfulMove, Owning, Bound, Reading, Admitting
<1>9. QED
  BY <1>5, <1>6, <1>7, <1>8 DEF Lawful, LawfulReply

LEMMA RecordResponseLawful ==
    ASSUME CoreInv, NEW r \in Requests, RecordResponse(r) PROVE TypeOK' /\ Lawful(r)
<1> DEFINE c == req[r]
           new == [row[c] EXCEPT !.phase = "result", !.resp = "accepted"]
<1> USE DEF CoreInv
<1>1. /\ c \in Ids /\ row[c] \in Rows /\ GoodRow(row[c]) /\ row[c].phase \in Admitting
      /\ tx[r] = row[c].tid /\ Owned(c) /\ pc[r] \in Owning
  BY DEF RecordResponse, TypeOK, RowInv, BindingInv, HoldInv, Bound, Owning, Admitting, PCs
<1>2. new \in Rows /\ GoodRow(new) /\ new.tid = row[c].tid /\ new.phase # "none"
  BY <1>1 DEF TypeOK, GoodRow, Rows, Phases, Answers, Admitting, Owned, Answered
<1>3. /\ row' \in [Ids -> Rows] /\ poisoned' \in BOOLEAN /\ faults' \in 0..MaxFaults
      /\ row' = row \/ row' = [row EXCEPT ![c] = new]
  BY <1>1, <1>2, StoreOutcome DEF RecordResponse
<1>4. UNCHANGED <<epoch, ledger, wireIds, userActed, req, tx, wd, body>>
  BY DEF RecordResponse, ledgerVars, requestVars
<1>5. /\ pc' \in [Requests -> PCs] /\ cancelled' \subseteq Requests
      /\ \A s \in Requests \ {r} : pc'[s] = pc[s]
      /\ pc'[r] = "idle"
      /\ told' \in [Ids -> SUBSET Answers]
      /\ LawfulReply(r)
  <2>1. CASE End(r)
    BY <2>1, MoveOutcome DEF End, PCs, LawfulReply, TypeOK
  <2>2. CASE Commits(c, new) /\ Reply(r, "accepted")
    <3>1. row'[c].resp = "accepted"
      BY <1>1, <2>2 DEF Commits, TypeOK, Rows
    <3>2. QED
      BY <2>2, <3>1, ReplyOutcome, MoveOutcome DEF PCs, LawfulReply, Answers
  <2>3. QED
    BY <1>1, <2>1, <2>2 DEF RecordResponse
<1>6. TypeOK'
  BY <1>3, <1>4, <1>5 DEF TypeOK
<1>7. OwnStep(r) /\ LawfulWrite(r)
  BY <1>1, <1>2, <1>3, <1>4, <1>5, WriteOutcome DEF OwnStep, Owned
<1>8. LawfulMove(r)
  BY <1>5 DEF LawfulMove, Owning, Bound, Reading
<1>9. QED
  BY <1>5, <1>6, <1>7, <1>8 DEF Lawful

LEMMA ReleaseLawful ==
    ASSUME CoreInv, NEW r \in Requests, Release(r) PROVE TypeOK' /\ Lawful(r)
<1> DEFINE c == req[r]
           new == [row[c] EXCEPT !.owner = NoOwner]
<1> USE DEF CoreInv
<1>1. /\ c \in Ids /\ row[c] \in Rows /\ GoodRow(row[c]) /\ row[c].phase \in Admitting
      /\ tx[r] = row[c].tid /\ Owned(c) /\ pc[r] \in Owning
  BY DEF Release, TypeOK, RowInv, BindingInv, HoldInv, Bound, Owning, Admitting, PCs
<1>2. new \in Rows /\ GoodRow(new) /\ new.tid = row[c].tid /\ new.phase # "none"
  BY <1>1 DEF TypeOK, GoodRow, Rows, Phases, Answers, Admitting, Owned, Answered
<1>3. /\ row' \in [Ids -> Rows] /\ poisoned' \in BOOLEAN /\ faults' \in 0..MaxFaults
      /\ row' = row \/ row' = [row EXCEPT ![c] = new]
  BY <1>1, <1>2, StoreOutcome DEF Release
<1>4. UNCHANGED <<epoch, ledger, wireIds, userActed, req, tx, wd, body>>
  BY DEF Release, ledgerVars, requestVars
<1>5. /\ pc' \in [Requests -> PCs] /\ cancelled' \subseteq Requests /\ told' = told
      /\ \A s \in Requests \ {r} : pc'[s] = pc[s]
      /\ pc'[r] = "idle"
  BY MoveOutcome DEF Release, End, PCs
<1>6. TypeOK'
  BY <1>3, <1>4, <1>5 DEF TypeOK
<1>7. OwnStep(r) /\ LawfulWrite(r)
  BY <1>1, <1>2, <1>3, <1>4, <1>5, WriteOutcome DEF OwnStep, Owned
<1>8. LawfulMove(r)
  BY <1>5 DEF LawfulMove, Owning, Bound, Reading
<1>9. QED
  BY <1>5, <1>6, <1>7, <1>8 DEF Lawful, LawfulReply

----------------------------------------------------------------------------
(* The core invariant.                                                     *)

LEMMA InitCore == Init => CoreInv
<1> SUFFICES ASSUME Init PROVE CoreInv
  OBVIOUS
<1>1. \A c \in Ids : GoodRow(row[c])
  BY DEF Init, GoodRow, Rows, Phases
<1>2. row \in [Ids -> Rows]
  BY DEF Init, Rows, Phases
<1>3. \A c \in Legacy : c \in Ids
  OBVIOUS
<1>4. ledger \in [Ids -> [Mints -> Statuses]] /\ wireIds \in [Ids -> [Mints -> 0..MaxMints]]
  BY <1>3 DEF Init, Statuses
<1>5. TypeOK
  <2>1. poisoned \in BOOLEAN
    BY Zenon DEF Init
  <2>2. /\ epoch \in Nat /\ req \in [Requests -> Ids] /\ pc \in [Requests -> PCs]
        /\ tx \in [Requests -> 0..MaxMints] /\ wd \in [Requests -> 0..MaxMints]
    BY DEF Init, PCs
  <2>3. /\ body \in [Requests -> Answers \cup {NoAnswer}] /\ cancelled \subseteq Requests
        /\ told \in [Ids -> SUBSET Answers] /\ userActed \subseteq Ids
        /\ faults \in 0..MaxFaults
    BY DEF Init
  <2>4. QED
    BY <1>2, <1>4, <2>1, <2>2, <2>3 DEF TypeOK
<1>6. RowInv /\ BindingInv /\ HoldInv /\ SoleOwner /\ AnswersAgree
  BY <1>1 DEF Init, RowInv, BindingInv, HoldInv, SoleOwner, AnswersAgree, OwnersOf,
     Bound, Owning, Reading
<1>7. QED
  BY <1>5, <1>6 DEF CoreInv

\* A step that leaves the store and the requests alone.
LEMMA QuietKeepsCore ==
    ASSUME CoreInv, TypeOK', UNCHANGED <<row, epoch, requestVars, pc, told>>
    PROVE  CoreInv'
<1> USE DEF requestVars
<1>1. RowInv'
  BY DEF CoreInv, RowInv
<1>2. BindingInv'
  BY DEF CoreInv, BindingInv
<1>3. HoldInv'
  BY DEF CoreInv, HoldInv, Owned, HeldHere, Answered
<1>4. SoleOwner'
  BY DEF CoreInv, SoleOwner, OwnersOf
<1>5. AnswersAgree'
  BY DEF CoreInv, AnswersAgree
<1>6. QED
  BY <1>1, <1>2, <1>3, <1>4, <1>5 DEF CoreInv

LEMMA HandleLawful ==
    ASSUME CoreInv, NEW r \in Requests, Handle(r) PROVE TypeOK' /\ Lawful(r)
  BY ProbeLawful, BindNewLawful, BindExistingLawful, LedgerReadLawful, ReclaimLawful,
     ReconcileLawful, QueueGetLawful, QueueInsertLawful, MarkQueuedLawful,
     RecordResponseLawful, ReleaseLawful
  DEF Handle, Bind

LEMMA NextCore == CoreInv /\ [Next]_vars => CoreInv'
<1> SUFFICES ASSUME CoreInv, [Next]_vars PROVE CoreInv'
  OBVIOUS
<1>1. ASSUME NEW r \in Requests, Handle(r) PROVE CoreInv'
  BY <1>1, HandleLawful, LawfulKeepsCore
<1>2. ASSUME NEW r \in Requests, Cancel(r) PROVE CoreInv'
  <2>1. TypeOK'
    BY <1>2 DEF CoreInv, TypeOK, Cancel, Fault, storeVars, ledgerVars, requestVars
  <2>2. QED
    BY <1>2, <2>1, QuietKeepsCore DEF Cancel, storeVars, requestVars
<1>3. ASSUME NEW r \in Requests, NEW c \in Ids, Start(r, c) PROVE CoreInv'
  <2> USE DEF CoreInv, Start
  <2>1. TypeOK'
    BY <1>3 DEF TypeOK, PCs, storeVars, ledgerVars
  <2>2. RowInv' /\ AnswersAgree'
    BY <1>3 DEF RowInv, AnswersAgree, storeVars
  <2>3. BindingInv'
    BY <1>3 DEF TypeOK, BindingInv, Bound, Reading, storeVars
  <2>4. HoldInv'
    BY <1>3 DEF TypeOK, HoldInv, Owning, Owned, HeldHere, Answered, storeVars
  <2>5. SoleOwner'
    <3>1. pc[r] = "idle" /\ pc'[r] \in {"probe", "bind"}
      BY <1>3 DEF TypeOK
    <3>2. \A q \in Requests : q # r => pc'[q] = pc[q] /\ req'[q] = req[q]
      BY <1>3 DEF TypeOK
    <3>3. \A d \in Ids : OwnersOf(d)' \subseteq OwnersOf(d)
      BY <3>1, <3>2 DEF OwnersOf, Owning
    <3>4. QED
      BY <3>3 DEF SoleOwner
  <2>6. QED
    BY <2>1, <2>2, <2>3, <2>4, <2>5
<1>4. ASSUME NEW c \in Ids, NEW t \in Mints, Pump(c, t) \/ User(c, t) PROVE CoreInv'
  <2>1. /\ UNCHANGED <<row, poisoned, epoch, wireIds, requestVars, pc, cancelled, told>>
        /\ userActed' \subseteq Ids
        /\ faults' \in 0..MaxFaults
        /\ \E s \in Statuses : ledger' = [ledger EXCEPT ![c][t] = s]
    BY <1>4 DEF CoreInv, TypeOK, Pump, Resume, Finish, Park, SendFails, SourceGone, LateSend, PumpMove,
       User, UserCancel, UserRetry, UserDelete, UserMove, Move, Fault, Statuses, storeVars
  <2>2. ledger' \in [Ids -> [Mints -> Statuses]]
    BY <2>1 DEF CoreInv, TypeOK
  <2>3. TypeOK'
    BY <2>1, <2>2 DEF CoreInv, TypeOK, requestVars
  <2>4. QED
    BY <2>1, <2>3, QuietKeepsCore
<1>5. CASE Restart
  <2> USE DEF CoreInv, Restart
  <2>1. ledger' \in [Ids -> [Mints -> Statuses]]
    BY <1>5 DEF TypeOK, Statuses
  <2>2. TypeOK'
    <3>1. poisoned' \in BOOLEAN
      BY <1>5, Zenon
    <3>2. faults' \in 0..MaxFaults /\ epoch' \in Nat /\ pc' \in [Requests -> PCs]
      BY <1>5 DEF TypeOK, Fault, PCs
    <3>3. QED
      BY <1>5, <2>1, <3>1, <3>2 DEF TypeOK, requestVars
  <2>3. RowInv' /\ AnswersAgree'
    BY <1>5 DEF TypeOK, RowInv, AnswersAgree
  <2>4. BindingInv' /\ HoldInv' /\ SoleOwner'
    BY <1>5 DEF BindingInv, HoldInv, SoleOwner, OwnersOf, Bound, Owning, Reading
  <2>5. QED
    BY <2>2, <2>3, <2>4
<1>6. CASE UNCHANGED vars
  <2>1. TypeOK'
    BY <1>6 DEF CoreInv, TypeOK, vars, storeVars, ledgerVars, requestVars
  <2>2. QED
    BY <1>6, <2>1, QuietKeepsCore DEF vars, storeVars
<1>7. QED
  BY <1>1, <1>2, <1>3, <1>4, <1>5, <1>6 DEF Next

LEMMA CoreHolds == Spec => []CoreInv
  BY InitCore, NextCore, PTL DEF Spec

\* Every reachable state is well-typed.
THEOREM UiTypeCorrect == Spec => []TypeOK
<1>1. CoreInv => TypeOK
  BY DEF CoreInv
<1>2. QED
  BY CoreHolds, <1>1, PTL

\* At no time do two requests admit the same client delivery id, however many
\* duplicates overlap with cancellations, store failures and restarts.
THEOREM AdmissionHasOneOwner == Spec => []SoleOwner
<1>1. CoreInv => SoleOwner
  BY DEF CoreInv
<1>2. QED
  BY CoreHolds, <1>1, PTL

\* Whatever a client was told about an id is what the store replays for it.
THEOREM AnswersNeverChange == Spec => []AnswersAgree
<1>1. CoreInv => AnswersAgree
  BY DEF CoreInv
<1>2. QED
  BY CoreHolds, <1>1, PTL

----------------------------------------------------------------------------
(* The store and the transfer ledger.                                      *)

\* The ledger row of c, under the transfer id it is bound to.
Status(c) == ledger[c][row[c].tid]
InLedger(c) == Status(c) # "none" \/ c \in userActed

\* a is what status s means.
Fits(a, s) ==
    /\ s # "none"
    /\ a = "done" => s = "complete"
    /\ a = "unconfirmed" => s = "unconfirmed"
    /\ a = "failed" => s = "failed"

\* Transfers exist under the bound id only, and only a dispatch of an older
\* release, or the user, can have lost one.
BoundOnly ==
    \A c \in Ids, t \in Mints :
      /\ wireIds[c][t] # 0 => t = row[c].tid
      /\ wireIds[c][t] # 0 /\ ledger[c][t] = "none" /\ c \notin userActed =>
           row[c].phase = "dispatching"

\* What a request read from the ledger is still there.
ReadInv ==
    \A r \in Requests :
      LET c == req[r] IN
      /\ pc[r] \in Reading => c \in userActed \/ Fits(body[r], Status(c))
      /\ pc[r] = "queueInsert" => c \in userActed \/ Status(c) = "none"
      /\ pc[r] = "mark" => InLedger(c) /\ wd[r] = wireIds[c][row[c].tid]
      /\ pc[r] = "record" => InLedger(c) /\ row[c].did = wireIds[c][row[c].tid]

OneIdentity == \A c \in Ids, t \in Mints : wireIds[c][t] > 1 => c \in userActed

LedgerInv == BoundOnly /\ ReadInv /\ OneIdentity /\ AcceptedIsQueued /\ ReconciledIsTrue

\* A request step that does not touch the ledger claims only what the ledger
\* shows.
LawfulClaim(r) ==
    LET c == req[r] IN
    /\ UNCHANGED ledgerVars
    /\ \A q \in Requests \ {r} : wd'[q] = wd[q]
    /\ row'[c].resp # row[c].resp =>
         \/ pc[r] = "record" /\ row'[c].resp = "accepted" /\ row'[c].did = row[c].did
         \/ pc[r] = "reconcile" /\ row'[c].resp = body[r]
    /\ row'[c].phase # row[c].phase => row[c].phase # "dispatching" \/ pc[r] \in Reading
    /\ pc'[r] \in Reading =>
         \/ Fits(body'[r], ledger[c][tx[r]]) /\ pc[r] \in Bound
         \/ pc[r] \in Reading /\ body'[r] = body[r]
    /\ pc'[r] = "queueInsert" => pc[r] \in Bound /\ ledger[c][tx[r]] = "none"
    /\ pc'[r] = "mark" =>
         /\ pc[r] \in Bound /\ ledger[c][tx[r]] # "none"
         /\ wd'[r] = wireIds[c][tx[r]]
    /\ pc'[r] = "record" => pc[r] = "mark" /\ row'[c].did = wd[r]

LEMMA ClaimKeepsLedger ==
    ASSUME CoreInv, CoreInv', LedgerInv, NEW r \in Requests, Lawful(r), LawfulClaim(r)
    PROVE  LedgerInv'
<1> DEFINE c == req[r]
<1>1. /\ UNCHANGED <<ledger, wireIds, userActed, req>>
      /\ c \in Ids
      /\ \A d \in Ids \ {c} : row'[d] = row[d]
  BY DEF CoreInv, TypeOK, Lawful, OwnStep, LawfulWrite, LawfulClaim, ledgerVars
<1>2. row[c].phase # "none" => row'[c].tid = row[c].tid /\ row'[c].phase # "none"
  BY DEF Lawful, LawfulWrite
<1>3. row[c].phase = "none" => row[c].tid = 0 /\ row[c].resp = NoAnswer
  BY <1>1 DEF CoreInv, RowInv, GoodRow
<1>4. BoundOnly'
  <2> SUFFICES ASSUME NEW d \in Ids, NEW t \in Mints, wireIds[d][t] # 0
               PROVE  /\ t = row'[d].tid
                      /\ ledger[d][t] = "none" /\ d \notin userActed =>
                           row'[d].phase = "dispatching"
    BY <1>1 DEF BoundOnly
  <2>1. t = row[d].tid /\ (ledger[d][t] = "none" /\ d \notin userActed =>
                             row[d].phase = "dispatching")
    BY DEF LedgerInv, BoundOnly
  <2>2. CASE d # c
    BY <1>1, <2>1, <2>2
  <2>3. CASE d = c
    <3>1. row[c].phase # "none"
      BY <1>3, <2>1, <2>3
    <3>2. pc[r] \in Reading => Status(c) # "none" \/ c \in userActed
      BY DEF LedgerInv, ReadInv, Fits
    <3>3. QED
      BY <1>2, <2>1, <2>3, <3>1, <3>2 DEF LawfulClaim, Status
  <2>4. QED
    BY <2>2, <2>3
<1>5. ReadInv'
  <2> SUFFICES ASSUME NEW q \in Requests
               PROVE  /\ pc'[q] \in Reading => req[q] \in userActed \/ Fits(body'[q], Status(req[q])')
                      /\ pc'[q] = "queueInsert" =>
                           req[q] \in userActed \/ Status(req[q])' = "none"
                      /\ pc'[q] = "mark" =>
                           /\ Status(req[q])' # "none" \/ req[q] \in userActed
                           /\ wd'[q] = wireIds[req[q]][row'[req[q]].tid]
                      /\ pc'[q] = "record" =>
                           /\ Status(req[q])' # "none" \/ req[q] \in userActed
                           /\ row'[req[q]].did = wireIds[req[q]][row'[req[q]].tid]
    BY <1>1 DEF ReadInv, InLedger
  <2>1. pc[q] \in Bound => row'[req[q]].tid = row[req[q]].tid
    BY <1>1, <1>2 DEF CoreInv, TypeOK, BindingInv
  <2>2. pc[q] \in Bound => Status(req[q])' = Status(req[q])
    BY <1>1, <2>1 DEF Status
  <2>3. CASE q # r
    <3>1. pc'[q] = pc[q] /\ body'[q] = body[q] /\ wd'[q] = wd[q]
      BY <2>3 DEF Lawful, OwnStep, LawfulClaim
    <3>2. pc[q] = "record" => row'[req[q]] = row[req[q]]
      <4> SUFFICES ASSUME pc[q] = "record" PROVE row'[req[q]] = row[req[q]]
        OBVIOUS
      <4>1. CASE req[q] # req[r]
        BY <4>1, <1>1 DEF CoreInv, TypeOK
      <4>2. CASE req[q] = req[r]
        BY <2>3, <4>2, OneOwner
        DEF CoreInv, HoldInv, Owning, Owned, HeldHere, Lawful, LawfulWrite
      <4>3. QED
        BY <4>1, <4>2
    <3>3. QED
      BY <2>1, <2>2, <3>1, <3>2
      DEF LedgerInv, ReadInv, InLedger, Bound, Reading, PCs
  <2>4. CASE q = r
    <3>1. pc[r] \in Bound => tx[r] = row[c].tid /\ ledger[c][tx[r]] = Status(c)
      BY DEF CoreInv, BindingInv, Status
    <3>2. pc[r] \in Reading \cup {"mark"} => pc[r] \in Bound
      BY DEF Bound, Reading, PCs
    <3>3. QED
      BY <2>1, <2>2, <2>4, <3>1, <3>2 DEF LedgerInv, ReadInv, InLedger, LawfulClaim
  <2>5. QED
    BY <2>3, <2>4
<1>6. OneIdentity'
  BY <1>1 DEF LedgerInv, OneIdentity
<1>7. AcceptedIsQueued' /\ ReconciledIsTrue'
  <2> SUFFICES ASSUME NEW d \in Ids
               PROVE  /\ row'[d].resp = "accepted" =>
                           /\ row'[d].tid \in Mints
                           /\ wireIds[d][row'[d].tid] = row'[d].did
                           /\ ledger[d][row'[d].tid] # "none" \/ d \in userActed
                      /\ d \notin userActed =>
                           /\ row'[d].resp = "done" => ledger[d][row'[d].tid] = "complete"
                           /\ row'[d].resp = "unconfirmed" =>
                                ledger[d][row'[d].tid] = "unconfirmed"
                           /\ row'[d].resp = "failed" => ledger[d][row'[d].tid] = "failed"
    BY <1>1 DEF AcceptedIsQueued, ReconciledIsTrue
  <2>1. /\ row[d].resp = "accepted" =>
             /\ row[d].tid \in Mints
             /\ wireIds[d][row[d].tid] = row[d].did
             /\ ledger[d][row[d].tid] # "none" \/ d \in userActed
        /\ d \notin userActed =>
             /\ row[d].resp = "done" => ledger[d][row[d].tid] = "complete"
             /\ row[d].resp = "unconfirmed" => ledger[d][row[d].tid] = "unconfirmed"
             /\ row[d].resp = "failed" => ledger[d][row[d].tid] = "failed"
    BY DEF LedgerInv, AcceptedIsQueued, ReconciledIsTrue
  <2>2. CASE row'[d] = row[d]
    BY <2>1, <2>2
  <2>3. CASE d = c /\ row'[c] # row[c]
    <3>1. ~Answered(c)
      BY <2>3 DEF Lawful, LawfulWrite
    <3>2. CASE row'[c].resp = row[c].resp
      BY <2>3, <3>1, <3>2 DEF Answered
    <3>3. CASE pc[r] = "record" /\ row'[c].resp = "accepted" /\ row'[c].did = row[c].did
      <4>1. row[c].phase # "none" /\ row'[c].tid = row[c].tid /\ row[c].tid \in Mints
        BY <1>1, <1>2, <3>3 DEF CoreInv, BindingInv, RowInv, GoodRow, Rows, Bound, PCs
      <4>2. QED
        BY <2>3, <3>3, <4>1 DEF LedgerInv, ReadInv, InLedger, Status
    <3>4. CASE pc[r] = "reconcile" /\ row'[c].resp = body[r]
      <4>1. row[c].phase # "none" /\ row'[c].tid = row[c].tid /\ body[r] # "accepted"
        BY <1>1, <1>2, <3>4 DEF CoreInv, BindingInv, Bound, Reading, PCs
      <4>2. QED
        BY <2>3, <3>4, <4>1 DEF LedgerInv, ReadInv, Reading, Fits, Status
    <3>5. QED
      BY <3>2, <3>3, <3>4 DEF LawfulClaim
  <2>4. QED
    BY <1>1, <2>2, <2>3
<1>8. QED
  BY <1>4, <1>5, <1>6, <1>7 DEF LedgerInv

\* Each request step but the insertion makes only such claims.
LEMMA ProbeClaim == ASSUME CoreInv, NEW r \in Requests, Probe(r) PROVE LawfulClaim(r)
<1>1. row' = row /\ pc'[r] \in {"idle", "bind"}
  BY ReadOutcome, MoveOutcome DEF CoreInv, Probe, End, Goto, Reply, PCs
<1>2. QED
  BY <1>1 DEF Probe, LawfulClaim, ledgerVars, requestVars, Reading

LEMMA BindNewClaim ==
    ASSUME CoreInv, NEW r \in Requests, BindNew(r) PROVE LawfulClaim(r)
<1> DEFINE c == req[r]
           new == [phase |-> "bound", owner |-> epoch, tid |-> 1, did |-> 0, resp |-> NoAnswer]
<1>1. c \in Ids /\ new \in Rows /\ row[c].phase = "none" /\ row[c].resp = NoAnswer
  BY DEF CoreInv, BindNew, TypeOK, RowInv, GoodRow, Rows, Phases
<1>2. row' = row \/ row' = [row EXCEPT ![c] = new]
  BY <1>1, StoreOutcome DEF CoreInv, BindNew
<1>3. row'[c].resp = row[c].resp
  BY <1>1, <1>2 DEF CoreInv, TypeOK
<1>4. pc'[r] \in {"idle", "queueGet", "release"}
  BY MoveOutcome DEF CoreInv, BindNew, End, Goto, PCs
<1>5. QED
  BY <1>1, <1>3, <1>4 DEF BindNew, LawfulClaim, ledgerVars, Reading

LEMMA BindExistingClaim ==
    ASSUME CoreInv, NEW r \in Requests, BindExisting(r) PROVE LawfulClaim(r)
<1> DEFINE c == req[r]
           new == [row[c] EXCEPT !.owner = epoch]
<1>1. c \in Ids /\ row[c] \in Rows /\ new \in Rows
  <2>1. c \in Ids /\ row[c] \in Rows /\ epoch \in Nat
    BY DEF CoreInv, TypeOK
  <2>2. QED
    BY <2>1 DEF Rows
<1>2. row' = row \/ row' = [row EXCEPT ![c] = new]
  BY <1>1, StoreOutcome DEF CoreInv, BindExisting
<1>3. row'[c].resp = row[c].resp /\ row'[c].phase = row[c].phase
  BY <1>1, <1>2 DEF CoreInv, TypeOK, Rows
<1>4. pc'[r] \in {"idle", "queueGet", "release", "ledgerRead"}
  BY MoveOutcome DEF CoreInv, BindExisting, End, Goto, Reply, PCs
<1>5. QED
  BY <1>3, <1>4 DEF BindExisting, LawfulClaim, ledgerVars, Reading

LEMMA LedgerReadClaim ==
    ASSUME CoreInv, NEW r \in Requests, LedgerRead(r) PROVE LawfulClaim(r)
<1> DEFINE c == req[r]
           s == ledger[c][tx[r]]
<1>1. row' = row /\ UNCHANGED <<ledgerVars, wd>> /\ pc[r] \in Bound
  BY DEF LedgerRead, storeVars, Bound, PCs
<1>2. pc'[r] \in {"idle", "reclaim", "reconcile"}
  BY MoveOutcome DEF CoreInv, LedgerRead, End, Goto, PCs
<1>3. pc'[r] # "idle" => s # "none" /\ body' = [body EXCEPT ![r] = Verdict(s)]
  BY MoveOutcome DEF CoreInv, LedgerRead, End, PCs
<1>4. pc'[r] # "idle" => Fits(body'[r], s)
  BY <1>3 DEF CoreInv, TypeOK, Fits, Verdict
<1>5. QED
  BY <1>1, <1>2, <1>4 DEF LawfulClaim, Reading

LEMMA ReclaimClaim ==
    ASSUME CoreInv, NEW r \in Requests, Reclaim(r) PROVE LawfulClaim(r)
<1> DEFINE c == req[r]
           new == [row[c] EXCEPT !.phase = "queued", !.owner = epoch]
<1>1. c \in Ids /\ row[c] \in Rows /\ new \in Rows /\ new.resp = row[c].resp
  <2>1. c \in Ids /\ row[c] \in Rows /\ epoch \in Nat
    BY DEF CoreInv, TypeOK
  <2>2. QED
    BY <2>1 DEF Rows, Phases
<1>2. row' = row \/ row' = [row EXCEPT ![c] = new]
  BY <1>1, StoreOutcome DEF CoreInv, Reclaim
<1>3. row'[c].resp = row[c].resp
  BY <1>1, <1>2 DEF CoreInv, TypeOK
<1>4. pc'[r] \in {"idle", "reconcile", "queueGet", "release"}
  BY MoveOutcome DEF CoreInv, Reclaim, Goto, PCs
<1>5. QED
  BY <1>3, <1>4 DEF Reclaim, LawfulClaim, ledgerVars, requestVars, Reading

LEMMA ReconcileClaim ==
    ASSUME CoreInv, NEW r \in Requests, Reconcile(r) PROVE LawfulClaim(r)
<1> DEFINE c == req[r]
           new == [row[c] EXCEPT !.phase = "result", !.owner = epoch, !.resp = body[r]]
<1>1. c \in Ids /\ row[c] \in Rows /\ new \in Rows /\ new.resp = body[r]
  <2>1. c \in Ids /\ row[c] \in Rows /\ epoch \in Nat /\ body[r] \in Answers \cup {NoAnswer}
    BY DEF CoreInv, TypeOK
  <2>2. QED
    BY <2>1 DEF Rows, Phases
<1>2. row' = row \/ row' = [row EXCEPT ![c] = new]
  BY <1>1, StoreOutcome DEF CoreInv, Reconcile
<1>3. row'[c].resp \in {row[c].resp, body[r]}
  BY <1>1, <1>2 DEF CoreInv, TypeOK
<1>4. pc'[r] = "idle"
  BY MoveOutcome DEF CoreInv, Reconcile, End, Reply, PCs
<1>5. QED
  BY <1>3, <1>4 DEF Reconcile, LawfulClaim, ledgerVars, requestVars, Reading

LEMMA QueueGetClaim ==
    ASSUME CoreInv, NEW r \in Requests, QueueGet(r) PROVE LawfulClaim(r)
<1> DEFINE c == req[r]
<1>1. row' = row /\ UNCHANGED ledgerVars /\ pc[r] \in Bound
  BY DEF QueueGet, storeVars, Bound, PCs
<1>2. CASE /\ ledger[c][tx[r]] # "none" /\ wd' = [wd EXCEPT ![r] = wireIds[c][tx[r]]]
           /\ Goto(r, "mark", "idle")
  <2>1. pc'[r] \in {"idle", "mark"}
    BY <1>2, MoveOutcome DEF CoreInv, Goto, PCs
  <2>2. QED
    BY <1>1, <1>2, <2>1 DEF CoreInv, TypeOK, LawfulClaim, Reading
<1>3. CASE /\ ledger[c][tx[r]] = "none" /\ pc' = [pc EXCEPT ![r] = "queueInsert"]
           /\ UNCHANGED <<wd, cancelled, told>>
  BY <1>1, <1>3 DEF CoreInv, TypeOK, LawfulClaim, Reading
<1>4. CASE Goto(r, "release", "idle") /\ UNCHANGED wd
  <2>1. pc'[r] \in {"idle", "release"}
    BY <1>4, MoveOutcome DEF CoreInv, Goto, PCs
  <2>2. QED
    BY <1>1, <1>4, <2>1 DEF CoreInv, TypeOK, LawfulClaim, Reading
<1>5. QED
  BY <1>2, <1>3, <1>4 DEF QueueGet

LEMMA MarkQueuedClaim ==
    ASSUME CoreInv, NEW r \in Requests, MarkQueued(r) PROVE LawfulClaim(r)
<1> DEFINE c == req[r]
           new == [row[c] EXCEPT !.phase = "queued", !.did = wd[r]]
<1>1. /\ c \in Ids /\ row[c] \in Rows /\ new \in Rows
      /\ new.resp = row[c].resp /\ new.did = wd[r]
  <2>1. c \in Ids /\ row[c] \in Rows /\ wd[r] \in 0..MaxMints
    BY DEF CoreInv, TypeOK
  <2>2. QED
    BY <2>1 DEF Rows, Phases
<1>2. row' = row \/ row' = [row EXCEPT ![c] = new]
  BY <1>1, StoreOutcome DEF CoreInv, MarkQueued
<1>3. row'[c].resp = row[c].resp
  BY <1>1, <1>2 DEF CoreInv, TypeOK
<1>4. /\ pc'[r] \in {"idle", "record", "release"}
      /\ pc'[r] = "record" => row' = [row EXCEPT ![c] = new]
  BY MoveOutcome DEF CoreInv, MarkQueued, Goto, PCs, Commits
<1>5. pc'[r] = "record" => row'[c].did = wd[r]
  BY <1>1, <1>4 DEF CoreInv, TypeOK
<1>6. row[c].phase # "dispatching"
  BY DEF CoreInv, HoldInv, MarkQueued, Owning, Admitting
<1>7. QED
  BY <1>3, <1>4, <1>5, <1>6 DEF MarkQueued, LawfulClaim, ledgerVars, requestVars, Reading

LEMMA RecordResponseClaim ==
    ASSUME CoreInv, NEW r \in Requests, RecordResponse(r) PROVE LawfulClaim(r)
<1> DEFINE c == req[r]
           new == [row[c] EXCEPT !.phase = "result", !.resp = "accepted"]
<1>1. /\ c \in Ids /\ row[c] \in Rows /\ new \in Rows
      /\ new.resp = "accepted" /\ new.did = row[c].did
  <2>1. c \in Ids /\ row[c] \in Rows /\ epoch \in Nat
    BY DEF CoreInv, TypeOK
  <2>2. QED
    BY <2>1 DEF Rows, Phases, Answers
<1>2. row' = row \/ row' = [row EXCEPT ![c] = new]
  BY <1>1, StoreOutcome DEF CoreInv, RecordResponse
<1>3. row'[c].resp \in {row[c].resp, "accepted"} /\ row'[c].did = row[c].did
  BY <1>1, <1>2 DEF CoreInv, TypeOK
<1>4. pc'[r] = "idle"
  BY MoveOutcome DEF CoreInv, RecordResponse, End, Reply, PCs
<1>5. row[c].phase # "dispatching"
  BY DEF CoreInv, HoldInv, RecordResponse, Owning, Admitting
<1>6. QED
  BY <1>3, <1>4, <1>5 DEF RecordResponse, LawfulClaim, ledgerVars, requestVars, Reading

LEMMA ReleaseClaim ==
    ASSUME CoreInv, NEW r \in Requests, Release(r) PROVE LawfulClaim(r)
<1> DEFINE c == req[r]
           new == [row[c] EXCEPT !.owner = NoOwner]
<1>1. c \in Ids /\ row[c] \in Rows /\ new \in Rows
  <2>1. c \in Ids /\ row[c] \in Rows /\ epoch \in Nat
    BY DEF CoreInv, TypeOK
  <2>2. QED
    BY <2>1 DEF Rows
<1>2. row' = row \/ row' = [row EXCEPT ![c] = new]
  BY <1>1, StoreOutcome DEF CoreInv, Release
<1>3. row'[c].resp = row[c].resp /\ row'[c].phase = row[c].phase
  BY <1>1, <1>2 DEF CoreInv, TypeOK, Rows
<1>4. pc'[r] = "idle"
  BY MoveOutcome DEF CoreInv, Release, End, PCs
<1>5. QED
  BY <1>3, <1>4 DEF Release, LawfulClaim, ledgerVars, requestVars, Reading

LEMMA InsertKeepsLedger ==
    ASSUME CoreInv, CoreInv', LedgerInv, NEW r \in Requests, QueueInsert(r), Lawful(r)
    PROVE  LedgerInv'
<1> DEFINE c == req[r]
           t == row[c].tid
           d == wireIds[c][t] + 1
<1>1. /\ c \in Ids /\ t \in Mints /\ tx[r] = t /\ Owned(c) /\ row[c].phase \in Admitting
      /\ pc[r] = "queueInsert"
  <2>1. c \in Ids /\ pc[r] = "queueInsert"
    BY DEF CoreInv, TypeOK, QueueInsert
  <2>2. tx[r] = t /\ Owned(c) /\ row[c].phase \in Admitting
    BY <2>1 DEF CoreInv, BindingInv, HoldInv, Bound, Owning, PCs
  <2>3. t \in Mints
    BY <2>1, <2>2 DEF CoreInv, RowInv, GoodRow, Rows, Admitting
  <2>4. QED
    BY <2>1, <2>2, <2>3
<1>2. UNCHANGED <<row, req, body, userActed>>
  BY DEF QueueInsert, storeVars, ledgerVars
<1>3. pc'[r] \in {"mark", "release", "idle"} /\ \A q \in Requests \ {r} : pc'[q] = pc[q]
  BY MoveOutcome DEF CoreInv, QueueInsert, Goto, PCs
<1>4. CASE Fault("ledger") /\ Goto(r, "release", "idle") /\ UNCHANGED <<ledgerVars, wd>>
  <2>1. pc'[r] \in {"release", "idle"}
    BY <1>4, MoveOutcome DEF CoreInv, Goto, PCs
  <2>2. LawfulClaim(r)
    BY <1>2, <1>4, <2>1 DEF LawfulClaim, Reading
  <2>3. QED
    BY <2>2, ClaimKeepsLedger
<1>5. CASE /\ ledger' = [ledger EXCEPT ![c][tx[r]] = "pristine"]
           /\ wireIds' = [wireIds EXCEPT ![c][tx[r]] = wireIds[c][tx[r]] + 1]
           /\ wd' = [wd EXCEPT ![r] = wireIds[c][tx[r]] + 1]
  <2>1. /\ ledger'[c][t] = "pristine" /\ wireIds'[c][t] = d
        /\ \A e \in Ids, u \in Mints : e # c \/ u # t =>
             ledger'[e][u] = ledger[e][u] /\ wireIds'[e][u] = wireIds[e][u]
        /\ \A q \in Requests \ {r} : wd'[q] = wd[q]
        /\ wd'[r] = d
    BY ZenonT(30), <1>1, <1>5 DEF CoreInv, TypeOK
  <2>2. \A q \in Requests \ {r} : pc[q] \in Owning => req[q] # c
    BY <1>1, OneOwner DEF CoreInv, Owning
  <2>3. wireIds[c][t] = 0 \/ c \in userActed
    BY <1>1 DEF LedgerInv, ReadInv, BoundOnly, Status, Admitting
  <2>4. c \in userActed \/ Status(c) = "none"
    BY <1>1 DEF LedgerInv, ReadInv
  <2>5. BoundOnly'
    BY <1>1, <1>2, <2>1 DEF LedgerInv, BoundOnly
  <2>6. OneIdentity'
    BY <1>1, <1>2, <2>1, <2>3 DEF LedgerInv, OneIdentity
  <2>7. AcceptedIsQueued' /\ ReconciledIsTrue'
    <3> SUFFICES ASSUME NEW e \in Ids, row[e].resp # NoAnswer
                 PROVE  /\ ledger'[e][row[e].tid] = ledger[e][row[e].tid]
                        /\ wireIds'[e][row[e].tid] = wireIds[e][row[e].tid]
      BY <1>2 DEF LedgerInv, AcceptedIsQueued, ReconciledIsTrue
    <3>1. e # c /\ row[e].tid \in Mints
      BY <1>1 DEF CoreInv, RowInv, GoodRow, Rows, Owned, Answered
    <3>2. QED
      BY <2>1, <3>1
  <2>8. ReadInv'
    <3> SUFFICES ASSUME NEW q \in Requests
                 PROVE  /\ pc'[q] \in Reading =>
                             req[q] \in userActed \/ Fits(body[q], Status(req[q])')
                        /\ pc'[q] = "queueInsert" =>
                             req[q] \in userActed \/ Status(req[q])' = "none"
                        /\ pc'[q] = "mark" =>
                             /\ Status(req[q])' # "none" \/ req[q] \in userActed
                             /\ wd'[q] = wireIds'[req[q]][row[req[q]].tid]
                        /\ pc'[q] = "record" =>
                             /\ Status(req[q])' # "none" \/ req[q] \in userActed
                             /\ row[req[q]].did = wireIds'[req[q]][row[req[q]].tid]
      BY <1>2 DEF ReadInv, InLedger
    <3>1. CASE q = r
      BY <1>2, <1>3, <2>1, <3>1 DEF Reading, Status
    <3>2. CASE q # r /\ req[q] = c
      <4>1. pc'[q] = pc[q] /\ pc[q] \notin Owning
        BY <1>3, <2>2, <3>2
      <4>2. pc[q] \in Reading => c \in userActed
        BY <2>4, <3>2 DEF LedgerInv, ReadInv, Fits
      <4>3. QED
        BY <3>2, <4>1, <4>2 DEF Owning
    <3>3. CASE q # r /\ req[q] # c
      <4>1. pc'[q] = pc[q] /\ wd'[q] = wd[q] /\ req[q] \in Ids
        BY <1>3, <2>1, <3>3 DEF CoreInv, TypeOK
      <4>2. pc[q] \in Bound => row[req[q]].tid \in Mints
        BY <4>1 DEF CoreInv, BindingInv, RowInv, GoodRow, Rows
      <4>3. pc[q] \in Bound =>
              /\ Status(req[q])' = Status(req[q])
              /\ wireIds'[req[q]][row[req[q]].tid] = wireIds[req[q]][row[req[q]].tid]
        BY <1>2, <2>1, <3>3, <4>1, <4>2 DEF Status
      <4>4. QED
        BY <4>1, <4>3 DEF LedgerInv, ReadInv, InLedger, Bound, Reading, PCs
    <3>4. QED
      BY <3>1, <3>2, <3>3
  <2>9. QED
    BY <2>5, <2>6, <2>7, <2>8 DEF LedgerInv
<1>6. QED
  BY <1>4, <1>5 DEF QueueInsert

\* The pump only moves transfers that are still on their way; what the user
\* touches is marked.
LEMMA MoveKeepsLedger ==
    ASSUME CoreInv, LedgerInv, UNCHANGED <<row, wireIds, requestVars>>,
           userActed \subseteq userActed',
           \A q \in Requests : pc'[q] = pc[q] \/ pc'[q] = "idle",
           \A e \in Ids, u \in Mints :
             \/ ledger'[e][u] = ledger[e][u]
             \/ e \in userActed'
             \/ ledger[e][u] \in {"pristine", "waiting", "active"} /\ ledger'[e][u] # "none"
    PROVE  LedgerInv'
<1> USE DEF requestVars
<1>1. \A e \in Ids : row[e].phase # "none" => row[e].tid \in Mints
  BY DEF CoreInv, RowInv, GoodRow, Rows
<1>2. ASSUME NEW e \in Ids, row[e].phase # "none", e \notin userActed'
      PROVE  /\ Status(e)' = "none" <=> Status(e) = "none"
             /\ \A a : Fits(a, Status(e)) => Fits(a, Status(e)')
  <2>1. row[e].tid \in Mints
    BY <1>1, <1>2
  <2>2. QED
    BY <1>2, <2>1 DEF Status, Fits
<1>3. BoundOnly'
  BY DEF LedgerInv, BoundOnly
<1>4. ReadInv'
  <2> SUFFICES ASSUME NEW q \in Requests, pc'[q] = pc[q], pc[q] \in Bound
               PROVE  /\ pc[q] \in Reading => req[q] \in userActed' \/ Fits(body[q], Status(req[q])')
                      /\ pc[q] = "queueInsert" =>
                           req[q] \in userActed' \/ Status(req[q])' = "none"
                      /\ pc[q] = "mark" =>
                           /\ Status(req[q])' # "none" \/ req[q] \in userActed'
                           /\ wd[q] = wireIds[req[q]][row[req[q]].tid]
                      /\ pc[q] = "record" =>
                           /\ Status(req[q])' # "none" \/ req[q] \in userActed'
                           /\ row[req[q]].did = wireIds[req[q]][row[req[q]].tid]
    BY DEF ReadInv, InLedger, Bound, Reading, PCs
  <2>1. req[q] \in Ids /\ row[req[q]].phase # "none"
    BY DEF CoreInv, TypeOK, BindingInv
  <2>2. QED
    BY <1>2, <2>1 DEF LedgerInv, ReadInv, InLedger
<1>5. OneIdentity'
  BY DEF LedgerInv, OneIdentity
<1>6. AcceptedIsQueued' /\ ReconciledIsTrue'
  <2> SUFFICES ASSUME NEW e \in Ids, row[e].resp # NoAnswer
               PROVE  /\ row[e].resp = "accepted" =>
                           /\ row[e].tid \in Mints
                           /\ wireIds[e][row[e].tid] = row[e].did
                           /\ Status(e)' # "none" \/ e \in userActed'
                      /\ e \notin userActed' =>
                           /\ row[e].resp = "done" => Status(e)' = "complete"
                           /\ row[e].resp = "unconfirmed" => Status(e)' = "unconfirmed"
                           /\ row[e].resp = "failed" => Status(e)' = "failed"
    BY DEF AcceptedIsQueued, ReconciledIsTrue, Status
  <2>1. row[e].phase # "none"
    BY DEF CoreInv, RowInv, GoodRow
  <2>2. /\ row[e].resp = "accepted" => Status(e) # "none" \/ e \in userActed
        /\ e \notin userActed =>
             /\ row[e].resp = "done" => Status(e) = "complete"
             /\ row[e].resp = "unconfirmed" => Status(e) = "unconfirmed"
             /\ row[e].resp = "failed" => Status(e) = "failed"
    BY DEF LedgerInv, AcceptedIsQueued, ReconciledIsTrue, Status
  <2>3. QED
    BY <1>2, <2>1, <2>2 DEF LedgerInv, AcceptedIsQueued, Fits
<1>7. QED
  BY <1>3, <1>4, <1>5, <1>6 DEF LedgerInv

LEMMA InitLedger == Init => LedgerInv
<1> SUFFICES ASSUME Init PROVE LedgerInv
  OBVIOUS
<1>1. \A c \in Ids : row[c].resp = NoAnswer
  BY DEF Init
<1>2. BoundOnly /\ OneIdentity
  BY DEF Init, BoundOnly, OneIdentity
<1>3. ReadInv /\ AcceptedIsQueued /\ ReconciledIsTrue
  BY <1>1 DEF Init, ReadInv, AcceptedIsQueued, ReconciledIsTrue, Reading
<1>4. QED
  BY <1>2, <1>3 DEF LedgerInv

LEMMA NextLedger == CoreInv /\ CoreInv' /\ LedgerInv /\ [Next]_vars => LedgerInv'
<1> SUFFICES ASSUME CoreInv, CoreInv', LedgerInv, [Next]_vars PROVE LedgerInv'
  OBVIOUS
<1>1. ASSUME NEW r \in Requests, Handle(r) PROVE LedgerInv'
  <2>1. Lawful(r)
    BY <1>1, HandleLawful
  <2>2. CASE QueueInsert(r)
    BY <2>1, <2>2, InsertKeepsLedger
  <2>3. CASE ~QueueInsert(r)
    <3>1. LawfulClaim(r)
      BY <1>1, <2>3, ProbeClaim, BindNewClaim, BindExistingClaim, LedgerReadClaim,
         ReclaimClaim, ReconcileClaim, QueueGetClaim, MarkQueuedClaim,
         RecordResponseClaim, ReleaseClaim
      DEF Handle, Bind
    <3>2. QED
      BY <2>1, <3>1, ClaimKeepsLedger
  <2>4. QED
    BY <2>2, <2>3
<1>2. ASSUME NEW r \in Requests, Cancel(r) PROVE LedgerInv'
  BY <1>2, MoveKeepsLedger DEF Cancel, storeVars, ledgerVars
<1>3. ASSUME NEW r \in Requests, NEW c \in Ids, Start(r, c) PROVE LedgerInv'
  <2> USE DEF Start, storeVars, ledgerVars
  <2>1. BoundOnly' /\ OneIdentity' /\ AcceptedIsQueued' /\ ReconciledIsTrue'
    BY <1>3 DEF LedgerInv, BoundOnly, OneIdentity, AcceptedIsQueued, ReconciledIsTrue
  <2>2. ReadInv'
    BY <1>3 DEF CoreInv, TypeOK, LedgerInv, ReadInv, Status, InLedger, Reading
  <2>3. QED
    BY <2>1, <2>2 DEF LedgerInv
<1>4. ASSUME NEW c \in Ids, NEW t \in Mints, Pump(c, t) \/ User(c, t) PROVE LedgerInv'
  <2>1. /\ UNCHANGED <<row, wireIds, requestVars, pc>>
        /\ userActed \subseteq userActed'
        /\ \E s \in Statuses : /\ ledger' = [ledger EXCEPT ![c][t] = s]
                              /\ \/ c \in userActed'
                                 \/ /\ ledger[c][t] \in {"pristine", "waiting", "active"}
                                    /\ s # "none"
    BY <1>4 DEF Pump, Resume, Finish, Park, SendFails, SourceGone, LateSend, PumpMove,
       User, UserCancel, UserRetry, UserDelete, UserMove, Move, Statuses, storeVars
  <2>2. \A e \in Ids, u \in Mints :
          \/ ledger'[e][u] = ledger[e][u]
          \/ e \in userActed'
          \/ ledger[e][u] \in {"pristine", "waiting", "active"} /\ ledger'[e][u] # "none"
    BY <2>1 DEF CoreInv, TypeOK
  <2>3. QED
    BY <2>1, <2>2, MoveKeepsLedger
<1>5. CASE Restart
  <2>1. \A e \in Ids, u \in Mints :
          \/ ledger'[e][u] = ledger[e][u]
          \/ ledger[e][u] \in {"pristine", "waiting", "active"} /\ ledger'[e][u] # "none"
    BY <1>5 DEF Restart
  <2>2. QED
    BY <1>5, <2>1, MoveKeepsLedger DEF Restart
<1>6. CASE UNCHANGED vars
  BY <1>6, MoveKeepsLedger DEF vars, storeVars, ledgerVars
<1>7. QED
  BY <1>1, <1>2, <1>3, <1>4, <1>5, <1>6 DEF Next

LEMMA LedgerHolds == Spec => []LedgerInv
  BY CoreHolds, InitLedger, NextLedger, PTL DEF Spec

\* A client delivery id makes one transfer with one delivery_id, unless the user
\* deletes the transfer.
THEOREM OneDeliveryPerId == Spec => []OneTransfer
<1>1. LedgerInv => OneTransfer
  BY DEF LedgerInv, BoundOnly, OneIdentity, OneTransfer
<1>2. QED
  BY LedgerHolds, <1>1, PTL

\* The recorded admission names a transfer the ledger holds under the recorded
\* delivery_id.
THEOREM AdmissionsAreQueued == Spec => []AcceptedIsQueued
<1>1. LedgerInv => AcceptedIsQueued
  BY DEF LedgerInv
<1>2. QED
  BY LedgerHolds, <1>1, PTL

\* What is recorded about an older release's dispatch is what became of it.
THEOREM ReconciliationsAreTrue == Spec => []ReconciledIsTrue
<1>1. LedgerInv => ReconciledIsTrue
  BY DEF LedgerInv
<1>2. QED
  BY LedgerHolds, <1>1, PTL

----------------------------------------------------------------------------
(* The replay window: no sequence number is accepted twice and none is     *)
(* rejected as a replay that was not accepted, for every window size and   *)
(* every set of sequence numbers and timestamps.                           *)

\* Before the first frame nothing is remembered, afterwards the mark is an
\* accepted number.
MarkAccepted == IF high = -1 THEN accepted = {} ELSE high \in accepted

WindowInv == WindowTypeOK /\ WindowExact /\ MarkAccepted

\* A step of check that accepts a higher sequence number keeps the invariant.
LEMMA AcceptNewKeeps ==
    ASSUME WindowInv, NEW seq \in Seqs, seq >= 0, AcceptNew(seq)
    PROVE  WindowInv'
<1> USE WindowAssumption
<1>1. WindowTypeOK'
  BY DEF WindowInv, WindowTypeOK, AcceptNew, Decide, Shifted, Outcomes
<1>2. \A s \in accepted' : s <= high'
  BY DEF WindowInv, WindowTypeOK, WindowExact, AcceptNew
<1>3. ASSUME NEW k \in 0..(WindowSize - 1)
      PROVE  k \in bits' <=> high' - k \in accepted'
  <2>1. CASE k = 0
    BY <2>1 DEF WindowInv, WindowTypeOK, AcceptNew
  <2>2. CASE k # 0 /\ high = -1
    <3>1. bits' = {0} /\ accepted' = {seq} /\ high' = seq
      BY <2>2 DEF WindowInv, AcceptNew, MarkAccepted
    <3> QED
      BY <2>2, <3>1
  <2>3. CASE k # 0 /\ high # -1 /\ k < seq - high
    <3>1. k \notin bits'
      BY <2>3 DEF WindowInv, WindowTypeOK, AcceptNew, Shifted
    <3>2. high' - k > high /\ high' - k # seq
      BY <2>3 DEF WindowInv, WindowTypeOK, AcceptNew
    <3>3. high' - k \notin accepted'
      BY <3>2 DEF WindowInv, WindowTypeOK, WindowExact, AcceptNew
    <3> QED
      BY <3>1, <3>3
  <2>4. CASE k # 0 /\ high # -1 /\ k >= seq - high
    <3> DEFINE j == k - (seq - high)
    <3>1. j \in 0..(WindowSize - 1) /\ high - j = seq - k
      BY <2>4 DEF WindowInv, WindowTypeOK, AcceptNew
    <3>2. k \in bits' <=> j \in bits
      BY <2>4, <3>1 DEF AcceptNew, Shifted
    <3>3. high' - k \in accepted' <=> high - j \in accepted
      BY <2>4, <3>1 DEF WindowInv, WindowTypeOK, AcceptNew
    <3> QED
      BY <3>1, <3>2, <3>3 DEF WindowInv, WindowExact
  <2> QED
    BY <2>1, <2>2, <2>3, <2>4 DEF WindowInv, WindowTypeOK, AcceptNew
<1>4. MarkAccepted'
  BY DEF AcceptNew, MarkAccepted
<1> QED
  BY <1>1, <1>2, <1>3, <1>4 DEF WindowInv, WindowExact

\* So does one that accepts a number below the mark.
LEMMA AcceptReorderKeeps ==
    ASSUME WindowInv, NEW seq \in Seqs, seq >= 0, AcceptReorder(seq)
    PROVE  WindowInv'
<1> USE WindowAssumption
<1>1. WindowTypeOK'
  BY DEF WindowInv, WindowTypeOK, AcceptReorder, Decide, Outcomes
<1>2. \A s \in accepted' : s <= high'
  BY DEF WindowInv, WindowTypeOK, WindowExact, AcceptReorder
<1>3. ASSUME NEW k \in 0..(WindowSize - 1)
      PROVE  k \in bits' <=> high' - k \in accepted'
  BY <1>3 DEF WindowInv, WindowTypeOK, WindowExact, AcceptReorder
<1>4. MarkAccepted'
  BY DEF WindowInv, AcceptReorder, MarkAccepted
<1> QED
  BY <1>1, <1>2, <1>3, <1>4 DEF WindowInv, WindowExact

\* A rejection changes nothing but the decision.
LEMMA RejectKeeps ==
    ASSUME WindowInv, NEW seq, NEW outcome \in Outcomes, Reject(seq, outcome)
    PROVE  WindowInv'
BY DEF WindowInv, WindowTypeOK, WindowExact, MarkAccepted, Reject, Decide

LEMMA WindowInvInductive == WindowInv /\ [WindowNext]_windowVars => WindowInv'
<1> SUFFICES ASSUME WindowInv, [WindowNext]_windowVars PROVE WindowInv'
  OBVIOUS
<1>1. CASE UNCHANGED windowVars
  BY <1>1 DEF WindowInv, WindowTypeOK, WindowExact, MarkAccepted, windowVars
<1>2. ASSUME NEW seq \in Seqs, NEW now \in Times, NEW ts \in Times,
             Check(seq, now, ts)
      PROVE  WindowInv'
  <2>1. CASE seq >= 0 /\ AcceptNew(seq)
    BY <2>1, AcceptNewKeeps
  <2>2. CASE seq >= 0 /\ AcceptReorder(seq)
    BY <2>2, AcceptReorderKeeps
  <2>3. CASE \E o \in Outcomes : Reject(seq, o)
    BY <2>3, RejectKeeps
  <2> QED
    BY <1>2, <2>1, <2>2, <2>3
    DEF Check, RejectTooOld, RejectReplay, Outcomes
<1> QED
  BY <1>1, <1>2 DEF WindowNext

LEMMA WindowInvInitially == WindowInit => WindowInv
BY WindowAssumption DEF WindowInit, WindowInv, WindowTypeOK, WindowExact, MarkAccepted, Outcomes

LEMMA WindowInvAlways == WindowSpec => []WindowInv
<1>1. WindowInit => WindowInv
  BY WindowInvInitially
<1>2. WindowInv /\ [WindowNext]_windowVars => WindowInv'
  BY WindowInvInductive
<1> QED
  BY <1>1, <1>2, PTL DEF WindowSpec

\* The bitmap is always the window's part of the accepted sequence numbers,
\* whatever the window size and the arrivals (check's shift and mask).
THEOREM WindowIsExact == WindowSpec => []WindowExact
<1>1. WindowInv => WindowExact
  BY DEF WindowInv
<1> QED
  BY <1>1, WindowInvAlways, PTL

\* The window keeps its type.
THEOREM WindowTypeCorrect == WindowSpec => []WindowTypeOK
<1>1. WindowInv => WindowTypeOK
  BY DEF WindowInv
<1> QED
  BY <1>1, WindowInvAlways, PTL

\* check accepts no sequence number twice.
THEOREM NothingReplayed == WindowSpec => NoReplay
<1>1. ASSUME WindowInv, NEW s \in Seqs, AcceptNew(s) \/ AcceptReorder(s)
      PROVE  s \notin accepted
  <2>1. CASE AcceptNew(s)
    BY <1>1, <2>1, WindowAssumption DEF WindowInv, WindowTypeOK, WindowExact, AcceptNew
  <2>2. CASE AcceptReorder(s)
    <3> DEFINE k == high - s
    <3>1. k \in 0..(WindowSize - 1) /\ high - k = s /\ k \notin bits
      BY <1>1, <2>2, WindowAssumption DEF WindowInv, WindowTypeOK, AcceptReorder
    <3> QED
      BY <1>1, <3>1 DEF WindowInv, WindowExact
  <2> QED
    BY <1>1, <2>1, <2>2
<1>2. WindowInv /\ [WindowNext]_windowVars =>
        [\A s \in Seqs : AcceptNew(s) \/ AcceptReorder(s) => s \notin accepted]_windowVars
  BY <1>1
<1> QED
  BY <1>2, WindowInvAlways, PTL DEF WindowSpec, NoReplay

\* check rejects nothing as a replay that it has not accepted before, and
\* nothing as too old that the window still covers.
THEOREM NothingFalselyRejected == WindowSpec => []NoFalseReject
<1>1. WindowInit => NoFalseReject
  BY DEF WindowInit, NoFalseReject
<1>2. WindowInv /\ NoFalseReject /\ [WindowNext]_windowVars => NoFalseReject'
  <2> SUFFICES ASSUME WindowInv, NoFalseReject, [WindowNext]_windowVars PROVE NoFalseReject'
    OBVIOUS
  <2>1. CASE UNCHANGED windowVars
    BY <2>1 DEF NoFalseReject, windowVars
  <2>2. ASSUME NEW seq \in Seqs, NEW now \in Times, NEW ts \in Times,
               Check(seq, now, ts)
        PROVE  NoFalseReject'
    <3>1. CASE AcceptNew(seq) \/ AcceptReorder(seq)
      BY <3>1 DEF NoFalseReject, AcceptNew, AcceptReorder, Decide
    <3>2. CASE RejectTooOld(seq)
      BY <3>2 DEF NoFalseReject, RejectTooOld, Reject, Decide
    <3>3. CASE RejectReplay(seq)
      <4> DEFINE k == high - seq
      <4>1. k \in 0..(WindowSize - 1) /\ high - k = seq /\ k \in bits
        BY <3>3, WindowAssumption DEF WindowInv, WindowTypeOK, RejectReplay
      <4>2. seq \in accepted
        BY <4>1 DEF WindowInv, WindowExact
      <4> QED
        BY <3>3, <4>2 DEF NoFalseReject, RejectReplay, Reject, Decide
    <3>4. CASE Reject(seq, "reject_bad_sequence")
                 \/ Reject(seq, "reject_bad_timestamp")
      BY <3>4 DEF NoFalseReject, Reject, Decide
    <3> QED
      BY <2>2, <3>1, <3>2, <3>3, <3>4 DEF Check
  <2> QED
    BY <2>1, <2>2 DEF WindowNext
<1> QED
  BY <1>1, <1>2, WindowInvAlways, PTL DEF WindowSpec

=============================================================================
