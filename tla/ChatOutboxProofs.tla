-------------------------- MODULE ChatOutboxProofs --------------------------
(***************************************************************************)
(* Nothing the sender was promised is lost: the inductive invariant of     *)
(* ChatOutbox and AcceptedIsKept for every number of messages and faults.  *)
(* The receiver shows what the sender shows (ViewsAgree), and the tables   *)
(* keep their limits (TypeOK).                                             *)
(***************************************************************************)
EXTENDS ChatOutbox, TLAPS

(***************************************************************************)
(* Sets of the elements of sequences.                                      *)
(***************************************************************************)

\* Appending a row adds it to the set of rows.
LEMMA ToSetAppend ==
    ASSUME NEW S, NEW s \in Seq(S), NEW e \in S
    PROVE  /\ Append(s, e) \in Seq(S)
           /\ ToSet(Append(s, e)) = ToSet(s) \cup {e}
  <1>1. /\ Append(s, e) \in Seq(S) /\ Len(Append(s, e)) = Len(s) + 1
        /\ Append(s, e)[Len(s) + 1] = e
        /\ DOMAIN s = 1..Len(s) /\ Len(s) \in Nat
        /\ DOMAIN Append(s, e) = 1..(Len(s) + 1)
    OBVIOUS
  <1>2. \A i \in 1..Len(s) : Append(s, e)[i] = s[i]
    OBVIOUS
  <1>3. 1..(Len(s) + 1) = 1..Len(s) \cup {Len(s) + 1}
    BY <1>1
  <1>4. QED
    BY <1>1, <1>2, <1>3 DEF ToSet

\* Reading the head leaves only elements that were there.
LEMMA ToSetTail ==
    ASSUME NEW S, NEW s \in Seq(S), s # <<>>
    PROVE  ToSet(Tail(s)) \subseteq ToSet(s) /\ Tail(s) \in Seq(S)
           /\ Head(s) \in ToSet(s) /\ Head(s) \in S
  BY DEF ToSet

\* Removing a row keeps every other one.
LEMMA ToSetRemoveAt ==
    ASSUME NEW S, NEW s \in Seq(S), NEW k \in DOMAIN s
    PROVE  /\ RemoveAt(s, k) \in Seq(S)
           /\ ToSet(s) \ {s[k]} \subseteq ToSet(RemoveAt(s, k))
  <1> DEFINE a == SubSeq(s, 1, k - 1)
             b == SubSeq(s, k + 1, Len(s))
  <1>a. /\ k \in 1..Len(s) /\ Len(s) \in Nat
        /\ a \in Seq(S) /\ Len(a) = k - 1
        /\ b \in Seq(S) /\ Len(b) = Len(s) - k
    OBVIOUS
  <1>b. ASSUME NEW j \in 1..(k - 1) PROVE a[j] = s[j]
    BY <1>a
  <1>c. ASSUME NEW j \in 1..(Len(s) - k) PROVE b[j] = s[k + j]
    BY SMTT(30), <1>a
  <1>1. RemoveAt(s, k) = a \o b
    BY DEF RemoveAt
  <1> HIDE DEF a, b
  <1>2. a \o b \in Seq(S) /\ Len(a \o b) = Len(s) - 1
    BY <1>a
  <1>3. ASSUME NEW j \in DOMAIN s, j < k
        PROVE  j \in DOMAIN (a \o b) /\ (a \o b)[j] = s[j]
    BY <1>a, <1>b, <1>2, <1>3
  <1>4. ASSUME NEW j \in DOMAIN s, j > k
        PROVE  j - 1 \in DOMAIN (a \o b) /\ (a \o b)[j - 1] = s[j]
    <2>1. j - k \in 1..(Len(s) - k) /\ j - 1 \in 1..(Len(s) - 1)
      BY <1>4, <1>a
    <2>2. b[j - k] = s[j]
      BY SMTT(30), <2>1, <1>c, <1>a
    <2>3. (a \o b)[j - 1] = b[j - k]
      BY SMTT(30), <2>1, <1>a, <1>4
    <2>4. QED
      BY <2>1, <2>2, <2>3, <1>2
  <1>5. ASSUME NEW j \in DOMAIN s, s[j] # s[k]
        PROVE  \E i \in DOMAIN (a \o b) : (a \o b)[i] = s[j]
    <2>1. j < k \/ j > k
      BY <1>5, <1>a
    <2>2. QED
      BY <2>1, <1>3, <1>4
  <1>6. QED
    BY <1>1, <1>2, <1>5 DEF ToSet

-----------------------------------------------------------------------------
(***************************************************************************)
(* The inductive invariant.                                                *)
(***************************************************************************)

Kinds == {"text"} \cup Actions
Answers == {"none", "sent", "queued", "failed"}
Attempts == {"idle", "first", "again"}
Verdicts == {"durable", "refused", "busy", "denied"}

Shape ==
    /\ msgs \in Seq([kind: Kinds, target: Ids])
    /\ outbox \in Seq(Ids) /\ rows \in Seq(Ids)
    /\ out \in Seq(Ids) /\ got \in Seq(Ids) /\ old \subseteq Ids
    /\ back \in Seq([of: Ids, says: Verdicts])
    /\ told \in [Ids -> Answers] /\ task \in [Ids -> Attempts]
    /\ budget \in [msgs: Nat, faults: Nat]
    /\ Len(msgs) + budget.msgs <= MaxMsgs

\* Only a message that exists has a request, and a waiting flush has a row.
Fresh ==
    /\ \A n \in Ids : n > Len(msgs) =>
          told[n] = "none" /\ task[n] = "idle" /\ owner # n
    /\ owner = Flush => rows # <<>>

\* A durable ACK on its way names a committed message.
Acked == \A a \in ToSet(back) : a.says = "durable" => a.of \in Received

ChatInv == Shape /\ Fresh /\ Acked /\ AcceptedIsKept

\* Message numbers are positive and end below the flush's own number.
LEMMA NumberFacts ==
    /\ MaxMsgs \in Nat /\ Flush \notin Ids /\ Ids \subseteq Nat
    /\ Flush # Nobody /\ Nobody \notin Ids
  BY ChatAssumption DEF Ids, Flush, Nobody

\* Every written message has one of the numbers.
LEMMA KnownInIds ==
    ASSUME Shape
    PROVE  Known \subseteq Ids /\ Len(msgs) \in Nat
  <1>1. Len(msgs) \in Nat /\ budget.msgs \in Nat
    BY DEF Shape
  <1>2. Len(msgs) <= MaxMsgs
    BY <1>1, NumberFacts DEF Shape
  <1>3. QED
    BY <1>1, <1>2, NumberFacts DEF Known, Ids

\* enqueue_outbox keeps every row, and the message ends with one.
LEMMA EnqueueKeeps ==
    ASSUME Shape, NEW n \in Ids, Enqueue(n)
    PROVE  /\ outbox' \in Seq(Ids)
           /\ Pending \subseteq Pending'
           /\ n \in Pending' \cup done
  BY ToSetAppend DEF Shape, Enqueue, Enqueued, Pending

\* Removing the row of n keeps every other row.
LEMMA WithoutRowKeeps ==
    ASSUME Shape, NEW n \in Pending
    PROVE  /\ WithoutRow(n) \in Seq(Ids)
           /\ Pending \ {n} \subseteq ToSet(WithoutRow(n))
  <1> DEFINE k == CHOOSE i \in DOMAIN outbox : outbox[i] = n
  <1>1. k \in DOMAIN outbox /\ outbox[k] = n
    BY DEF Pending, ToSet
  <1>2. outbox \in Seq(Ids) /\ WithoutRow(n) = RemoveAt(outbox, k)
    BY DEF Shape, WithoutRow
  <1> HIDE DEF k
  <1>3. QED
    BY <1>1, <1>2, ToSetRemoveAt DEF Pending

\* mark_outbox_delivered moves at most the row of n, to the delivered ones.
LEMMA MarkKeeps ==
    ASSUME Shape, NEW n, MarkDelivered(n)
    PROVE  /\ outbox' \in Seq(Ids)
           /\ Pending \ {n} \subseteq Pending'
           /\ done' \subseteq done \cup {n}
  <1>1. CASE n \in Pending
    BY <1>1, WithoutRowKeeps DEF MarkDelivered, Pending
  <1>2. CASE n \notin Pending
    BY <1>2 DEF MarkDelivered, Pending, Shape
  <1>3. QED
    BY <1>1, <1>2

\* A new row of the messages table changes no other one.
LEMMA WriteAppends ==
    ASSUME Shape, NEW kind \in Kinds, NEW target \in Ids, Write(kind, target)
    PROVE  /\ msgs' \in Seq([kind: Kinds, target: Ids])
           /\ budget' \in [msgs: Nat, faults: Nat]
           /\ Len(msgs') + budget'.msgs <= MaxMsgs
           /\ Len(msgs') = Len(msgs) + 1 /\ Len(msgs') \in Ids
           /\ Len(msgs) \in Nat
           /\ Known' = Known \cup {Len(msgs')}
           /\ \A n \in Known : msgs'[n] = msgs[n]
           /\ msgs'[Len(msgs')].kind = kind
  <1>1. /\ msgs' = Append(msgs, [kind |-> kind, target |-> target])
        /\ budget.msgs > 0 /\ budget' = [budget EXCEPT !.msgs = @ - 1]
    BY DEF Write
  <1>2. [kind |-> kind, target |-> target] \in [kind: Kinds, target: Ids]
    OBVIOUS
  <1>3. /\ msgs' \in Seq([kind: Kinds, target: Ids])
        /\ Len(msgs) \in Nat /\ Len(msgs') = Len(msgs) + 1
        /\ \A n \in 1..Len(msgs) : msgs'[n] = msgs[n]
        /\ msgs'[Len(msgs) + 1] = [kind |-> kind, target |-> target]
    BY <1>1, <1>2 DEF Shape
  <1>a. /\ budget \in [msgs: Nat, faults: Nat]
        /\ Len(msgs) + budget.msgs <= MaxMsgs /\ budget.msgs \in Nat
    BY DEF Shape
  <1>b. budget.msgs - 1 \in Nat
    BY <1>1, <1>a
  <1>4. budget' \in [msgs: Nat, faults: Nat] /\ budget'.msgs = budget.msgs - 1
    BY <1>1, <1>a, <1>b
  <1>5. Len(msgs') \in Ids /\ Len(msgs') + budget'.msgs <= MaxMsgs
    BY <1>1, <1>3, <1>a, <1>4, NumberFacts DEF Ids
  <1>6. Known' = Known \cup {Len(msgs')}
    BY <1>3 DEF Known
  <1>7. QED
    BY <1>3, <1>4, <1>5, <1>6 DEF Known

\* api_send's fallback answers "queued" only with a row in the outbox.
LEMMA FallbackKeeps ==
    ASSUME Shape, NEW n \in Ids, Fallback(n)
    PROVE  /\ outbox' \in Seq(Ids) /\ Pending \subseteq Pending'
           /\ task' = [task EXCEPT ![n] = "idle"]
           /\ \/ told' = [told EXCEPT ![n] = "failed"]
              \/ told' = [told EXCEPT ![n] = "queued"] /\ n \in Pending' \cup done
  <1>1. CASE Enqueued(n) \/ HasRoom
    BY <1>1, EnqueueKeeps DEF Fallback
  <1>2. CASE ~(Enqueued(n) \/ HasRoom)
    BY <1>2 DEF Fallback, GivesUp, Shape, Pending
  <1>3. QED
    BY <1>1, <1>2

\* A failed attempt loses no row and promises nothing it does not keep.
LEMMA FailedKeeps ==
    ASSUME Shape, NEW p \in Processes, NEW why, Failed(p, why)
    PROVE  /\ UNCHANGED <<msgs, done, cancelled>>
           /\ outbox' \in Seq(Ids) /\ Pending \subseteq Pending'
           /\ rows' = <<>> \/ rows' = rows
           /\ p # Flush => rows' = rows
           /\ \/ UNCHANGED <<told, task>>
              \/ /\ p \in Ids
                 /\ \E x \in Attempts : task' = [task EXCEPT ![p] = x]
                 /\ \/ told' = told
                    \/ told' = [told EXCEPT ![p] = "failed"]
                    \/ /\ told' = [told EXCEPT ![p] = "queued"]
                       /\ p \in Pending' \cup done
  <1>1. CASE p = Flush
    BY <1>1 DEF Failed, FlushStops, sender, Shape, Pending
  <1>2. CASE p # Flush /\ TriesAgain(p, why)
    <2>1. p \in Ids /\ UNCHANGED <<msgs, done, cancelled, rows, outbox, told>>
      BY <1>2 DEF Failed, sender, flusher, Processes
    <2>2. task' = [task EXCEPT ![p] = "again"] /\ "again" \in Attempts
      BY <1>2 DEF Failed, Attempts
    <2>3. outbox' \in Seq(Ids) /\ Pending \subseteq Pending'
      BY <2>1 DEF Shape, Pending
    <2>4. QED
      BY <2>1, <2>2, <2>3
  <1>3. CASE p # Flush /\ ~TriesAgain(p, why)
    <2>1. p \in Ids /\ UNCHANGED <<msgs, done, cancelled, rows>>
      BY <1>3 DEF Failed, flusher, Processes
    <2>2. CASE Queues(p, why)
      <3>1. Fallback(p)
        BY <1>3, <2>2 DEF Failed
      <3>2. \E x \in Attempts : task' = [task EXCEPT ![p] = x]
        BY <2>1, <3>1, FallbackKeeps DEF Attempts
      <3>3. QED
        BY <2>1, <3>1, <3>2, FallbackKeeps
    <2>3. CASE ~Queues(p, why)
      <3>1. GivesUp(p)
        BY <1>3, <2>3 DEF Failed
      <3>2. task' = [task EXCEPT ![p] = "idle"] /\ "idle" \in Attempts
        BY <3>1 DEF GivesUp, Attempts
      <3>3. told' = [told EXCEPT ![p] = "failed"] /\ outbox' = outbox
        BY <3>1 DEF GivesUp
      <3>4. outbox' \in Seq(Ids) /\ Pending \subseteq Pending'
        BY <3>3 DEF Shape, Pending
      <3>5. QED
        BY <2>1, <3>2, <3>3, <3>4
    <2>4. QED
      BY <2>2, <2>3
  <1>4. QED
    BY <1>1, <1>2, <1>3

-----------------------------------------------------------------------------
(***************************************************************************)
(* What the steps share.                                                   *)
(***************************************************************************)

\* The promises survive a step that answers at most the request of p, with an
\* error or with "queued" and a row, and lets a row go only for a receipt.
LEMMA PromisesKept ==
    ASSUME AcceptedIsKept, Shape, NEW p \in Ids,
           UNCHANGED msgs,
           Received \subseteq Received', cancelled \subseteq cancelled',
           Pending \subseteq Pending' \cup Received' \cup cancelled',
           done' \subseteq Received',
           \/ told' = told
           \/ told' = [told EXCEPT ![p] = "failed"]
           \/ told' = [told EXCEPT ![p] = "queued"] /\ p \in Pending' \cup done
           \/ told' = [told EXCEPT ![p] = "sent"] /\ p \in Received
    PROVE  AcceptedIsKept'
  <1>1. Known' = Known /\ told \in [Ids -> Answers] /\ done \subseteq Received
    BY DEF Known, Shape, AcceptedIsKept
  <1>2. ASSUME NEW n \in Known, told'[n] = "sent"
        PROVE  n \in Received'
    <2>1. n \in Ids
      BY KnownInIds
    <2>2. told[n] = "sent" \/ n \in Received
      BY <1>1, <1>2, <2>1
    <2>3. QED
      BY <2>2 DEF AcceptedIsKept
  <1>3. ASSUME NEW n \in Known, told'[n] = "queued" \/ msgs'[n].kind # "text"
        PROVE  n \in Received' \cup Pending' \cup cancelled'
    <2>1. n \in Ids
      BY KnownInIds
    <2>2. \/ told[n] = "queued" \/ msgs[n].kind # "text"
          \/ n \in Pending' \cup done
      BY <1>1, <1>3, <2>1
    <2>3. QED
      BY <1>1, <2>2 DEF AcceptedIsKept
  <1>4. QED
    BY <1>1, <1>2, <1>3 DEF AcceptedIsKept

\* A fault costs no message.
LEMMA FaultKeeps ==
    ASSUME Shape, budget' = budget \/ Fault
    PROVE  budget' \in [msgs: Nat, faults: Nat] /\ budget'.msgs = budget.msgs
  <1>1. budget \in [msgs: Nat, faults: Nat] /\ budget.faults \in Nat
    BY DEF Shape
  <1>2. CASE Fault
    <2>1. budget.faults - 1 \in Nat
      BY <1>1, <1>2 DEF Fault
    <2>2. QED
      BY <1>1, <1>2, <2>1 DEF Fault
  <1>3. CASE budget' = budget
    BY <1>1, <1>3
  <1>4. QED
    BY <1>2, <1>3

\* The promises survive a step that leaves the sender's tables alone.
LEMMA SenderKept ==
    ASSUME AcceptedIsKept, UNCHANGED <<msgs, outbox, done, cancelled, told>>,
           Received \subseteq Received'
    PROVE  AcceptedIsKept'
  BY DEF AcceptedIsKept, Known, Pending

\* The receiver's commit adds at most a receipt, and a durable verdict has one.
LEMMA CommitKeeps ==
    ASSUME Shape, NEW n \in Ids, Commit(n)
    PROVE  /\ got' \in Seq(Ids) /\ Received \subseteq Received'
           /\ Verdict(n) = "durable" => n \in Received'
  <1>1. CASE n \in Received \/ ~Admits(n)
    BY <1>1 DEF Commit, receiver, Shape, Received, Verdict
  <1>2. CASE ~(n \in Received \/ ~Admits(n))
    <2>1. got' = Append(got, n) /\ got \in Seq(Ids)
      BY <1>2 DEF Commit, Shape
    <2>2. got' \in Seq(Ids) /\ ToSet(got') = ToSet(got) \cup {n}
      BY <2>1, ToSetAppend
    <2>3. QED
      BY <2>2 DEF Received
  <1>3. QED
    BY <1>1, <1>2

\* The answer to a frame goes behind the answers on their way.
LEMMA AnswerKeeps ==
    ASSUME Shape, Acked, out # <<>>, Received \subseteq Received',
           NEW says \in Verdicts, Answer(Head(out), says),
           says = "durable" => Head(out) \in Received'
    PROVE  /\ out' \in Seq(Ids) /\ back' \in Seq([of: Ids, says: Verdicts])
           /\ Acked'
  <1>1. Head(out) \in Ids /\ Tail(out) \in Seq(Ids)
    BY DEF Shape
  <1>2. [of |-> Head(out), says |-> says] \in [of: Ids, says: Verdicts]
    BY <1>1
  <1>3. /\ back' \in Seq([of: Ids, says: Verdicts])
        /\ ToSet(back') = ToSet(back) \cup {[of |-> Head(out), says |-> says]}
    <2> DEFINE a == [of |-> Head(out), says |-> says]
               A == [of: Ids, says: Verdicts]
    <2>1. back' = Append(back, a) /\ back \in Seq(A) /\ a \in A
      BY <1>2 DEF Shape, Answer
    <2> HIDE DEF a, A
    <2>2. back' \in Seq(A) /\ ToSet(back') = ToSet(back) \cup {a}
      BY <2>1, ToSetAppend
    <2>3. QED
      BY <2>2 DEF a, A
  <1>4. QED
    BY <1>1, <1>3 DEF Answer, Acked

-----------------------------------------------------------------------------
(***************************************************************************)
(* One lemma per kind of step.                                             *)
(***************************************************************************)

\* A message the user writes: a text has no promise yet or a row, an action
\* has a row.
LEMMA WritesKeep ==
    ASSUME ChatInv, NEW kind \in Kinds, NEW t \in Ids, Write(kind, t),
           UNCHANGED <<done, cancelled, flusher, wire, receiver>>,
           LET n == Len(msgs') IN
             /\ \E x \in Attempts : task' = [task EXCEPT ![n] = x]
             /\ \/ outbox' = outbox /\ told' = told /\ kind = "text"
                \/ Enqueue(n) /\ told' = told
                \/ Enqueue(n) /\ told' = [told EXCEPT ![n] = "queued"]
    PROVE  ChatInv'
  <1> DEFINE n == Len(msgs')
  <1>1. /\ Shape /\ Fresh /\ Acked /\ AcceptedIsKept
        /\ told \in [Ids -> Answers] /\ task \in [Ids -> Attempts]
    BY DEF ChatInv, Shape
  <1>2. /\ msgs' \in Seq([kind: Kinds, target: Ids])
        /\ budget' \in [msgs: Nat, faults: Nat]
        /\ Len(msgs') + budget'.msgs <= MaxMsgs
        /\ n = Len(msgs) + 1 /\ n \in Ids /\ Len(msgs) \in Nat
        /\ Known' = Known \cup {n}
        /\ \A i \in Known : msgs'[i] = msgs[i]
        /\ msgs'[n].kind = kind
    BY <1>1, WriteAppends
  <1> HIDE DEF n
  <1>3. PICK x \in Attempts : task' = [task EXCEPT ![n] = x]
    BY DEF n
  <1>4. /\ told' = told \/ told' = [told EXCEPT ![n] = "queued"]
        /\ outbox' = outbox \/ Enqueue(n)
        /\ kind # "text" => Enqueue(n)
        /\ told' = told \/ Enqueue(n)
    BY DEF n
  <1>5. /\ outbox' \in Seq(Ids) /\ Pending \subseteq Pending'
        /\ Enqueue(n) => n \in Pending' \cup done
    BY <1>1, <1>2, <1>4, EnqueueKeeps DEF Shape, Pending
  <1>6. told' \in [Ids -> Answers] /\ task' \in [Ids -> Attempts]
    BY <1>1, <1>2, <1>3, <1>4 DEF Answers
  <1>7. UNCHANGED <<rows, out, got, old, back, owner, done, cancelled>>
    BY DEF flusher, wire, receiver
  <1>8. Shape'
    BY <1>1, <1>2, <1>5, <1>6, <1>7 DEF Shape, Ids
  <1>9. Fresh'
    <2>1. ASSUME NEW i \in Ids, i > n
          PROVE  told'[i] = "none" /\ task'[i] = "idle" /\ owner # i
      <3>1. i > Len(msgs) /\ i # n
        BY <1>2, <2>1 DEF Ids
      <3>2. told'[i] = told[i] /\ task'[i] = task[i]
        BY <3>1, <1>1, <1>3, <1>4
      <3>3. QED
        BY <1>1, <3>1, <3>2 DEF Fresh
    <2>2. QED
      BY <1>1, <1>7, <2>1, NumberFacts DEF Fresh, n, Ids, Flush
  <1>10. Acked' /\ Received' = Received
    BY <1>1, <1>7 DEF Acked, Received
  <1>11. AcceptedIsKept'
    <2>1. told[n] = "none" /\ n \notin Known
      BY <1>1, <1>2 DEF Fresh, Known
    <2>2. told'[n] # "sent"
      BY <1>1, <1>2, <1>4, <2>1
    <2>3. told'[n] = "queued" \/ msgs'[n].kind # "text"
            => n \in Received' \cup Pending'
      BY <1>1, <1>2, <1>4, <1>5, <1>10, <2>1 DEF AcceptedIsKept
    <2>a. Known \subseteq Ids
      BY <1>1, KnownInIds
    <2>4. \A i \in Known : told'[i] = told[i]
      BY <1>1, <1>2, <1>4, <2>1, <2>a
    <2>5. QED
      BY <1>1, <1>2, <1>5, <1>7, <1>10, <2>2, <2>3, <2>4 DEF AcceptedIsKept
  <1>12. QED
    BY <1>8, <1>9, <1>10, <1>11 DEF ChatInv

\* A request or the flush fails: SendFails, AnswerLost, a rejection.
LEMMA FailuresKeep ==
    ASSUME ChatInv, NEW p \in Processes, p # Flush => p \in Known,
           NEW why, Failed(p, why), UNCHANGED receiver,
           budget' = budget \/ Fault,
           (UNCHANGED wire /\ owner # p) \/ DropSession
    PROVE  ChatInv'
  <1>1. /\ Shape /\ Fresh /\ Acked /\ AcceptedIsKept
        /\ told \in [Ids -> Answers] /\ task \in [Ids -> Attempts]
    BY DEF ChatInv, Shape
  <1>2. /\ UNCHANGED <<msgs, done, cancelled>>
        /\ outbox' \in Seq(Ids) /\ Pending \subseteq Pending'
        /\ rows' = <<>> \/ rows' = rows
        /\ p # Flush => rows' = rows
    BY <1>1, FailedKeeps
  <1>3. \/ UNCHANGED <<told, task>>
        \/ /\ p \in Known
           /\ \E x \in Attempts : task' = [task EXCEPT ![p] = x]
           /\ \/ told' = told
              \/ told' = [told EXCEPT ![p] = "failed"]
              \/ /\ told' = [told EXCEPT ![p] = "queued"]
                 /\ p \in Pending' \cup done
    BY <1>1, FailedKeeps, NumberFacts
  <1>4. told' \in [Ids -> Answers] /\ task' \in [Ids -> Attempts]
    BY <1>1, <1>3 DEF Answers
  <1>5. budget' \in [msgs: Nat, faults: Nat] /\ budget'.msgs = budget.msgs
    BY <1>1, FaultKeeps
  <1>6. /\ out' \in Seq(Ids) /\ old' \subseteq Ids
        /\ back' \in Seq([of: Ids, says: Verdicts])
        /\ ToSet(back') \subseteq ToSet(back)
        /\ owner' = owner \/ owner' = Nobody
    <2>1. CASE UNCHANGED wire
      BY <2>1, <1>1 DEF wire, Shape
    <2>2. CASE DropSession
      <3>1. ToSet(out) \subseteq Ids
        BY <1>1 DEF Shape, ToSet
      <3>2. QED
        BY <1>1, <2>2, <3>1 DEF DropSession, Shape, ToSet
    <2>3. QED
      BY <2>1, <2>2
  <1>7. got' = got /\ Received' = Received
    BY DEF receiver, Received
  <1>8. Shape'
    <2>a. <<>> \in Seq(Ids) /\ rows \in Seq(Ids)
      BY <1>1 DEF Shape
    <2>1. rows' \in Seq(Ids)
      BY <1>2, <2>a
    <2>2. /\ msgs' \in Seq([kind: Kinds, target: Ids])
          /\ got' \in Seq(Ids) /\ Len(msgs') + budget'.msgs <= MaxMsgs
      BY <1>1, <1>2, <1>5, <1>7 DEF Shape
    <2>3. QED
      BY <1>2, <1>4, <1>5, <1>6, <2>1, <2>2 DEF Shape
  <1>9. Fresh'
    <2>1. ASSUME NEW i \in Ids, i > Len(msgs)
          PROVE  told'[i] = "none" /\ task'[i] = "idle" /\ owner' # i
      <3>1. i \notin Known
        BY <2>1, <1>1, KnownInIds DEF Known, Ids
      <3>2. told'[i] = told[i] /\ task'[i] = task[i]
        BY <3>1, <1>1, <1>3
      <3>3. QED
        BY <1>1, <1>6, <2>1, <3>2, NumberFacts DEF Fresh
    <2>2. owner' = Flush => rows' # <<>>
      <3>1. CASE DropSession
        BY <3>1, NumberFacts DEF DropSession
      <3>2. CASE UNCHANGED wire /\ owner # p
        BY <3>2, <1>1, <1>2 DEF wire, Fresh
      <3>3. QED
        BY <3>1, <3>2
    <2>3. QED
      BY <1>2, <2>1, <2>2 DEF Fresh, Ids, Flush
  <1>10. Acked'
    BY <1>1, <1>6, <1>7 DEF Acked
  <1>11. AcceptedIsKept'
    <2>1. CASE UNCHANGED <<told, task>>
      <3>1. done' \subseteq Received' /\ cancelled' = cancelled
        BY <1>1, <1>2, <1>7 DEF AcceptedIsKept
      <3>2. Known' = Known
        BY <1>2 DEF Known
      <3>3. QED
        BY <1>1, <1>2, <1>7, <2>1, <3>1, <3>2 DEF AcceptedIsKept
    <2>2. CASE ~UNCHANGED <<told, task>>
      <3>1. p \in Ids /\ done' \subseteq Received'
        BY <1>1, <1>2, <1>3, <1>7, <2>2, KnownInIds DEF AcceptedIsKept
      <3>2. QED
        BY <1>1, <1>2, <1>3, <1>7, <2>2, <3>1, PromisesKept
    <2>3. QED
      BY <2>1, <2>2
  <1>12. QED
    BY <1>8, <1>9, <1>10, <1>11 DEF ChatInv

\* The owner's frame was acknowledged: ReadAnswer of a durable ACK.
LEMMA SuccessKeeps ==
    ASSUME ChatInv, NEW p \in Processes, owner = p,
           back # <<>>, Head(back).of = FrameOf(p), Head(back).says = "durable",
           Succeeded(p), owner' = Nobody, back' = Tail(back),
           UNCHANGED <<out, old, receiver, budget>>
    PROVE  ChatInv'
  <1> DEFINE n == Head(back).of
  <1>1. /\ Shape /\ Fresh /\ Acked /\ AcceptedIsKept
        /\ told \in [Ids -> Answers] /\ task \in [Ids -> Attempts]
        /\ back \in Seq([of: Ids, says: Verdicts]) /\ rows \in Seq(Ids)
    BY DEF ChatInv, Shape
  <1>2. /\ ToSet(back') \subseteq ToSet(back) /\ Head(back) \in ToSet(back)
        /\ back' \in Seq([of: Ids, says: Verdicts])
        /\ Head(back) \in [of: Ids, says: Verdicts]
    BY <1>1, ToSetTail
  <1>3. n \in Ids /\ n \in Received /\ n = FrameOf(p)
    BY <1>1, <1>2 DEF Acked
  <1> HIDE DEF n
  <1>4. got' = got /\ Received' = Received
    BY DEF receiver, Received
  <1>5. /\ UNCHANGED <<msgs, cancelled>>
        /\ outbox' \in Seq(Ids) /\ Pending \ {n} \subseteq Pending'
        /\ done' \subseteq done \cup {n}
        /\ rows' \in Seq(Ids)
        /\ task' = task \/ task' = [task EXCEPT ![n] = "idle"]
        /\ told' = told \/ (p = n /\ told' = [told EXCEPT ![n] = "sent"])
    <2>1. CASE p = Flush
      <3>1. rows # <<>> /\ n = Head(rows) /\ MarkDelivered(n)
        BY <1>1, <1>3, <2>1 DEF Fresh, FrameOf, Succeeded
      <3>2. rows' = Tail(rows) /\ UNCHANGED <<msgs, cancelled, told, task>>
        BY <2>1 DEF Succeeded
      <3>3. rows' \in Seq(Ids)
        BY <1>1, <3>1, <3>2
      <3>4. /\ outbox' \in Seq(Ids) /\ Pending \ {n} \subseteq Pending'
            /\ done' \subseteq done \cup {n}
        BY <1>1, <3>1, MarkKeeps
      <3>5. QED
        BY <3>2, <3>3, <3>4
    <2>2. CASE p # Flush
      <3>1. /\ n = p /\ p \in Ids /\ UNCHANGED <<msgs, cancelled, rows>>
            /\ task' = [task EXCEPT ![n] = "idle"]
            /\ told' = [told EXCEPT ![n] = "sent"]
            /\ UNCHANGED <<outbox, done>> \/ MarkDelivered(n)
        BY <1>3, <2>2 DEF FrameOf, Succeeded, Processes
      <3>2. /\ outbox' \in Seq(Ids) /\ Pending \ {n} \subseteq Pending'
            /\ done' \subseteq done \cup {n}
        BY <1>1, <3>1, MarkKeeps DEF Shape, Pending
      <3>3. QED
        BY <1>1, <3>1, <3>2
    <2>3. QED
      BY <2>1, <2>2
  <1>6. told' \in [Ids -> Answers] /\ task' \in [Ids -> Attempts]
    BY <1>1, <1>5 DEF Answers, Attempts
  <1>7. Shape'
    <2>1. /\ msgs' \in Seq([kind: Kinds, target: Ids]) /\ out' \in Seq(Ids)
          /\ got' \in Seq(Ids) /\ old' \subseteq Ids
          /\ budget' \in [msgs: Nat, faults: Nat]
          /\ Len(msgs') + budget'.msgs <= MaxMsgs
      BY <1>1, <1>4, <1>5 DEF Shape
    <2>2. QED
      BY <1>2, <1>5, <1>6, <2>1 DEF Shape
  <1>8. Fresh'
    <2>1. ASSUME NEW i \in Ids, i > Len(msgs)
          PROVE  told'[i] = "none" /\ task'[i] = "idle" /\ owner' # i
      <3>1. told[i] = "none" /\ task[i] = "idle" /\ owner # i
        BY <1>1, <2>1 DEF Fresh
      <3>2. told'[i] = told[i] /\ task'[i] = task[i]
        BY <1>1, <1>3, <1>5, <1>6, <3>1 DEF Attempts
      <3>3. QED
        BY <3>1, <3>2, NumberFacts
    <2>2. QED
      BY <1>5, <2>1, NumberFacts DEF Fresh, Ids, Flush
  <1>9. Acked'
    BY <1>1, <1>2, <1>4 DEF Acked
  <1>10. AcceptedIsKept'
    <2>1. done' \subseteq Received'
      BY <1>1, <1>3, <1>4, <1>5 DEF AcceptedIsKept
    <2>2. QED
      BY <1>1, <1>3, <1>4, <1>5, <2>1, PromisesKept
  <1>11. QED
    BY <1>7, <1>8, <1>9, <1>10 DEF ChatInv

\* The 20 s limit of api_send.
LEMMA AbandonKeeps ==
    ASSUME ChatInv, NEW n \in Known, Abandon(n)
    PROVE  ChatInv'
  <1>1. /\ Shape /\ Fresh /\ Acked /\ AcceptedIsKept /\ n \in Ids
        /\ told \in [Ids -> Answers] /\ task \in [Ids -> Attempts]
    BY KnownInIds DEF ChatInv, Shape
  <1>2. /\ outbox' \in Seq(Ids) /\ Pending \subseteq Pending'
        /\ task' = [task EXCEPT ![n] = "idle"]
        /\ \/ told' = [told EXCEPT ![n] = "failed"]
           \/ told' = [told EXCEPT ![n] = "queued"] /\ n \in Pending' \cup done
    BY <1>1, FallbackKeeps DEF Abandon
  <1>3. /\ UNCHANGED <<msgs, done, cancelled, rows, out, back, old, got>>
        /\ owner' = owner \/ owner' = Nobody
    BY DEF Abandon, flusher, receiver
  <1>4. budget' \in [msgs: Nat, faults: Nat] /\ budget'.msgs = budget.msgs
    BY <1>1, FaultKeeps DEF Abandon
  <1>5. told' \in [Ids -> Answers] /\ task' \in [Ids -> Attempts]
    BY <1>1, <1>2 DEF Answers, Attempts
  <1>6. Shape'
    BY <1>1, <1>2, <1>3, <1>4, <1>5 DEF Shape
  <1>7. Fresh'
    <2>1. ASSUME NEW i \in Ids, i > Len(msgs)
          PROVE  told'[i] = "none" /\ task'[i] = "idle" /\ owner' # i
      <3>1. i # n
        BY <1>1, <2>1, KnownInIds DEF Known, Ids
      <3>2. QED
        BY <1>1, <1>2, <1>3, <2>1, <3>1, NumberFacts DEF Fresh
    <2>2. QED
      BY <1>1, <1>3, <2>1, NumberFacts DEF Fresh, Ids, Flush
  <1>8. Acked' /\ Received' = Received
    BY <1>1, <1>3 DEF Acked, Received
  <1>9. AcceptedIsKept'
    <2>1. done' \subseteq Received'
      BY <1>1, <1>3, <1>8 DEF AcceptedIsKept
    <2>2. QED
      BY <1>1, <1>2, <1>3, <1>8, <2>1, PromisesKept
  <1>10. QED
    BY <1>6, <1>7, <1>8, <1>9 DEF ChatInv

\* The user cancels a row.
LEMMA CancelKeeps ==
    ASSUME ChatInv, NEW n \in Known, CancelOutbox(n)
    PROVE  ChatInv'
  <1>1. Shape /\ Fresh /\ Acked /\ AcceptedIsKept /\ n \in Ids /\ n \in Pending
    BY KnownInIds DEF ChatInv, CancelOutbox
  <1>2. /\ outbox' = WithoutRow(n) /\ cancelled' = cancelled \cup {n}
        /\ UNCHANGED <<msgs, done, told, task, rows, owner, out, back, old, got>>
    BY DEF CancelOutbox, flusher, wire, receiver
  <1>3. outbox' \in Seq(Ids) /\ Pending \ {n} \subseteq Pending'
    BY <1>1, <1>2, WithoutRowKeeps DEF Pending
  <1>4. budget' \in [msgs: Nat, faults: Nat] /\ budget'.msgs = budget.msgs
    BY <1>1, FaultKeeps DEF CancelOutbox
  <1>5. Shape'
    BY <1>1, <1>2, <1>3, <1>4 DEF Shape
  <1>6. Fresh' /\ Acked' /\ Received' = Received
    BY <1>1, <1>2 DEF Fresh, Acked, Received, Flush, Ids
  <1>7. AcceptedIsKept'
    <2>1. done' \subseteq Received'
      BY <1>1, <1>2, <1>6 DEF AcceptedIsKept
    <2>2. QED
      BY <1>1, <1>2, <1>3, <1>6, <2>1, PromisesKept
  <1>8. QED
    BY <1>5, <1>6, <1>7 DEF ChatInv

\* Steps of the flush and the requests that send a frame, start or stop, and
\* the steps that touch the sender's view or the wire only.
LEMMA QuietStepsKeep ==
    ASSUME ChatInv, UNCHANGED <<msgs, outbox, done, cancelled, told, receiver>>,
           budget' = budget \/ Fault,
           out' \in Seq(Ids), old' \subseteq Ids,
           back' = back \/ back' = <<>>,
           rows' \in Seq(Ids), task' \in [Ids -> Attempts],
           \A n \in Ids : n > Len(msgs) => task'[n] = "idle" /\ owner' # n,
           owner' = Flush => rows' # <<>>
    PROVE  ChatInv'
  <1>1. Shape /\ Fresh /\ Acked /\ AcceptedIsKept
    BY DEF ChatInv
  <1>2. budget' \in [msgs: Nat, faults: Nat] /\ budget'.msgs = budget.msgs
    BY <1>1, FaultKeeps
  <1>3. got' = got /\ Received' = Received
    BY DEF receiver, Received
  <1>4. /\ back' \in Seq([of: Ids, says: Verdicts])
        /\ ToSet(back') \subseteq ToSet(back)
    <2>1. CASE back' = back
      BY <1>1, <2>1 DEF Shape
    <2>2. CASE back' = <<>>
      BY <2>2 DEF ToSet
    <2>3. QED
      BY <2>1, <2>2
  <1>5. Shape'
    BY <1>1, <1>2, <1>3, <1>4 DEF Shape
  <1>6. Fresh' /\ Acked'
    BY <1>1, <1>3, <1>4 DEF Fresh, Acked, Flush, Ids
  <1>7. AcceptedIsKept'
    BY <1>1, <1>3, SenderKept
  <1>8. QED
    BY <1>5, <1>6, <1>7 DEF ChatInv

\* The receiver reads a frame, of the live session or of a dropped one.
LEMMA ReceiverKeeps ==
    ASSUME ChatInv,
           UNCHANGED <<msgs, outbox, done, cancelled, told, task, rows, owner>>,
           budget' = budget \/ Fault,
           out' \in Seq(Ids), old' \subseteq Ids,
           back' \in Seq([of: Ids, says: Verdicts]), Acked',
           got' \in Seq(Ids), Received \subseteq Received'
    PROVE  ChatInv'
  <1>1. Shape /\ Fresh /\ AcceptedIsKept
    BY DEF ChatInv
  <1>2. budget' \in [msgs: Nat, faults: Nat] /\ budget'.msgs = budget.msgs
    BY <1>1, FaultKeeps
  <1>3. Shape'
    BY <1>1, <1>2 DEF Shape
  <1>4. Fresh'
    BY <1>1 DEF Fresh, Flush, Ids
  <1>5. AcceptedIsKept'
    BY <1>1, SenderKept
  <1>6. QED
    BY <1>3, <1>4, <1>5 DEF ChatInv

\* The snapshot of the outbox is a sequence of messages.
LEMMA SnapshotFacts ==
    ASSUME Shape
    PROVE  Snapshot \in Seq(Ids)
  <1>1. outbox \in Seq(Ids) /\ Len(outbox) \in Nat /\ FlushBatch \in Nat
    BY ChatAssumption DEF Shape
  <1>2. CASE Len(outbox) < FlushBatch
    BY <1>1, <1>2 DEF Snapshot
  <1>3. CASE ~(Len(outbox) < FlushBatch)
    BY <1>1, <1>3 DEF Snapshot
  <1>4. QED
    BY <1>2, <1>3

\* The invariant holds initially.
LEMMA ChatInit == Init => ChatInv
  <1> SUFFICES ASSUME Init PROVE ChatInv
    OBVIOUS
  <1>1. PICK b \in Budgets : budget = b
    BY DEF Init
  <1>2. budget \in [msgs: Nat, faults: Nat] /\ budget.msgs <= MaxMsgs
    BY <1>1, ChatAssumption, NumberFacts DEF Ids
  <1>3. Shape
    BY <1>2 DEF Init, Shape, Answers, Attempts
  <1>4. Fresh
    BY NumberFacts DEF Init, Fresh
  <1>5. Acked /\ AcceptedIsKept
    BY DEF Init, Acked, AcceptedIsKept, ToSet, Received, Known
  <1>6. QED
    BY <1>3, <1>4, <1>5 DEF ChatInv

\* The user's steps preserve the invariant.
LEMMA UserSteps ==
    ASSUME ChatInv,
           \/ SendText \/ SendTextOffline
           \/ \E n \in Known : ResendText(n) \/ CancelOutbox(n) \/ Abandon(n)
           \/ \E t \in Texts, kind \in Actions : Act(kind, t) \/ ActOffline(kind, t)
    PROVE  ChatInv'
  <1>0. /\ Shape /\ Fresh /\ Known \subseteq Ids
        /\ task \in [Ids -> Attempts] /\ Len(msgs) \in Nat
    BY KnownInIds DEF ChatInv, Shape
  <1>a. /\ out \in Seq(Ids) /\ old \subseteq Ids /\ rows \in Seq(Ids)
        /\ \A n \in Ids : n > Len(msgs) => task[n] = "idle" /\ owner # n
        /\ owner = Flush => rows # <<>>
    BY <1>0 DEF Shape, Fresh
  <1>b. "text" \in Kinds /\ Actions \subseteq Kinds
        /\ "first" \in Attempts /\ "again" \in Attempts
    BY DEF Kinds, Attempts
  <1>1. CASE SendText
    <2>1. Write("text", Len(msgs) + 1) /\ Len(msgs) + 1 \in Ids
      BY <1>1, <1>0, NumberFacts DEF SendText, Write, Shape, Ids
    <2>2. Len(msgs') = Len(msgs) + 1
      BY <1>0, <1>b, <2>1, WriteAppends
    <2>3. QED
      BY <1>1, <1>b, <2>1, WritesKeep DEF SendText
  <1>2. CASE SendTextOffline
    <2>1. Write("text", Len(msgs) + 1) /\ Len(msgs) + 1 \in Ids
      BY <1>2, <1>0, NumberFacts DEF SendTextOffline, Write, Shape, Ids
    <2>2. Len(msgs') \in Ids
      BY <1>0, <1>b, <2>1, WriteAppends
    <2>3. task' = [task EXCEPT ![Len(msgs')] = task[Len(msgs')]]
          /\ task[Len(msgs')] \in Attempts
      BY <1>2, <1>0, <2>2 DEF SendTextOffline
    <2>4. QED
      BY <1>2, <1>b, <2>1, <2>3, WritesKeep DEF SendTextOffline
  <1>3. ASSUME NEW n \in Known, ResendText(n)
        PROVE  ChatInv'
    <2>1. n \in Ids /\ n <= Len(msgs)
      BY <1>0 DEF Known
    <2>2. task' = [task EXCEPT ![n] = "first"]
      BY <1>3 DEF ResendText
    <2>3. /\ task' \in [Ids -> Attempts]
          /\ \A i \in Ids : i > Len(msgs) => task'[i] = "idle"
      BY <1>0, <1>a, <1>b, <2>1, <2>2 DEF Ids
    <2>4. /\ UNCHANGED <<msgs, outbox, done, cancelled, told, receiver>>
          /\ UNCHANGED <<rows, owner, out, back, old>> /\ Fault
      BY <1>3 DEF ResendText, sender, flusher, wire
    <2>5. QED
      BY <1>a, <2>3, <2>4, QuietStepsKeep
  <1>4. ASSUME NEW t \in Texts, NEW kind \in Actions, Act(kind, t)
        PROVE  ChatInv'
    <2>1. t \in Ids /\ kind \in Kinds /\ Write(kind, t)
      BY <1>0, <1>b, <1>4 DEF Texts, Act
    <2>2. QED
      BY <1>4, <1>b, <2>1, WritesKeep DEF Act
  <1>5. ASSUME NEW t \in Texts, NEW kind \in Actions, ActOffline(kind, t)
        PROVE  ChatInv'
    <2>1. /\ UNCHANGED <<msgs, outbox, done, cancelled, told, receiver>>
          /\ UNCHANGED <<task, rows, owner, out, back, old>> /\ Fault
      BY <1>5 DEF ActOffline, flusher, wire
    <2>2. QED
      BY <1>0, <1>a, <2>1, QuietStepsKeep
  <1>6. QED
    BY <1>1, <1>2, <1>3, <1>4, <1>5, CancelKeeps, AbandonKeeps

\* The steps of the requests and the flush preserve the invariant.
LEMMA SendSteps ==
    ASSUME ChatInv,
           \/ \E p \in Processes :
                \/ Step(p) \/ AnswerLost(p)
                \/ \E why \in {"lost", "denied"} : SendFails(p, why)
           \/ FlushTask \/ FlushOffline \/ ApiFlush \/ Contact \/ Crash
    PROVE  ChatInv'
  <1>0. /\ Shape /\ Fresh /\ Known \subseteq Ids
        /\ task \in [Ids -> Attempts] /\ Len(msgs) \in Nat
    BY KnownInIds DEF ChatInv, Shape
  <1>a. /\ out \in Seq(Ids) /\ old \subseteq Ids /\ rows \in Seq(Ids)
        /\ \A n \in Ids : n > Len(msgs) => task[n] = "idle" /\ owner # n
        /\ owner = Flush => rows # <<>>
        /\ <<>> \in Seq(Ids) /\ ToSet(out) \subseteq Ids
    BY <1>0 DEF Shape, Fresh, ToSet
  <1>b. ASSUME NEW p \in Processes, p # Flush, Wants(p) \/ owner = p
        PROVE  p \in Known
    BY <1>0, <1>a, <1>b, NumberFacts DEF Processes, Wants, Known, Ids
  <1>1. ASSUME NEW p \in Processes, SendFrame(p)
        PROVE  ChatInv'
    <2>1. /\ UNCHANGED <<msgs, outbox, done, cancelled, told, receiver>>
          /\ UNCHANGED <<task, rows, back, old, budget>>
          /\ owner' = p /\ out' = Append(out, FrameOf(p)) /\ Wants(p)
      BY <1>1 DEF SendFrame, sender, flusher
    <2>2. p = Flush => rows # <<>>
      BY <2>1 DEF Wants
    <2>3. FrameOf(p) \in Ids
      BY <1>a, <2>2 DEF FrameOf, Processes
    <2>4. out' \in Seq(Ids)
      BY <1>a, <2>1, <2>3
    <2>5. \A n \in Ids : n > Len(msgs) => p # n
      BY <1>b, <2>1, NumberFacts DEF Known, Ids
    <2>6. QED
      BY <1>0, <1>a, <2>1, <2>2, <2>4, <2>5, QuietStepsKeep
  <1>2. ASSUME NEW p \in Processes, ReadAnswer(p)
        PROVE  ChatInv'
    <2>1. owner = p /\ back # <<>> /\ UNCHANGED <<receiver, budget>>
      BY <1>2 DEF ReadAnswer
    <2>2. p # Flush => p \in Known
      BY <1>b, <2>1
    <2>3. CASE ~AnswersFrame(p)
      <3>1. /\ back' = Tail(back)
            /\ UNCHANGED <<msgs, outbox, done, cancelled, told, task, rows, owner>>
            /\ UNCHANGED <<out, old>>
        BY <1>2, <2>3 DEF ReadAnswer, sender, flusher
      <3>2. /\ back' \in Seq([of: Ids, says: Verdicts])
            /\ ToSet(back') \subseteq ToSet(back)
        BY <1>0, <2>1, <3>1, ToSetTail DEF Shape
      <3>3. got' = got /\ Received' = Received
        BY <2>1 DEF receiver, Received
      <3>4. Acked' /\ got' \in Seq(Ids)
        BY <1>0, <3>2, <3>3 DEF ChatInv, Acked, Shape
      <3>5. QED
        BY <1>a, <2>1, <3>1, <3>2, <3>3, <3>4, ReceiverKeeps
    <2>4. CASE AnswersFrame(p) /\ Head(back).says = "durable"
      <3>1. /\ Succeeded(p) /\ owner' = Nobody /\ back' = Tail(back)
            /\ UNCHANGED <<out, old>> /\ Head(back).of = FrameOf(p)
        BY <1>2, <2>4 DEF ReadAnswer, AnswersFrame
      <3>2. QED
        BY <2>1, <2>4, <3>1, SuccessKeeps
    <2>5. CASE AnswersFrame(p) /\ Head(back).says # "durable"
      <3>1. Failed(p, Head(back).says) /\ DropSession
        BY <1>2, <2>5 DEF ReadAnswer
      <3>2. QED
        BY <2>1, <2>2, <3>1, FailuresKeep
    <2>6. QED
      BY <2>3, <2>4, <2>5
  <1>3. ASSUME NEW p \in Processes, NEW why \in {"lost", "denied"},
               SendFails(p, why)
        PROVE  ChatInv'
    <2>1. /\ Wants(p) /\ owner # p /\ Fault /\ Failed(p, why)
          /\ UNCHANGED wire /\ UNCHANGED receiver
      BY <1>3 DEF SendFails, Wants
    <2>2. QED
      BY <1>b, <2>1, FailuresKeep
  <1>4. ASSUME NEW p \in Processes, AnswerLost(p)
        PROVE  ChatInv'
    <2>1. owner = p /\ Fault /\ Failed(p, "lost") /\ DropSession /\ UNCHANGED receiver
      BY <1>4 DEF AnswerLost
    <2>2. QED
      BY <1>b, <2>1, FailuresKeep
  <1>5. CASE FlushTask \/ ApiFlush
    <2>1. /\ UNCHANGED <<msgs, outbox, done, cancelled, told, receiver>>
          /\ UNCHANGED <<task, owner, out, back, old, budget>>
          /\ rows' = rows \/ (rows = <<>> /\ rows' = Snapshot)
      BY <1>5 DEF FlushTask, ApiFlush, BeginFlush, sender, wire
    <2>2. rows' \in Seq(Ids) /\ (owner' = Flush => rows' # <<>>)
      BY <1>0, <1>a, <2>1, SnapshotFacts
    <2>3. QED
      BY <1>0, <1>a, <2>1, <2>2, QuietStepsKeep
  <1>6. CASE FlushOffline \/ Contact
    <2>1. /\ UNCHANGED <<msgs, outbox, done, cancelled, told, receiver>>
          /\ UNCHANGED <<task, rows, owner, out, back, old>>
          /\ budget' = budget \/ Fault
      BY <1>6 DEF FlushOffline, Contact, sender, wire
    <2>2. QED
      BY <1>0, <1>a, <2>1, QuietStepsKeep
  <1>7. CASE Crash
    <2>1. /\ UNCHANGED <<msgs, outbox, done, cancelled, told, receiver>>
          /\ Fault /\ rows' = <<>> /\ task' = [n \in Ids |-> "idle"]
          /\ owner' = Nobody /\ out' = <<>> /\ back' = <<>>
          /\ old' = old \cup ToSet(out)
      BY <1>7 DEF Crash, DropSession, sender
    <2>2. /\ task' \in [Ids -> Attempts] /\ old' \subseteq Ids
          /\ out' \in Seq(Ids) /\ rows' \in Seq(Ids)
      BY <1>a, <2>1 DEF Attempts
    <2>3. QED
      BY <2>1, <2>2, NumberFacts, QuietStepsKeep
  <1>8. QED
    BY <1>1, <1>2, <1>3, <1>4, <1>5, <1>6, <1>7 DEF Step

\* The receiver's steps preserve the invariant.
LEMMA ReceiverSteps ==
    ASSUME ChatInv,
           \/ Receive
           \/ \E says \in {"busy", "denied"} : ReceiveRejects(says)
           \/ \E n \in old : ReceiveLate(n)
    PROVE  ChatInv'
  <1>0. /\ Shape /\ Acked /\ out \in Seq(Ids) /\ old \subseteq Ids
        /\ back \in Seq([of: Ids, says: Verdicts]) /\ got \in Seq(Ids)
    BY DEF ChatInv, Shape
  <1>1. CASE Receive
    <2>1. out # <<>> /\ Head(out) \in Ids /\ Commit(Head(out)) /\ budget' = budget
      BY <1>0, <1>1 DEF Receive
    <2>2. /\ got' \in Seq(Ids) /\ Received \subseteq Received'
          /\ Verdict(Head(out)) = "durable" => Head(out) \in Received'
      BY <1>0, <2>1, CommitKeeps
    <2>3. Verdict(Head(out)) \in Verdicts /\ Answer(Head(out), Verdict(Head(out)))
      BY <1>1 DEF Receive, Verdict, Verdicts
    <2>4. /\ out' \in Seq(Ids) /\ back' \in Seq([of: Ids, says: Verdicts])
          /\ Acked'
      BY <1>0, <2>1, <2>2, <2>3, AnswerKeeps
    <2>5. UNCHANGED <<msgs, outbox, done, cancelled, told, task, rows, owner, old>>
      BY <2>3 DEF Answer, sender, flusher
    <2>6. QED
      BY <1>0, <2>1, <2>2, <2>4, <2>5, ReceiverKeeps
  <1>2. ASSUME NEW says \in {"busy", "denied"}, ReceiveRejects(says)
        PROVE  ChatInv'
    <2>1. /\ out # <<>> /\ Answer(Head(out), says) /\ Fault
          /\ got' = got /\ Received' = Received
      BY <1>2 DEF ReceiveRejects, receiver, Received
    <2>2. says \in Verdicts /\ says # "durable"
      BY DEF Verdicts
    <2>3. /\ out' \in Seq(Ids) /\ back' \in Seq([of: Ids, says: Verdicts])
          /\ Acked'
      BY <1>0, <2>1, <2>2, AnswerKeeps
    <2>4. UNCHANGED <<msgs, outbox, done, cancelled, told, task, rows, owner, old>>
      BY <2>1 DEF Answer, sender, flusher
    <2>5. QED
      BY <1>0, <2>1, <2>3, <2>4, ReceiverKeeps
  <1>3. ASSUME NEW n \in old, ReceiveLate(n)
        PROVE  ChatInv'
    <2>1. /\ n \in Ids /\ Commit(n) /\ old' \subseteq Ids
          /\ UNCHANGED <<msgs, outbox, done, cancelled, told, task, rows, owner>>
          /\ UNCHANGED <<out, back, budget>>
      BY <1>0, <1>3 DEF ReceiveLate, sender, flusher
    <2>2. got' \in Seq(Ids) /\ Received \subseteq Received'
      BY <1>0, <2>1, CommitKeeps
    <2>3. Acked'
      BY <1>0, <2>1, <2>2 DEF Acked
    <2>4. QED
      BY <1>0, <2>1, <2>2, <2>3, ReceiverKeeps
  <1>4. QED
    BY <1>1, <1>2, <1>3

-----------------------------------------------------------------------------
\* The inductive invariant of the chat: shapes, durable ACKs on their way name
\* commits (the receiver answers after its transaction), promises are kept.
THEOREM ChatInvariant == Spec => []ChatInv
  <1>1. ChatInv /\ [Next]_vars => ChatInv'
    <2> SUFFICES ASSUME ChatInv, [Next]_vars PROVE ChatInv'
      OBVIOUS
    <2>1. CASE Next
      BY <2>1, UserSteps, SendSteps, ReceiverSteps DEF Next
    <2>2. CASE UNCHANGED vars
      BY <2>2 DEF vars, sender, flusher, wire, receiver, ChatInv, Shape, Fresh,
         Acked, AcceptedIsKept, Known, Received, Pending, Flush, Ids
    <2>3. QED
      BY <2>1, <2>2
  <1>2. QED
    BY <1>1, ChatInit, PTL DEF Spec

\* What api_send, send_edit, send_delete and send_reaction accepted is never
\* lost, for any number of messages, faults and crashes.
THEOREM ChatAcceptedIsKept == Spec => []AcceptedIsKept
  <1>1. ChatInv => AcceptedIsKept
    BY DEF ChatInv
  <1>2. QED
    BY <1>1, ChatInvariant, PTL

-----------------------------------------------------------------------------
(***************************************************************************)
(* The two views of a text.                                                *)
(***************************************************************************)

\* The kinds that set the body, and those that set the reaction.
BodyKinds == {"text", "edit"}
MarkKinds == {"add", "remove"}

\* Message n is one of the kinds ks and about the text t.
On(n, t, ks) == msgs[n].target = t /\ msgs[n].kind \in ks

\* Only messages that exist are queued, sent or received.
Sent ==
    /\ outbox \in Seq(Known) /\ rows \in Seq(Known) /\ out \in Seq(Known)
    /\ old \subseteq Known /\ got \in Seq(Known)

\* A text is about itself and an action about an earlier text.
Targets ==
    \A n \in Known :
        \/ msgs[n].kind = "text" /\ msgs[n].target = n
        \/ msgs[n].kind # "text" /\ msgs[n].target \in Texts /\ msgs[n].target < n

\* The sender's last edit of t, its deletion and its last reaction.
MyBody(t, b) ==
    /\ b \in Known /\ On(b, t, BodyKinds)
    /\ \A n \in Known : On(n, t, BodyKinds) => n <= b
MyDelete(t) == \E n \in Known : On(n, t, {"delete"})
MyMark(t) ==
    \E n \in Known : /\ On(n, t, {"add"})
                     /\ \A m \in Known : On(m, t, MarkKinds) => m <= n

\* The sender shows a text as it was changed last.
MineFits ==
    /\ \A t \in Texts : MyBody(t, mine[t].body)
    /\ \A t \in Ids \ silent : /\ mine[t].gone <=> MyDelete(t)
                               /\ mine[t].mark <=> MyMark(t)

\* The edit of t that was committed last in g, the deletion and the reaction
\* that was committed last.
BodyIn(g, t, b) ==
    \E i \in DOMAIN g :
        /\ b = g[i] /\ On(b, t, BodyKinds)
        /\ \A j \in DOMAIN g : On(g[j], t, BodyKinds) => j <= i
        /\ b = t => \A j \in DOMAIN g : ~On(g[j], t, {"edit"})
DeleteIn(g, t) == \E i \in DOMAIN g : On(g[i], t, {"delete"})
MarkIn(g, t) ==
    \E i \in DOMAIN g : /\ On(g[i], t, {"add"})
                        /\ \A j \in DOMAIN g : On(g[j], t, MarkKinds) => j <= i

\* The receiver shows a text as the commits changed it last; it commits nothing
\* about a text before the text.
TheirsFit ==
    /\ \A n \in Received : msgs[n].target \in Received
    /\ \A t \in Texts \cap Received : BodyIn(got, t, theirs[t].body)
    /\ \A t \in Ids : /\ theirs[t].gone <=> DeleteIn(got, t)
                      /\ theirs[t].mark <=> MarkIn(got, t)

\* How a text reads on either side.
View == [body: Nat, gone: BOOLEAN, mark: BOOLEAN]
Views == mine \in [Ids -> View] /\ theirs \in [Ids -> View] /\ silent \subseteq Texts

ViewInv == Sent /\ Targets /\ Views /\ MineFits /\ TheirsFit

-----------------------------------------------------------------------------
\* What an action does to a text.
LEMMA Applied ==
    ASSUME NEW v \in View, NEW kind \in Kinds, NEW n \in Nat
    PROVE  /\ Apply(v, kind, n) \in View
           /\ kind \in BodyKinds => Apply(v, kind, n).body = n
           /\ kind \notin BodyKinds => Apply(v, kind, n).body = v.body
           /\ kind = "delete" => Apply(v, kind, n).gone
           /\ kind # "delete" => Apply(v, kind, n).gone = v.gone
           /\ kind = "add" => Apply(v, kind, n).mark
           /\ kind = "remove" => ~Apply(v, kind, n).mark
           /\ kind \notin MarkKinds => Apply(v, kind, n).mark = v.mark
  <1>1. kind \in {"text", "edit", "delete", "add", "remove"}
    BY ChatAssumption DEF Kinds
  <1>2. CASE kind \in {"text", "edit"}
    <2>1. Apply(v, kind, n) = [v EXCEPT !.body = n]
      BY <1>2 DEF Apply
    <2>2. QED
      BY <1>2, <2>1 DEF View, BodyKinds, MarkKinds
  <1>3. CASE kind = "delete"
    <2>1. Apply(v, kind, n) = [v EXCEPT !.gone = TRUE]
      BY <1>3 DEF Apply
    <2>2. QED
      BY <1>3, <2>1 DEF View, BodyKinds, MarkKinds
  <1>4. CASE kind \in {"add", "remove"}
    <2>1. Apply(v, kind, n) = [v EXCEPT !.mark = (kind = "add")]
      BY <1>4 DEF Apply
    <2>2. QED
      BY <1>4, <2>1 DEF View, BodyKinds, MarkKinds
  <1>5. QED
    BY <1>1, <1>2, <1>3, <1>4

\* One more receipt.
LEMMA ReceiptIn ==
    ASSUME NEW S, NEW g \in Seq(S), NEW n \in S, NEW t
    PROVE  /\ On(n, t, {"delete"}) => DeleteIn(Append(g, n), t)
           /\ ~On(n, t, {"delete"}) => (DeleteIn(Append(g, n), t) <=> DeleteIn(g, t))
           /\ On(n, t, {"add"}) => MarkIn(Append(g, n), t)
           /\ On(n, t, {"remove"}) => ~MarkIn(Append(g, n), t)
           /\ ~On(n, t, MarkKinds) => (MarkIn(Append(g, n), t) <=> MarkIn(g, t))
           /\ \A b : ~On(n, t, BodyKinds) /\ BodyIn(g, t, b) => BodyIn(Append(g, n), t, b)
           /\ /\ On(n, t, BodyKinds)
              /\ n = t => ~On(n, t, {"edit"}) /\ \A j \in DOMAIN g : ~On(g[j], t, {"edit"})
              => BodyIn(Append(g, n), t, n)
  <1> DEFINE h == Append(g, n)
             k == Len(g) + 1
  <1>1. /\ DOMAIN h = DOMAIN g \cup {k} /\ k \in DOMAIN h /\ h[k] = n
        /\ \A i \in DOMAIN g : h[i] = g[i] /\ i \in Nat /\ i < k /\ i <= k /\ ~(k <= i) /\ i # k
        /\ k \in Nat /\ k <= k
    OBVIOUS
  <1> HIDE DEF h, k
  <1>2. /\ On(n, t, {"delete"}) => DeleteIn(h, t)
        /\ ~On(n, t, {"delete"}) => (DeleteIn(h, t) <=> DeleteIn(g, t))
    BY <1>1 DEF DeleteIn
  <1>3. On(n, t, {"add"}) => MarkIn(h, t)
    BY <1>1 DEF MarkIn
  <1>4. On(n, t, {"remove"}) => ~MarkIn(h, t)
    <2> SUFFICES ASSUME On(n, t, {"remove"}), NEW i \in DOMAIN h, On(h[i], t, {"add"}),
                        \A j \in DOMAIN h : On(h[j], t, MarkKinds) => j <= i
                 PROVE  FALSE
      BY DEF MarkIn
    <2>1. On(n, t, MarkKinds) /\ ~On(n, t, {"add"})
      BY DEF On, MarkKinds
    <2>2. QED
      BY <1>1, <2>1
  <1>5. ~On(n, t, MarkKinds) => (MarkIn(h, t) <=> MarkIn(g, t))
    <2> SUFFICES ASSUME ~On(n, t, MarkKinds) PROVE MarkIn(h, t) <=> MarkIn(g, t)
      OBVIOUS
    <2>1. ~On(n, t, {"add"})
      BY DEF On, MarkKinds
    <2>2. QED
      BY <1>1, <2>1 DEF MarkIn
  <1>6. ASSUME NEW b, ~On(n, t, BodyKinds), BodyIn(g, t, b) PROVE BodyIn(h, t, b)
    <2>1. PICK i \in DOMAIN g :
            /\ b = g[i] /\ On(b, t, BodyKinds)
            /\ \A j \in DOMAIN g : On(g[j], t, BodyKinds) => j <= i
            /\ b = t => \A j \in DOMAIN g : ~On(g[j], t, {"edit"})
      BY <1>6 DEF BodyIn
    <2>2. ~On(n, t, {"edit"})
      BY <1>6 DEF On, BodyKinds
    <2>3. /\ i \in DOMAIN h /\ b = h[i]
          /\ \A j \in DOMAIN h : On(h[j], t, BodyKinds) => j <= i
          /\ b = t => \A j \in DOMAIN h : ~On(h[j], t, {"edit"})
      BY <1>1, <1>6, <2>1, <2>2
    <2>4. QED
      BY <2>1, <2>3 DEF BodyIn
  <1>7. ASSUME On(n, t, BodyKinds),
               n = t => ~On(n, t, {"edit"}) /\ \A j \in DOMAIN g : ~On(g[j], t, {"edit"})
        PROVE  BodyIn(h, t, n)
    BY <1>1, <1>7 DEF BodyIn
  <1>8. QED
    BY <1>2, <1>3, <1>4, <1>5, <1>6, <1>7 DEF h

\* The rows of a table are rows.
LEMMA RowOf ==
    ASSUME NEW S, NEW s \in Seq(S), NEW i \in 1..Len(s)
    PROVE  s[i] \in S
  OBVIOUS

\* A step that leaves the tables alone leaves the views alone.
LEMMA ViewsUnchanged ==
    ASSUME ViewInv, UNCHANGED <<msgs, mine, silent, got, theirs>>, Sent'
    PROVE  ViewInv'
  BY DEF ViewInv, Targets, Views, MineFits, TheirsFit, MyBody, MyDelete, MyMark, BodyIn,
         DeleteIn, MarkIn, On, Known, Texts, Received, Ids

\* The receiver's commit.
LEMMA CommitViews ==
    ASSUME Shape, ViewInv, NEW n \in Known, Commit(n), UNCHANGED <<msgs, mine, silent>>
    PROVE  Targets' /\ Views' /\ MineFits' /\ TheirsFit' /\ got' \in Seq(Known)
  <1>0. Known \subseteq Ids /\ Ids \subseteq Nat /\ got \in Seq(Known)
    BY KnownInIds, NumberFacts DEF ViewInv, Sent
  <1>1. /\ Known' = Known /\ Texts' = Texts
        /\ \A m, t, ks : On(m, t, ks)' <=> On(m, t, ks)
    BY DEF Known, Texts, On
  <1>2. Targets' /\ MineFits'
    <2>1. /\ Ids' = Ids
          /\ \A u, b : MyBody(u, b)' <=> MyBody(u, b)
          /\ \A u : (MyDelete(u)' <=> MyDelete(u)) /\ (MyMark(u)' <=> MyMark(u))
      BY <1>1 DEF MyBody, MyDelete, MyMark, Ids
    <2>2. MineFits'
      BY <1>1, <2>1 DEF ViewInv, MineFits
    <2>3. Targets'
      BY <1>1 DEF ViewInv, Targets
    <2>4. QED
      BY <2>2, <2>3
  <1>3. CASE n \in Received \/ ~Admits(n)
    <2>1. got' = got /\ theirs' = theirs
      BY <1>3 DEF Commit, receiver
    <2>2. Views' /\ TheirsFit'
      BY <2>1 DEF ViewInv, Views, TheirsFit, BodyIn, DeleteIn, MarkIn, On, Texts, Known, Received, Ids
    <2>3. QED
      BY <1>0, <1>2, <2>1, <2>2
  <1>4. CASE n \notin Received /\ Admits(n)
    <2> DEFINE t == msgs[n].target
               kind == msgs[n].kind
               v == Apply(theirs[t], kind, n)
    <2>1. got' = Append(got, n) /\ theirs' = [theirs EXCEPT ![t] = v]
      BY <1>4 DEF Commit
    <2>2. /\ t \in Ids /\ kind \in Kinds /\ theirs[t] \in View /\ n \in Nat
          /\ theirs \in [Ids -> View]
      <3>0. msgs \in Seq([kind: Kinds, target: Ids]) /\ n \in 1..Len(msgs)
        BY DEF Shape, Known
      <3>1. msgs[n] \in [kind: Kinds, target: Ids]
        BY <3>0, RowOf
      <3>2. QED
        BY <1>0, <3>1 DEF ViewInv, Views
    <2>3. /\ v \in View
          /\ kind \in BodyKinds => v.body = n
          /\ kind \notin BodyKinds => v.body = theirs[t].body
          /\ kind = "delete" => v.gone
          /\ kind # "delete" => v.gone = theirs[t].gone
          /\ kind = "add" => v.mark
          /\ kind = "remove" => ~v.mark
          /\ kind \notin MarkKinds => v.mark = theirs[t].mark
      BY <2>2, Applied
    <2>4. \A u, ks : On(n, u, ks) <=> u = t /\ kind \in ks
      BY DEF On
    <2>5. \/ kind = "text" /\ t = n
          \/ kind # "text" /\ t \in Texts /\ t # n /\ t \in Received
      <3>1. \/ kind = "text" /\ t = n
            \/ kind # "text" /\ t \in Texts /\ t < n
        BY DEF ViewInv, Targets
      <3>2. kind # "text" => t \in Received
        BY <1>4 DEF Admits
      <3>3. t < n => t # n
        BY <1>0, <2>2
      <3>4. QED
        BY <3>1, <3>2, <3>3
    <2> HIDE DEF t, kind, v
    <2>6. got' \in Seq(Known) /\ Received' = Received \cup {n}
      BY <1>0, <2>1, ToSetAppend DEF Received
    <2>7. Views'
      BY <1>1, <2>1, <2>2, <2>3 DEF ViewInv, Views, Ids
    <2>8. \A m \in Received' : msgs[m].target \in Received'
      BY <2>5, <2>6 DEF ViewInv, TheirsFit, t
    <2>9. ASSUME NEW u \in Ids
          PROVE  /\ theirs'[u].gone <=> DeleteIn(Append(got, n), u)
                 /\ theirs'[u].mark <=> MarkIn(Append(got, n), u)
      <3>1. /\ theirs[u].gone <=> DeleteIn(got, u)
            /\ theirs[u].mark <=> MarkIn(got, u)
        BY DEF ViewInv, TheirsFit
      <3>2. /\ On(n, u, {"delete"}) => DeleteIn(Append(got, n), u)
            /\ ~On(n, u, {"delete"}) => (DeleteIn(Append(got, n), u) <=> DeleteIn(got, u))
            /\ On(n, u, {"add"}) => MarkIn(Append(got, n), u)
            /\ On(n, u, {"remove"}) => ~MarkIn(Append(got, n), u)
            /\ ~On(n, u, MarkKinds) => (MarkIn(Append(got, n), u) <=> MarkIn(got, u))
        BY <1>0, ReceiptIn
      <3>3. CASE u # t
        <4>1. theirs'[u] = theirs[u]
          BY <2>1, <2>2, <3>3
        <4>2. QED
          BY <2>4, <3>1, <3>2, <3>3, <4>1
      <3>4. CASE u = t
        <4>1. theirs'[u] = v
          BY <2>1, <2>2, <3>4
        <4>2. v.gone <=> DeleteIn(Append(got, n), u)
          BY <2>3, <2>4, <3>1, <3>2, <3>4
        <4>3. v.mark <=> MarkIn(Append(got, n), u)
          BY <2>3, <2>4, <3>1, <3>2, <3>4 DEF MarkKinds
        <4>4. QED
          BY <4>1, <4>2, <4>3
      <3>5. QED
        BY <3>3, <3>4
    <2>10. ASSUME NEW u \in Texts \cap Received'
           PROVE  BodyIn(Append(got, n), u, theirs'[u].body)
      <3>0. u \in Ids
        BY <1>0 DEF Texts
      <3>1. /\ \A b : ~On(n, u, BodyKinds) /\ BodyIn(got, u, b) => BodyIn(Append(got, n), u, b)
            /\ /\ On(n, u, BodyKinds)
               /\ n = u => ~On(n, u, {"edit"}) /\ \A j \in DOMAIN got : ~On(got[j], u, {"edit"})
               => BodyIn(Append(got, n), u, n)
        BY <1>0, ReceiptIn
      <3>2. CASE u # t
        <4>1. theirs'[u] = theirs[u]
          BY <2>1, <2>2, <3>0, <3>2
        <4>2. u # n
          <5>1. msgs[u].kind = "text"
            BY DEF Texts
          <5>2. QED
            BY <2>5, <3>2, <5>1 DEF kind
        <4>3. BodyIn(got, u, theirs[u].body)
          BY <2>6, <4>2 DEF ViewInv, TheirsFit
        <4>4. QED
          BY <2>4, <3>1, <3>2, <4>1, <4>3
      <3>3. CASE u = t /\ kind \notin BodyKinds
        <4>1. theirs'[u] = v /\ u \in Received
          BY <2>1, <2>2, <2>5, <3>3 DEF BodyKinds
        <4>2. BodyIn(got, u, theirs[u].body)
          BY <4>1 DEF ViewInv, TheirsFit
        <4>3. QED
          BY <2>3, <2>4, <3>1, <3>3, <4>1, <4>2
      <3>4. CASE u = t /\ kind \in BodyKinds
        <4>1. theirs'[u] = v /\ v.body = n
          BY <2>1, <2>2, <2>3, <3>4
        <4>2. ASSUME n = u PROVE ~On(n, u, {"edit"}) /\ \A j \in DOMAIN got : ~On(got[j], u, {"edit"})
          <5>1. kind = "text"
            BY <2>5, <3>4, <4>2
          <5>2. ASSUME NEW j \in DOMAIN got, On(got[j], u, {"edit"}) PROVE FALSE
            <6>1. got[j] \in Received
              BY DEF Received, ToSet
            <6>2. u \in Received
              BY <5>2, <6>1 DEF ViewInv, TheirsFit, On
            <6>3. QED
              BY <1>4, <4>2, <6>2
          <5>3. QED
            BY <2>4, <5>1, <5>2
        <4>3. QED
          BY <2>4, <3>1, <3>4, <4>1, <4>2
      <3>5. QED
        BY <3>2, <3>3, <3>4
    <2>11. TheirsFit'
      <3>1. \A m \in Received' : msgs'[m].target \in Received'
        BY <2>8
      <3>2. \A u, b : BodyIn(got, u, b)' <=> BodyIn(Append(got, n), u, b)
        BY <2>1 DEF BodyIn, On
      <3>3. \A u : DeleteIn(got, u)' <=> DeleteIn(Append(got, n), u)
        BY <2>1 DEF DeleteIn, On
      <3>4. \A u : MarkIn(got, u)' <=> MarkIn(Append(got, n), u)
        BY <2>1 DEF MarkIn, On
      <3>5. Ids' = Ids
        BY DEF Ids
      <3>6. QED
        BY <1>1, <2>9, <2>10, <3>1, <3>2, <3>3, <3>4, <3>5 DEF TheirsFit
    <2>12. QED
      BY <1>2, <2>6, <2>7, <2>11
  <1>5. QED
    BY <1>3, <1>4

\* The sender writes a message: what On says of the others does not change.
LEMMA WriteViews ==
    ASSUME Shape, ViewInv, NEW kind \in Kinds, NEW target \in Ids, Write(kind, target),
           \/ kind = "text" /\ target = Len(msgs) + 1
           \/ kind # "text" /\ target \in Texts,
           UNCHANGED <<silent, got, theirs>>
    PROVE  Targets' /\ Views' /\ MineFits' /\ TheirsFit' /\ Known \subseteq Known'
           /\ Len(msgs') \in Known'
  <1>0. PICK n : n = Len(msgs) + 1
    OBVIOUS
  <1> DEFINE v == Apply(mine[target], kind, n)
  <1>1. /\ Len(msgs') = n /\ n \in Ids /\ Len(msgs) \in Nat
        /\ Known' = Known \cup {n}
        /\ \A m \in Known : msgs'[m] = msgs[m]
        /\ msgs'[n] = [kind |-> kind, target |-> target]
    <2>1. msgs' = Append(msgs, [kind |-> kind, target |-> target]) /\ msgs \in Seq([kind: Kinds, target: Ids])
      BY DEF Write, Shape
    <2>2. msgs'[n] = [kind |-> kind, target |-> target]
      BY <1>0, <2>1
    <2>3. QED
      BY <1>0, <2>2, WriteAppends
  <1>2. mine' = [mine EXCEPT ![target] = v]
    BY <1>0 DEF Write
  <1>3. /\ Known \subseteq Ids /\ Ids \subseteq Nat /\ n \notin Known /\ n \in Nat
        /\ \A m \in Known : m < n /\ m <= n /\ ~(n <= m)
        /\ n <= n
    BY <1>0, <1>1, KnownInIds, NumberFacts DEF Known
  <1>4. /\ mine \in [Ids -> View] /\ mine[target] \in View /\ silent \subseteq Texts
        /\ theirs \in [Ids -> View]
    BY DEF ViewInv, Views
  <1>5. /\ v \in View
        /\ kind \in BodyKinds => v.body = n
        /\ kind \notin BodyKinds => v.body = mine[target].body
        /\ kind = "delete" => v.gone
        /\ kind # "delete" => v.gone = mine[target].gone
        /\ kind = "add" => v.mark
        /\ kind = "remove" => ~v.mark
        /\ kind \notin MarkKinds => v.mark = mine[target].mark
    BY <1>3, <1>4, Applied
  <1> HIDE DEF v
  <1>6. /\ \A m \in Known : \A t, ks : On(m, t, ks)' <=> On(m, t, ks)
        /\ \A t, ks : On(n, t, ks)' <=> t = target /\ kind \in ks
    <2>1. msgs'[n].kind = kind /\ msgs'[n].target = target
      BY <1>1
    <2>2. QED
      BY <1>1, <2>1 DEF On
  <1>7. /\ Texts \subseteq Texts'
        /\ Texts' \subseteq Texts \cup {n} /\ Texts \subseteq Known
        /\ kind # "text" => Texts' = Texts
    <2>1. msgs'[n].kind = kind
      BY <1>1
    <2>2. QED
      BY <1>1, <2>1 DEF Texts
  <1>8. Targets'
    <2>1. ASSUME NEW m \in Known'
          PROVE  \/ msgs'[m].kind = "text" /\ msgs'[m].target = m
                 \/ msgs'[m].kind # "text" /\ msgs'[m].target \in Texts' /\ msgs'[m].target < m
      <3>1. CASE m \in Known
        BY <1>1, <1>7, <3>1 DEF ViewInv, Targets
      <3>2. CASE m = n
        <4>1. msgs'[m].kind = kind /\ msgs'[m].target = target
          BY <1>1, <3>2
        <4>2. CASE kind = "text" /\ target = n
          BY <3>2, <4>1, <4>2
        <4>3. CASE kind # "text" /\ target \in Texts
          <5>1. target \in Texts' /\ target < n
            BY <1>3, <1>7, <4>3
          <5>2. QED
            BY <3>2, <4>1, <4>3, <5>1
        <4>4. QED
          BY <1>0, <4>2, <4>3
      <3>3. QED
        BY <1>1, <3>1, <3>2
    <2>2. QED
      BY <2>1 DEF Targets
  <1>9. Views'
    BY <1>2, <1>4, <1>5, <1>7 DEF Views, Ids
  <1>10. ASSUME NEW m \in Known, NEW t \in Ids, NEW ks, On(m, t, ks)
         PROVE  t \in Known
    BY <1>7, <1>10 DEF ViewInv, Targets, On
  <1>11. ASSUME NEW t \in Texts'
         PROVE  MyBody(t, mine[t].body)'
    <2>0. t \in Ids /\ t \in Texts \cup {n}
      BY <1>1, <1>3, <1>7, <1>11
    <2>1. CASE t # target
      <3>1. mine'[t] = mine[t] /\ t \in Texts
        BY <1>2, <1>4, <1>7, <2>0, <1>11, <1>0, <2>1
      <3>2. MyBody(t, mine[t].body)
        BY <3>1 DEF ViewInv, MineFits
      <3>3. QED
        BY <1>1, <1>6, <2>1, <3>1, <3>2 DEF MyBody
    <2>2. CASE t = target /\ kind \in BodyKinds
      <3>1. mine'[t].body = n
        BY <1>2, <1>4, <1>5, <2>2
      <3>2. On(n, t, BodyKinds)' /\ n \in Known'
        BY <1>1, <1>6, <2>2
      <3>3. QED
        BY <1>1, <1>3, <3>1, <3>2 DEF MyBody
    <2>3. CASE t = target /\ kind \notin BodyKinds
      <3>1. mine'[t].body = mine[t].body /\ t \in Texts
        BY <1>2, <1>4, <1>5, <2>3 DEF BodyKinds
      <3>2. MyBody(t, mine[t].body)
        BY <3>1 DEF ViewInv, MineFits
      <3>3. QED
        BY <1>1, <1>6, <2>3, <3>1, <3>2 DEF MyBody
    <2>4. QED
      BY <2>1, <2>2, <2>3
  <1>12. ASSUME NEW t \in Ids, t \notin silent
         PROVE  (mine'[t].gone <=> MyDelete(t)') /\ (mine'[t].mark <=> MyMark(t)')
    <2>1. (mine[t].gone <=> MyDelete(t)) /\ (mine[t].mark <=> MyMark(t))
      BY <1>12 DEF ViewInv, MineFits
    <2>2. /\ On(n, t, {"delete"})' => MyDelete(t)'
          /\ ~On(n, t, {"delete"})' => (MyDelete(t)' <=> MyDelete(t))
      BY <1>1, <1>6 DEF MyDelete
    <2>3. On(n, t, {"add"})' => MyMark(t)'
      BY <1>1, <1>3 DEF MyMark
    <2>4. On(n, t, {"remove"})' => ~MyMark(t)'
      <3> SUFFICES ASSUME On(n, t, {"remove"})', NEW i \in Known', On(i, t, {"add"})',
                          \A j \in Known' : On(j, t, MarkKinds)' => j <= i
                   PROVE  FALSE
        BY DEF MyMark
      <3>1. kind = "remove" /\ t = target
        BY <1>6
      <3>2. i # n /\ i \in Known /\ On(n, t, MarkKinds)'
        BY <1>1, <1>6, <3>1 DEF MarkKinds
      <3>3. QED
        BY <1>1, <1>3, <3>2
    <2>5. ~On(n, t, MarkKinds)' => (MyMark(t)' <=> MyMark(t))
      <3> SUFFICES ASSUME ~On(n, t, MarkKinds)' PROVE MyMark(t)' <=> MyMark(t)
        OBVIOUS
      <3>1. ~On(n, t, {"add"})'
        BY <1>6 DEF MarkKinds
      <3>2. QED
        BY <1>1, <1>6, <3>1 DEF MyMark
    <2>6. CASE t # target
      <3>1. mine'[t] = mine[t]
        BY <1>2, <1>4, <2>6
      <3>2. QED
        BY <1>6, <2>1, <2>2, <2>5, <2>6, <3>1
    <2>7. CASE t = target
      <3>1. mine'[t] = v
        BY <1>2, <1>4, <2>7
      <3>2. v.gone <=> MyDelete(t)'
        BY <1>5, <1>6, <2>1, <2>2, <2>7
      <3>3. v.mark <=> MyMark(t)'
        BY <1>5, <1>6, <2>1, <2>3, <2>4, <2>5, <2>7 DEF MarkKinds
      <3>4. QED
        BY <3>1, <3>2, <3>3
    <2>8. QED
      BY <2>6, <2>7
  <1>13. MineFits'
    <2>1. Ids' = Ids
      BY DEF Ids
    <2>2. QED
      BY <1>11, <1>12, <2>1 DEF MineFits
  <1>14. TheirsFit'
    <2>1. got \in Seq(Known) /\ Received' = Received /\ Received \subseteq Known
      BY DEF ViewInv, Sent, Received, ToSet
    <2>2. ASSUME NEW i \in DOMAIN got, NEW t, NEW ks PROVE On(got[i], t, ks)' <=> On(got[i], t, ks)
      <3>1. got[i] \in Known
        BY <2>1
      <3>2. msgs'[got[i]] = msgs[got[i]]
        BY <1>1, <3>1
      <3>3. QED
        BY <3>2 DEF On
    <2>3. ASSUME NEW t PROVE (DeleteIn(got, t)' <=> DeleteIn(got, t)) /\ (MarkIn(got, t)' <=> MarkIn(got, t))
      BY <2>2 DEF DeleteIn, MarkIn
    <2>4. ASSUME NEW t \in Texts, NEW b, BodyIn(got, t, b) PROVE BodyIn(got, t, b)'
      BY <2>2, <2>4 DEF BodyIn
    <2>5. Texts' \cap Received \subseteq Texts \cap Received
      BY <1>3, <1>7, <2>1
    <2>6. \A m \in Received : msgs'[m].target \in Received
      BY <1>1, <2>1 DEF ViewInv, TheirsFit
    <2>7. Ids' = Ids
      BY DEF Ids
    <2>8. QED
      BY <2>1, <2>3, <2>4, <2>5, <2>6, <2>7 DEF ViewInv, TheirsFit
  <1>15. QED
    BY <1>1, <1>8, <1>9, <1>13, <1>14

\* A change that is not sent takes the text out of the comparison.
LEMMA OfflineViews ==
    ASSUME Shape, ViewInv, NEW t \in Texts, NEW kind \in Actions, ActOffline(kind, t)
    PROVE  Targets' /\ Views' /\ MineFits' /\ TheirsFit' /\ Known' = Known
  <1>1. /\ UNCHANGED <<msgs, got, theirs>> /\ silent' = silent \cup {t} /\ kind # "edit"
        /\ mine' = [mine EXCEPT ![t] = Apply(mine[t], kind, 0)]
    BY DEF ActOffline, receiver
  <1>2. /\ t \in Ids /\ mine \in [Ids -> View] /\ mine[t] \in View /\ kind \in Kinds
        /\ kind \notin BodyKinds /\ kind # "text"
    BY <1>1, KnownInIds, ChatAssumption DEF Texts, ViewInv, Views, Kinds, BodyKinds
  <1>3. Apply(mine[t], kind, 0) \in View /\ Apply(mine[t], kind, 0).body = mine[t].body
    BY <1>2, Applied
  <1>4. Views'
    BY <1>1, <1>2, <1>3 DEF ViewInv, Views, Ids, Texts, Known
  <1>5. \A u \in Ids : mine'[u].body = mine[u].body /\ (u # t => mine'[u] = mine[u])
    BY <1>1, <1>2, <1>3
  <1>6. /\ Texts' = Texts /\ Known' = Known /\ Ids' = Ids /\ Texts \subseteq Ids
        /\ \A u, b : MyBody(u, b)' <=> MyBody(u, b)
        /\ \A u : (MyDelete(u)' <=> MyDelete(u)) /\ (MyMark(u)' <=> MyMark(u))
    BY <1>1, KnownInIds DEF Texts, Known, Ids, MyBody, MyDelete, MyMark, On
  <1>7. MineFits'
    BY <1>1, <1>5, <1>6 DEF ViewInv, MineFits
  <1>8. Targets' /\ TheirsFit'
    BY <1>1 DEF ViewInv, Targets, TheirsFit, BodyIn, DeleteIn, MarkIn, On, Texts, Known, Received, Ids
  <1>9. QED
    BY <1>4, <1>6, <1>7, <1>8

\* A queue of some messages is a queue of more messages.
LEMMA Widened ==
    ASSUME NEW S, NEW T, S \subseteq T, NEW s \in Seq(S)
    PROVE  s \in Seq(T)
  OBVIOUS

\* enqueue_outbox adds the message it is given.
LEMMA EnqueueSent ==
    ASSUME NEW S, outbox \in Seq(S), NEW n \in S, Enqueue(n)
    PROVE  outbox' \in Seq(S)
  BY DEF Enqueue

\* Removing a row adds nothing.
LEMMA WithoutRowSent ==
    ASSUME NEW S, outbox \in Seq(S), NEW n \in Pending
    PROVE  WithoutRow(n) \in Seq(S)
  <1> DEFINE k == CHOOSE i \in DOMAIN outbox : outbox[i] = n
  <1>1. k \in DOMAIN outbox
    BY DEF Pending, ToSet
  <1>2. WithoutRow(n) = RemoveAt(outbox, k)
    BY DEF WithoutRow
  <1> HIDE DEF k
  <1>3. QED
    BY <1>1, <1>2, ToSetRemoveAt

\* Nor does marking one delivered.
LEMMA MarkSent ==
    ASSUME NEW S, outbox \in Seq(S), NEW n, MarkDelivered(n)
    PROVE  outbox' \in Seq(S)
  BY WithoutRowSent DEF MarkDelivered

\* A failed attempt queues at most its own message.
LEMMA FailedSent ==
    ASSUME NEW S, outbox \in Seq(S), rows \in Seq(S), NEW p, p = Flush \/ p \in S, NEW why, Failed(p, why)
    PROVE  outbox' \in Seq(S) /\ rows' \in Seq(S) /\ UNCHANGED <<msgs, mine, silent>>
  <1>1. CASE p = Flush
    BY <1>1 DEF Failed, FlushStops, sender
  <1>2. CASE p # Flush /\ TriesAgain(p, why)
    BY <1>2 DEF Failed, sender, flusher
  <1>3. CASE p # Flush /\ ~TriesAgain(p, why)
    <2>1. (Fallback(p) \/ GivesUp(p)) /\ UNCHANGED <<msgs, mine, silent, rows>>
      BY <1>3 DEF Failed, flusher
    <2>2. outbox' = outbox \/ Enqueue(p)
      BY <2>1 DEF Fallback, GivesUp
    <2>3. QED
      BY <1>3, <2>1, <2>2, EnqueueSent
  <1>4. QED
    BY <1>1, <1>2, <1>3

\* A successful one queues nothing.
LEMMA SucceededSent ==
    ASSUME NEW S, outbox \in Seq(S), rows \in Seq(S), NEW p, p = Flush => rows # <<>>, Succeeded(p)
    PROVE  outbox' \in Seq(S) /\ rows' \in Seq(S) /\ UNCHANGED <<msgs, mine, silent>>
  <1>1. CASE p = Flush
    <2>1. MarkDelivered(Head(rows)) /\ rows' = Tail(rows) /\ UNCHANGED <<msgs, mine, silent>>
      BY <1>1 DEF Succeeded
    <2>2. rows' \in Seq(S)
      BY <1>1, <2>1
    <2>3. QED
      BY <2>1, <2>2, MarkSent
  <1>2. CASE p # Flush
    <2>1. (outbox' = outbox \/ MarkDelivered(p)) /\ UNCHANGED <<msgs, mine, silent, rows>>
      BY <1>2 DEF Succeeded
    <2>2. QED
      BY <2>1, MarkSent
  <1>3. QED
    BY <1>1, <1>2

\* The flush sends rows of the outbox.
LEMMA SnapshotSent ==
    ASSUME NEW S, outbox \in Seq(S)
    PROVE  Snapshot \in Seq(S)
  <1>1. Len(outbox) \in Nat /\ FlushBatch \in Nat
    BY ChatAssumption
  <1>2. CASE Len(outbox) < FlushBatch
    BY <1>1, <1>2 DEF Snapshot
  <1>3. CASE ~(Len(outbox) < FlushBatch)
    BY <1>1, <1>3 DEF Snapshot
  <1>4. QED
    BY <1>2, <1>3

-----------------------------------------------------------------------------
\* The user writes a text or acts on one.
LEMMA WriteSteps ==
    ASSUME ChatInv, ViewInv,
           \/ SendText \/ SendTextOffline
           \/ \E t \in Texts, kind \in Actions : Act(kind, t)
    PROVE  ViewInv'
  <1>1. Shape /\ Known \subseteq Ids /\ Len(msgs) \in Nat
    BY KnownInIds DEF ChatInv
  <1>2. PICK kind \in Kinds, target \in Ids :
          /\ Write(kind, target)
          /\ \/ kind = "text" /\ target = Len(msgs) + 1
             \/ kind # "text" /\ target \in Texts
    <2>1. CASE SendText \/ SendTextOffline
      <3>1. Write("text", Len(msgs) + 1) /\ "text" \in Kinds
        BY <2>1 DEF SendText, SendTextOffline, Kinds
      <3>2. Len(msgs) + 1 \in Ids
        BY <1>1, <3>1, NumberFacts DEF Write, Shape, Ids
      <3>3. QED
        BY <3>1, <3>2
    <2>2. ASSUME NEW t \in Texts, NEW kind \in Actions, Act(kind, t)
          PROVE  /\ kind \in Kinds /\ t \in Ids /\ Write(kind, t) /\ kind # "text"
      BY <1>1, <2>2, ChatAssumption DEF Act, Kinds, Texts
    <2>3. QED
      BY <2>1, <2>2
  <1>3. /\ UNCHANGED <<silent, got, theirs, rows, out, old>>
        /\ outbox' = outbox \/ Enqueue(Len(msgs'))
    BY DEF SendText, SendTextOffline, Act, flusher, wire, receiver
  <1>4. Targets' /\ Views' /\ MineFits' /\ TheirsFit' /\ Known \subseteq Known' /\ Len(msgs') \in Known'
    BY <1>1, <1>2, <1>3, WriteViews
  <1>5. Sent'
    <2>1. /\ outbox \in Seq(Known') /\ rows \in Seq(Known') /\ out \in Seq(Known')
          /\ got \in Seq(Known') /\ old \subseteq Known'
      BY <1>4, Widened DEF ViewInv, Sent
    <2>2. outbox' \in Seq(Known')
      BY <1>3, <1>4, <2>1, EnqueueSent
    <2>3. QED
      BY <1>3, <2>1, <2>2 DEF Sent
  <1>6. QED
    BY <1>4, <1>5 DEF ViewInv

\* The user resends, cancels, gives up or acts while the peer is offline.
LEMMA OtherUserSteps ==
    ASSUME ChatInv, ViewInv,
           \/ \E n \in Known : ResendText(n) \/ CancelOutbox(n) \/ Abandon(n)
           \/ \E t \in Texts, kind \in Actions : ActOffline(kind, t)
    PROVE  ViewInv'
  <1>1. Sent /\ Shape
    BY DEF ViewInv, ChatInv
  <1>2. ASSUME NEW n \in Known, ResendText(n) \/ CancelOutbox(n) \/ Abandon(n)
        PROVE  ViewInv'
    <2>1. UNCHANGED <<msgs, mine, silent, got, theirs, rows, out, old>>
      BY <1>2 DEF ResendText, CancelOutbox, Abandon, sender, flusher, wire, receiver
    <2>2. outbox' \in Seq(Known)
      <3>1. CASE ResendText(n)
        BY <1>1, <3>1 DEF ResendText, sender, Sent
      <3>2. CASE CancelOutbox(n)
        BY <1>1, <3>2, WithoutRowSent DEF CancelOutbox, Sent
      <3>3. CASE Abandon(n)
        <4>1. outbox' = outbox \/ Enqueue(n)
          BY <3>3 DEF Abandon, Fallback, GivesUp
        <4>2. QED
          BY <1>1, <4>1, EnqueueSent DEF Sent
      <3>4. QED
        BY <1>2, <3>1, <3>2, <3>3
    <2>3. Sent'
      BY <1>1, <2>1, <2>2 DEF Sent, Known
    <2>4. QED
      BY <2>1, <2>3, ViewsUnchanged
  <1>3. ASSUME NEW t \in Texts, NEW kind \in Actions, ActOffline(kind, t)
        PROVE  ViewInv'
    <2>1. Targets' /\ Views' /\ MineFits' /\ TheirsFit' /\ Known' = Known
      BY <1>1, <1>3, OfflineViews
    <2>2. UNCHANGED <<outbox, rows, out, old, got>>
      BY <1>3 DEF ActOffline, flusher, wire, receiver
    <2>3. Sent'
      BY <1>1, <2>1, <2>2 DEF Sent
    <2>4. QED
      BY <2>1, <2>3 DEF ViewInv
  <1>4. QED
    BY <1>2, <1>3

\* The requests and the flush send, read answers, fail and start again.
LEMMA SendingSteps ==
    ASSUME ChatInv, ViewInv,
           \/ \E p \in Processes :
                \/ Step(p) \/ AnswerLost(p)
                \/ \E why \in {"lost", "denied"} : SendFails(p, why)
           \/ FlushTask \/ FlushOffline \/ ApiFlush \/ Contact \/ Crash
    PROVE  ViewInv'
  <1>1. /\ Sent /\ Shape /\ Fresh /\ Known \subseteq Ids /\ <<>> \in Seq(Known)
        /\ outbox \in Seq(Known) /\ rows \in Seq(Known) /\ out \in Seq(Known) /\ old \subseteq Known
        /\ got \in Seq(Known) /\ ToSet(out) \subseteq Known
    BY KnownInIds DEF ViewInv, ChatInv, Sent, ToSet
  <1>2. SUFFICES /\ UNCHANGED <<msgs, mine, silent, got, theirs>>
                 /\ outbox' \in Seq(Known) /\ rows' \in Seq(Known) /\ out' \in Seq(Known)
                 /\ old' \subseteq Known
    <2>1. Known' = Known
      BY <1>2 DEF Known
    <2>2. Sent'
      BY <1>1, <1>2, <2>1 DEF Sent
    <2>3. QED
      BY <1>2, <2>2, ViewsUnchanged
  <1>b. ASSUME NEW p \in Processes, Wants(p) \/ owner = p
        PROVE  (p = Flush \/ p \in Known) /\ (p = Flush => rows # <<>>) /\ FrameOf(p) \in Known
    <2>1. p = Flush \/ p \in Known
      BY <1>1, <1>b, KnownInIds, NumberFacts DEF Fresh, Processes, Wants, Known, Ids
    <2>2. p = Flush => rows # <<>>
      BY <1>1, <1>b DEF Fresh, Wants
    <2>3. rows # <<>> => Head(rows) \in Known
      BY <1>1
    <2>4. QED
      BY <2>1, <2>2, <2>3 DEF FrameOf
  <1>c. ASSUME DropSession PROVE out' \in Seq(Known) /\ old' \subseteq Known
    BY <1>1, <1>c DEF DropSession
  <1>3. ASSUME NEW p \in Processes, SendFrame(p)
        PROVE  /\ UNCHANGED <<msgs, mine, silent, got, theirs>>
               /\ outbox' \in Seq(Known) /\ rows' \in Seq(Known) /\ out' \in Seq(Known)
               /\ old' \subseteq Known
    <2>1. /\ Wants(p) /\ out' = Append(out, FrameOf(p))
          /\ UNCHANGED <<msgs, mine, silent, got, theirs, outbox, rows, old>>
      BY <1>3 DEF SendFrame, sender, flusher, receiver
    <2>2. FrameOf(p) \in Known
      BY <1>b, <2>1
    <2>3. out' \in Seq(Known)
      BY <1>1, <2>1, <2>2
    <2>4. QED
      BY <1>1, <2>1, <2>3
  <1>4. ASSUME NEW p \in Processes, ReadAnswer(p)
        PROVE  /\ UNCHANGED <<msgs, mine, silent, got, theirs>>
               /\ outbox' \in Seq(Known) /\ rows' \in Seq(Known) /\ out' \in Seq(Known)
               /\ old' \subseteq Known
    <2>1. owner = p /\ UNCHANGED <<got, theirs>>
      BY <1>4 DEF ReadAnswer, receiver
    <2>2. (p = Flush \/ p \in Known) /\ (p = Flush => rows # <<>>)
      BY <1>b, <2>1
    <2>3. CASE ~AnswersFrame(p)
      BY <1>1, <1>4, <2>1, <2>3 DEF ReadAnswer, sender, flusher
    <2>4. CASE AnswersFrame(p) /\ Head(back).says = "durable"
      <3>1. Succeeded(p) /\ UNCHANGED <<out, old>>
        BY <1>4, <2>4 DEF ReadAnswer
      <3>2. QED
        BY <1>1, <2>1, <2>2, <3>1, SucceededSent
    <2>5. CASE AnswersFrame(p) /\ Head(back).says # "durable"
      <3>1. Failed(p, Head(back).says) /\ DropSession
        BY <1>4, <2>5 DEF ReadAnswer
      <3>2. QED
        BY <1>1, <1>c, <2>1, <2>2, <3>1, FailedSent
    <2>6. QED
      BY <2>3, <2>4, <2>5
  <1>5. ASSUME NEW p \in Processes, NEW why \in {"lost", "denied"}, SendFails(p, why)
        PROVE  /\ UNCHANGED <<msgs, mine, silent, got, theirs>>
               /\ outbox' \in Seq(Known) /\ rows' \in Seq(Known) /\ out' \in Seq(Known)
               /\ old' \subseteq Known
    <2>1. Wants(p) /\ Failed(p, why) /\ UNCHANGED <<out, old, got, theirs>>
      BY <1>5 DEF SendFails, wire, receiver
    <2>2. p = Flush \/ p \in Known
      BY <1>b, <2>1
    <2>3. QED
      BY <1>1, <2>1, <2>2, FailedSent
  <1>6. ASSUME NEW p \in Processes, AnswerLost(p)
        PROVE  /\ UNCHANGED <<msgs, mine, silent, got, theirs>>
               /\ outbox' \in Seq(Known) /\ rows' \in Seq(Known) /\ out' \in Seq(Known)
               /\ old' \subseteq Known
    <2>1. owner = p /\ Failed(p, "lost") /\ DropSession /\ UNCHANGED <<got, theirs>>
      BY <1>6 DEF AnswerLost, receiver
    <2>2. p = Flush \/ p \in Known
      BY <1>b, <2>1
    <2>3. QED
      BY <1>1, <1>c, <2>1, <2>2, FailedSent
  <1>7. CASE FlushTask \/ ApiFlush \/ FlushOffline \/ Contact
    <2>1. /\ UNCHANGED <<msgs, mine, silent, got, theirs, outbox, out, old>>
          /\ rows' = rows \/ rows' = Snapshot
      BY <1>7 DEF FlushTask, ApiFlush, FlushOffline, Contact, BeginFlush, sender, wire, receiver
    <2>2. Snapshot \in Seq(Known)
      BY <1>1, SnapshotSent
    <2>3. QED
      BY <1>1, <2>1, <2>2
  <1>8. CASE Crash
    <2>1. UNCHANGED <<msgs, mine, silent, got, theirs, outbox>> /\ rows' = <<>> /\ DropSession
      BY <1>8 DEF Crash, sender, receiver
    <2>2. QED
      BY <1>1, <1>c, <2>1
  <1>9. QED
    BY <1>3, <1>4, <1>5, <1>6, <1>7, <1>8 DEF Step

\* The receiver commits, refuses, or reads a late frame.
LEMMA ReceivingSteps ==
    ASSUME ChatInv, ViewInv,
           \/ Receive
           \/ \E says \in {"busy", "denied"} : ReceiveRejects(says)
           \/ \E n \in old : ReceiveLate(n)
    PROVE  ViewInv'
  <1>1. /\ Sent /\ Shape
        /\ outbox \in Seq(Known) /\ rows \in Seq(Known) /\ out \in Seq(Known) /\ old \subseteq Known
    BY DEF ViewInv, ChatInv, Sent
  <1>2. ASSUME NEW n, NEW says, out # <<>>, Answer(n, says)
        PROVE  UNCHANGED <<msgs, mine, silent, outbox, rows, old>> /\ out' \in Seq(Known)
    BY <1>1, <1>2 DEF Answer, sender, flusher
  <1>3. ASSUME NEW n \in Known, Commit(n), UNCHANGED <<msgs, mine, silent, outbox, rows>>,
               old' \subseteq Known, out' \in Seq(Known)
        PROVE  ViewInv'
    <2>1. Targets' /\ Views' /\ MineFits' /\ TheirsFit' /\ got' \in Seq(Known)
      BY <1>1, <1>3, CommitViews
    <2>2. Known' = Known
      BY <1>3 DEF Known
    <2>3. Sent'
      BY <1>1, <1>3, <2>1, <2>2 DEF Sent
    <2>4. QED
      BY <2>1, <2>3 DEF ViewInv
  <1>4. CASE Receive
    <2>1. out # <<>> /\ Commit(Head(out)) /\ Answer(Head(out), Verdict(Head(out)))
      BY <1>4 DEF Receive
    <2>2. Head(out) \in Known
      BY <1>1, <2>1
    <2>3. UNCHANGED <<msgs, mine, silent, outbox, rows, old>> /\ out' \in Seq(Known)
      BY <1>2, <2>1
    <2>4. QED
      BY <1>1, <1>3, <2>1, <2>2, <2>3
  <1>5. ASSUME NEW says \in {"busy", "denied"}, ReceiveRejects(says)
        PROVE  ViewInv'
    <2>1. out # <<>> /\ Answer(Head(out), says) /\ UNCHANGED <<got, theirs>>
      BY <1>5 DEF ReceiveRejects, receiver
    <2>2. UNCHANGED <<msgs, mine, silent, outbox, rows, old>> /\ out' \in Seq(Known)
      BY <1>2, <2>1
    <2>3. Sent'
      BY <1>1, <2>1, <2>2 DEF Sent, Known
    <2>4. QED
      BY <2>1, <2>2, <2>3, ViewsUnchanged
  <1>6. ASSUME NEW n \in old, ReceiveLate(n)
        PROVE  ViewInv'
    <2>1. /\ n \in Known /\ Commit(n) /\ old' \subseteq Known
          /\ UNCHANGED <<msgs, mine, silent, outbox, rows, out>>
      BY <1>1, <1>6 DEF ReceiveLate, sender, flusher
    <2>2. QED
      BY <1>1, <1>3, <2>1
  <1>7. QED
    BY <1>4, <1>5, <1>6

\* Nothing is written and nothing shown at first.
LEMMA ViewInit == Init => ViewInv
  <1> SUFFICES ASSUME Init PROVE ViewInv
    OBVIOUS
  <1>1. Known = {} /\ Texts = {} /\ Received = {} /\ DOMAIN got = {}
    BY DEF Init, Known, Texts, Received, ToSet
  <1>2. Sent /\ Targets
    BY <1>1 DEF Init, Sent, Targets
  <1>3. Unwritten \in View
    BY DEF Unwritten, View
  <1>4. Views
    BY <1>3 DEF Init, Views
  <1>5. ASSUME NEW t \in Ids
        PROVE  /\ ~mine[t].gone /\ ~mine[t].mark /\ ~theirs[t].gone /\ ~theirs[t].mark
               /\ ~MyDelete(t) /\ ~MyMark(t) /\ ~DeleteIn(got, t) /\ ~MarkIn(got, t)
    BY <1>1 DEF Init, Unwritten, MyDelete, MyMark, DeleteIn, MarkIn
  <1>6. MineFits /\ TheirsFit
    BY <1>1, <1>5 DEF MineFits, TheirsFit
  <1>7. QED
    BY <1>2, <1>4, <1>6 DEF ViewInv

\* Committed in order, the views agree.
LEMMA InOrderAgrees ==
    ASSUME Shape, ViewInv, NEW t \in (Texts \cap Received) \ silent, InOrder(t)
    PROVE  theirs[t] = mine[t]
  <1>0. /\ t \in Ids /\ Known \subseteq Nat /\ t \in Known /\ msgs[t].kind = "text"
        /\ got \in Seq(Known) /\ Targets /\ MineFits /\ TheirsFit
    BY KnownInIds, NumberFacts DEF ViewInv, Sent, Texts
  <1>1. /\ \A n \in ActionsOn(t) : \E i \in DOMAIN got : got[i] = n
        /\ \A i \in DOMAIN got : got[i] \in Known /\ i \in Nat
        /\ \A i, j \in DOMAIN got :
             i < j /\ got[i] \in ActionsOn(t) /\ got[j] \in ActionsOn(t) => got[i] < got[j]
    BY <1>0 DEF InOrder, Received, ToSet
  <1>2. \A n \in Known : \A ks : On(n, t, ks) /\ "text" \notin ks => n \in ActionsOn(t)
    BY DEF On, ActionsOn
  <1>3. theirs[t].gone <=> mine[t].gone
    <2>1. (mine[t].gone <=> MyDelete(t)) /\ (theirs[t].gone <=> DeleteIn(got, t))
      BY <1>0 DEF MineFits, TheirsFit
    <2>2. MyDelete(t) <=> DeleteIn(got, t)
      BY <1>1, <1>2 DEF MyDelete, DeleteIn
    <2>3. QED
      BY <2>1, <2>2
  <1>4. theirs[t].mark <=> mine[t].mark
    <2>1. (mine[t].mark <=> MyMark(t)) /\ (theirs[t].mark <=> MarkIn(got, t))
      BY <1>0 DEF MineFits, TheirsFit
    <2>2. /\ \A n \in Known : On(n, t, MarkKinds) => n \in ActionsOn(t)
          /\ \A n : On(n, t, {"add"}) => On(n, t, MarkKinds)
      BY <1>2 DEF MarkKinds, On
    <2>3. ASSUME MyMark(t) PROVE MarkIn(got, t)
      <3>1. PICK n \in Known : /\ On(n, t, {"add"})
                               /\ \A m \in Known : On(m, t, MarkKinds) => m <= n
        BY <2>3 DEF MyMark
      <3>2. PICK i \in DOMAIN got : got[i] = n
        BY <1>1, <2>2, <3>1
      <3>3. ASSUME NEW j \in DOMAIN got, On(got[j], t, MarkKinds) PROVE j <= i
        <4>1. ASSUME i < j PROVE FALSE
          <5>1. got[i] < got[j]
            BY <1>1, <2>2, <3>1, <3>2, <3>3, <4>1
          <5>2. got[j] <= n
            BY <1>1, <3>1, <3>3
          <5>3. n \in Nat /\ got[j] \in Nat
            BY <1>0, <1>1
          <5>4. QED
            BY <3>2, <5>1, <5>2, <5>3
        <4>2. QED
          BY <1>1, <4>1
      <3>4. QED
        BY <3>1, <3>2, <3>3 DEF MarkIn
    <2>4. ASSUME MarkIn(got, t) PROVE MyMark(t)
      <3>1. PICK i \in DOMAIN got : /\ On(got[i], t, {"add"})
                                    /\ \A j \in DOMAIN got : On(got[j], t, MarkKinds) => j <= i
        BY <2>4 DEF MarkIn
      <3>2. ASSUME NEW m \in Known, On(m, t, MarkKinds) PROVE m <= got[i]
        <4>1. PICK j \in DOMAIN got : got[j] = m
          BY <1>1, <2>2, <3>2
        <4>2. j <= i
          BY <3>1, <3>2, <4>1
        <4>3. CASE j = i
          BY <1>0, <4>1, <4>3
        <4>4. CASE j < i
          <5>1. got[j] < got[i]
            BY <1>1, <2>2, <3>1, <3>2, <4>1, <4>4
          <5>2. QED
            BY <1>0, <1>1, <4>1, <5>1
        <4>5. QED
          BY <1>1, <4>2, <4>3, <4>4
      <3>3. QED
        BY <1>1, <3>1, <3>2 DEF MyMark
    <2>5. QED
      BY <2>1, <2>3, <2>4
  <1>5. theirs[t].body = mine[t].body
    <2> DEFINE e == mine[t].body
               b == theirs[t].body
    <2>1. e \in Known /\ On(e, t, BodyKinds) /\ \A n \in Known : On(n, t, BodyKinds) => n <= e
      BY <1>0 DEF MineFits, MyBody
    <2>2. PICK i \in DOMAIN got :
            /\ b = got[i] /\ On(b, t, BodyKinds)
            /\ \A j \in DOMAIN got : On(got[j], t, BodyKinds) => j <= i
            /\ b = t => \A j \in DOMAIN got : ~On(got[j], t, {"edit"})
      BY <1>0 DEF TheirsFit, BodyIn
    <2> HIDE DEF e, b
    <2>3. b \in Known /\ b <= e
      BY <1>1, <2>1, <2>2
    <2>4. ASSUME NEW n \in Known, On(n, t, BodyKinds), n # t
          PROVE  On(n, t, {"edit"}) /\ n \in ActionsOn(t)
      <3>1. msgs[n].kind # "text"
        BY <1>0, <2>4 DEF Targets, On
      <3>2. QED
        BY <2>4, <3>1 DEF On, BodyKinds, ActionsOn
    <2>5. ASSUME b # e PROVE FALSE
      <3>1. CASE e = t
        <4>1. b # t /\ msgs[b].kind # "text"
          BY <2>2, <2>3, <2>4, <2>5, <3>1 DEF ActionsOn
        <4>2. t < b
          BY <1>0, <2>2, <2>3, <4>1 DEF Targets, On
        <4>3. QED
          BY <1>0, <2>3, <3>1, <4>2
      <3>2. CASE e # t
        <4>1. On(e, t, {"edit"}) /\ e \in ActionsOn(t)
          BY <2>1, <2>4, <3>2
        <4>2. PICK j \in DOMAIN got : got[j] = e
          BY <1>1, <4>1
        <4>3. b # t /\ b \in ActionsOn(t)
          BY <2>2, <2>3, <2>4, <4>1, <4>2
        <4>4. j <= i /\ j # i
          BY <2>1, <2>2, <2>5, <4>2
        <4>5. j < i
          BY <1>1, <4>4
        <4>6. e < b
          BY <1>1, <2>2, <4>1, <4>2, <4>3, <4>5
        <4>7. QED
          BY <1>0, <2>1, <2>3, <4>6
      <3>3. QED
        BY <3>1, <3>2
    <2>6. QED
      BY <2>5 DEF e, b
  <1>6. mine[t] \in View /\ theirs[t] \in View
    BY <1>0 DEF ViewInv, Views
  <1>7. QED
    BY <1>3, <1>4, <1>5, <1>6 DEF View

-----------------------------------------------------------------------------
\* The inductive invariant of the two views: each side shows a text as it was
\* changed there last.
THEOREM ViewInvariant == Spec => []ViewInv
  <1>1. ChatInv /\ ViewInv /\ [Next]_vars => ViewInv'
    <2> SUFFICES ASSUME ChatInv, ViewInv, [Next]_vars PROVE ViewInv'
      OBVIOUS
    <2>1. CASE Next
      BY <2>1, WriteSteps, OtherUserSteps, SendingSteps, ReceivingSteps DEF Next
    <2>2. CASE UNCHANGED vars
      <3>1. UNCHANGED <<msgs, mine, silent, got, theirs, outbox, rows, out, old>>
        BY <2>2 DEF vars, sender, flusher, wire, receiver
      <3>2. Sent'
        BY <3>1 DEF ViewInv, Sent, Known
      <3>3. QED
        BY <3>1, <3>2, ViewsUnchanged
    <2>3. QED
      BY <2>1, <2>2
  <1>2. QED
    BY <1>1, ViewInit, ChatInvariant, PTL DEF Spec

\* Once the receiver has committed every action on a text in the order they were
\* taken it shows the text as the sender does (ViewsAgree), whatever is delivered
\* again by retries of the flush and late frames of dropped sessions, for any
\* number of messages, faults and crashes.
THEOREM ChatViewsAgree == Spec => []ViewsAgree
  <1>1. ChatInv /\ ViewInv => ViewsAgree
    BY InOrderAgrees DEF ChatInv, ViewsAgree
  <1>2. QED
    BY <1>1, ChatInvariant, ViewInvariant, PTL

-----------------------------------------------------------------------------
(***************************************************************************)
(* The limits of the tables.                                               *)
(***************************************************************************)

\* What the type of the state says beyond the two invariants above.
Limits ==
    /\ Len(outbox) <= MaxPending
    /\ done \subseteq Known /\ cancelled \subseteq Known
    /\ inflight \in BOOLEAN /\ sched \in BOOLEAN
    /\ owner \in {Nobody} \cup Processes
    /\ \A a \in ToSet(back) : a.of \in Known
    /\ \A t \in Ids : mine[t].body <= MaxMsgs /\ theirs[t].body <= MaxMsgs

\* The outbox is left alone, loses a row, or gets one where it has room.
RowMoves ==
    /\ \/ outbox' = outbox
       \/ HasRoom /\ \E n : outbox' = Append(outbox, n)
       \/ \E n \in Pending : outbox' = WithoutRow(n)
    /\ done' \subseteq done \cup Pending
    /\ cancelled' \subseteq cancelled \cup Pending

\* Removing a row makes the outbox shorter.
LEMMA RowGone ==
    ASSUME Shape, NEW n \in Pending
    PROVE  Len(WithoutRow(n)) < Len(outbox)
  <1>1. PICK k : k = CHOOSE i \in DOMAIN outbox : outbox[i] = n
    OBVIOUS
  <1>2. k \in DOMAIN outbox /\ outbox \in Seq(Ids)
    BY <1>1 DEF Pending, ToSet, Shape
  <1> DEFINE a == SubSeq(outbox, 1, k - 1)
             b == SubSeq(outbox, k + 1, Len(outbox))
  <1>3. k \in 1..Len(outbox) /\ Len(outbox) \in Nat
    BY <1>2
  <1>4. a \in Seq(Ids) /\ Len(a) = k - 1
    BY <1>2, <1>3
  <1>5. b \in Seq(Ids) /\ Len(b) = Len(outbox) - k
    BY <1>2, <1>3
  <1>6. WithoutRow(n) = a \o b
    BY <1>1 DEF WithoutRow, RemoveAt
  <1> HIDE DEF a, b
  <1>7. Len(a \o b) = Len(a) + Len(b)
    BY <1>4, <1>5
  <1>8. QED
    BY <1>3, <1>4, <1>5, <1>6, <1>7

\* How an attempt's end moves the rows.
LEMMA EndMovesRows ==
    ASSUME NEW p, NEW why, Failed(p, why) \/ Succeeded(p)
    PROVE  RowMoves
  <1>1. CASE Failed(p, why)
    <2>1. done' = done /\ cancelled' = cancelled
      BY <1>1 DEF Failed, sender
    <2>2. \/ outbox' = outbox
          \/ HasRoom /\ outbox' = Append(outbox, p)
      BY <1>1 DEF Failed, sender, Fallback, GivesUp, Enqueue
    <2>3. QED
      BY <2>1, <2>2 DEF RowMoves
  <1>2. CASE Succeeded(p)
    <2>1. cancelled' = cancelled
      BY <1>2 DEF Succeeded
    <2>2. \/ outbox' = outbox /\ done' = done
          \/ MarkDelivered(Head(rows))
          \/ MarkDelivered(p)
      BY <1>2 DEF Succeeded
    <2>3. \/ outbox' = outbox /\ done' = done
          \/ \E n \in Pending : outbox' = WithoutRow(n) /\ done' = done \cup {n}
      BY <2>2 DEF MarkDelivered
    <2>4. QED
      BY <2>1, <2>3 DEF RowMoves
  <1>3. QED
    BY <1>1, <1>2

\* Every step moves the rows in one of these ways.
LEMMA NextMovesRows ==
    ASSUME [Next]_vars
    PROVE  RowMoves
  <1>1. ASSUME UNCHANGED <<outbox, done, cancelled>> PROVE RowMoves
    BY <1>1 DEF RowMoves
  <1>2. CASE SendText
    BY <1>1, <1>2 DEF SendText
  <1>3. CASE SendTextOffline
    BY <1>3 DEF SendTextOffline, Enqueue, RowMoves
  <1>4. ASSUME NEW n \in Known, ResendText(n) \/ CancelOutbox(n) \/ Abandon(n)
        PROVE  RowMoves
    <2>1. CASE ResendText(n)
      BY <1>1, <2>1 DEF ResendText, sender
    <2>2. CASE CancelOutbox(n)
      BY <2>2 DEF CancelOutbox, RowMoves
    <2>3. CASE Abandon(n)
      BY <2>3 DEF Abandon, Fallback, GivesUp, Enqueue, RowMoves
    <2>4. QED
      BY <1>4, <2>1, <2>2, <2>3
  <1>5. ASSUME NEW t \in Texts, NEW kind \in Actions, Act(kind, t) \/ ActOffline(kind, t)
        PROVE  RowMoves
    <2>1. CASE Act(kind, t)
      BY <2>1 DEF Act, Enqueue, RowMoves
    <2>2. CASE ActOffline(kind, t)
      BY <1>1, <2>2 DEF ActOffline
    <2>3. QED
      BY <1>5, <2>1, <2>2
  <1>6. ASSUME NEW p \in Processes,
               \/ Step(p) \/ AnswerLost(p)
               \/ \E why \in {"lost", "denied"} : SendFails(p, why)
        PROVE  RowMoves
    <2>1. \/ UNCHANGED <<outbox, done, cancelled>>
          \/ \E why : Failed(p, why) \/ Succeeded(p)
      BY <1>6 DEF Step, SendFrame, ReadAnswer, AnswerLost, SendFails, sender
    <2>2. QED
      BY <1>1, <2>1, EndMovesRows
  <1>7. CASE FlushTask \/ FlushOffline \/ ApiFlush \/ Contact \/ Crash
    BY <1>1, <1>7 DEF FlushTask, FlushOffline, ApiFlush, Contact, Crash, sender
  <1>8. CASE \/ Receive
             \/ \E says \in {"busy", "denied"} : ReceiveRejects(says)
             \/ \E n \in old : ReceiveLate(n)
    BY <1>1, <1>8 DEF Receive, ReceiveRejects, ReceiveLate, Answer, sender
  <1>9. CASE UNCHANGED vars
    BY <1>1, <1>9 DEF vars, sender
  <1>10. QED
    BY <1>2, <1>3, <1>4, <1>5, <1>6, <1>7, <1>8, <1>9 DEF Next

\* The flush's flags, the lock and the answers, as a step leaves them.
SessionMoves ==
    /\ inflight' \in BOOLEAN /\ sched' \in BOOLEAN
    /\ owner' \in {owner, Nobody} \cup Processes
    /\ \/ back' \in {back, <<>>}
       \/ back # <<>> /\ back' = Tail(back)
       \/ out # <<>> /\ \E v \in Verdicts : back' = Append(back, [of |-> Head(out), says |-> v])

\* An attempt's end leaves the flags flags.
LEMMA EndMovesFlags ==
    ASSUME inflight \in BOOLEAN, sched \in BOOLEAN,
           NEW p, NEW why, Failed(p, why) \/ Succeeded(p)
    PROVE  inflight' \in BOOLEAN /\ sched' \in BOOLEAN
  <1>1. CASE Failed(p, why)
    BY <1>1, Zenon DEF Failed, FlushStops, flusher
  <1>2. CASE Succeeded(p)
    <2>1. \/ sched' = (sched \/ ~inflight) /\ inflight' = (Len(rows) > 1)
          \/ sched' = (sched \/ ~inflight) /\ inflight' = TRUE
      BY <1>2, Zenon DEF Succeeded, ScheduleFlush
    <2>2. sched' \in BOOLEAN
      BY <2>1, Zenon
    <2>3. (Len(rows) > 1) \in BOOLEAN
      OBVIOUS
    <2>4. inflight' \in BOOLEAN
      BY <2>1, <2>3, Zenon
    <2>5. QED
      BY <2>2, <2>4
  <1>3. QED
    BY <1>1, <1>2

\* Every step does this to the session and the flush.
LEMMA NextMovesSession ==
    ASSUME inflight \in BOOLEAN, sched \in BOOLEAN, [Next]_vars
    PROVE  SessionMoves
  <1>1. ASSUME UNCHANGED <<inflight, sched, owner, back>> PROVE SessionMoves
    BY <1>1, Zenon DEF SessionMoves
  <1>2. CASE SendText \/ SendTextOffline
    BY <1>1, <1>2 DEF SendText, SendTextOffline, flusher, wire
  <1>3. ASSUME NEW n \in Known, ResendText(n) \/ CancelOutbox(n) \/ Abandon(n)
        PROVE  SessionMoves
    <2>1. CASE ResendText(n) \/ CancelOutbox(n)
      BY <1>1, <2>1 DEF ResendText, CancelOutbox, flusher, wire
    <2>2. CASE Abandon(n)
      <3>1. inflight' = inflight /\ sched' = sched /\ back' = back /\ owner' \in {owner, Nobody}
        BY <2>2 DEF Abandon, flusher
      <3>2. QED
        BY <3>1, Zenon DEF SessionMoves
    <2>3. QED
      BY <1>3, <2>1, <2>2
  <1>4. ASSUME NEW t \in Texts, NEW kind \in Actions, Act(kind, t) \/ ActOffline(kind, t)
        PROVE  SessionMoves
    BY <1>1, <1>4 DEF Act, ActOffline, flusher, wire
  <1>5. ASSUME NEW p \in Processes,
               \/ Step(p) \/ AnswerLost(p)
               \/ \E why \in {"lost", "denied"} : SendFails(p, why)
        PROVE  SessionMoves
    <2>1. CASE SendFrame(p)
      <3>1. inflight' = inflight /\ sched' = sched /\ back' = back /\ owner' = p
        BY <2>1 DEF SendFrame, flusher
      <3>2. QED
        BY <3>1, Zenon DEF SessionMoves
    <2>2. CASE ReadAnswer(p)
      <3>1. back # <<>>
        BY <2>2 DEF ReadAnswer
      <3>2. \/ inflight' = inflight /\ sched' = sched
            \/ \E why : Failed(p, why) \/ Succeeded(p)
        BY <2>2 DEF ReadAnswer, flusher
      <3>3. inflight' \in BOOLEAN /\ sched' \in BOOLEAN
        <4>1. CASE inflight' = inflight /\ sched' = sched
          BY <4>1, Zenon
        <4>2. CASE \E why : Failed(p, why) \/ Succeeded(p)
          BY <4>2, EndMovesFlags
        <4>3. QED
          BY <3>2, <4>1, <4>2
      <3>4. owner' \in {owner, Nobody} /\ back' \in {<<>>, Tail(back)}
        BY <2>2 DEF ReadAnswer, DropSession
      <3>5. QED
        BY <3>1, <3>3, <3>4, Zenon DEF SessionMoves
    <2>3. CASE AnswerLost(p)
      <3>1. inflight' \in BOOLEAN /\ sched' \in BOOLEAN
        BY <2>3, EndMovesFlags DEF AnswerLost
      <3>2. owner' = Nobody /\ back' = <<>>
        BY <2>3 DEF AnswerLost, DropSession
      <3>3. QED
        BY <3>1, <3>2, Zenon DEF SessionMoves
    <2>4. ASSUME NEW why \in {"lost", "denied"}, SendFails(p, why) PROVE SessionMoves
      <3>1. inflight' \in BOOLEAN /\ sched' \in BOOLEAN
        BY <2>4, EndMovesFlags DEF SendFails
      <3>2. owner' = owner /\ back' = back
        BY <2>4 DEF SendFails, wire
      <3>3. QED
        BY <3>1, <3>2, Zenon DEF SessionMoves
    <2>5. QED
      BY <1>5, <2>1, <2>2, <2>3, <2>4 DEF Step
  <1>6. CASE FlushTask \/ FlushOffline \/ ApiFlush \/ Contact
    <2>1. owner' = owner /\ back' = back
      BY <1>6 DEF FlushTask, FlushOffline, ApiFlush, Contact, wire
    <2>2. inflight' \in BOOLEAN /\ sched' \in BOOLEAN
      BY <1>6, Zenon DEF FlushTask, FlushOffline, ApiFlush, Contact, BeginFlush, ScheduleFlush
    <2>3. QED
      BY <2>1, <2>2, Zenon DEF SessionMoves
  <1>7. CASE Crash
    <2>1. owner' = Nobody /\ back' = <<>> /\ inflight' = FALSE /\ sched' = FALSE
      BY <1>7 DEF Crash, DropSession
    <2>2. QED
      BY <2>1, Zenon DEF SessionMoves
  <1>8. ASSUME NEW n, NEW says \in Verdicts, n = Head(out), out # <<>>, Answer(n, says)
        PROVE  SessionMoves
    <2>1. inflight' = inflight /\ sched' = sched /\ owner' = owner
      BY <1>8 DEF Answer, flusher
    <2>2. back' = Append(back, [of |-> Head(out), says |-> says])
      BY <1>8 DEF Answer
    <2>3. QED
      BY <1>8, <2>1, <2>2, Zenon DEF SessionMoves
  <1>9. CASE Receive
    <2>1. Verdict(Head(out)) \in Verdicts
      BY DEF Verdict, Verdicts
    <2>2. QED
      BY <1>8, <1>9, <2>1 DEF Receive
  <1>10. ASSUME NEW says \in {"busy", "denied"}, ReceiveRejects(says) PROVE SessionMoves
    BY <1>8, <1>10 DEF ReceiveRejects, Verdicts
  <1>11. ASSUME NEW n \in old, ReceiveLate(n) PROVE SessionMoves
    BY <1>1, <1>11 DEF ReceiveLate, flusher
  <1>12. CASE UNCHANGED vars
    BY <1>1, <1>12 DEF vars, flusher, wire
  <1>13. QED
    BY <1>2, <1>3, <1>4, <1>5, <1>6, <1>7, <1>9, <1>10, <1>11, <1>12 DEF Next

\* The number an action leaves as the body of a text is one it was given, or
\* the one that was there.
LEMMA BodyStays ==
    ASSUME NEW v \in View, NEW kind \in Kinds, NEW n \in Nat
    PROVE  Apply(v, kind, n).body \in {v.body, n}
  BY Applied

\* The bodies of the sender's texts.
LEMMA NextBodiesHere ==
    ASSUME ChatInv, ViewInv, [Next]_vars, \A t \in Ids : mine[t].body <= MaxMsgs
    PROVE  \A t \in Ids : mine'[t].body <= MaxMsgs
  <1>1. Shape /\ mine \in [Ids -> View] /\ Known \subseteq Ids /\ Len(msgs) \in Nat
    BY KnownInIds DEF ChatInv, ViewInv, Views
  <1>2. MaxMsgs \in Nat
    BY NumberFacts
  <1>3. ASSUME NEW kind \in Kinds, NEW u \in Ids, NEW n \in 0..MaxMsgs,
               mine' = [mine EXCEPT ![u] = Apply(@, kind, n)]
        PROVE  \A t \in Ids : mine'[t].body <= MaxMsgs
    <2>1. mine[u] \in View /\ n \in Nat
      BY <1>1, <1>2, <1>3
    <2>2. Apply(mine[u], kind, n).body \in {mine[u].body, n}
      BY <2>1, BodyStays
    <2>3. \A t \in Ids : mine'[t] = IF t = u THEN Apply(mine[u], kind, n) ELSE mine[t]
      BY <1>1, <1>3
    <2>4. QED
      BY <1>2, <2>2, <2>3
  <1>4. ASSUME NEW kind \in Kinds, NEW u, Write(kind, u), u \in Texts \/ u = Len(msgs) + 1
        PROVE  \A t \in Ids : mine'[t].body <= MaxMsgs
    <2>1. Len(msgs) + 1 \in Ids
      BY <1>1, <1>4, NumberFacts DEF Write, Shape, Ids
    <2>2. u \in Ids /\ Len(msgs) + 1 \in 0..MaxMsgs
      <3>1. Texts \subseteq Ids
        BY <1>1 DEF Texts
      <3>2. Len(msgs) + 1 \in 0..MaxMsgs
        BY <1>2, <2>1 DEF Ids
      <3>3. QED
        BY <1>4, <2>1, <3>1, <3>2
    <2>3. mine' = [mine EXCEPT ![u] = Apply(@, kind, Len(msgs) + 1)]
      BY <1>4 DEF Write
    <2>4. QED
      BY <1>3, <2>2, <2>3
  <1>5. CASE SendText \/ SendTextOffline
    BY <1>4, <1>5 DEF SendText, SendTextOffline, Kinds
  <1>6. ASSUME NEW n \in Known, ResendText(n) \/ CancelOutbox(n) \/ Abandon(n)
        PROVE  mine' = mine
    BY <1>6 DEF ResendText, CancelOutbox, Abandon, sender
  <1>7. ASSUME NEW u \in Texts, NEW kind \in Actions, Act(kind, u) \/ ActOffline(kind, u)
        PROVE  \A t \in Ids : mine'[t].body <= MaxMsgs
    <2>1. kind \in Kinds /\ u \in Ids /\ 0 \in 0..MaxMsgs
      BY <1>1, <1>2 DEF Kinds, Texts
    <2>2. CASE Act(kind, u)
      BY <1>4, <2>1, <2>2 DEF Act
    <2>3. CASE ActOffline(kind, u)
      <3>1. mine' = [mine EXCEPT ![u] = Apply(@, kind, 0)]
        BY <2>3 DEF ActOffline
      <3>2. QED
        BY <1>3, <2>1, <3>1
    <2>4. QED
      BY <1>7, <2>2, <2>3
  <1>8. ASSUME NEW p \in Processes,
               \/ Step(p) \/ AnswerLost(p)
               \/ \E why \in {"lost", "denied"} : SendFails(p, why)
        PROVE  mine' = mine
    BY <1>8 DEF Step, SendFrame, ReadAnswer, AnswerLost, SendFails, Failed, Succeeded, sender
  <1>9. CASE FlushTask \/ FlushOffline \/ ApiFlush \/ Contact \/ Crash
    BY <1>9 DEF FlushTask, FlushOffline, ApiFlush, Contact, Crash, sender
  <1>10. CASE \/ Receive
              \/ \E says \in {"busy", "denied"} : ReceiveRejects(says)
              \/ \E n \in old : ReceiveLate(n)
    BY <1>10 DEF Receive, ReceiveRejects, ReceiveLate, Answer, sender
  <1>11. CASE UNCHANGED vars
    BY <1>11 DEF vars, sender
  <1>12. QED
    BY <1>5, <1>6, <1>7, <1>8, <1>9, <1>10, <1>11 DEF Next

\* The bodies of the receiver's texts.
LEMMA NextBodiesThere ==
    ASSUME ChatInv, ViewInv, [Next]_vars, \A t \in Ids : theirs[t].body <= MaxMsgs
    PROVE  \A t \in Ids : theirs'[t].body <= MaxMsgs
  <1>1. /\ Shape /\ theirs \in [Ids -> View] /\ Known \subseteq Ids
        /\ out \in Seq(Known) /\ old \subseteq Known
    BY KnownInIds DEF ChatInv, ViewInv, Views, Sent
  <1>2. MaxMsgs \in Nat
    BY NumberFacts
  <1>3. ASSUME NEW n \in Known, Commit(n) PROVE \A t \in Ids : theirs'[t].body <= MaxMsgs
    <2>1. CASE UNCHANGED receiver
      BY <2>1 DEF receiver
    <2>2. CASE theirs' = [theirs EXCEPT ![msgs[n].target] = Apply(@, msgs[n].kind, n)]
      <3>1. /\ msgs[n] \in [kind: Kinds, target: Ids]
            /\ n \in Nat /\ n <= MaxMsgs
        <4>1. n \in 1..Len(msgs) /\ msgs \in Seq([kind: Kinds, target: Ids])
          BY <1>1 DEF Shape, Known
        <4>2. msgs[n] \in [kind: Kinds, target: Ids]
          BY <4>1, RowOf
        <4>3. n \in Ids
          BY <1>1
        <4>4. QED
          BY <1>2, <4>2, <4>3 DEF Ids
      <3>2. PICK u \in Ids, kind \in Kinds : u = msgs[n].target /\ kind = msgs[n].kind
        BY <3>1
      <3>3. theirs[u] \in View
        BY <1>1
      <3>4. Apply(theirs[u], kind, n).body \in {theirs[u].body, n}
        BY <3>1, <3>3, BodyStays
      <3>5. \A t \in Ids : theirs'[t] = IF t = u THEN Apply(theirs[u], kind, n) ELSE theirs[t]
        BY <1>1, <2>2, <3>2
      <3>6. QED
        BY <3>1, <3>4, <3>5
    <2>3. QED
      BY <1>3, <2>1, <2>2 DEF Commit
  <1>4. CASE Receive
    <2>1. out # <<>> /\ Commit(Head(out))
      BY <1>4 DEF Receive
    <2>2. Head(out) \in Known
      BY <1>1, <2>1
    <2>3. QED
      BY <1>3, <2>1, <2>2
  <1>5. ASSUME NEW n \in old, ReceiveLate(n)
        PROVE  \A t \in Ids : theirs'[t].body <= MaxMsgs
    BY <1>1, <1>3, <1>5 DEF ReceiveLate
  <1>6. CASE \/ SendText \/ SendTextOffline
             \/ \E n \in Known : ResendText(n) \/ CancelOutbox(n) \/ Abandon(n)
             \/ \E t \in Texts, kind \in Actions : Act(kind, t) \/ ActOffline(kind, t)
    BY <1>6 DEF SendText, SendTextOffline, ResendText, CancelOutbox, Abandon, Act, ActOffline,
                receiver
  <1>7. CASE \/ \E p \in Processes :
                   \/ Step(p) \/ AnswerLost(p)
                   \/ \E why \in {"lost", "denied"} : SendFails(p, why)
             \/ FlushTask \/ FlushOffline \/ ApiFlush \/ Contact \/ Crash
             \/ \E says \in {"busy", "denied"} : ReceiveRejects(says)
             \/ UNCHANGED vars
    BY <1>7 DEF Step, SendFrame, ReadAnswer, AnswerLost, SendFails, FlushTask, FlushOffline,
                ApiFlush, Contact, Crash, ReceiveRejects, vars, receiver
  <1>8. QED
    BY <1>4, <1>5, <1>6, <1>7 DEF Next

\* Messages are only added.
LEMMA KnownGrows ==
    ASSUME Shape, [Next]_vars
    PROVE  Known \subseteq Known'
  <1>1. msgs' = msgs \/ \E m : msgs' = Append(msgs, m)
    BY DEF Next, SendText, SendTextOffline, Act, Write, ResendText, CancelOutbox, Abandon,
           ActOffline, Step, SendFrame, ReadAnswer, AnswerLost, SendFails, Failed, Succeeded,
           FlushTask, FlushOffline, ApiFlush, Contact, Crash, Receive, ReceiveRejects,
           ReceiveLate, Answer, sender, vars
  <1>2. ASSUME NEW m, msgs' = Append(msgs, m) PROVE Len(msgs') = Len(msgs) + 1 /\ Len(msgs) \in Nat
    BY <1>2 DEF Shape
  <1>3. QED
    BY <1>1, <1>2 DEF Known

\* Every step keeps the limits.
LEMMA NextKeepsLimits ==
    ASSUME ChatInv, ViewInv, Limits, [Next]_vars
    PROVE  Limits'
  <1>1. Shape /\ outbox \in Seq(Ids) /\ out \in Seq(Known) /\ outbox \in Seq(Known)
    BY DEF ChatInv, Shape, ViewInv, Sent
  <1>2. RowMoves /\ SessionMoves /\ Known \subseteq Known'
    BY <1>1, NextMovesRows, NextMovesSession, KnownGrows DEF Limits
  <1>3. Len(outbox') <= MaxPending
    <2>1. Len(outbox) \in Nat /\ MaxPending \in Nat /\ Len(outbox) <= MaxPending
      BY <1>1, ChatAssumption DEF Limits
    <2>2. ASSUME HasRoom, NEW n, outbox' = Append(outbox, n) PROVE Len(outbox') <= MaxPending
      <3>1. Len(outbox') = Len(outbox) + 1
        BY <1>1, <2>2
      <3>2. QED
        BY <2>1, <2>2, <3>1 DEF HasRoom
    <2>3. ASSUME NEW n \in Pending, outbox' = WithoutRow(n) PROVE Len(outbox') <= MaxPending
      <3>1. Len(outbox') < Len(outbox)
        BY <1>1, <2>3, RowGone
      <3>2. outbox' \in Seq(Ids)
        BY <1>1, <2>3, WithoutRowKeeps
      <3>3. QED
        BY <2>1, <3>1, <3>2
    <2>4. QED
      BY <1>2, <2>1, <2>2, <2>3 DEF RowMoves
  <1>4. done' \subseteq Known' /\ cancelled' \subseteq Known'
    <2>1. Pending \subseteq Known
      BY <1>1 DEF Pending, ToSet
    <2>2. QED
      BY <1>2, <2>1 DEF RowMoves, Limits
  <1>5. inflight' \in BOOLEAN /\ sched' \in BOOLEAN
    BY <1>2, Zenon DEF SessionMoves
  <1>6. owner' \in {Nobody} \cup Processes
    BY <1>2, Zenon DEF SessionMoves, Limits
  <1>7. \A a \in ToSet(back') : a.of \in Known'
    <2>1. back \in Seq([of: Ids, says: Verdicts]) /\ Known \subseteq Ids
      BY <1>1, KnownInIds DEF Shape
    <2>2. \A a \in ToSet(back) : a.of \in Known'
      BY <1>2 DEF Limits
    <2>3. CASE back' \in {back, <<>>}
      BY <2>2, <2>3 DEF ToSet
    <2>4. CASE back # <<>> /\ back' = Tail(back)
      BY <2>1, <2>2, <2>4, ToSetTail
    <2>5. ASSUME out # <<>>, NEW v \in Verdicts, back' = Append(back, [of |-> Head(out), says |-> v])
          PROVE  \A a \in ToSet(back') : a.of \in Known'
      <3>1. Head(out) \in Known
        BY <1>1, <2>5
      <3>2. PICK e : e = [of |-> Head(out), says |-> v]
        OBVIOUS
      <3>3. e \in [of: Ids, says: Verdicts] /\ e.of \in Known'
        BY <1>2, <2>1, <3>1, <3>2
      <3>4. ToSet(back') = ToSet(back) \cup {e}
        <4>1. PICK R : R = [of: Ids, says: Verdicts]
          OBVIOUS
        <4>2. back \in Seq(R) /\ e \in R /\ back' = Append(back, e)
          BY <2>1, <2>5, <3>2, <3>3, <4>1
        <4>3. ToSet(Append(back, e)) = ToSet(back) \cup {e}
          BY ONLY <4>2, ToSetAppend
        <4>4. QED
          BY <4>2, <4>3
      <3>5. QED
        BY <2>2, <3>3, <3>4
    <2>6. QED
      BY <1>2, <2>3, <2>4, <2>5 DEF SessionMoves
  <1>8. \A t \in Ids : mine'[t].body <= MaxMsgs /\ theirs'[t].body <= MaxMsgs
    BY NextBodiesHere, NextBodiesThere DEF Limits
  <1>9. QED
    BY <1>3, <1>4, <1>5, <1>6, <1>7, <1>8 DEF Limits, Ids, Processes, Flush, Nobody

\* The tables start empty.
LEMMA InitLimits == Init => Limits
  <1> SUFFICES ASSUME Init PROVE Limits
    OBVIOUS
  <1>1. Len(outbox) <= MaxPending
    BY ChatAssumption DEF Init
  <1>2. inflight \in BOOLEAN /\ sched \in BOOLEAN
    BY Zenon DEF Init
  <1>3. done \subseteq Known /\ cancelled \subseteq Known /\ owner \in {Nobody} \cup Processes
    BY DEF Init
  <1>4. \A a \in ToSet(back) : a.of \in Known
    BY DEF Init, ToSet
  <1>5. \A t \in Ids : mine[t].body <= MaxMsgs /\ theirs[t].body <= MaxMsgs
    BY NumberFacts DEF Init, Unwritten
  <1>6. QED
    BY <1>1, <1>2, <1>3, <1>4, <1>5 DEF Limits

\* The state of sender, session and receiver is well typed; in particular the
\* outbox stays within max_pending, although several requests, the flush and
\* the user add and remove rows in any order, and only messages that exist are
\* queued, sent, acknowledged or received.
THEOREM ChatTypeCorrect == Spec => []TypeOK
  <1>1. ASSUME ChatInv, ViewInv, Limits PROVE TypeOK
    <2>1. Shape /\ Known \subseteq Ids /\ Len(msgs) \in Nat /\ MaxMsgs \in Nat
      BY <1>1, KnownInIds, NumberFacts DEF ChatInv
    <2>2. budget \in [msgs: 0..MaxMsgs, faults: Nat] /\ Len(msgs) <= MaxMsgs
      <3>1. budget \in [msgs: Nat, faults: Nat] /\ Len(msgs) + budget.msgs <= MaxMsgs
        BY <2>1 DEF Shape
      <3>2. budget.msgs \in 0..MaxMsgs /\ Len(msgs) <= MaxMsgs
        BY <2>1, <3>1
      <3>3. QED
        BY <3>1, <3>2
    <2>3. msgs \in BoundedSeq([kind: {"text"} \cup Actions, target: Ids], MaxMsgs)
      <3>1. msgs \in [1..Len(msgs) -> [kind: Kinds, target: Ids]]
        <4>1. PICK R : R = [kind: Kinds, target: Ids]
          OBVIOUS
        <4>2. msgs \in Seq(R)
          BY <2>1, <4>1 DEF Shape
        <4>3. msgs \in [1..Len(msgs) -> R]
          BY ONLY <4>2
        <4>4. QED
          BY <4>1, <4>3
      <3>2. Len(msgs) \in 0..MaxMsgs
        BY <2>1, <2>2
      <3>3. QED
        BY <3>1, <3>2 DEF BoundedSeq, SeqOf, Kinds
    <2>4. /\ mine \in [Ids -> [body: 0..MaxMsgs, gone: BOOLEAN, mark: BOOLEAN]]
          /\ theirs \in [Ids -> [body: 0..MaxMsgs, gone: BOOLEAN, mark: BOOLEAN]]
      <3>1. ASSUME NEW v \in View, v.body <= MaxMsgs
            PROVE  v \in [body: 0..MaxMsgs, gone: BOOLEAN, mark: BOOLEAN]
        BY <2>1, <3>1 DEF View
      <3>2. /\ mine \in [Ids -> View] /\ theirs \in [Ids -> View]
            /\ \A t \in Ids : mine[t].body <= MaxMsgs /\ theirs[t].body <= MaxMsgs
        BY <1>1 DEF ViewInv, Views, Limits
      <3>3. QED
        BY <3>1, <3>2
    <2>5. /\ Pending \subseteq Known /\ Received \subseteq Known /\ old \subseteq Known
          /\ ToSet(rows) \subseteq Known /\ ToSet(out) \subseteq Known
      BY <1>1 DEF ViewInv, Sent, Pending, Received, ToSet
    <2>6. silent \subseteq Known /\ done \subseteq Known /\ cancelled \subseteq Known
      BY <1>1 DEF ViewInv, Views, Texts, Limits
    <2>7. {a.of : a \in ToSet(back)} \subseteq Known /\ Len(outbox) <= MaxPending
      BY <1>1 DEF Limits
    <2>8. {inflight, sched} \subseteq BOOLEAN
      BY <1>1, Zenon DEF Limits
    <2>9. owner \in {Nobody, Flush} \cup Known
      <3>1. owner \in {Nobody, Flush} \cup Ids
        BY <1>1 DEF Limits, Processes
      <3>2. ASSUME owner \in Ids PROVE owner \in Known
        BY <1>1, <2>1, <3>2 DEF ChatInv, Fresh, Known, Ids
      <3>3. QED
        BY <3>1, <3>2
    <2>10. /\ told \in [Ids -> {"none", "sent", "queued", "failed"}]
           /\ task \in [Ids -> {"idle", "first", "again"}]
      BY <2>1 DEF Shape, Answers, Attempts
    <2>11. QED
      BY <2>2, <2>3, <2>4, <2>5, <2>6, <2>7, <2>8, <2>9, <2>10 DEF TypeOK
  <1>2. ChatInv /\ ViewInv /\ Limits /\ [Next]_vars => Limits'
    BY NextKeepsLimits
  <1>3. Spec => []Limits
    BY <1>2, InitLimits, ChatInvariant, ViewInvariant, PTL DEF Spec
  <1>4. QED
    BY <1>1, <1>3, ChatInvariant, ViewInvariant, PTL

=============================================================================
