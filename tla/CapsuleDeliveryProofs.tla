----------------------- MODULE CapsuleDeliveryProofs -----------------------
(***************************************************************************)
(* Safety of capsule delivery for any set of capsules, peers and channels  *)
(* and any number of faults, its refinement of CapsuleContract, and the    *)
(* crash consistency of the repository (CapsuleStore) both sides rest on.  *)
(***************************************************************************)
EXTENDS CapsuleDelivery, CapsuleStore, Sums

Received(c) == rrow[c] = "received"

\* A slot that carries a frame, a running handler or a session has an attempt.
SlotInv ==
    \A k \in Channels :
      /\ h[k] # "idle" => cap[k] \in Capsules
      /\ fwd[k] # NoFrame => cap[k] \in Capsules
      /\ k \in sopen => cap[k] \in Capsules
      /\ reply[k] # {} => cap[k] \in Capsules

\* Whatever will lead to a receipt, or is one, speaks of a durable row: a
\* handler past its commit, a remembered replay, an unread receipt, a receipt
\* being handled and a mark_delivered call left running.
EvidenceInv ==
    /\ \A k \in Channels :
         /\ h[k] \in {"stored", "replayGet", "replied", "offerLoad"} => Received(cap[k])
         /\ h[k] = "staged" => rrow[cap[k]] = "staging"
         /\ "RECEIPT" \in reply[k] => Received(cap[k])
    /\ \A c \in Capsules :
         /\ c \in replay => Received(c)
         /\ task[c] \in {"receipt", "marking", "marked"} => Received(c)
         /\ c \in orphan => Received(c)

\* One store_capsule at a time is between its INSERT and its outcome.
LockInv ==
    \A j, k \in Channels : h[j] = "staged" /\ h[k] = "staged" => j = k

\* Nothing happens to a capsule before it is queued.
QueuedInv ==
    /\ \A c \in Capsules : outbox[c] = "none" =>
         /\ rrow[c] = "none"
         /\ task[c] = "idle"
         /\ c \notin due
    /\ \A k \in Channels : cap[k] \in Capsules => outbox[cap[k]] # "none"

\* The status a receipt handler read is "pending" only if nobody announced the
\* capsule yet, and it announces only what it has marked.
NoticeInv ==
    \A c \in Capsules :
      /\ notified[c] > 0 => outbox[c] = "delivered"
      /\ notified[c] <= 1
      /\ task[c] \in {"marking", "marked"} /\ seen[c] # "delivered" =>
           notified[c] = 0
      /\ task[c] = "marked" => outbox[c] = "delivered"

IndInv ==
    /\ TypeOK /\ SlotInv /\ EvidenceInv /\ LockInv /\ QueuedInv
    /\ NoticeInv /\ DeliveredIsDurable

USE CapsuleAssumption DEF NoFrame

LEMMA InitIndInv == Init => IndInv
  BY DEF Init, IndInv, TypeOK, SlotInv, EvidenceInv, LockInv, QueuedInv,
         NoticeInv, DeliveredIsDurable, Received, TaskPC, HandlerPC

LEMMA NextIndInv == IndInv /\ [Next]_vars => IndInv'
<1> SUFFICES ASSUME IndInv, [Next]_vars PROVE IndInv'
  OBVIOUS
<1> USE DEF IndInv, TypeOK, SlotInv, EvidenceInv, LockInv, QueuedInv,
        NoticeInv, DeliveredIsDurable, Received, TaskPC, HandlerPC,
        senderVars, channelVars, receiverVars, inboundVars
<1>1. ASSUME NEW p \in Peers, DrainCapsuleOutbox(p) PROVE IndInv'
  BY <1>1 DEF DrainCapsuleOutbox
<1>2. ASSUME NEW c \in Capsules, SenderStep(c) PROVE IndInv'
  <2>1. CASE CommitOutbound(c)
    BY <2>1 DEF CommitOutbound
  <2>2. CASE BackoffElapses(c)
    BY <2>2 DEF BackoffElapses
  <2>3. CASE PeerUnreachable(c)
    BY <2>3 DEF PeerUnreachable, Fault
  <2>4. CASE ReceiptGet(c)
    BY <2>4 DEF ReceiptGet
  <2>5. CASE ReceiptMark(c)
    BY <2>5 DEF ReceiptMark, MarkDelivered
  <2>6. CASE ReceiptAnnounce(c)
    BY <2>6 DEF ReceiptAnnounce
  <2>7. CASE RunOrphan(c)
    BY <2>7 DEF RunOrphan, MarkDelivered
  <2>8. CASE SettleRead(c)
    BY <2>8 DEF SettleRead
  <2>9. CASE SettleMark(c)
    BY <2>9 DEF SettleMark, MarkAttemptFailed
  <2>10. QED
    BY <1>2, <2>1, <2>2, <2>3, <2>4, <2>5, <2>6, <2>7, <2>8, <2>9 DEF SenderStep
<1>3. ASSUME NEW c \in Capsules, ExpireInbound(c) PROVE IndInv'
  BY <1>3 DEF ExpireInbound, Fault
<1>4. ASSUME NEW c \in Capsules, NEW k \in Channels, AttemptStep(c, k)
      PROVE  IndInv'
  <2>1. CASE StartDelivery(c, k)
    BY <2>1 DEF StartDelivery
  <2>2. CASE SendFrame(c, k)
    BY <2>2 DEF SendFrame
  <2>3. CASE ReadAck(c, k)
    <3>1. CASE next[c] = Last(c)
      BY <2>3, <3>1 DEF ReadAck
    <3>2. CASE next[c] # Last(c)
      BY SMTT(30), <2>3, <3>2 DEF ReadAck
    <3>3. QED
      BY <3>1, <3>2
  <2>4. CASE AckTimeout(c, k)
    BY <2>4 DEF AckTimeout, Fault
  <2>5. CASE ChannelDown(c, k)
    BY <2>5 DEF ChannelDown
  <2>6. CASE ReadReceipt(c, k)
    BY <2>6 DEF ReadReceipt
  <2>7. CASE RefuseReceipt(c, k)
    BY <2>7 DEF RefuseReceipt, Fault
  <2>8. CASE FrameTimeout(c, k)
    BY <2>8 DEF FrameTimeout, Fault
  <2>9. QED
    BY <1>4, <2>1, <2>2, <2>3, <2>4, <2>5, <2>6, <2>7, <2>8 DEF AttemptStep
<1>5. ASSUME NEW k \in Channels, HandlerStep(k) PROVE IndInv'
  <2>1. CASE HandleRefused(k)
    BY <2>1 DEF HandleRefused, PruneInbound, Pruned, PrunedChunks, Finish
  <2>2. CASE HandleOffer(k)
    BY <2>2 DEF HandleOffer, Accepts, PruneInbound, Pruned, PrunedChunks, Suspend
  <2>3. CASE OfferGet(k)
    <3>1. CASE rrow[cap[k]] = "none" /\ Suspend(k, "offerOpen")
      BY <2>3, <3>1 DEF OfferGet, Suspend
    <3>2. CASE rrow[cap[k]] = "received" /\ Suspend(k, "offerLoad")
      BY <2>3, <3>2 DEF OfferGet, Suspend
    <3>3. CASE rrow[cap[k]] = "staging" /\ Finish(k, {})
      BY <2>3, <3>3 DEF OfferGet, Finish
    <3>4. QED
      BY <2>3, <3>1, <3>2, <3>3 DEF OfferGet
  <2>4. CASE OfferLoad(k)
    BY <2>4 DEF OfferLoad, Remember, Finish
  <2>5. CASE OfferOpen(k)
    BY <2>5 DEF OfferOpen, Finish
  <2>6. CASE HandleChunk(k)
    BY <2>6 DEF HandleChunk, Accepts, PruneInbound, Pruned, PrunedChunks, Finish
  <2>7. CASE HandleComplete(k)
    <3> USE <2>7 DEF HandleComplete, Accepts, Pruned, PrunedChunks
    <3>1. CASE cap[k] \in replay /\ Suspend(k, "replayGet")
      BY <3>1 DEF Suspend
    <3>2. CASE Suspend(k, "storing")
      BY <3>2 DEF Suspend
    <3>3. CASE Finish(k, {})
      BY <3>3 DEF Finish
    <3>4. QED
      BY <3>1, <3>2, <3>3
  <2>8. CASE ReplayGet(k)
    BY <2>8 DEF ReplayGet, Finish, Suspend
  <2>9. CASE ReplayReceipt(k)
    BY <2>9 DEF ReplayReceipt, Finish
  <2>10. CASE StoreBegin(k)
    <3>1. CASE rrow' = [rrow EXCEPT ![cap[k]] = "staging"] /\ Suspend(k, "staged")
      BY <2>10, <3>1 DEF StoreBegin, StoreLockFree, Suspend
    <3>2. CASE rrow' = [rrow EXCEPT ![cap[k]] = "received"] /\ Suspend(k, "stored")
      BY <2>10, <3>2 DEF StoreBegin, StoreLockFree, Suspend
    <3>3. QED
      BY <2>10, <3>1, <3>2 DEF StoreBegin
  <2>11. CASE StoreCommit(k)
    BY <2>11 DEF StoreCommit, Suspend
  <2>12. CASE StoreFail(k)
    BY <2>12 DEF StoreFail, Suspend, Fault
  <2>13. CASE AfterStore(k)
    BY <2>13 DEF AfterStore, CloseInbound, Remember, Finish
  <2>14. CASE AfterStoreFail(k)
    BY <2>14 DEF AfterStoreFail, CloseInbound, Finish
  <2>15. QED
    BY <1>5, <2>1, <2>2, <2>3, <2>4, <2>5, <2>6, <2>7, <2>8, <2>9, <2>10, <2>11,
       <2>12, <2>13, <2>14 DEF HandlerStep
<1>6. ASSUME NEW k \in Channels, Reclaim(k) PROVE IndInv'
  BY <1>6 DEF Reclaim
<1>7. ASSUME NEW p \in Peers, SenderCrash(p) PROVE IndInv'
  BY <1>7 DEF SenderCrash, Fault
<1>8. ASSUME NEW p \in Peers, Revoke(p) \/ Grant(p) PROVE IndInv'
  BY <1>8 DEF Revoke, Grant, Fault
<1>9. CASE ReceiverCrash
  BY <1>9 DEF ReceiverCrash, Fault
<1>10. CASE UNCHANGED vars
  BY <1>10 DEF vars
<1>11. QED
  BY <1>1, <1>2, <1>3, <1>4, <1>5, <1>6, <1>7, <1>8, <1>9, <1>10 DEF Next

LEMMA SpecIndInv == Spec => []IndInv
  BY InitIndInv, NextIndInv, PTL DEF Spec

\* The state of both daemons and of the channels keeps its type.
THEOREM DeliveryTypeCorrect == Spec => []TypeOK
  BY SpecIndInv, PTL DEF IndInv

\* A cleared outbox row implies a durable capsule at the receiver, for every
\* number of crashes, lost channels, late receipts and repeated attempts.
THEOREM DeliveredOnlyIfDurable == Spec => []DeliveredIsDurable
  BY SpecIndInv, PTL DEF IndInv

\* capsule_delivered is broadcast at most once and only for a delivered row.
THEOREM AnnouncementsAreTrue == Spec => []AnnouncedOnceAndTrue
<1>1. IndInv => AnnouncedOnceAndTrue
  BY DEF IndInv, NoticeInv, AnnouncedOnceAndTrue, TypeOK
<1>2. QED
  BY <1>1, SpecIndInv, PTL

----------------------------------------------------------------------------
(* The bounded inbound state.                                              *)

\* The open offers are finitely many, and a finalized assembler has a handler.
AssemblyInv == IsFiniteSet(meta) /\ SlotsBounded /\ NoStrandedAssembler

\* One element more makes a finite set larger by at most one.
LEMMA AddOne ==
  ASSUME NEW S, NEW x, IsFiniteSet(S)
  PROVE  /\ IsFiniteSet(S \cup {x})
         /\ Cardinality(S \cup {x}) <= Cardinality(S) + 1
         /\ Cardinality(S) \in Nat
         /\ Cardinality(S \cup {x}) \in Nat
<1>1. Cardinality(S) \in Nat
  BY FS_CardinalityType
<1>2. /\ IsFiniteSet(S \cup {x})
      /\ Cardinality(S \cup {x}) =
           IF x \in S THEN Cardinality(S) ELSE Cardinality(S) + 1
  BY FS_AddElement
<1>3. QED
  BY <1>1, <1>2

\* Dropping offers keeps the limits.
LEMMA FewerOffers ==
  ASSUME AssemblyInv, TypeOK, meta' \subseteq meta, registry' = meta'
  PROVE  IsFiniteSet(meta') /\ SlotsBounded'
<1>1. IsFiniteSet(meta') /\ Cardinality(meta') <= Cardinality(meta)
  BY FS_Subset DEF AssemblyInv
<1>2. Cardinality(meta') <= InboundMax
  BY <1>1, FS_CardinalityType DEF AssemblyInv, SlotsBounded
<1>3. ASSUME NEW p \in Peers PROVE Cardinality(PeerEntries(p)') <= PerPeerMax
  <2>1. PeerEntries(p)' \subseteq PeerEntries(p)
    BY DEF PeerEntries
  <2>2. PeerEntries(p) \subseteq meta
    BY DEF PeerEntries
  <2>3. IsFiniteSet(PeerEntries(p))
    BY <2>2, FS_Subset DEF AssemblyInv
  <2>4. IsFiniteSet(PeerEntries(p)') /\
        Cardinality(PeerEntries(p)') <= Cardinality(PeerEntries(p))
    BY <2>1, <2>3, FS_Subset
  <2>5. Cardinality(PeerEntries(p)) <= PerPeerMax
    BY DEF AssemblyInv, SlotsBounded
  <2>6. QED
    BY <2>3, <2>4, <2>5, FS_CardinalityType
<1>4. QED
  BY <1>1, <1>2, <1>3 DEF SlotsBounded

\* Admitting an offer that HasCapacity accepts keeps the limits.
LEMMA OneMoreOffer ==
  ASSUME AssemblyInv, TypeOK, NEW c \in Capsules, HasCapacity(c),
         meta' = meta \cup {c}, registry' = registry \cup {c}
  PROVE  IsFiniteSet(meta') /\ SlotsBounded'
<1>1. IsFiniteSet(meta) /\ registry = meta
  BY DEF AssemblyInv, SlotsBounded
<1>2. IsFiniteSet(meta') /\ Cardinality(meta') <= Cardinality(meta) + 1
  BY <1>1, AddOne
<1>3. Cardinality(meta') <= InboundMax
  BY <1>1, <1>2, FS_CardinalityType DEF HasCapacity
<1>4. ASSUME NEW p \in Peers PROVE Cardinality(PeerEntries(p)') <= PerPeerMax
  <2>1. PeerEntries(p) \subseteq meta
    BY DEF PeerEntries
  <2>2. IsFiniteSet(PeerEntries(p))
    BY <1>1, <2>1, FS_Subset
  <2>3. Cardinality(PeerEntries(p)) <= PerPeerMax
    BY DEF AssemblyInv, SlotsBounded
  <2>4. CASE Owner[c] # p
    <3>1. PeerEntries(p)' = PeerEntries(p)
      BY <2>4 DEF PeerEntries
    <3>2. QED
      BY <2>3, <3>1
  <2>5. CASE Owner[c] = p
    <3>1. PeerEntries(p)' = PeerEntries(p) \cup {c}
      BY <2>5 DEF PeerEntries
    <3>2. Cardinality(PeerEntries(p)) < PerPeerMax
      BY <2>5 DEF HasCapacity
    <3>3. /\ Cardinality(PeerEntries(p) \cup {c}) <= Cardinality(PeerEntries(p)) + 1
          /\ Cardinality(PeerEntries(p)) \in Nat
          /\ Cardinality(PeerEntries(p) \cup {c}) \in Nat
      BY <2>2, AddOne
    <3>4. QED
      BY <3>1, <3>2, <3>3
  <2>6. QED
    BY <2>4, <2>5
<1>5. QED
  BY <1>1, <1>2, <1>3, <1>4 DEF SlotsBounded

LEMMA NextAssemblyInv ==
  ASSUME IndInv, AssemblyInv, [Next]_vars
  PROVE  AssemblyInv'
<1> USE DEF IndInv, TypeOK, SlotInv, senderVars, channelVars, receiverVars,
        inboundVars, NoStrandedAssembler
<1>1. ASSUME UNCHANGED <<inboundVars, h>>,
             \A k \in Channels : h[k] # "idle" => cap'[k] = cap[k]
      PROVE  AssemblyInv'
  <2>1. IsFiniteSet(meta') /\ SlotsBounded'
    BY <1>1, FewerOffers DEF AssemblyInv, SlotsBounded
  <2>2. NoStrandedAssembler'
    BY <1>1 DEF AssemblyInv
  <2>3. QED
    BY <2>1, <2>2 DEF AssemblyInv
<1>2. ASSUME NEW p \in Peers, DrainCapsuleOutbox(p) PROVE AssemblyInv'
  BY <1>1, <1>2 DEF DrainCapsuleOutbox
<1>3. ASSUME NEW c \in Capsules, SenderStep(c) PROVE AssemblyInv'
  BY <1>1, <1>3 DEF SenderStep, CommitOutbound, BackoffElapses, PeerUnreachable,
     ReceiptGet, ReceiptMark, ReceiptAnnounce, RunOrphan, SettleRead, SettleMark
<1>4. ASSUME NEW c \in Capsules, ExpireInbound(c) PROVE AssemblyInv'
  <2>1. IsFiniteSet(meta') /\ SlotsBounded'
    BY <1>4, FewerOffers DEF ExpireInbound, AssemblyInv, SlotsBounded
  <2>2. NoStrandedAssembler'
    BY <1>4 DEF ExpireInbound, AssemblyInv
  <2>3. QED
    BY <2>1, <2>2 DEF AssemblyInv
<1>5. ASSUME NEW c \in Capsules, NEW k \in Channels, AttemptStep(c, k)
      PROVE  AssemblyInv'
  <2>1. CASE StartDelivery(c, k)
    BY <1>1, <2>1 DEF StartDelivery
  <2>2. CASE ~StartDelivery(c, k)
    BY <1>1, <1>5, <2>2 DEF AttemptStep, SendFrame, ReadAck, AckTimeout, ChannelDown,
       ReadReceipt, RefuseReceipt, FrameTimeout
  <2>3. QED
    BY <2>1, <2>2
<1>6. ASSUME NEW k \in Channels, HandlerStep(k) PROVE AssemblyInv'
  <2> DEFINE Busy == {"storing", "staged", "stored", "storeFailed"}
  \* a handler that leaves Busy closes its assembler
  <2>1. ASSUME meta' \subseteq meta, registry' = meta', done' \subseteq done,
               UNCHANGED cap,
               \A j \in Channels : j # k => h'[j] = h[j],
               h'[k] \in Busy \/ h[k] \notin Busy \/ cap[k] \notin done'
        PROVE  AssemblyInv'
    <3>1. IsFiniteSet(meta') /\ SlotsBounded'
      BY <2>1, FewerOffers DEF AssemblyInv, SlotsBounded
    <3>2. NoStrandedAssembler'
      BY <2>1 DEF AssemblyInv
    <3>3. QED
      BY <3>1, <3>2 DEF AssemblyInv
  <2>2. registry = meta
    BY DEF AssemblyInv, SlotsBounded
  <2>3. CASE HandleRefused(k)
    BY <2>1, <2>2, <2>3 DEF HandleRefused, PruneInbound, Pruned, Finish
  <2>4. CASE HandleOffer(k)
    BY <2>1, <2>2, <2>4 DEF HandleOffer, Accepts, PruneInbound, Pruned, Suspend
  <2>5. CASE OfferGet(k)
    BY <2>1, <2>2, <2>5 DEF OfferGet, Suspend, Finish
  <2>6. CASE OfferLoad(k)
    BY <2>1, <2>2, <2>6 DEF OfferLoad, Finish
  <2>7. CASE OfferOpen(k)
    <3>1. CASE cap[k] \notin meta /\ HasCapacity(cap[k])
      <4>1. cap[k] \in Capsules
        BY <2>7 DEF OfferOpen
      <4>2. IsFiniteSet(meta') /\ SlotsBounded'
        BY <2>7, <3>1, <4>1, OneMoreOffer DEF OfferOpen
      <4>3. NoStrandedAssembler'
        BY <2>7, <3>1 DEF OfferOpen, Finish, AssemblyInv
      <4>4. QED
        BY <4>2, <4>3 DEF AssemblyInv
    <3>2. CASE ~(cap[k] \notin meta /\ HasCapacity(cap[k]))
      BY <2>1, <2>2, <2>7, <3>2 DEF OfferOpen, Finish
    <3>3. QED
      BY <3>1, <3>2
  <2>8. CASE HandleChunk(k)
    BY <2>1, <2>2, <2>8 DEF HandleChunk, Accepts, PruneInbound, Pruned, Finish
  <2>9. CASE HandleComplete(k)
    <3>1. CASE Verified(cap[k]) /\ Suspend(k, "storing")
      <4>1. IsFiniteSet(meta') /\ SlotsBounded'
        BY <2>2, <2>9, FewerOffers DEF HandleComplete, Pruned
      <4>2. NoStrandedAssembler'
        BY <2>9, <3>1 DEF HandleComplete, Accepts, Pruned, Suspend, AssemblyInv
      <4>3. QED
        BY <4>1, <4>2 DEF AssemblyInv
    <3>2. CASE done' = Pruned(done)
      BY <2>1, <2>2, <2>9, <3>2 DEF HandleComplete, Accepts, Pruned, Suspend, Finish
    <3>3. QED
      BY <2>9, <3>1, <3>2 DEF HandleComplete
  <2>10. CASE ReplayGet(k) \/ ReplayReceipt(k)
    BY <2>1, <2>2, <2>10 DEF ReplayGet, ReplayReceipt, Suspend, Finish
  <2>11. CASE StoreBegin(k) \/ StoreCommit(k) \/ StoreFail(k)
    BY <2>1, <2>2, <2>11 DEF StoreBegin, StoreCommit, StoreFail, Suspend
  <2>12. CASE AfterStore(k) \/ AfterStoreFail(k)
    BY <2>1, <2>2, <2>12 DEF AfterStore, AfterStoreFail, CloseInbound, Finish
  <2>13. QED
    BY <1>6, <2>3, <2>4, <2>5, <2>6, <2>7, <2>8, <2>9, <2>10, <2>11, <2>12
       DEF HandlerStep
<1>7. ASSUME NEW k \in Channels, Reclaim(k) PROVE AssemblyInv'
  BY <1>1, <1>7 DEF Reclaim
<1>8. ASSUME NEW p \in Peers, SenderCrash(p) \/ Revoke(p) \/ Grant(p)
      PROVE  AssemblyInv'
  BY <1>1, <1>8 DEF SenderCrash, Revoke, Grant
<1>9. CASE ReceiverCrash
  <2>1. IsFiniteSet(meta') /\ SlotsBounded'
    BY <1>9, FewerOffers DEF ReceiverCrash
  <2>2. NoStrandedAssembler'
    BY <1>9 DEF ReceiverCrash
  <2>3. QED
    BY <2>1, <2>2 DEF AssemblyInv
<1>10. CASE UNCHANGED vars
  BY <1>1, <1>10 DEF vars
<1>11. QED
  BY <1>2, <1>3, <1>4, <1>5, <1>6, <1>7, <1>8, <1>9, <1>10 DEF Next

LEMMA InitAssemblyInv == Init => AssemblyInv
  BY FS_EmptySet DEF Init, AssemblyInv, SlotsBounded, PeerEntries, NoStrandedAssembler

LEMMA SpecAssemblyInv == Spec => []AssemblyInv
  BY SpecIndInv, InitAssemblyInv, NextAssemblyInv, PTL DEF Spec

\* The number of open offers respects both slot limits, and the accounting and
\* the registry never disagree.
THEOREM InboundSlotsBounded == Spec => []SlotsBounded
  BY SpecAssemblyInv, PTL DEF AssemblyInv

\* No assembler is left finalized without the handler that will close it.
THEOREM AssemblersAreClosed == Spec => []NoStrandedAssembler
  BY SpecAssemblyInv, PTL DEF AssemblyInv

\* A step drops offers, or opens one that HasCapacity admits.
LEMMA OffersChange ==
  ASSUME IndInv, [Next]_vars
  PROVE  \/ meta' \subseteq meta
         \/ \E c \in Capsules : c \notin meta /\ HasCapacity(c) /\ meta' = meta \cup {c}
<1> USE DEF IndInv, TypeOK, SlotInv, senderVars, channelVars, receiverVars, inboundVars
<1>1. ASSUME NEW p \in Peers,
             DrainCapsuleOutbox(p) \/ SenderCrash(p) \/ Revoke(p) \/ Grant(p)
      PROVE  meta' \subseteq meta
  BY <1>1 DEF DrainCapsuleOutbox, SenderCrash, Revoke, Grant
<1>2. ASSUME NEW c \in Capsules, SenderStep(c) \/ ExpireInbound(c)
      PROVE  meta' \subseteq meta
  BY <1>2 DEF SenderStep, CommitOutbound, BackoffElapses, PeerUnreachable, ReceiptGet,
     ReceiptMark, ReceiptAnnounce, RunOrphan, SettleRead, SettleMark, ExpireInbound
<1>3. ASSUME NEW c \in Capsules, NEW k \in Channels, AttemptStep(c, k)
      PROVE  meta' \subseteq meta
  BY <1>3 DEF AttemptStep, StartDelivery, SendFrame, ReadAck, AckTimeout, ChannelDown,
     ReadReceipt, RefuseReceipt, FrameTimeout
<1>4. ASSUME NEW k \in Channels, HandlerStep(k), ~OfferOpen(k)
      PROVE  meta' \subseteq meta
  <2>1. CASE HandleRefused(k) \/ HandleOffer(k) \/ HandleChunk(k) \/ HandleComplete(k)
    BY <2>1 DEF HandleRefused, HandleOffer, HandleChunk, HandleComplete, Accepts,
       PruneInbound, Pruned
  <2>2. CASE OfferGet(k) \/ OfferLoad(k) \/ ReplayGet(k) \/ ReplayReceipt(k)
    BY <2>2 DEF OfferGet, OfferLoad, ReplayGet, ReplayReceipt
  <2>3. CASE StoreBegin(k) \/ StoreCommit(k) \/ StoreFail(k)
    BY <2>3 DEF StoreBegin, StoreCommit, StoreFail
  <2>4. CASE AfterStore(k) \/ AfterStoreFail(k)
    BY <2>4 DEF AfterStore, AfterStoreFail, CloseInbound
  <2>5. QED
    BY <1>4, <2>1, <2>2, <2>3, <2>4 DEF HandlerStep
<1>5. ASSUME NEW k \in Channels, OfferOpen(k)
      PROVE  \/ meta' \subseteq meta
             \/ \E c \in Capsules : c \notin meta /\ HasCapacity(c) /\ meta' = meta \cup {c}
  <2>1. cap[k] \in Capsules
    BY <1>5 DEF OfferOpen
  <2>2. QED
    BY <1>5, <2>1 DEF OfferOpen
<1>6. ASSUME NEW k \in Channels, Reclaim(k) PROVE meta' \subseteq meta
  BY <1>6 DEF Reclaim
<1>7. CASE ReceiverCrash
  BY <1>7 DEF ReceiverCrash
<1>8. CASE UNCHANGED vars
  BY <1>8 DEF vars
<1>9. QED
  BY <1>1, <1>2, <1>3, <1>4, <1>5, <1>6, <1>7, <1>8 DEF Next

\* The bytes of the open offers are numbers, of all and of a peer's.
LEMMA BytesFacts ==
  ASSUME NEW S \in SUBSET Capsules, IsFiniteSet(S)
  PROVE  /\ Bytes(S) \in Nat
         /\ \A T \in SUBSET S : Bytes(T) <= Bytes(S)
         /\ \A c \in Capsules : c \notin S => Bytes(S \cup {c}) = Bytes(S) + Size[c]
<1>1. \A c \in Capsules : Size[c] \in Nat
  BY CapsuleAssumption
<1>2. Sum(Size, S) \in Nat
  BY <1>1, SumNat
<1>3. \A T \in SUBSET S : Sum(Size, T) <= Sum(Size, S)
  BY <1>1, SumPart
<1>4. ASSUME NEW c \in Capsules, c \notin S
      PROVE  Sum(Size, S \cup {c}) = Sum(Size, S) + Size[c]
  <2>1. \A y \in S \cup {c} : Size[y] \in Nat
    BY <1>1
  <2>2. QED
    BY <1>4, <2>1, SumAdds
<1>5. QED
  BY <1>2, <1>3, <1>4 DEF Bytes, Sum

\* Byte budgets survive every step.
LEMMA NextBytesBounded ==
  ASSUME IndInv, AssemblyInv, BytesBounded, [Next]_vars
  PROVE  BytesBounded'
<1>1. /\ meta \in SUBSET Capsules /\ IsFiniteSet(meta)
      /\ BytesMax \in Nat /\ BytesPerPeerMax \in Nat
  BY CapsuleAssumption DEF IndInv, TypeOK, AssemblyInv
<1>2. ASSUME NEW p \in Peers
      PROVE  PeerEntries(p) \in SUBSET Capsules /\ IsFiniteSet(PeerEntries(p))
  <2>1. PeerEntries(p) \in SUBSET meta
    BY DEF PeerEntries
  <2>2. QED
    BY <1>1, <2>1, FS_Subset
<1>3. /\ Bytes(meta) <= BytesMax /\ Bytes(meta) \in Nat
      /\ \A p \in Peers : Bytes(PeerEntries(p)) <= BytesPerPeerMax /\ Bytes(PeerEntries(p)) \in Nat
  BY <1>1, <1>2, BytesFacts DEF BytesBounded
<1>4. ASSUME meta' \subseteq meta PROVE BytesBounded'
  <2>1. Bytes(meta') <= Bytes(meta) /\ Bytes(meta') \in Nat
    <3>1. meta' \in SUBSET Capsules /\ IsFiniteSet(meta')
      BY <1>1, <1>4, FS_Subset
    <3>2. QED
      BY <1>1, <1>4, <3>1, BytesFacts
  <2>2. ASSUME NEW p \in Peers PROVE Bytes(PeerEntries(p)') <= BytesPerPeerMax
    <3>1. PeerEntries(p)' \in SUBSET PeerEntries(p)
      BY <1>4 DEF PeerEntries
    <3>2. PeerEntries(p)' \in SUBSET Capsules /\ IsFiniteSet(PeerEntries(p)')
      BY <1>2, <3>1, FS_Subset
    <3>3. Bytes(PeerEntries(p)') <= Bytes(PeerEntries(p)) /\ Bytes(PeerEntries(p)') \in Nat
      BY <1>2, <3>1, <3>2, BytesFacts
    <3>4. QED
      BY <1>1, <1>3, <3>3
  <2>3. Bytes(meta') <= BytesMax
    BY <1>1, <1>3, <2>1
  <2>4. QED
    BY <2>2, <2>3 DEF BytesBounded, Bytes
<1>5. ASSUME NEW c \in Capsules, c \notin meta, HasCapacity(c), meta' = meta \cup {c}
      PROVE  BytesBounded'
  <2>1. /\ Bytes(meta) + Size[c] <= BytesMax
        /\ Bytes(PeerEntries(Owner[c])) + Size[c] <= BytesPerPeerMax
    BY <1>5 DEF HasCapacity
  <2>2. Bytes(meta') = Bytes(meta) + Size[c]
    BY <1>1, <1>5, BytesFacts
  <2>3. ASSUME NEW p \in Peers PROVE Bytes(PeerEntries(p)') <= BytesPerPeerMax
    <3>1. CASE Owner[c] # p
      <4>1. PeerEntries(p)' = PeerEntries(p)
        BY <1>5, <3>1 DEF PeerEntries
      <4>2. QED
        BY <1>3, <4>1
    <3>2. CASE Owner[c] = p
      <4>1. PeerEntries(p)' = PeerEntries(p) \cup {c} /\ c \notin PeerEntries(p)
        BY <1>5, <3>2 DEF PeerEntries
      <4>2. Bytes(PeerEntries(p) \cup {c}) = Bytes(PeerEntries(p)) + Size[c]
        BY <1>2, <4>1, BytesFacts
      <4>3. QED
        BY <2>1, <3>2, <4>1, <4>2
    <3>3. QED
      BY <3>1, <3>2
  <2>4. QED
    BY <2>1, <2>2, <2>3 DEF BytesBounded, Bytes
<1>6. QED
  BY <1>4, <1>5, OffersChange

\* The declared payload bytes of the open offers stay within the budget of the
\* device and of every peer, although an offer is admitted an await after the
\* accounting was pruned.
THEOREM InboundBytesBounded == Spec => []BytesBounded
<1>1. Init => BytesBounded
  <2>1. ASSUME Init PROVE meta = {} /\ \A p \in Peers : PeerEntries(p) = {}
    BY <2>1 DEF Init, PeerEntries
  <2>2. Bytes({}) = 0
    BY SumEmpty DEF Bytes, Sum
  <2>3. QED
    BY <2>1, <2>2, CapsuleAssumption DEF BytesBounded
<1>2. QED
  BY <1>1, NextBytesBounded, SpecIndInv, SpecAssemblyInv, PTL DEF Spec

----------------------------------------------------------------------------
(* The refinement of CapsuleContract.                                      *)

\* A step that changes no row status is invisible to the contract.
LEMMA SameRowsSameStage ==
  ASSUME outbox' = outbox, rrow' = rrow
  PROVE  UNCHANGED [c \in Capsules |-> Stage(c)]
  BY DEF Stage

\* One capsule moving alone is a step of the contract.
LEMMA StageQueue ==
  ASSUME NEW c \in Capsules, Stage(c) = "none", Stage(c)' = "queued",
         \A d \in Capsules : d # c => Stage(d)' = Stage(d)
  PROVE  Contract!Queue(c)
  BY DEF Contract!Queue

LEMMA StageConfirm ==
  ASSUME NEW c \in Capsules, Stage(c) = "stored", Stage(c)' = "confirmed",
         \A d \in Capsules : d # c => Stage(d)' = Stage(d)
  PROVE  Contract!Confirm(c)
  BY DEF Contract!Confirm

LEMMA StageStore ==
  ASSUME NEW T \in SUBSET Capsules, \A c \in T : Stage(c) = "queued",
         \A c \in Capsules : Stage(c)' = IF c \in T THEN "stored" ELSE Stage(c)
  PROVE  \E S \in SUBSET Capsules : Contract!Store(S)
<1>1. Contract!Store(T)
  BY DEF Contract!Store
<1>2. QED
  BY <1>1

LEMMA NextRefines ==
  ASSUME IndInv, IndInv', [Next]_vars
  PROVE  [Contract!Next]_[c \in Capsules |-> Stage(c)]
<1> DEFINE stageMap == [c \in Capsules |-> Stage(c)]
<1> USE DEF IndInv, TypeOK, SlotInv, EvidenceInv, QueuedInv, DeliveredIsDurable,
        Received, Stage, senderVars, channelVars, receiverVars, inboundVars
<1>1. CASE outbox' = outbox /\ rrow' = rrow
  BY <1>1, SameRowsSameStage
<1>2. ASSUME NEW c \in Capsules, CommitOutbound(c) PROVE Contract!Queue(c)
  <2>1. Stage(c) = "none" /\ Stage(c)' = "queued"
    BY <1>2 DEF CommitOutbound
  <2>2. \A d \in Capsules : d # c => Stage(d)' = Stage(d)
    BY <1>2 DEF CommitOutbound
  <2>3. QED
    BY <2>1, <2>2, StageQueue
<1>3. ASSUME NEW c \in Capsules, ReceiptMark(c) \/ RunOrphan(c)
      PROVE  Contract!Confirm(c) \/ UNCHANGED stageMap
  <2>1. Received(c) /\ rrow' = rrow /\ MarkDelivered(c)
    BY <1>3 DEF ReceiptMark, RunOrphan
  <2>2. CASE outbox[c] = "pending"
    <3>1. Stage(c) = "stored" /\ Stage(c)' = "confirmed"
      BY <2>1, <2>2 DEF MarkDelivered
    <3>2. \A d \in Capsules : d # c => Stage(d)' = Stage(d)
      BY <2>1, <2>2 DEF MarkDelivered
    <3>3. QED
      BY <3>1, <3>2, StageConfirm
  <2>3. CASE outbox[c] # "pending"
    BY <2>1, <2>3, SameRowsSameStage DEF MarkDelivered
  <2>4. QED
    BY <2>2, <2>3
<1>4. ASSUME outbox' = outbox,
             \A c \in Capsules : rrow[c] = "received" => rrow'[c] = "received"
      PROVE  \E S \in SUBSET Capsules : Contract!Store(S)
  <2> DEFINE T == {c \in Capsules : outbox[c] = "pending" /\ rrow[c] # "received"
                                    /\ rrow'[c] = "received"}
  <2>1. \A c \in T : Stage(c) = "queued"
    OBVIOUS
  <2>2. \A c \in Capsules :
          Stage(c)' = IF c \in T THEN "stored" ELSE Stage(c)
    BY <1>4
  <2>3. T \in SUBSET Capsules
    OBVIOUS
  <2> HIDE DEF T
  <2>4. QED
    BY <2>1, <2>2, <2>3, StageStore
<1>5. ASSUME NEW k \in Channels, HandlerStep(k)
      PROVE  outbox' = outbox
             /\ \A c \in Capsules : rrow[c] = "received" => rrow'[c] = "received"
  <2>1. CASE StoreBegin(k) \/ StoreCommit(k) \/ StoreFail(k)
    BY <2>1 DEF StoreBegin, StoreCommit, StoreFail
  <2>2. CASE ~(StoreBegin(k) \/ StoreCommit(k) \/ StoreFail(k))
    BY <1>5, <2>2 DEF HandlerStep, HandleRefused, HandleOffer, OfferGet, OfferLoad,
       OfferOpen, HandleChunk, HandleComplete, ReplayGet, ReplayReceipt, AfterStore,
       AfterStoreFail
  <2>3. QED
    BY <2>1, <2>2
<1>6. CASE ReceiverCrash
  BY <1>4, <1>6 DEF ReceiverCrash, Contract!Next
<1>7. ASSUME NEW c \in Capsules, SenderStep(c) \/ ExpireInbound(c)
      PROVE  CommitOutbound(c) \/ ReceiptMark(c) \/ RunOrphan(c)
             \/ (outbox' = outbox /\ rrow' = rrow)
  BY <1>7 DEF SenderStep, ExpireInbound, BackoffElapses, PeerUnreachable, ReceiptGet,
     ReceiptAnnounce, SettleRead, SettleMark, MarkAttemptFailed
<1>8. ASSUME NEW c \in Capsules, NEW k \in Channels, AttemptStep(c, k)
      PROVE  outbox' = outbox /\ rrow' = rrow
  BY <1>8 DEF AttemptStep, StartDelivery, SendFrame, ReadAck, AckTimeout, ChannelDown,
     ReadReceipt, RefuseReceipt, FrameTimeout
<1>9. ASSUME NEW p \in Peers,
             DrainCapsuleOutbox(p) \/ SenderCrash(p) \/ Revoke(p) \/ Grant(p)
      PROVE  outbox' = outbox /\ rrow' = rrow
  BY <1>9 DEF DrainCapsuleOutbox, SenderCrash, Revoke, Grant
<1>10. ASSUME NEW k \in Channels, Reclaim(k) PROVE outbox' = outbox /\ rrow' = rrow
  BY <1>10 DEF Reclaim
<1>11. CASE UNCHANGED vars
  BY <1>1, <1>11 DEF vars
<1>12. CASE Next
  <2>1. ASSUME NEW c \in Capsules, SenderStep(c) \/ ExpireInbound(c)
        PROVE  [Contract!Next]_stageMap
    BY <1>1, <1>2, <1>3, <1>7, <2>1 DEF Contract!Next
  <2>2. ASSUME NEW k \in Channels, HandlerStep(k) PROVE [Contract!Next]_stageMap
    BY <1>4, <1>5, <2>2 DEF Contract!Next
  <2>3. QED
    BY <1>1, <1>6, <1>8, <1>9, <1>10, <1>11, <1>12, <2>1, <2>2 DEF Next
<1>13. QED
  BY <1>11, <1>12

\* Capsule delivery implements its contract: queued, then stored by the
\* receiver, then confirmed to the sender, each at most once and never undone.
THEOREM DeliveryImplementsContract == Spec => ImplementsContract
<1>1. Init => Contract!Init
  BY DEF Init, Contract!Init, Stage
<1>2. Spec => [][Contract!Next]_[c \in Capsules |-> Stage(c)]
  BY NextRefines, SpecIndInv, PTL DEF Spec
<1>3. QED
  BY <1>1, <1>2, PTL DEF Spec, ImplementsContract, Contract!Spec

-----------------------------------------------------------------------------
(* The repository: any ids, contents and number of I/O errors and crashes. *)

\* What the holder of the lock knows about the row it works on.
OpInv ==
    /\ pc # "idle" => opId \in Ids /\ opContent \in Contents
    /\ pc \in {"inserted", "saved", "rollback"} =>
         status[opId] = "staging" /\ content[opId] = opContent
    /\ pc = "saved" => file[opId] = opContent
    /\ pc = "unlink" => status[opId] = "absent"

\* A status belongs to its direction, and only an absent row has no content.
RowInv ==
    \A i \in Ids :
      /\ status[i] = "absent" <=> content[i] = None
      /\ status[i] \in {"pending", "delivered"} => content[i] \in Outbound
      /\ status[i] = "received" => content[i] \in Inbound

\* The inductive invariant: the lock holder's row is staging, so neither its
\* writes nor its rollback can touch a row somebody was promised.
StoreIndInv ==
    StoreTypeOK /\ RowInv /\ OpInv /\ ReadyIsReadable /\ KeepsPromises /\ StagingHasOwner

LEMMA InitStoreInv == StoreInit => StoreIndInv
  BY StoreAssumption
  DEF StoreInit, StoreIndInv, StoreTypeOK, RowInv, OpInv, ReadyIsReadable, KeepsPromises,
      StagingHasOwner, Statuses, Contents

LEMMA NextStoreInv == StoreIndInv /\ [StoreNext]_storeVars => StoreIndInv'
<1> SUFFICES ASSUME StoreIndInv, [StoreNext]_storeVars PROVE StoreIndInv'
  OBVIOUS
<1> USE StoreAssumption DEF StoreIndInv, StoreTypeOK, RowInv, OpInv, ReadyIsReadable,
      KeepsPromises, StagingHasOwner, Statuses, Contents, ReadyStatus
<1>1. ASSUME NEW i \in Ids, NEW v \in Contents, StoreNew(i, v) PROVE StoreIndInv'
  BY <1>1 DEF StoreNew, InsertStaging
<1>2. ASSUME NEW i \in Ids, NEW v \in Contents, StoreExisting(i, v) PROVE StoreIndInv'
  BY <1>2 DEF StoreExisting, rowVars, opVars
<1>3. ASSUME NEW i \in Ids, NEW v \in Contents, StoreLeftover(i, v) PROVE StoreIndInv'
  BY <1>3 DEF StoreLeftover, InsertStaging, CommitRow, rowVars, opVars
<1>4. CASE SaveSealed
  BY <1>4 DEF SaveSealed, rowVars
<1>5. CASE SaveFails
  BY <1>5 DEF SaveFails, StoreFault, rowVars
<1>6. CASE Commit
  BY <1>6 DEF Commit, CommitRow, Release
<1>7. CASE CommitFails
  BY <1>7 DEF CommitFails, StoreFault, rowVars
<1>8. CASE RollbackDelete
  BY <1>8 DEF RollbackDelete, DeleteStaging
<1>9. CASE RollbackFails
  BY <1>9 DEF RollbackFails, StoreFault, Release, rowVars
<1>10. CASE RollbackUnlink
  BY <1>10 DEF RollbackUnlink, StoreFault, Release, rowVars
<1>11. ASSUME NEW i \in Ids, MarkRowAttemptFailed(i) PROVE StoreIndInv'
  BY <1>11 DEF MarkRowAttemptFailed, opVars
<1>12. ASSUME NEW i \in Ids, MarkRowDelivered(i) PROVE StoreIndInv'
  BY <1>12 DEF MarkRowDelivered, opVars
<1>13. ASSUME NEW i \in Ids, RowBackoffElapses(i) PROVE StoreIndInv'
  BY <1>13 DEF RowBackoffElapses, opVars
<1>14. CASE Restart
  BY <1>14 DEF Restart, StoreFault, Release
<1>15. CASE UNCHANGED storeVars
  BY <1>15 DEF storeVars, rowVars, opVars
<1>16. QED
  BY <1>1, <1>2, <1>3, <1>4, <1>5, <1>6, <1>7, <1>8, <1>9, <1>10, <1>11, <1>12,
     <1>13, <1>14, <1>15 DEF StoreNext

LEMMA SpecStoreInv == StoreSpec => []StoreIndInv
  BY InitStoreInv, NextStoreInv, PTL DEF StoreSpec

\* The repository's index, sealed files and running operation keep their types
\* through every operation, I/O error and restart.
THEOREM StoreTypeCorrect == StoreSpec => []StoreTypeOK
  BY SpecStoreInv, PTL DEF StoreIndInv

\* Every committed row can be loaded: its sealed file holds the content the row
\* describes (capsule_store.py: store_capsule, _recover_one_staging).
THEOREM CommittedRowsAreReadable == StoreSpec => []ReadyIsReadable
  BY SpecStoreInv, PTL DEF StoreIndInv

\* A content store_capsule returned a record for is never lost or replaced.
THEOREM StoredContentIsKept == StoreSpec => []KeepsPromises
  BY SpecStoreInv, PTL DEF StoreIndInv

\* A staging row has a running store_capsule or a failed rollback to explain it.
THEOREM StagingRowsHaveOwners == StoreSpec => []StagingHasOwner
  BY SpecStoreInv, PTL DEF StoreIndInv

\* A delivered row stays delivered and is never offered to the outbox again.
THEOREM DeliveryIsFinal == StoreSpec => DeliveredIsFinal
<1> DEFINE A == \A i \in Ids : status[i] = "delivered" =>
                  status'[i] = "delivered" /\ i \notin DueOutbound'
<1>1. ASSUME StoreIndInv, [StoreNext]_storeVars PROVE A
  <2> SUFFICES ASSUME NEW j \in Ids, status[j] = "delivered"
               PROVE  status'[j] = "delivered"
    BY DEF DueOutbound
  <2> USE <1>1 DEF StoreIndInv, StoreTypeOK, OpInv
  <2>1. ASSUME NEW i \in Ids, NEW v \in Contents,
               StoreNew(i, v) \/ StoreExisting(i, v) \/ StoreLeftover(i, v)
        PROVE  status'[j] = "delivered"
    BY <2>1 DEF StoreNew, StoreExisting, StoreLeftover, InsertStaging, CommitRow,
                rowVars
  <2>2. CASE SaveSealed \/ SaveFails \/ CommitFails \/ RollbackFails \/ RollbackUnlink
    BY <2>2 DEF SaveSealed, SaveFails, CommitFails, RollbackFails, RollbackUnlink,
                rowVars
  <2>3. CASE Commit
    BY <2>3 DEF Commit, CommitRow
  <2>4. CASE RollbackDelete
    BY <2>4 DEF RollbackDelete, DeleteStaging
  <2>5. ASSUME NEW i \in Ids,
               MarkRowAttemptFailed(i) \/ MarkRowDelivered(i) \/ RowBackoffElapses(i)
        PROVE  status'[j] = "delivered"
    BY <2>5 DEF MarkRowAttemptFailed, MarkRowDelivered, RowBackoffElapses
  <2>6. CASE Restart
    BY <2>6 DEF Restart
  <2>7. CASE UNCHANGED storeVars
    BY <2>7 DEF storeVars, rowVars
  <2>8. QED
    BY <1>1, <2>1, <2>2, <2>3, <2>4, <2>5, <2>6, <2>7 DEF StoreNext
<1>2. StoreSpec => [][A]_storeVars
  BY <1>1, SpecStoreInv, PTL DEF StoreSpec
<1>3. QED
  BY <1>2 DEF DeliveredIsFinal, A

=============================================================================
