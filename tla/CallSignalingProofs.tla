------------------------ MODULE CallSignalingProofs ------------------------
(***************************************************************************)
(* Nobody records alone: the inductive invariant of CallSignaling and      *)
(* NoSilentRecording, for every number of taps, lost sends and restarts.   *)
(* Two sides whose session loses nothing agree in the end (SidesAgree).    *)
(* The table the calls are kept in (CallRegistry) stays bounded.           *)
(***************************************************************************)
EXTENDS CallSignaling, CallRegistry, FiniteSetTheorems, SequenceTheorems, TLAPS

Msgs == CallMsgs \cup ConsentMsgs

\* What is on its way to p, on the session or over a fresh channel.
Said(p) == {session[p][i] : i \in DOMAIN session[p]} \cup fresh[p]

\* A request or a grant on its way to p was sent by a user who agreed.
Asked ==
    \A p \in Peers :
        {"RECORDING_REQUEST", "RECORDING_GRANT"} \cap Said(p) # {}
            => Other(p) \in hist.agreed

\* A side that waits for an answer has asked; one that is asked was asked by
\* a user who agreed.
Meant ==
    \A p \in Peers :
        /\ consent[p] = "AWAITING_REMOTE" => p \in hist.agreed
        /\ consent[p] = "AWAITING_LOCAL" => Other(p) \in hist.agreed

RecordingInv == TypeOK /\ Asked /\ Meant /\ NoSilentRecording

-----------------------------------------------------------------------------
(* The machines.                                                           *)

\* Both peers together are the peers.
LEMMA TwoPeers ==
    ASSUME NEW p \in Peers
    PROVE  /\ Other(p) \in Peers /\ Other(p) # p /\ Other(Other(p)) = p
           /\ \A S \in SUBSET Peers : p \in S /\ Other(p) \in S => S = Peers
  BY DEF Peers, Other

\* A machine sends at most one message.
LEMMA OneMessage ==
    ASSUME NEW S, NEW x \in S, NEW s \in {<<>>, <<x>>}
    PROVE  s \in Seq(S) /\ \A i \in DOMAIN s : s[i] = x
  <1>1. CASE s = <<>>
    BY <1>1
  <1>2. CASE s = <<x>>
    <2>1. s \in Seq(S) /\ DOMAIN s = {1} /\ s[1] = x
      BY <1>2
    <2>2. QED
      BY <2>1
  <1>3. QED
    BY <1>1, <1>2

\* The lifecycle machine stays in its phases and sends call messages only.
LEMMA LifecycleTyped ==
    ASSUME NEW p \in Peers, NEW ph \in CallPhase, NEW ev
    PROVE  Lifecycle(p, ph, ev) \in CallPhase
  BY DEF Lifecycle, CallPhase

\* What the lifecycle machine sends asks and grants nothing.
LEMMA LifecycleSendsTyped ==
    ASSUME NEW p, NEW ph, NEW ev
    PROVE  /\ LifecycleSends(p, ph, ev) \in Seq(Msgs)
           /\ \A i \in DOMAIN LifecycleSends(p, ph, ev) :
                 LifecycleSends(p, ph, ev)[i] \notin {"RECORDING_REQUEST", "RECORDING_GRANT"}
  <1>1. LifecycleSends(p, ph, ev) \in
          {<<>>, <<"CALL_INVITE">>, <<"CALL_END">>, <<"CALL_ACCEPT">>,
           <<"CALL_DECLINE">>, <<"RESUME_OFFER">>}
    BY Zenon DEF LifecycleSends
  <1>2. PICK x \in CallMsgs : LifecycleSends(p, ph, ev) \in {<<>>, <<x>>}
    BY <1>1, Zenon DEF CallMsgs
  <1>3. x \in Msgs /\ x \notin {"RECORDING_REQUEST", "RECORDING_GRANT"}
    BY DEF Msgs, CallMsgs
  <1>4. QED
    BY <1>2, <1>3, OneMessage

\* The consent machine stays in its phases.
LEMMA ConsentTyped ==
    ASSUME NEW ph \in ConsentPhase, NEW ev
    PROVE  Consent(ph, ev) \in ConsentPhase
  BY DEF Consent, ConsentPhase

\* Which events lead to which phase.
LEMMA ConsentMoves ==
    ASSUME NEW ph, NEW ev
    PROVE  /\ Consent(ph, ev) = "AWAITING_REMOTE" => ev = "REQUEST" \/ ph = "AWAITING_REMOTE"
           /\ Consent(ph, ev) = "AWAITING_LOCAL"
                => ev = "RECORDING_REQUEST" \/ ph = "AWAITING_LOCAL"
           /\ Consent(ph, ev) = "RECORDING"
                => \/ ph = "RECORDING"
                   \/ ph = "AWAITING_REMOTE" /\ ev = "RECORDING_GRANT"
                   \/ ph = "AWAITING_LOCAL" /\ ev = "APPROVE"
  BY DEF Consent

\* Only a request or an approval of the user sends a request or a grant.
LEMMA ConsentSendsTyped ==
    ASSUME NEW ph, NEW ev
    PROVE  /\ ConsentSends(ph, ev) \in Seq(Msgs)
           /\ (\E i \in DOMAIN ConsentSends(ph, ev) :
                 ConsentSends(ph, ev)[i] \in {"RECORDING_REQUEST", "RECORDING_GRANT"})
              => ev \in {"REQUEST", "APPROVE"}
  <1>1. CASE ev \in {"REQUEST", "APPROVE"}
    <2>1. ConsentSends(ph, ev) \in {<<>>, <<"RECORDING_REQUEST">>, <<"RECORDING_GRANT">>}
      BY <1>1, Zenon DEF ConsentSends
    <2>2. PICK x \in ConsentMsgs : ConsentSends(ph, ev) \in {<<>>, <<x>>}
      BY <2>1, Zenon DEF ConsentMsgs
    <2>3. QED
      BY <1>1, <2>2, OneMessage DEF Msgs
  <1>2. CASE ev \notin {"REQUEST", "APPROVE"}
    <2>1. ConsentSends(ph, ev) \in {<<>>, <<"RECORDING_STOP">>, <<"RECORDING_DECLINE">>}
      BY <1>2, Zenon DEF ConsentSends
    <2>2. PICK x \in {"RECORDING_STOP", "RECORDING_DECLINE"} :
            ConsentSends(ph, ev) \in {<<>>, <<x>>}
      BY <2>1, Zenon
    <2>3. x \in Msgs /\ x \notin {"RECORDING_REQUEST", "RECORDING_GRANT"}
      BY DEF Msgs, ConsentMsgs
    <2>4. QED
      BY <2>2, <2>3, OneMessage
  <1>3. QED
    BY <1>1, <1>2

\* An event of the lifecycle leaves the consent alone; only a side that
\* records opens a capsule tagged as mutually recorded.
LEMMA LifecycleEventTyped ==
    ASSUME TypeOK, NEW p \in Peers, NEW ev, LifecycleEvent(p, ev)
    PROVE  /\ phase' \in [Peers -> CallPhase]
           /\ builder' \in [Peers -> {"none", "plain", "mutual"}]
           /\ consent' = consent
           /\ \A q \in Peers : builder'[q] = "mutual"
                => builder[q] = "mutual" \/ consent[q] = "RECORDING"
  <1>1. Lifecycle(p, phase[p], ev) \in CallPhase
    BY LifecycleTyped DEF TypeOK
  <1>2. QED
    BY <1>1 DEF LifecycleEvent, TypeOK

\* A save of the resume ledger.
LEMMA SavesTyped ==
    ASSUME TypeOK, NEW p \in Peers, Saves(p), phase' \in [Peers -> CallPhase]
    PROVE  ledger' \in [Peers -> CallPhase]
  BY DEF Saves, TypeOK

\* A send puts nothing but its messages on the way, and only to the other.
LEMMA SendTyped ==
    ASSUME TypeOK, NEW p \in Peers, NEW m \in Seq(Msgs), Send(p, m)
    PROVE  /\ session' \in [Peers -> Seq(Msgs)]
           /\ fresh' \in [Peers -> SUBSET Msgs]
           /\ faults' \in 0 .. budget.faults
           /\ \A q \in Peers : \A x \in Said(q)' :
                 x \in Said(q) \/ (q = Other(p) /\ \E i \in DOMAIN m : m[i] = x)
  <1> DEFINE o == Other(p)
             queued == [session EXCEPT ![o] = @ \o m]
             again == {m[i] : i \in {k \in DOMAIN m : m[k] \in Retryable}}
  <1>1. /\ o \in Peers /\ session \in [Peers -> Seq(Msgs)]
        /\ fresh \in [Peers -> SUBSET Msgs] /\ faults \in 0 .. budget.faults
        /\ budget.faults \in Nat
    BY TwoPeers, BudgetsAssumption DEF TypeOK, Msgs
  <1>2. queued \in [Peers -> Seq(Msgs)]
    BY <1>1
  <1>3. \A q \in Peers : \A i \in DOMAIN queued[q] :
           \/ i \in DOMAIN session[q] /\ queued[q][i] = session[q][i]
           \/ q = o /\ \E k \in DOMAIN m : m[k] = queued[q][i]
    <2> SUFFICES ASSUME NEW q \in Peers, NEW i \in DOMAIN queued[q]
                 PROVE  \/ i \in DOMAIN session[q] /\ queued[q][i] = session[q][i]
                        \/ q = o /\ \E k \in DOMAIN m : m[k] = queued[q][i]
      OBVIOUS
    <2>1. CASE q # o
      BY <1>1, <2>1
    <2>2. CASE q = o
      <3>1. queued[q] = session[o] \o m /\ session[o] \in Seq(Msgs)
        BY <1>1, <2>2
      <3>2. i \in 1..(Len(session[o]) + Len(m))
        BY <3>1
      <3>3. CASE i <= Len(session[o])
        BY <2>2, <3>1, <3>2, <3>3
      <3>4. CASE i > Len(session[o])
        <4>1. i - Len(session[o]) \in DOMAIN m /\ m[i - Len(session[o])] = queued[q][i]
          BY <3>1, <3>2, <3>4
        <4>2. QED
          BY <2>2, <4>1
      <3>5. QED
        BY <3>1, <3>2, <3>3, <3>4
    <2>3. QED
      BY <2>1, <2>2
  <1>4. /\ session' \in {session, queued}
        /\ \/ fresh' = fresh /\ faults' = faults
           \/ /\ faults < budget.faults /\ faults' = faults + 1
              /\ fresh' = [fresh EXCEPT ![o] = @ \cup again]
    BY DEF Send
  <1>5. again \subseteq Msgs /\ \A x \in again : \E i \in DOMAIN m : m[i] = x
    OBVIOUS
  <1> HIDE DEF again, queued, o
  <1>6. session' \in [Peers -> Seq(Msgs)] /\ faults' \in 0 .. budget.faults
    BY <1>1, <1>2, <1>4
  <1>7. fresh' \in [Peers -> SUBSET Msgs]
    BY <1>1, <1>4, <1>5
  <1>8. ASSUME NEW q \in Peers, NEW x \in Said(q)'
        PROVE  x \in Said(q) \/ (q = o /\ \E i \in DOMAIN m : m[i] = x)
    <2>1. CASE \E i \in DOMAIN session'[q] : session'[q][i] = x
      BY <1>3, <1>4, <2>1 DEF Said
    <2>2. CASE x \in fresh'[q]
      BY <1>1, <1>4, <1>5, <2>2 DEF Said
    <2>3. QED
      BY <1>8, <2>1, <2>2 DEF Said
  <1>9. QED
    BY <1>6, <1>7, <1>8 DEF o

-----------------------------------------------------------------------------
(* Steps.                                                                  *)

\* A step in which nobody agrees to anything, asks, grants or starts.
Calm ==
    /\ hist'.agreed = hist.agreed
    /\ \A q \in Peers :
          /\ {"RECORDING_REQUEST", "RECORDING_GRANT"} \cap Said(q)' \subseteq Said(q)
          /\ consent'[q] \in {consent[q], "NONE"}
          /\ builder'[q] = "mutual" => builder[q] = "mutual" \/ consent[q] = "RECORDING"

\* Such a step keeps the invariant.
LEMMA CalmKeeps ==
    ASSUME RecordingInv, Calm
    PROVE  Asked' /\ Meant' /\ NoSilentRecording'
  <1>1. Asked'
    BY DEF RecordingInv, Asked, Calm
  <1>2. Meant'
    BY DEF RecordingInv, Meant, Calm
  <1>3. NoSilentRecording'
    BY DEF RecordingInv, NoSilentRecording, Calm
  <1>4. QED
    BY <1>1, <1>2, <1>3

\* The types of what a step leaves alone.
LEMMA Typed ==
    ASSUME TypeOK
    PROVE  /\ session \in [Peers -> Seq(Msgs)] /\ fresh \in [Peers -> SUBSET Msgs]
           /\ budget.taps \in Nat /\ budget.faults \in Nat /\ budget.restarts \in Nat
  BY BudgetsAssumption DEF TypeOK, Msgs

\* Placing a call asks nobody to record.
LEMMA InitiateKeeps ==
    ASSUME RecordingInv, budget' = budget, Initiate
    PROVE  RecordingInv'
  <1> DEFINE m == LifecycleSends("caller", "INVITING", "INITIATE")
  <1>1. TypeOK /\ "caller" \in Peers
    BY DEF RecordingInv, Peers
  <1>2. /\ m \in Seq(Msgs)
        /\ \A i \in DOMAIN m : m[i] \notin {"RECORDING_REQUEST", "RECORDING_GRANT"}
    BY LifecycleSendsTyped
  <1>3. Send("caller", m)
    BY DEF Initiate
  <1> HIDE DEF m
  <1>4. /\ session' \in [Peers -> Seq(Msgs)] /\ fresh' \in [Peers -> SUBSET Msgs]
        /\ faults' \in 0 .. budget.faults
        /\ \A q \in Peers : \A x \in Said(q)' :
              x \in Said(q) \/ (q = Other("caller") /\ \E i \in DOMAIN m : m[i] = x)
    BY <1>1, <1>2, <1>3, SendTyped
  <1>5. phase' \in [Peers -> CallPhase]
    BY <1>1 DEF Initiate, TypeOK, CallPhase
  <1>6. ledger' \in [Peers -> CallPhase]
    BY <1>1, <1>5, SavesTyped DEF Initiate
  <1>7. /\ hist' \in [placed : BOOLEAN, over : BOOLEAN, unilateral : BOOLEAN,
                      withdrawn : BOOLEAN, agreed : SUBSET Peers]
        /\ hist'.agreed = hist.agreed
    BY <1>1 DEF Initiate, TypeOK
  <1>8. TypeOK'
    BY <1>1, <1>4, <1>5, <1>6, <1>7 DEF Initiate, TypeOK, Msgs
  <1>9. Calm
    BY <1>2, <1>4, <1>7 DEF Initiate, Calm
  <1>10. QED
    BY <1>8, <1>9, CalmKeeps DEF RecordingInv

\* The user's answers, refusals and hangups ask nobody to record.
LEMMA UserCallKeeps ==
    ASSUME RecordingInv, budget' = budget, NEW p \in Peers, NEW ev, UserCall(p, ev)
    PROVE  RecordingInv'
  <1> DEFINE m == LifecycleSends(p, phase[p], ev)
  <1>1. TypeOK
    BY DEF RecordingInv
  <1>2. /\ m \in Seq(Msgs)
        /\ \A i \in DOMAIN m : m[i] \notin {"RECORDING_REQUEST", "RECORDING_GRANT"}
    BY LifecycleSendsTyped
  <1>3. Send(p, m) /\ LifecycleEvent(p, ev) /\ Saves(p)
    BY DEF UserCall
  <1> HIDE DEF m
  <1>4. /\ session' \in [Peers -> Seq(Msgs)] /\ fresh' \in [Peers -> SUBSET Msgs]
        /\ faults' \in 0 .. budget.faults
        /\ \A q \in Peers : \A x \in Said(q)' :
              x \in Said(q) \/ (q = Other(p) /\ \E i \in DOMAIN m : m[i] = x)
    BY <1>1, <1>2, <1>3, SendTyped
  <1>5. /\ phase' \in [Peers -> CallPhase] /\ consent' = consent
        /\ builder' \in [Peers -> {"none", "plain", "mutual"}]
        /\ \A q \in Peers : builder'[q] = "mutual"
             => builder[q] = "mutual" \/ consent[q] = "RECORDING"
    BY <1>1, <1>3, LifecycleEventTyped
  <1>6. ledger' \in [Peers -> CallPhase]
    BY <1>1, <1>3, <1>5, SavesTyped
  <1>7. /\ hist' \in [placed : BOOLEAN, over : BOOLEAN, unilateral : BOOLEAN,
                      withdrawn : BOOLEAN, agreed : SUBSET Peers]
        /\ hist'.agreed = hist.agreed
    BY <1>1 DEF UserCall, TypeOK
  <1>8. TypeOK'
    BY <1>1, <1>4, <1>5, <1>6, <1>7 DEF UserCall, TypeOK, Msgs
  <1>9. Calm
    BY <1>2, <1>4, <1>5, <1>7 DEF Calm
  <1>10. QED
    BY <1>8, <1>9, CalmKeeps DEF RecordingInv

\* The user's taps: the one place where somebody agrees.
LEMMA UserRecordingKeeps ==
    ASSUME RecordingInv, budget' = budget, NEW p \in Peers,
           NEW ev \in {"REQUEST", "APPROVE", "DECLINE", "STOP"}, UserRecording(p, ev)
    PROVE  RecordingInv'
  <1> DEFINE m == ConsentSends(consent[p], ev)
  <1>1. TypeOK
    BY DEF RecordingInv
  <1>2. /\ m \in Seq(Msgs)
        /\ (\E i \in DOMAIN m : m[i] \in {"RECORDING_REQUEST", "RECORDING_GRANT"})
             => ev \in {"REQUEST", "APPROVE"}
    BY ConsentSendsTyped
  <1>3. Send(p, m) /\ ConsentEvent(p, ev) /\ Saves(p)
    BY DEF UserRecording
  <1> HIDE DEF m
  <1>4. /\ session' \in [Peers -> Seq(Msgs)] /\ fresh' \in [Peers -> SUBSET Msgs]
        /\ faults' \in 0 .. budget.faults
        /\ \A q \in Peers : \A x \in Said(q)' :
              x \in Said(q) \/ (q = Other(p) /\ \E i \in DOMAIN m : m[i] = x)
    BY <1>1, <1>2, <1>3, SendTyped
  <1>5. /\ consent' = [consent EXCEPT ![p] = Consent(consent[p], ev)]
        /\ phase' = phase /\ builder' = builder
        /\ consent' \in [Peers -> ConsentPhase]
    BY <1>1, <1>3, ConsentTyped DEF ConsentEvent, TypeOK
  <1>6. ledger' \in [Peers -> CallPhase]
    BY <1>1, <1>3, <1>5, SavesTyped DEF TypeOK
  <1>7. /\ hist' \in [placed : BOOLEAN, over : BOOLEAN, unilateral : BOOLEAN,
                      withdrawn : BOOLEAN, agreed : SUBSET Peers]
        /\ hist'.agreed = IF ev \in {"REQUEST", "APPROVE"} THEN hist.agreed \cup {p}
                          ELSE hist.agreed
    BY <1>1 DEF UserRecording, TypeOK
  <1>8. TypeOK'
    <2>1. taps' \in [Peers -> 0 .. budget.taps]
      BY <1>1, Typed DEF UserRecording, TypeOK
    <2>2. QED
      BY <1>1, <1>4, <1>5, <1>6, <1>7, <2>1 DEF UserRecording, TypeOK, Msgs
  <1>9. Asked'
    <2> SUFFICES ASSUME NEW q \in Peers, NEW x \in Said(q)',
                        x \in {"RECORDING_REQUEST", "RECORDING_GRANT"}
                 PROVE  Other(q) \in hist'.agreed
      BY DEF Asked
    <2>1. CASE x \in Said(q)
      <3>1. Other(q) \in hist.agreed
        BY <2>1 DEF RecordingInv, Asked
      <3>2. QED
        BY <1>7, <3>1
    <2>2. CASE q = Other(p) /\ \E i \in DOMAIN m : m[i] = x
      <3>1. ev \in {"REQUEST", "APPROVE"}
        BY <1>2, <2>2
      <3>2. QED
        BY <1>7, <2>2, <3>1, TwoPeers
    <2>3. QED
      BY <1>4, <2>1, <2>2
  <1>10. consent'[p] = Consent(consent[p], ev)
         /\ \A q \in Peers \ {p} : consent'[q] = consent[q]
    BY <1>1, <1>5 DEF TypeOK
  <1>11. Meant'
    BY <1>7, <1>10, ConsentMoves DEF RecordingInv, Meant
  <1>12. NoSilentRecording'
    <2>1. CASE consent'[p] = "RECORDING"
      <3>1. hist'.agreed = Peers
        <4>1. p \in hist'.agreed /\ Other(p) \in hist'.agreed => hist'.agreed = Peers
          <5>1. hist'.agreed \in SUBSET Peers
            BY <1>7
          <5>2. QED
            BY <5>1, TwoPeers
        <4>2. CASE consent[p] = "RECORDING"
          <5>1. hist.agreed = Peers
            BY <4>2 DEF RecordingInv, NoSilentRecording
          <5>2. QED
            BY <1>7, <5>1
        <4>3. CASE consent[p] = "AWAITING_LOCAL" /\ ev = "APPROVE"
          <5>1. Other(p) \in hist.agreed
            BY <4>3 DEF RecordingInv, Meant
          <5>2. QED
            BY <1>7, <4>1, <4>3, <5>1
        <4>4. QED
          BY <1>10, <2>1, <4>2, <4>3, ConsentMoves
      <3>2. QED
        BY <3>1 DEF NoSilentRecording
    <2>2. CASE consent'[p] # "RECORDING"
      <3>1. hist.agreed = Peers => hist'.agreed = Peers
        BY <1>7
      <3>2. QED
        BY <1>5, <1>10, <2>2, <3>1 DEF RecordingInv, NoSilentRecording
    <2>3. QED
      BY <2>1, <2>2
  <1>13. QED
    BY <1>8, <1>9, <1>11, <1>12 DEF RecordingInv

\* A message from the other side changes consent only as its sender meant it.
LEMMA DispatchKeeps ==
    ASSUME RecordingInv, NEW p \in Peers, NEW m \in Said(p), Dispatch(p, m)
    PROVE  /\ phase' \in [Peers -> CallPhase] /\ ledger' \in [Peers -> CallPhase]
           /\ consent' \in [Peers -> ConsentPhase]
           /\ builder' \in [Peers -> {"none", "plain", "mutual"}]
           /\ hist' \in [placed : BOOLEAN, over : BOOLEAN, unilateral : BOOLEAN,
                         withdrawn : BOOLEAN, agreed : SUBSET Peers]
           /\ hist'.agreed = hist.agreed
           /\ Meant' /\ NoSilentRecording'
  <1>1. TypeOK
    BY DEF RecordingInv
  <1>2. CASE /\ m = "CALL_INVITE" /\ phase' = [phase EXCEPT ![p] = Lifecycle(p, "INVITING", m)]
             /\ Saves(p) /\ UNCHANGED <<consent, builder, hist>>
    <2>1. phase' \in [Peers -> CallPhase]
      <3>1. Lifecycle(p, "INVITING", m) \in CallPhase
        BY LifecycleTyped DEF CallPhase
      <3>2. QED
        BY <1>1, <1>2, <3>1 DEF TypeOK
    <2>2. ledger' \in [Peers -> CallPhase]
      BY <1>1, <1>2, <2>1, SavesTyped
    <2>3. Meant' /\ NoSilentRecording'
      BY <1>2 DEF RecordingInv, Meant, NoSilentRecording
    <2>4. QED
      BY <1>1, <1>2, <2>1, <2>2, <2>3 DEF TypeOK
  <1>3. CASE /\ LifecycleEvent(p, m) /\ Saves(p)
             /\ hist' = [hist EXCEPT !.over = @ \/ (p = "callee" /\ phase'[p] = "ENDED")]
    <2>1. /\ phase' \in [Peers -> CallPhase] /\ consent' = consent
          /\ builder' \in [Peers -> {"none", "plain", "mutual"}]
          /\ \A q \in Peers : builder'[q] = "mutual"
               => builder[q] = "mutual" \/ consent[q] = "RECORDING"
      BY <1>1, <1>3, LifecycleEventTyped
    <2>2. ledger' \in [Peers -> CallPhase]
      BY <1>1, <1>3, <2>1, SavesTyped
    <2>3. /\ hist' \in [placed : BOOLEAN, over : BOOLEAN, unilateral : BOOLEAN,
                        withdrawn : BOOLEAN, agreed : SUBSET Peers]
          /\ hist'.agreed = hist.agreed
      BY <1>1, <1>3 DEF TypeOK
    <2>4. Meant' /\ NoSilentRecording'
      BY <2>1, <2>3 DEF RecordingInv, Meant, NoSilentRecording
    <2>5. QED
      BY <1>1, <2>1, <2>2, <2>3, <2>4 DEF TypeOK
  <1>4. CASE m \in ConsentMsgs /\ ConsentEvent(p, m) /\ Saves(p) /\ UNCHANGED hist
    <2>1. /\ consent' = [consent EXCEPT ![p] = Consent(consent[p], m)]
          /\ phase' = phase /\ builder' = builder
          /\ consent' \in [Peers -> ConsentPhase]
      BY <1>1, <1>4, ConsentTyped DEF ConsentEvent, TypeOK
    <2>2. ledger' \in [Peers -> CallPhase]
      BY <1>1, <1>4, <2>1, SavesTyped DEF TypeOK
    <2>3. consent'[p] = Consent(consent[p], m)
          /\ \A q \in Peers \ {p} : consent'[q] = consent[q]
      BY <1>1, <2>1 DEF TypeOK
    <2>4. m \in {"RECORDING_REQUEST", "RECORDING_GRANT"} => Other(p) \in hist.agreed
      BY DEF RecordingInv, Asked
    <2>5. m \notin {"REQUEST", "APPROVE"}
      BY <1>4 DEF ConsentMsgs
    <2>6. Meant'
      BY <1>4, <2>3, <2>4, <2>5, ConsentMoves DEF RecordingInv, Meant
    <2>7. consent'[p] = "RECORDING" => hist.agreed = Peers
      <3>1. p \in hist.agreed /\ Other(p) \in hist.agreed => hist.agreed = Peers
        <4>1. hist.agreed \in SUBSET Peers
          BY <1>1 DEF TypeOK
        <4>2. QED
          BY <4>1, TwoPeers
      <3>2. consent[p] = "RECORDING" => hist.agreed = Peers
        BY DEF RecordingInv, NoSilentRecording
      <3>3. consent[p] = "AWAITING_REMOTE" => p \in hist.agreed
        BY DEF RecordingInv, Meant
      <3>4. QED
        BY <2>3, <2>4, <2>5, <3>1, <3>2, <3>3, ConsentMoves
    <2>8. NoSilentRecording'
      BY <1>4, <2>1, <2>3, <2>7 DEF RecordingInv, NoSilentRecording
    <2>9. QED
      BY <1>1, <1>4, <2>1, <2>2, <2>6, <2>8 DEF TypeOK
  <1>5. CASE UNCHANGED <<manager, ledger, hist>>
    <2>1. Meant' /\ NoSilentRecording'
      BY <1>5 DEF RecordingInv, Meant, NoSilentRecording, manager
    <2>2. QED
      BY <1>1, <1>5, <2>1 DEF TypeOK, manager
  <1>6. QED
    BY <1>2, <1>3, <1>4, <1>5 DEF Dispatch

\* A message read from the session.
LEMMA ReceiveKeeps ==
    ASSUME RecordingInv, budget' = budget, NEW p \in Peers, Receive(p)
    PROVE  RecordingInv'
  <1>1. TypeOK /\ session[p] # <<>> /\ session[p] \in Seq(Msgs)
    BY Typed DEF RecordingInv, Receive
  <1>2. Head(session[p]) \in Said(p)
    BY <1>1 DEF Said
  <1>3. Dispatch(p, Head(session[p]))
    BY DEF Receive
  <1>4. session' = [session EXCEPT ![p] = Tail(session[p])] /\ fresh' = fresh
    BY DEF Receive
  <1>5. session' \in [Peers -> Seq(Msgs)]
    BY <1>1, <1>4, Typed
  <1>6. \A q \in Peers : Said(q)' \subseteq Said(q)
    BY <1>1, <1>4, Typed DEF Said
  <1>7. TypeOK'
    BY <1>1, <1>2, <1>3, <1>4, <1>5, DispatchKeeps DEF Receive, TypeOK, Msgs
  <1>8. Asked'
    BY <1>2, <1>3, <1>6, DispatchKeeps DEF RecordingInv, Asked
  <1>9. QED
    BY <1>2, <1>3, <1>7, <1>8, DispatchKeeps DEF RecordingInv

\* A repeated message read from a fresh channel.
LEMMA ReceiveFreshKeeps ==
    ASSUME RecordingInv, budget' = budget, NEW p \in Peers, NEW m, ReceiveFresh(p, m)
    PROVE  RecordingInv'
  <1>1. TypeOK /\ m \in Said(p) /\ Dispatch(p, m)
    BY DEF RecordingInv, ReceiveFresh, Said
  <1>2. session' = session /\ fresh' = [fresh EXCEPT ![p] = fresh[p] \ {m}]
    BY DEF ReceiveFresh
  <1>3. \A q \in Peers : Said(q)' \subseteq Said(q)
    BY <1>1, <1>2, Typed DEF Said
  <1>4. TypeOK'
    BY <1>1, <1>2, DispatchKeeps DEF ReceiveFresh, TypeOK
  <1>5. Asked'
    BY <1>1, <1>3, DispatchKeeps DEF RecordingInv, Asked
  <1>6. QED
    BY <1>1, <1>4, <1>5, DispatchKeeps DEF RecordingInv

\* Timers, capture and the immune loop send nothing and ask nobody.
LEMMA TimersKeep ==
    ASSUME RecordingInv, budget' = budget, NEW p \in Peers,
           ImmuneConvert(p) \/ Finalize(p) \/ InviteTimer(p)
    PROVE  RecordingInv'
  <1>1. TypeOK /\ UNCHANGED <<session, fresh, taps, faults, restarts>>
    BY DEF RecordingInv, ImmuneConvert, Finalize, InviteTimer, network
  <1>2. PICK ev : LifecycleEvent(p, ev)
    BY DEF ImmuneConvert, Finalize, InviteTimer
  <1>3. /\ phase' \in [Peers -> CallPhase] /\ consent' = consent
        /\ builder' \in [Peers -> {"none", "plain", "mutual"}]
        /\ \A q \in Peers : builder'[q] = "mutual"
             => builder[q] = "mutual" \/ consent[q] = "RECORDING"
    BY <1>1, <1>2, LifecycleEventTyped
  <1>4. ledger' \in [Peers -> CallPhase]
    <2>1. Saves(p) \/ ledger' = ledger
      BY DEF ImmuneConvert, Finalize, InviteTimer
    <2>2. QED
      BY <1>1, <1>3, <2>1, SavesTyped DEF TypeOK
  <1>5. /\ hist' \in [placed : BOOLEAN, over : BOOLEAN, unilateral : BOOLEAN,
                      withdrawn : BOOLEAN, agreed : SUBSET Peers]
        /\ hist'.agreed = hist.agreed
    BY <1>1 DEF ImmuneConvert, Finalize, InviteTimer, TypeOK
  <1>6. TypeOK'
    BY <1>1, <1>3, <1>4, <1>5 DEF TypeOK
  <1>7. Calm
    BY <1>1, <1>3, <1>5 DEF Calm, Said
  <1>8. QED
    BY <1>6, <1>7, CalmKeeps DEF RecordingInv

\* A call that leaves the table, or comes back from disk, has no consent.
LEMMA EndsKeep ==
    ASSUME RecordingInv, budget' = budget, NEW p \in Peers,
           ReapStale(p) \/ Close(p) \/ Restart(p)
    PROVE  RecordingInv'
  <1>1. TypeOK /\ fresh' = fresh /\ taps' = taps /\ faults' = faults
    BY DEF RecordingInv, ReapStale, Close, Restart, network
  <1>2. phase' \in [Peers -> CallPhase] /\ ledger' \in [Peers -> CallPhase]
    BY <1>1 DEF ReapStale, Close, Restart, TypeOK, CallPhase
  <1>3. /\ consent' \in [Peers -> ConsentPhase]
        /\ builder' \in [Peers -> {"none", "plain", "mutual"}]
        /\ \A q \in Peers : consent'[q] \in {consent[q], "NONE"}
                             /\ builder'[q] \in {builder[q], "none"}
    BY <1>1 DEF ReapStale, Close, Restart, TypeOK, ConsentPhase
  <1>4. /\ session' \in [Peers -> Seq(Msgs)]
        /\ \A q \in Peers : session'[q] = session[q] \/ DOMAIN session'[q] = {}
    <2>1. CASE session' = session
      BY <1>1, <2>1, Typed
    <2>2. CASE session' = [q \in Peers |-> <<>>]
      <3>1. <<>> \in Seq(Msgs) /\ DOMAIN <<>> = {}
        OBVIOUS
      <3>2. QED
        BY <2>2, <3>1
    <2>3. QED
      BY <2>1, <2>2 DEF ReapStale, Close, Restart, network
  <1>5. /\ hist' \in [placed : BOOLEAN, over : BOOLEAN, unilateral : BOOLEAN,
                      withdrawn : BOOLEAN, agreed : SUBSET Peers]
        /\ hist'.agreed = hist.agreed
    BY <1>1 DEF ReapStale, Close, Restart, TypeOK
  <1>6. restarts' \in 0 .. budget.restarts
    BY <1>1, Typed DEF ReapStale, Close, Restart, TypeOK
  <1>7. TypeOK'
    BY <1>1, <1>2, <1>3, <1>4, <1>5, <1>6 DEF TypeOK, Msgs
  <1>8. Calm
    <2>1. \A q \in Peers : Said(q)' \subseteq Said(q)
      BY <1>1, <1>4 DEF Said
    <2>2. QED
      BY <1>3, <1>5, <2>1 DEF Calm
  <1>9. QED
    BY <1>7, <1>8, CalmKeeps DEF RecordingInv

-----------------------------------------------------------------------------
\* The inductive invariant: a request or a grant in flight, and a side that
\* waits for one, always has a user behind it who tapped in this call.
THEOREM RecordingInvariant == Spec => []RecordingInv
  <1>1. Init => RecordingInv
    <2> SUFFICES ASSUME Init PROVE RecordingInv
      OBVIOUS
    <2>1. TypeOK
      BY BudgetsAssumption DEF Init, TypeOK, CallPhase, ConsentPhase, Peers
    <2>2. Asked /\ Meant /\ NoSilentRecording
      BY DEF Init, Asked, Meant, NoSilentRecording, Said
    <2>3. QED
      BY <2>1, <2>2 DEF RecordingInv
  <1>2. RecordingInv /\ [Next]_vars => RecordingInv'
    <2> SUFFICES ASSUME RecordingInv, [Next]_vars PROVE RecordingInv'
      OBVIOUS
    <2>1. CASE UNCHANGED vars
      <3>1. TypeOK'
        BY <2>1 DEF RecordingInv, TypeOK, vars
      <3>2. Calm
        BY <2>1 DEF Calm, Said, vars
      <3>3. QED
        BY <3>1, <3>2, CalmKeeps DEF RecordingInv
    <2>2. CASE budget' = budget /\ Initiate
      BY <2>2, InitiateKeeps
    <2>3. ASSUME NEW p \in Peers, budget' = budget, Step(p)
          PROVE  RecordingInv'
      <3>1. CASE \E ev \in {"ACCEPT", "DECLINE", "HANGUP", "CONVERT", "RESUME"} : UserCall(p, ev)
        BY <2>3, <3>1, UserCallKeeps
      <3>2. CASE \E ev \in {"REQUEST", "APPROVE", "DECLINE", "STOP"} : UserRecording(p, ev)
        BY <2>3, <3>2, UserRecordingKeeps
      <3>3. CASE ImmuneConvert(p) \/ Finalize(p) \/ InviteTimer(p)
        BY <2>3, <3>3, TimersKeep
      <3>4. CASE ReapStale(p) \/ Close(p) \/ Restart(p)
        BY <2>3, <3>4, EndsKeep
      <3>5. CASE Receive(p)
        BY <2>3, <3>5, ReceiveKeeps
      <3>6. CASE \E m \in fresh[p] : ReceiveFresh(p, m)
        BY <2>3, <3>6, ReceiveFreshKeeps
      <3>7. QED
        BY <2>3, <3>1, <3>2, <3>3, <3>4, <3>5, <3>6 DEF Step
    <2>4. QED
      BY <2>1, <2>2, <2>3 DEF Next
  <1>3. QED
    BY <1>1, <1>2, PTL DEF Spec

\* No silent recording (NoSilentRecording): a side that records, or a capsule
\* tagged as mutually recorded, has both users' taps behind it, for any
\* number of taps, lost and repeated sends and restarts
\* (recording_consent.py "Both ends must explicitly tap").
THEOREM RecordingIsMutual == Spec => []NoSilentRecording
  <1>1. RecordingInv => NoSilentRecording
    BY DEF RecordingInv
  <1>2. QED
    BY <1>1, RecordingInvariant, PTL

-----------------------------------------------------------------------------
(***************************************************************************)
(* Both sides agree.  The recording messages in flight between two sides   *)
(* form one of finitely many conversations, however many taps there were;  *)
(* the messages about the call are tied to the two phases.                 *)
(***************************************************************************)

\* The recording messages that can be on their way to one side, as words: S is a
\* stop, Q a request, G a grant, D a decline.
Nil == <<>>
wS == <<"RECORDING_STOP">>
wQ == <<"RECORDING_REQUEST">>
wG == <<"RECORDING_GRANT">>
wD == <<"RECORDING_DECLINE">>
wSQ == Append(wS, "RECORDING_REQUEST")
wSD == Append(wS, "RECORDING_DECLINE")
wSG == Append(wS, "RECORDING_GRANT")
wDQ == Append(wD, "RECORDING_REQUEST")
wGS == Append(wG, "RECORDING_STOP")
wSDQ == Append(wSD, "RECORDING_REQUEST")
wSGS == Append(wSG, "RECORDING_STOP")
wGSQ == Append(wGS, "RECORDING_REQUEST")
wSGSQ == Append(wSGS, "RECORDING_REQUEST")

\* What two sides in consent phases a and b can have on their way to each other,
\* f to the first and g to the second, when no unanswered request was withdrawn.
HalfTalk(a, b, f, g) ==
    \/ a = "NONE" /\ b = "NONE" /\ f \in {Nil, wS} /\ g \in {Nil, wS}
    \/ a = "RECORDING" /\ b = "RECORDING" /\ f = Nil /\ g = Nil
    \/ a = "RECORDING" /\ b = "NONE" /\ f = wS /\ g = Nil
    \/ /\ a = "AWAITING_REMOTE" /\ b = "AWAITING_LOCAL"
       /\ f \in {Nil, wS} /\ g = Nil
    \/ /\ a = "AWAITING_REMOTE" /\ b = "NONE"
       /\ \/ f \in {Nil, wS} /\ g \in {wQ, wSQ}
          \/ f \in {wD, wSD, wGS, wSGS} /\ g = Nil
    \/ /\ a = "AWAITING_REMOTE" /\ b = "RECORDING"
       /\ \/ f \in {wG, wSG} /\ g = Nil
          \/ f = Nil /\ g = wSQ
    \/ /\ a = "AWAITING_REMOTE" /\ b = "AWAITING_REMOTE"
       /\ \/ f \in {Nil, wQ, wSQ} /\ g \in {Nil, wQ, wSQ}
          \/ f \in {wDQ, wSDQ, wGSQ, wSGSQ} /\ g = Nil
Talk(a, b, f, g) == HalfTalk(a, b, f, g) \/ HalfTalk(b, a, g, f)

\* A word of one message.
LEMMA WordOne ==
    ASSUME NEW m \in ConsentMsgs
    PROVE  /\ <<m>> \in Seq(ConsentMsgs) /\ <<m>> # Nil /\ Head(<<m>>) = m /\ Tail(<<m>>) = Nil
           /\ Append(Nil, m) = <<m>>
  BY DEF Nil
\* A word with one message more starts as before.
LEMMA WordMore ==
    ASSUME NEW w \in Seq(ConsentMsgs), w # Nil, NEW m \in ConsentMsgs
    PROVE  /\ Append(w, m) \in Seq(ConsentMsgs) /\ Append(w, m) # Nil
           /\ Head(Append(w, m)) = Head(w) /\ Tail(Append(w, m)) = Append(Tail(w), m)
  BY DEF Nil

\* The short words, their first messages and what is left without them.
LEMMA ShortWords ==
    /\ {Nil, wS, wQ, wG, wD} \subseteq Seq(ConsentMsgs)
    /\ Nil \notin {wS, wQ, wG, wD}
    /\ Head(wS) = "RECORDING_STOP" /\ Head(wQ) = "RECORDING_REQUEST"
    /\ Head(wG) = "RECORDING_GRANT" /\ Head(wD) = "RECORDING_DECLINE"
    /\ Tail(wS) = Nil /\ Tail(wQ) = Nil /\ Tail(wG) = Nil /\ Tail(wD) = Nil
    /\ Append(Nil, "RECORDING_STOP") = wS /\ Append(Nil, "RECORDING_REQUEST") = wQ
    /\ Append(Nil, "RECORDING_GRANT") = wG /\ Append(Nil, "RECORDING_DECLINE") = wD
  <1>1. /\ "RECORDING_STOP" \in ConsentMsgs /\ "RECORDING_REQUEST" \in ConsentMsgs
        /\ "RECORDING_GRANT" \in ConsentMsgs /\ "RECORDING_DECLINE" \in ConsentMsgs
    BY DEF ConsentMsgs
  <1>2. Nil \in Seq(ConsentMsgs)
    BY DEF Nil
  <1>3. QED
    BY <1>1, <1>2, WordOne DEF wS, wQ, wG, wD

\* The longer words, their first messages and what is left without them.
LEMMA LongWords ==
    /\ {wSQ, wSD, wSG, wDQ, wGS, wSDQ, wSGS, wGSQ, wSGSQ} \subseteq Seq(ConsentMsgs)
    /\ Nil \notin {wSQ, wSD, wSG, wDQ, wGS, wSDQ, wSGS, wGSQ, wSGSQ}
    /\ \A w \in {wSQ, wSD, wSG, wSDQ, wSGS, wSGSQ} : Head(w) = "RECORDING_STOP"
    /\ \A w \in {wGS, wGSQ} : Head(w) = "RECORDING_GRANT"
    /\ Head(wDQ) = "RECORDING_DECLINE"
    /\ Tail(wSQ) = wQ /\ Tail(wSD) = wD /\ Tail(wSG) = wG
    /\ Tail(wDQ) = wQ /\ Tail(wGS) = wS
    /\ Tail(wSDQ) = wDQ /\ Tail(wSGS) = wGS /\ Tail(wGSQ) = wSQ /\ Tail(wSGSQ) = wGSQ
  <1>1. /\ "RECORDING_STOP" \in ConsentMsgs /\ "RECORDING_REQUEST" \in ConsentMsgs
        /\ "RECORDING_GRANT" \in ConsentMsgs /\ "RECORDING_DECLINE" \in ConsentMsgs
    BY DEF ConsentMsgs
  <1>2. /\ {wSQ, wSD, wSG, wDQ, wGS} \subseteq Seq(ConsentMsgs)
        /\ Nil \notin {wSQ, wSD, wSG, wDQ, wGS}
        /\ \A w \in {wSQ, wSD, wSG} : Head(w) = "RECORDING_STOP"
        /\ Head(wGS) = "RECORDING_GRANT" /\ Head(wDQ) = "RECORDING_DECLINE"
        /\ Tail(wSQ) = wQ /\ Tail(wSD) = wD /\ Tail(wSG) = wG
        /\ Tail(wDQ) = wQ /\ Tail(wGS) = wS
    BY <1>1, ShortWords, WordMore DEF wSQ, wSD, wSG, wDQ, wGS
  <1>a. /\ wSDQ \in Seq(ConsentMsgs) /\ wSDQ # Nil /\ Head(wSDQ) = "RECORDING_STOP"
        /\ Tail(wSDQ) = Append(wD, "RECORDING_REQUEST")
    BY <1>1, <1>2, WordMore DEF wSDQ
  <1>b. /\ wSGS \in Seq(ConsentMsgs) /\ wSGS # Nil /\ Head(wSGS) = "RECORDING_STOP"
        /\ Tail(wSGS) = Append(wG, "RECORDING_STOP")
    BY <1>1, <1>2, WordMore DEF wSGS
  <1>c. /\ wGSQ \in Seq(ConsentMsgs) /\ wGSQ # Nil /\ Head(wGSQ) = "RECORDING_GRANT"
        /\ Tail(wGSQ) = Append(wS, "RECORDING_REQUEST")
    BY <1>1, <1>2, WordMore DEF wGSQ
  <1>d. /\ wSGSQ \in Seq(ConsentMsgs) /\ wSGSQ # Nil /\ Head(wSGSQ) = "RECORDING_STOP"
        /\ Tail(wSGSQ) = Append(Append(wG, "RECORDING_STOP"), "RECORDING_REQUEST")
    BY <1>1, <1>b, WordMore DEF wSGSQ
  <1>5. QED
    BY <1>2, <1>a, <1>b, <1>c, <1>d DEF wDQ, wGS, wSQ, wGSQ

\* The other side's step is this side's step seen from there.
LEMMA TalkSwaps ==
    ASSUME NEW a, NEW b, NEW f, NEW g
    PROVE  Talk(a, b, f, g) <=> Talk(b, a, g, f)
  BY Zenon DEF Talk

\* Hearing the next message leads from one line of the table to another.
LEMMA TalkReceive ==
    ASSUME NEW a, NEW b, NEW f, NEW g, Talk(a, b, f, g), f # Nil
    PROVE  Talk(Consent(a, Head(f)), b, Tail(f), g)
  <1>1. CASE HalfTalk(a, b, f, g)
    BY <1>1, ShortWords, LongWords DEF Talk, HalfTalk, Consent
  <1>2. CASE HalfTalk(b, a, g, f)
    BY <1>2, ShortWords, LongWords DEF Talk, HalfTalk, Consent
  <1>3. QED
    BY <1>1, <1>2 DEF Talk
\* With nothing on its way both sides record, or neither does.
LEMMA TalkQuiet ==
    ASSUME NEW a, NEW b, Talk(a, b, Nil, Nil)
    PROVE  a = "RECORDING" <=> b = "RECORDING"
  BY ShortWords, LongWords DEF Talk, HalfTalk

\* What one more message makes of a word.
LEMMA WordsGrow ==
    /\ Append(wS, "RECORDING_REQUEST") = wSQ /\ Append(wS, "RECORDING_DECLINE") = wSD
    /\ Append(wS, "RECORDING_GRANT") = wSG /\ Append(wD, "RECORDING_REQUEST") = wDQ
    /\ Append(wG, "RECORDING_STOP") = wGS /\ Append(wSD, "RECORDING_REQUEST") = wSDQ
    /\ Append(wSG, "RECORDING_STOP") = wSGS /\ Append(wGS, "RECORDING_REQUEST") = wGSQ
    /\ Append(wSGS, "RECORDING_REQUEST") = wSGSQ
  BY DEF wSQ, wSD, wSG, wDQ, wGS, wSDQ, wSGS, wGSQ, wSGSQ

\* A side in phase a says m and goes to phase b, without withdrawing anything.
Says(a, m, b) ==
    \/ a = "NONE" /\ m = "RECORDING_REQUEST" /\ b = "AWAITING_REMOTE"
    \/ a = "RECORDING" /\ m = "RECORDING_STOP" /\ b = "NONE"
    \/ a = "AWAITING_LOCAL" /\ m = "RECORDING_GRANT" /\ b = "RECORDING"
    \/ a = "AWAITING_LOCAL" /\ m = "RECORDING_DECLINE" /\ b = "NONE"

\* What a user does to the recording, unless a request is withdrawn.
LEMMA UserTalks ==
    ASSUME NEW a, NEW ev \in {"REQUEST", "APPROVE", "DECLINE", "STOP"},
           Consent(a, ev) # a, ~(ev = "STOP" /\ a = "AWAITING_REMOTE")
    PROVE  \E m \in ConsentMsgs :
             /\ ConsentSends(a, ev) = <<m>>
             /\ Says(a, m, Consent(a, ev))
  BY DEF Consent, ConsentSends, ConsentMsgs, Says

\* So does saying something.
LEMMA TalkSends ==
    ASSUME NEW a, NEW b, NEW f, NEW g, Talk(a, b, f, g), NEW m, NEW to,
           Says(a, m, to)
    PROVE  Talk(to, b, f, Append(g, m))
  <1>1. CASE HalfTalk(a, b, f, g)
    BY <1>1, ShortWords, LongWords, WordsGrow DEF Talk, HalfTalk, Says
  <1>2. CASE HalfTalk(b, a, g, f)
    BY <1>2, ShortWords, LongWords, WordsGrow DEF Talk, HalfTalk, Says
  <1>3. QED
    BY <1>1, <1>2 DEF Talk

-----------------------------------------------------------------------------
\* f is what is left of the queue s without the messages about the call.
Spells(s, f) ==
    \E e \in [1..Len(f) -> 1..Len(s)] :
        /\ \A i, j \in 1..Len(f) : i < j => e[i] < e[j]
        /\ \A i \in 1..Len(f) : s[e[i]] = f[i]
        /\ \A k \in 1..Len(s) : s[k] \in ConsentMsgs => \E i \in 1..Len(f) : e[i] = k

\* An empty queue spells nothing.
LEMMA SpellsNothing ==
    /\ Spells(<<>>, Nil)
    /\ \A f \in Seq(ConsentMsgs) : Spells(<<>>, f) => f = Nil
  <1>1. Spells(<<>>, Nil)
    <2> DEFINE e == [i \in 1..0 |-> 1]
    <2>1. Len(<<>>) = 0 /\ e \in [1..Len(<<>>) -> 1..Len(<<>>)]
      OBVIOUS
    <2>2. /\ \A i, j \in 1..Len(<<>>) : i < j => e[i] < e[j]
          /\ \A i \in 1..Len(<<>>) : <<>>[e[i]] = <<>>[i]
          /\ \A k \in 1..Len(<<>>) : <<>>[k] \in ConsentMsgs
                => \E i \in 1..Len(<<>>) : e[i] = k
      BY <2>1
    <2> HIDE DEF e
    <2>3. QED
      BY <2>1, <2>2 DEF Spells, Nil
  <1>2. ASSUME NEW f \in Seq(ConsentMsgs), Spells(<<>>, f) PROVE f = Nil
    <2>1. PICK e \in [1..Len(f) -> 1..Len(<<>>)] : TRUE
      BY <1>2 DEF Spells
    <2>2. Len(f) = 0
      <3>1. Len(f) \in Nat /\ Len(<<>>) = 0
        OBVIOUS
      <3>2. ASSUME Len(f) # 0 PROVE FALSE
        <4>1. 1 \in 1..Len(f)
          BY <3>1, <3>2
        <4>2. e[1] \in 1..0
          BY <2>1, <3>1, <4>1
        <4>3. QED
          BY <4>2
      <3>3. QED
        BY <3>2
    <2>3. QED
      BY <2>2 DEF Nil
  <1>3. QED
    BY <1>1, <1>2

\* A recording message joins the word.
LEMMA SpellsSend ==
    ASSUME NEW s \in Seq(Msgs), NEW f \in Seq(ConsentMsgs), Spells(s, f),
           NEW m \in ConsentMsgs
    PROVE  Spells(Append(s, m), Append(f, m))
  <1>1. PICK e \in [1..Len(f) -> 1..Len(s)] :
          /\ \A i, j \in 1..Len(f) : i < j => e[i] < e[j]
          /\ \A i \in 1..Len(f) : s[e[i]] = f[i]
          /\ \A k \in 1..Len(s) : s[k] \in ConsentMsgs => \E i \in 1..Len(f) : e[i] = k
    BY DEF Spells
  <1> DEFINE t == Append(s, m)
             g == Append(f, m)
             d == [i \in 1..Len(g) |-> IF i <= Len(f) THEN e[i] ELSE Len(s) + 1]
  <1>2. /\ Len(t) = Len(s) + 1 /\ Len(g) = Len(f) + 1 /\ Len(s) \in Nat /\ Len(f) \in Nat
        /\ \A k \in 1..Len(s) : t[k] = s[k]
        /\ \A i \in 1..Len(f) : g[i] = f[i]
        /\ t[Len(s) + 1] = m /\ g[Len(f) + 1] = m
    OBVIOUS
  <1> HIDE DEF t, g
  <1>3. d \in [1..Len(g) -> 1..Len(t)]
    BY <1>1, <1>2
  <1>4. \A i, j \in 1..Len(g) : i < j => d[i] < d[j]
    BY <1>1, <1>2
  <1>5. ASSUME NEW i \in 1..Len(g) PROVE t[d[i]] = g[i]
    <2>1. CASE i <= Len(f)
      <3>1. i \in 1..Len(f) /\ d[i] = e[i] /\ e[i] \in 1..Len(s)
        BY <1>1, <1>2, <2>1
      <3>2. QED
        BY <1>1, <1>2, <3>1
    <2>2. CASE ~(i <= Len(f))
      BY <1>2, <2>2
    <2>3. QED
      BY <2>1, <2>2
  <1>6. ASSUME NEW k \in 1..Len(t), t[k] \in ConsentMsgs
        PROVE  \E i \in 1..Len(g) : d[i] = k
    <2>1. CASE k = Len(s) + 1
      <3>1. Len(f) + 1 \in 1..Len(g) /\ d[Len(f) + 1] = k
        BY <1>2, <2>1
      <3>2. QED
        BY <3>1
    <2>2. CASE k # Len(s) + 1
      <3>1. k \in 1..Len(s) /\ s[k] \in ConsentMsgs
        BY <1>2, <1>6, <2>2
      <3>2. PICK i \in 1..Len(f) : e[i] = k
        BY <1>1, <3>1
      <3>3. i \in 1..Len(g) /\ d[i] = k
        BY <1>2, <3>2
      <3>4. QED
        BY <3>3
    <2>3. QED
      BY <2>1, <2>2
  <1> HIDE DEF d
  <1>7. Spells(t, g)
    BY <1>3, <1>4, <1>5, <1>6 DEF Spells
  <1>8. QED
    BY <1>7 DEF t, g

\* A message about the call does not.
LEMMA SpellsPass ==
    ASSUME NEW s \in Seq(Msgs), NEW f \in Seq(ConsentMsgs), Spells(s, f),
           NEW m \in Msgs \ ConsentMsgs
    PROVE  Spells(Append(s, m), f)
  <1>1. PICK e \in [1..Len(f) -> 1..Len(s)] :
          /\ \A i, j \in 1..Len(f) : i < j => e[i] < e[j]
          /\ \A i \in 1..Len(f) : s[e[i]] = f[i]
          /\ \A k \in 1..Len(s) : s[k] \in ConsentMsgs => \E i \in 1..Len(f) : e[i] = k
    BY DEF Spells
  <1> DEFINE t == Append(s, m)
  <1>2. /\ Len(t) = Len(s) + 1 /\ Len(s) \in Nat /\ Len(f) \in Nat
        /\ \A k \in 1..Len(s) : t[k] = s[k]
        /\ t[Len(s) + 1] = m
    OBVIOUS
  <1> HIDE DEF t
  <1>3. /\ e \in [1..Len(f) -> 1..Len(t)]
        /\ \A i \in 1..Len(f) : t[e[i]] = f[i]
    <2>1. \A i \in 1..Len(f) : e[i] \in 1..Len(s)
      BY <1>1
    <2>2. \A i \in 1..Len(s) : i \in 1..Len(t)
      BY <1>2
    <2>3. e \in [1..Len(f) -> 1..Len(t)]
      BY <1>1, <2>1, <2>2
    <2>4. \A i \in 1..Len(f) : t[e[i]] = f[i]
      BY <1>1, <1>2, <2>1
    <2>5. QED
      BY <2>3, <2>4
  <1>4. ASSUME NEW k \in 1..Len(t), t[k] \in ConsentMsgs
        PROVE  \E i \in 1..Len(f) : e[i] = k
    <2>1. k # Len(s) + 1
      BY <1>2, <1>4
    <2>2. k \in 1..Len(s) /\ s[k] \in ConsentMsgs
      BY <1>2, <1>4, <2>1
    <2>3. QED
      BY <1>1, <2>2
  <1>5. Spells(t, f)
    BY <1>1, <1>3, <1>4 DEF Spells
  <1>6. QED
    BY <1>5 DEF t

\* The first recording message of the queue is the first of the word.
LEMMA SpellsHear ==
    ASSUME NEW s \in Seq(Msgs), NEW f \in Seq(ConsentMsgs), Spells(s, f),
           s # <<>>, Head(s) \in ConsentMsgs
    PROVE  f # Nil /\ Head(f) = Head(s) /\ Spells(Tail(s), Tail(f))
  <1>1. PICK e \in [1..Len(f) -> 1..Len(s)] :
          /\ \A i, j \in 1..Len(f) : i < j => e[i] < e[j]
          /\ \A i \in 1..Len(f) : s[e[i]] = f[i]
          /\ \A k \in 1..Len(s) : s[k] \in ConsentMsgs => \E i \in 1..Len(f) : e[i] = k
    BY DEF Spells
  <1>2. 1 \in 1..Len(s) /\ s[1] = Head(s) /\ Len(f) \in Nat /\ Len(s) \in Nat
    OBVIOUS
  <1>3. PICK i \in 1..Len(f) : e[i] = 1
    BY <1>1, <1>2
  <1>4. 1 \in 1..Len(f) /\ e[1] = 1
    <2>1. 1 \in 1..Len(f)
      BY <1>2, <1>3
    <2>2. e[1] \in 1..Len(s)
      BY <1>1, <2>1
    <2>3. QED
      BY <1>1, <1>2, <1>3, <2>1, <2>2
  <1>5. f # Nil /\ Head(f) = Head(s)
    BY <1>1, <1>2, <1>4 DEF Nil
  <1> DEFINE t == Tail(s)
             g == Tail(f)
             d == [j \in 1..Len(g) |-> e[j + 1] - 1]
  <1>6. /\ Len(t) = Len(s) - 1 /\ Len(g) = Len(f) - 1
        /\ \A k \in 1..Len(t) : t[k] = s[k + 1]
        /\ \A j \in 1..Len(g) : g[j] = f[j + 1]
    BY <1>5 DEF Nil
  <1> HIDE DEF t, g
  <1>7. ASSUME NEW j \in 1..Len(g) PROVE j + 1 \in 1..Len(f) /\ e[j + 1] \in 2..Len(s)
    <2>1. j + 1 \in 1..Len(f) /\ 1 < j + 1
      BY <1>2, <1>6
    <2>2. e[j + 1] \in 1..Len(s) /\ e[1] < e[j + 1]
      BY <1>1, <1>4, <2>1
    <2>3. QED
      BY <1>2, <1>4, <2>1, <2>2
  <1>8. d \in [1..Len(g) -> 1..Len(t)]
    BY <1>2, <1>6, <1>7
  <1>9. ASSUME NEW j \in 1..Len(g), NEW k \in 1..Len(g), j < k PROVE d[j] < d[k]
    <2>1. /\ j + 1 \in 1..Len(f) /\ k + 1 \in 1..Len(f) /\ j + 1 < k + 1
          /\ e[j + 1] \in 2..Len(s) /\ e[k + 1] \in 2..Len(s)
      BY <1>7, <1>9
    <2>2. e[j + 1] < e[k + 1]
      BY <1>1, <2>1
    <2>3. d[j] = e[j + 1] - 1 /\ d[k] = e[k + 1] - 1
      OBVIOUS
    <2>4. QED
      BY <1>2, <2>1, <2>2, <2>3
  <1>10. ASSUME NEW j \in 1..Len(g) PROVE t[d[j]] = g[j]
    <2>1. d[j] = e[j + 1] - 1 /\ d[j] \in 1..Len(t)
      BY <1>8
    <2>a. d[j] + 1 = e[j + 1]
      BY <1>7, <2>1
    <2>2. t[d[j]] = s[e[j + 1]]
      BY <1>6, <2>1, <2>a
    <2>3. QED
      BY <1>1, <1>6, <1>7, <2>2
  <1>11. ASSUME NEW k \in 1..Len(t), t[k] \in ConsentMsgs
         PROVE  \E j \in 1..Len(g) : d[j] = k
    <2>1. k + 1 \in 1..Len(s) /\ s[k + 1] \in ConsentMsgs
      BY <1>2, <1>6, <1>11
    <2>2. PICK j \in 1..Len(f) : e[j] = k + 1
      BY <1>1, <2>1
    <2>3. j # 1
      BY <1>4, <2>2
    <2>4. j - 1 \in 1..Len(g) /\ (j - 1) + 1 = j
      BY <1>2, <1>6, <2>2, <2>3
    <2>5. d[j - 1] = k
      BY <2>2, <2>4
    <2>6. QED
      BY <2>4, <2>5
  <1> HIDE DEF d
  <1>12. Spells(t, g)
    BY <1>8, <1>9, <1>10, <1>11 DEF Spells
  <1>13. QED
    BY <1>5, <1>12 DEF t, g

\* A message about the call leaves the queue and not the word.
LEMMA SpellsSkip ==
    ASSUME NEW s \in Seq(Msgs), NEW f \in Seq(ConsentMsgs), Spells(s, f),
           s # <<>>, Head(s) \notin ConsentMsgs
    PROVE  Spells(Tail(s), f)
  <1>1. PICK e \in [1..Len(f) -> 1..Len(s)] :
          /\ \A i, j \in 1..Len(f) : i < j => e[i] < e[j]
          /\ \A i \in 1..Len(f) : s[e[i]] = f[i]
          /\ \A k \in 1..Len(s) : s[k] \in ConsentMsgs => \E i \in 1..Len(f) : e[i] = k
    BY DEF Spells
  <1>2. s[1] = Head(s) /\ Len(f) \in Nat /\ Len(s) \in Nat
    OBVIOUS
  <1> DEFINE t == Tail(s)
             d == [j \in 1..Len(f) |-> e[j] - 1]
  <1>3. /\ Len(t) = Len(s) - 1
        /\ \A k \in 1..Len(t) : t[k] = s[k + 1]
    OBVIOUS
  <1> HIDE DEF t
  <1>4. ASSUME NEW j \in 1..Len(f) PROVE e[j] \in 2..Len(s)
    <2>1. e[j] # 1
      <3>1. f[j] \in ConsentMsgs
        OBVIOUS
      <3>2. QED
        BY <1>1, <1>2, <3>1
    <2>2. QED
      BY <1>1, <1>2, <2>1
  <1>5. d \in [1..Len(f) -> 1..Len(t)]
    BY <1>2, <1>3, <1>4
  <1>6. \A j, k \in 1..Len(f) : j < k => d[j] < d[k]
    BY <1>1, <1>4
  <1>7. ASSUME NEW j \in 1..Len(f) PROVE t[d[j]] = f[j]
    <2>1. d[j] \in 1..Len(t) /\ d[j] + 1 = e[j]
      BY <1>4, <1>5
    <2>2. QED
      BY <1>1, <1>3, <2>1
  <1>8. ASSUME NEW k \in 1..Len(t), t[k] \in ConsentMsgs
        PROVE  \E j \in 1..Len(f) : d[j] = k
    <2>1. k + 1 \in 1..Len(s) /\ s[k + 1] \in ConsentMsgs
      BY <1>2, <1>3, <1>8
    <2>2. PICK j \in 1..Len(f) : e[j] = k + 1
      BY <1>1, <2>1
    <2>3. d[j] = k
      BY <2>2
    <2>4. QED
      BY <2>3
  <1> HIDE DEF d
  <1>9. Spells(t, f)
    BY <1>5, <1>6, <1>7, <1>8 DEF Spells
  <1>10. QED
    BY <1>9 DEF t

-----------------------------------------------------------------------------
(* Phases and messages about the call.                                     *)

\* The messages of a queue.
Elems(s) == {s[i] : i \in DOMAIN s}
Flight(p) == Elems(session[p])

\* Nothing is ahead of an invite, and an acceptance is ahead of a hangup.
InviteFirst(s) == \A i \in DOMAIN s : s[i] = "CALL_INVITE" => i = 1
AcceptFirst(s) ==
    \A i, j \in DOMAIN s : s[i] = "CALL_ACCEPT" /\ s[j] = "CALL_END" => i < j

\* C and E are the phases of caller and callee, X and Y what is on its way to
\* them.
PhasesFit(C, E, X, Y) ==
    /\ C # "RINGING" /\ E # "INVITING"
    /\ "CALL_INVITE" \notin X /\ "CALL_ACCEPT" \notin Y /\ "CALL_DECLINE" \notin Y
    /\ "CALL_INVITE" \in Y => X = {} /\ E = "absent"
    /\ C \in {"INVITING", "ACTIVE"} => "CALL_END" \notin Y
    /\ "CALL_ACCEPT" \in X => E # "RINGING"
    /\ "CALL_DECLINE" \in X \/ "CALL_END" \in X => E \notin {"RINGING", "ACTIVE"}

\* Unless a side left on its own, a side that is in the call has the other with
\* it, or the message that tells it otherwise is on its way.
Meeting(C, E, X, Y) ==
    /\ E = "RINGING" \/ "CALL_INVITE" \in Y => C = "INVITING" \/ "CALL_END" \in Y
    /\ C = "INVITING" /\ "CALL_ACCEPT" \in X => E = "ACTIVE" \/ "CALL_END" \in X
    /\ C = "ACTIVE" => E = "ACTIVE" \/ "CALL_END" \in X
    /\ E = "ACTIVE" => \/ C = "ACTIVE"
                       \/ C = "INVITING" /\ "CALL_ACCEPT" \in X
                       \/ "CALL_END" \in Y

\* Both sides may still meet in the call.
Together(C, E, Y) ==
    C \in {"INVITING", "ACTIVE"} /\ (E \in {"RINGING", "ACTIVE"} \/ "CALL_INVITE" \in Y)

\* The two consent machines and the messages between them are a line of the table.
Talking ==
    \E f, g \in Seq(ConsentMsgs) :
        /\ Spells(session["caller"], f) /\ Spells(session["callee"], g)
        /\ Talk(consent["caller"], consent["callee"], f, g)

\* Nobody placed the call yet.
Pristine == \A p \in Peers :
    phase[p] = "absent" /\ consent[p] = "NONE" /\ session[p] = <<>>

\* The invariant of a session that loses nothing, with daemons that do not die.
Undisturbed ==
    /\ \A p \in Peers : fresh[p] = {}
    /\ ~hist.placed => Pristine
    /\ InviteFirst(session["callee"]) /\ AcceptFirst(session["caller"])
    /\ PhasesFit(phase["caller"], phase["callee"], Flight("caller"), Flight("callee"))
    /\ ~hist.unilateral =>
         Meeting(phase["caller"], phase["callee"], Flight("caller"), Flight("callee"))
    /\ Together(phase["caller"], phase["callee"], Flight("callee")) /\ ~hist.withdrawn
         => Talking

CallInv == Reliable => Undisturbed

-----------------------------------------------------------------------------
\* What one more message makes of a queue.
LEMMA ElemsAppend ==
    ASSUME NEW s \in Seq(Msgs), NEW m \in Msgs
    PROVE  /\ Elems(Append(s, m)) = Elems(s) \cup {m}
           /\ InviteFirst(s) /\ (m # "CALL_INVITE" \/ s = <<>>) => InviteFirst(Append(s, m))
           /\ AcceptFirst(s) /\ (m = "CALL_ACCEPT" => "CALL_END" \notin Elems(s))
                => AcceptFirst(Append(s, m))
  <1> DEFINE t == Append(s, m)
  <1>1. /\ DOMAIN t = DOMAIN s \cup {Len(s) + 1} /\ DOMAIN s = 1..Len(s) /\ Len(s) \in Nat
        /\ \A i \in DOMAIN s : t[i] = s[i]
        /\ t[Len(s) + 1] = m
    OBVIOUS
  <1>a. s = <<>> => Len(s) = 0
    OBVIOUS
  <1> HIDE DEF t
  <1>2. Elems(t) = Elems(s) \cup {m}
    BY <1>1 DEF Elems
  <1>3. InviteFirst(s) /\ (m # "CALL_INVITE" \/ s = <<>>) => InviteFirst(t)
    BY <1>1, <1>a DEF InviteFirst
  <1>4. ASSUME AcceptFirst(s), m = "CALL_ACCEPT" => "CALL_END" \notin Elems(s)
        PROVE  AcceptFirst(t)
    <2> SUFFICES ASSUME NEW i \in DOMAIN t, NEW j \in DOMAIN t,
                        t[i] = "CALL_ACCEPT", t[j] = "CALL_END"
                 PROVE  i < j
      BY DEF AcceptFirst
    <2>1. CASE i \in DOMAIN s /\ j \in DOMAIN s
      BY <1>1, <1>4, <2>1 DEF AcceptFirst
    <2>2. CASE i \in DOMAIN s /\ j = Len(s) + 1
      BY <1>1, <2>2
    <2>3. CASE i = Len(s) + 1
      <3>1. m = "CALL_ACCEPT" /\ j # Len(s) + 1
        BY <1>1, <2>3
      <3>2. j \in DOMAIN s /\ s[j] = "CALL_END"
        BY <1>1, <3>1
      <3>3. QED
        BY <1>4, <3>1, <3>2 DEF Elems
    <2>4. QED
      BY <1>1, <2>1, <2>2, <2>3
  <1>5. QED
    BY <1>2, <1>3, <1>4 DEF t

\* What is left of a queue without its first message.
LEMMA ElemsTail ==
    ASSUME NEW s \in Seq(Msgs), s # <<>>
    PROVE  /\ Head(s) \in Msgs /\ Head(s) \in Elems(s) /\ Tail(s) \in Seq(Msgs)
           /\ Elems(s) = Elems(Tail(s)) \cup {Head(s)}
           /\ InviteFirst(s) => /\ InviteFirst(Tail(s))
                                /\ "CALL_INVITE" \notin Elems(Tail(s))
           /\ AcceptFirst(s) => /\ AcceptFirst(Tail(s))
                                /\ Head(s) = "CALL_END" => "CALL_ACCEPT" \notin Elems(s)
  <1> DEFINE t == Tail(s)
  <1>1. /\ Len(s) \in Nat /\ Len(s) > 0 /\ DOMAIN s = 1..Len(s) /\ DOMAIN t = 1..(Len(s) - 1)
        /\ \A i \in DOMAIN t : t[i] = s[i + 1]
        /\ Head(s) = s[1] /\ t \in Seq(Msgs) /\ Head(s) \in Msgs
    OBVIOUS
  <1> HIDE DEF t
  <1>a. \A i \in DOMAIN t : i + 1 \in DOMAIN s /\ i + 1 # 1
    BY <1>1
  <1>b. \A i \in DOMAIN s : i = 1 \/ (i - 1 \in DOMAIN t /\ t[i - 1] = s[i])
    <2> SUFFICES ASSUME NEW i \in DOMAIN s, i # 1 PROVE i - 1 \in DOMAIN t /\ t[i - 1] = s[i]
      OBVIOUS
    <2>1. i - 1 \in DOMAIN t /\ (i - 1) + 1 = i
      BY <1>1
    <2>2. QED
      BY <1>1, <2>1
  <1>2. Elems(s) = Elems(t) \cup {Head(s)}
    <2>1. ASSUME NEW x \in Elems(s) PROVE x \in Elems(t) \cup {Head(s)}
      <3>1. PICK i \in DOMAIN s : x = s[i]
        BY <2>1 DEF Elems
      <3>2. QED
        BY <1>1, <1>b, <3>1 DEF Elems
    <2>2. ASSUME NEW x \in Elems(t) PROVE x \in Elems(s)
      BY <1>1, <1>a, <2>2 DEF Elems
    <2>3. Head(s) \in Elems(s)
      BY <1>1 DEF Elems
    <2>4. QED
      BY <2>1, <2>2, <2>3
  <1>3. InviteFirst(s) => InviteFirst(t) /\ "CALL_INVITE" \notin Elems(t)
    BY <1>1, <1>a DEF InviteFirst, Elems
  <1>4. AcceptFirst(s) => AcceptFirst(t)
    <2> SUFFICES ASSUME AcceptFirst(s), NEW i \in DOMAIN t, NEW j \in DOMAIN t,
                        t[i] = "CALL_ACCEPT", t[j] = "CALL_END"
                 PROVE  i < j
      BY DEF AcceptFirst
    <2>1. i + 1 < j + 1
      BY <1>1, <1>a DEF AcceptFirst
    <2>2. QED
      BY <1>1, <2>1
  <1>5. AcceptFirst(s) /\ Head(s) = "CALL_END" => "CALL_ACCEPT" \notin Elems(s)
    BY <1>1 DEF AcceptFirst, Elems
  <1>6. QED
    BY <1>1, <1>2, <1>3, <1>4, <1>5 DEF t

-----------------------------------------------------------------------------
(* Sends and receives on a session that loses nothing.                     *)

\* A machine that sends one message adds it to the other side's queue.
LEMMA SentOne ==
    ASSUME TypeOK, faults' = 0, NEW p \in Peers, NEW m \in Msgs, Send(p, <<m>>)
    PROVE  /\ faults = 0 /\ fresh' = fresh
           /\ session'[p] = session[p]
           /\ session'[Other(p)] = Append(session[Other(p)], m)
           /\ session[p] \in Seq(Msgs) /\ session[Other(p)] \in Seq(Msgs)
  <1>1. /\ session \in [Peers -> Seq(Msgs)] /\ faults \in Nat /\ Other(p) \in Peers
        /\ Other(p) # p
    BY Typed, TwoPeers DEF TypeOK
  <1>2. /\ session' = [session EXCEPT ![Other(p)] = session[Other(p)] \o <<m>>]
        /\ fresh' = fresh /\ faults' = faults
    BY <1>1 DEF Send
  <1>3. session[Other(p)] \o <<m>> = Append(session[Other(p)], m)
    BY <1>1, AppendIsConcat
  <1>4. QED
    BY <1>1, <1>2, <1>3

\* A machine that sends nothing leaves the queues alone.
LEMMA SentNothing ==
    ASSUME TypeOK, faults' = 0, NEW p \in Peers, Send(p, <<>>)
    PROVE  faults = 0 /\ fresh' = fresh /\ \A q \in Peers : session'[q] = session[q]
  <1>1. /\ session \in [Peers -> Seq(Msgs)] /\ faults \in Nat /\ Other(p) \in Peers
    BY Typed, TwoPeers DEF TypeOK
  <1>2. /\ session' = [session EXCEPT ![Other(p)] = session[Other(p)] \o <<>>]
        /\ fresh' = fresh /\ faults' = faults
    BY <1>1 DEF Send
  <1>3. session[Other(p)] \o <<>> = session[Other(p)]
    BY <1>1, ConcatEmptySeq
  <1>4. QED
    BY <1>1, <1>2, <1>3

\* The words on their way stay as they are while only call messages move.
LEMMA TalkingKept ==
    ASSUME TypeOK, Talking, consent' = consent,
           \A p \in Peers :
              \/ session'[p] = session[p]
              \/ \E m \in Msgs \ ConsentMsgs : session'[p] = Append(session[p], m)
              \/ /\ session[p] # <<>> /\ Head(session[p]) \notin ConsentMsgs
                 /\ session'[p] = Tail(session[p])
    PROVE  Talking'
  <1>1. PICK f, g \in Seq(ConsentMsgs) :
          /\ Spells(session["caller"], f) /\ Spells(session["callee"], g)
          /\ Talk(consent["caller"], consent["callee"], f, g)
    BY DEF Talking
  <1>2. ASSUME NEW p \in Peers, NEW w \in Seq(ConsentMsgs), Spells(session[p], w)
        PROVE  Spells(session'[p], w)
    <2>1. session[p] \in Seq(Msgs)
      BY Typed
    <2>2. QED
      BY <1>2, <2>1, SpellsPass, SpellsSkip
  <1>3. Spells(session'["caller"], f) /\ Spells(session'["callee"], g)
    BY <1>1, <1>2 DEF Peers
  <1>4. QED
    BY <1>1, <1>3 DEF Talking

-----------------------------------------------------------------------------
(* The steps.                                                              *)

\* What the user can do to the call, and what it sends.
LEMMA UserCallMoves ==
    ASSUME NEW p \in Peers, NEW ph,
           NEW ev \in {"ACCEPT", "DECLINE", "HANGUP", "CONVERT", "RESUME"},
           Lifecycle(p, ph, ev) # ph
    PROVE  \/ /\ ph = "ACTIVE" /\ ev = "CONVERT" /\ Lifecycle(p, ph, ev) = "ASYNC_CAPTURE"
              /\ LifecycleSends(p, ph, ev) = <<>>
           \/ \E m \in CallMsgs :
                /\ LifecycleSends(p, ph, ev) = <<m>> /\ ev # "CONVERT"
                /\ \/ p = "caller" /\ ph = "INVITING" /\ Lifecycle(p, ph, ev) = "ENDED" /\ m = "CALL_END"
                   \/ ph = "RINGING" /\ Lifecycle(p, ph, ev) = "ACTIVE" /\ m = "CALL_ACCEPT"
                   \/ ph = "RINGING" /\ Lifecycle(p, ph, ev) = "ENDED" /\ m = "CALL_DECLINE"
                   \/ ph = "ACTIVE" /\ Lifecycle(p, ph, ev) = "ENDED" /\ m = "CALL_END"
                   \/ ph = "RESUMABLE" /\ Lifecycle(p, ph, ev) = "ENDED" /\ m = "RESUME_OFFER"
  BY DEF Lifecycle, LifecycleSends, CallMsgs, Peers

\* A user accepts, declines, hangs up, converts or resumes.
LEMMA UserCallAgrees ==
    ASSUME TypeOK, Undisturbed, Reliable', NEW p \in Peers,
           NEW ev \in {"ACCEPT", "DECLINE", "HANGUP", "CONVERT", "RESUME"}, UserCall(p, ev)
    PROVE  Undisturbed'
  <1> DEFINE q == Other(p)
             to == Lifecycle(p, phase[p], ev)
  <1>1. /\ phase[p] # "absent" /\ to # phase[p]
        /\ Send(p, LifecycleSends(p, phase[p], ev))
        /\ phase' = [phase EXCEPT ![p] = to] /\ consent' = consent
        /\ phase \in [Peers -> CallPhase]
        /\ hist' = [hist EXCEPT !.over = hist.over \/ (p = "callee" /\ phase'[p] = "ENDED"),
                                !.unilateral = hist.unilateral \/ ev = "CONVERT"]
        /\ faults' = 0
    BY DEF UserCall, LifecycleEvent, TypeOK, Reliable
  <1>2. /\ phase'[p] = to /\ phase'[q] = phase[q] /\ q \in Peers /\ q # p
        /\ {"caller", "callee"} = Peers
    BY <1>1, TwoPeers DEF Peers
  <1>3. hist.placed
    BY <1>1 DEF Undisturbed, Pristine
  <1>4. /\ hist'.placed = hist.placed /\ hist'.withdrawn = hist.withdrawn
        /\ hist'.unilateral = (hist.unilateral \/ ev = "CONVERT")
    BY <1>1 DEF TypeOK
  <1> HIDE DEF to, q
  <1>5. CASE /\ phase[p] = "ACTIVE" /\ ev = "CONVERT" /\ to = "ASYNC_CAPTURE"
             /\ LifecycleSends(p, phase[p], ev) = <<>>
    <2>1. fresh' = fresh /\ \A r \in Peers : session'[r] = session[r]
      BY <1>1, <1>5, SentNothing
    <2>2. Flight("caller")' = Flight("caller") /\ Flight("callee")' = Flight("callee")
      BY <1>2, <2>1 DEF Flight
    <2>3. Talking => Talking'
      BY <1>1, <2>1, TalkingKept
    <2>4. PhasesFit(phase["caller"], phase["callee"], Flight("caller"), Flight("callee"))'
      BY <1>2, <1>5, <2>2 DEF Undisturbed, PhasesFit, Peers
    <2>5. Together(phase["caller"], phase["callee"], Flight("callee"))'
            => Together(phase["caller"], phase["callee"], Flight("callee"))
      BY <1>2, <1>5, <2>2 DEF Undisturbed, PhasesFit, Together, Peers
    <2>6. QED
      BY <1>2, <1>3, <1>4, <1>5, <2>1, <2>2, <2>3, <2>4, <2>5 DEF Undisturbed
  <1>6. ASSUME NEW m \in CallMsgs, LifecycleSends(p, phase[p], ev) = <<m>>, ev # "CONVERT",
               \/ p = "caller" /\ phase[p] = "INVITING" /\ to = "ENDED" /\ m = "CALL_END"
               \/ phase[p] = "RINGING" /\ to = "ACTIVE" /\ m = "CALL_ACCEPT"
               \/ phase[p] = "RINGING" /\ to = "ENDED" /\ m = "CALL_DECLINE"
               \/ phase[p] = "ACTIVE" /\ to = "ENDED" /\ m = "CALL_END"
               \/ phase[p] = "RESUMABLE" /\ to = "ENDED" /\ m = "RESUME_OFFER"
        PROVE  Undisturbed'
    <2>1. m \in Msgs \ ConsentMsgs
      BY DEF Msgs, CallMsgs, ConsentMsgs
    <2>2. /\ fresh' = fresh /\ session'[p] = session[p]
          /\ session'[q] = Append(session[q], m) /\ session[q] \in Seq(Msgs)
      BY <1>1, <1>6, <2>1, SentOne DEF q
    <2>3. /\ Flight(p)' = Flight(p) /\ Flight(q)' = Flight(q) \cup {m}
          /\ InviteFirst(session[q]) /\ m # "CALL_INVITE" => InviteFirst(session'[q])
          /\ AcceptFirst(session[q]) /\ (m = "CALL_ACCEPT" => "CALL_END" \notin Flight(q))
               => AcceptFirst(session'[q])
      BY <2>1, <2>2, ElemsAppend DEF Flight
    <2>4. Talking => Talking'
      <3>1. \A r \in Peers : r = p \/ r = q
        BY TwoPeers DEF Peers, q, Other
      <3>2. QED
        BY <1>1, <2>1, <2>2, <3>1, TalkingKept
    <2>5. CASE p = "caller"
      <3>1. q = "callee"
        BY <2>5 DEF q, Other
      <3>2. InviteFirst(session'["callee"]) /\ AcceptFirst(session'["caller"])
        BY <1>6, <2>2, <2>3, <2>5, <3>1 DEF Undisturbed
      <3>3. PhasesFit(phase["caller"], phase["callee"], Flight("caller"), Flight("callee"))'
        BY <1>2, <1>6, <2>3, <2>5, <3>1 DEF Undisturbed, PhasesFit
      <3>4. ~hist.unilateral =>
             Meeting(phase["caller"], phase["callee"], Flight("caller"), Flight("callee"))'
        BY <1>2, <1>6, <2>3, <2>5, <3>1 DEF Undisturbed, PhasesFit, Meeting
      <3>5. Together(phase["caller"], phase["callee"], Flight("callee"))'
              => Together(phase["caller"], phase["callee"], Flight("callee"))
        BY <1>2, <1>6, <2>3, <2>5, <3>1 DEF Undisturbed, PhasesFit, Together
      <3>6. QED
        BY <1>3, <1>4, <2>2, <2>4, <3>2, <3>3, <3>4, <3>5 DEF Undisturbed
    <2>6. CASE p = "callee"
      <3>1. q = "caller"
        BY <2>6 DEF q, Other
      <3>2. InviteFirst(session'["callee"]) /\ AcceptFirst(session'["caller"])
        BY <1>6, <2>2, <2>3, <2>6, <3>1 DEF Undisturbed, PhasesFit
      <3>3. PhasesFit(phase["caller"], phase["callee"], Flight("caller"), Flight("callee"))'
        BY <1>2, <1>6, <2>3, <2>6, <3>1 DEF Undisturbed, PhasesFit
      <3>4. ~hist.unilateral =>
             Meeting(phase["caller"], phase["callee"], Flight("caller"), Flight("callee"))'
        BY <1>2, <1>6, <2>3, <2>6, <3>1 DEF Undisturbed, PhasesFit, Meeting
      <3>5. Together(phase["caller"], phase["callee"], Flight("callee"))'
              => Together(phase["caller"], phase["callee"], Flight("callee"))
        BY <1>2, <1>6, <2>3, <2>6, <3>1 DEF Undisturbed, PhasesFit, Together
      <3>6. QED
        BY <1>3, <1>4, <2>2, <2>4, <3>2, <3>3, <3>4, <3>5 DEF Undisturbed
    <2>7. QED
      BY <2>5, <2>6 DEF Peers
  <1>7. QED
    <2>1. to # phase[p]
      BY <1>1
    <2>2. QED
      BY <2>1, <1>5, <1>6, UserCallMoves DEF to

\* A user asks for, approves, declines or stops a recording.
LEMMA UserRecordingAgrees ==
    ASSUME TypeOK, Undisturbed, Reliable', NEW p \in Peers,
           NEW ev \in {"REQUEST", "APPROVE", "DECLINE", "STOP"}, UserRecording(p, ev)
    PROVE  Undisturbed'
  <1> DEFINE q == Other(p)
  <1>1. /\ phase[p] # "absent" /\ Consent(consent[p], ev) # consent[p]
        /\ Send(p, ConsentSends(consent[p], ev))
        /\ consent' = [consent EXCEPT ![p] = Consent(consent[p], ev)]
        /\ phase' = phase
        /\ faults' = 0
    BY DEF UserRecording, ConsentEvent, Reliable
  <1>2. hist.placed
    BY <1>1 DEF Undisturbed, Pristine
  <1>3. /\ hist'.placed = hist.placed /\ hist'.unilateral = hist.unilateral
        /\ hist'.withdrawn = (hist.withdrawn \/ (ev = "STOP" /\ consent[p] = "AWAITING_REMOTE"))
    BY DEF TypeOK, UserRecording
  <1>4. /\ consent'[p] = Consent(consent[p], ev) /\ consent'[q] = consent[q]
        /\ q \in Peers /\ q # p
    BY <1>1, TwoPeers DEF TypeOK
  <1> HIDE DEF q
  <1>5. PICK m \in ConsentMsgs : ConsentSends(consent[p], ev) = <<m>>
    BY <1>1 DEF Consent, ConsentSends, ConsentMsgs
  <1>6. m \in Msgs /\ m \notin CallMsgs
    BY DEF Msgs, CallMsgs, ConsentMsgs
  <1>7. /\ fresh' = fresh /\ session'[p] = session[p]
        /\ session'[q] = Append(session[q], m)
        /\ session[q] \in Seq(Msgs) /\ session[p] \in Seq(Msgs)
    BY <1>1, <1>5, <1>6, SentOne DEF q
  <1>8. /\ Flight(p)' = Flight(p) /\ Flight(q)' = Flight(q) \cup {m}
        /\ InviteFirst(session[q]) /\ m # "CALL_INVITE" => InviteFirst(session'[q])
        /\ AcceptFirst(session[q]) /\ (m = "CALL_ACCEPT" => "CALL_END" \notin Flight(q))
             => AcceptFirst(session'[q])
    BY <1>6, <1>7, ElemsAppend DEF Flight
  <1>9. m \notin {"CALL_INVITE", "CALL_ACCEPT", "CALL_DECLINE", "CALL_END"}
    BY <1>6 DEF CallMsgs
  <1>10. /\ InviteFirst(session'["callee"]) /\ AcceptFirst(session'["caller"])
         /\ PhasesFit(phase["caller"], phase["callee"], Flight("caller"), Flight("callee"))'
         /\ ~hist.unilateral =>
              Meeting(phase["caller"], phase["callee"], Flight("caller"), Flight("callee"))'
         /\ Together(phase["caller"], phase["callee"], Flight("callee"))'
              => Together(phase["caller"], phase["callee"], Flight("callee"))
    <2>1. CASE p = "caller"
      <3>1. q = "callee"
        BY <2>1 DEF q, Other
      <3>2. QED
        BY <1>1, <1>7, <1>8, <1>9, <2>1, <3>1 DEF Undisturbed, PhasesFit, Meeting, Together
    <2>2. CASE p = "callee"
      <3>1. q = "caller"
        BY <2>2 DEF q, Other
      <3>2. QED
        BY <1>1, <1>7, <1>8, <1>9, <2>2, <3>1 DEF Undisturbed, PhasesFit, Meeting, Together
    <2>3. QED
      BY <2>1, <2>2 DEF Peers
  <1>11. ASSUME Talking, ~hist'.withdrawn PROVE Talking'
    <2>1. Says(consent[p], m, consent'[p])
      <3>1. PICK n \in ConsentMsgs :
             /\ ConsentSends(consent[p], ev) = <<n>>
             /\ Says(consent[p], n, Consent(consent[p], ev))
        <4>1. ~(ev = "STOP" /\ consent[p] = "AWAITING_REMOTE")
          BY <1>3, <1>11
        <4>2. QED
          BY <1>1, <4>1, UserTalks
      <3>2. n = m
        <4>1. <<n>>[1] = <<m>>[1]
          BY <1>5, <3>1
        <4>2. QED
          BY <4>1
      <3>3. QED
        BY <1>4, <3>1, <3>2
    <2>2. PICK f, g \in Seq(ConsentMsgs) :
            /\ Spells(session["caller"], f) /\ Spells(session["callee"], g)
            /\ Talk(consent["caller"], consent["callee"], f, g)
      BY <1>11 DEF Talking
    <2>3. CASE p = "caller"
      <3>1. q = "callee"
        BY <2>3 DEF q, Other
      <3>2. Append(g, m) \in Seq(ConsentMsgs) /\ Spells(session'["callee"], Append(g, m))
        <4>1. session["callee"] \in Seq(Msgs) /\ Spells(session["callee"], g)
          BY <1>7, <2>2, <3>1
        <4>2. Spells(Append(session["callee"], m), Append(g, m))
          BY <4>1, SpellsSend
        <4>3. Append(g, m) \in Seq(ConsentMsgs)
          OBVIOUS
        <4>4. QED
          BY <1>7, <3>1, <4>2, <4>3
      <3>3. Talk(consent'["caller"], consent'["callee"], f, Append(g, m))
        BY <1>4, <2>1, <2>2, <2>3, <3>1, TalkSends
      <3>4. QED
        BY <1>7, <2>2, <2>3, <3>2, <3>3 DEF Talking
    <2>4. CASE p = "callee"
      <3>1. q = "caller"
        BY <2>4 DEF q, Other
      <3>2. Append(f, m) \in Seq(ConsentMsgs) /\ Spells(session'["caller"], Append(f, m))
        <4>1. session["caller"] \in Seq(Msgs) /\ Spells(session["caller"], f)
          BY <1>7, <2>2, <3>1
        <4>2. Spells(Append(session["caller"], m), Append(f, m))
          BY <4>1, SpellsSend
        <4>3. Append(f, m) \in Seq(ConsentMsgs)
          OBVIOUS
        <4>4. QED
          BY <1>7, <3>1, <4>2, <4>3
      <3>3. Talk(consent["callee"], consent["caller"], g, f)
        BY <2>2, TalkSwaps
      <3>4. Talk(consent'["callee"], consent'["caller"], g, Append(f, m))
        BY <1>4, <2>1, <2>4, <3>1, <3>3, TalkSends
      <3>5. Talk(consent'["caller"], consent'["callee"], Append(f, m), g)
        BY <3>4, TalkSwaps
      <3>6. QED
        BY <1>7, <2>2, <2>4, <3>2, <3>5 DEF Talking
    <2>5. QED
      BY <2>3, <2>4 DEF Peers
  <1>12. QED
    BY <1>2, <1>3, <1>7, <1>10, <1>11 DEF Undisturbed

\* The caller takes m from its queue and goes from C to C1.
LEMMA CallerHears ==
    ASSUME NEW C, NEW C1, NEW E, NEW X, NEW X1, NEW Y, NEW m,
           PhasesFit(C, E, X, Y), X = X1 \cup {m},
           m = "CALL_END" => "CALL_ACCEPT" \notin X,
           \/ /\ C1 = C /\ (m = "CALL_END" => C # "ACTIVE")
              /\ m \in {"CALL_ACCEPT", "CALL_DECLINE"} => C # "INVITING"
           \/ C = "INVITING" /\ m = "CALL_ACCEPT" /\ C1 = "ACTIVE"
           \/ C = "INVITING" /\ m = "CALL_DECLINE" /\ C1 = "ASYNC_CAPTURE"
           \/ C = "ACTIVE" /\ m = "CALL_END" /\ C1 = "ENDED"
    PROVE  /\ PhasesFit(C1, E, X1, Y)
           /\ Meeting(C, E, X, Y) => Meeting(C1, E, X1, Y)
           /\ Together(C1, E, Y) => Together(C, E, Y)
  <1>1. PhasesFit(C1, E, X1, Y)
    BY DEF PhasesFit
  <1>2. Together(C1, E, Y) => Together(C, E, Y)
    BY DEF Together
  <1>3. ASSUME Meeting(C, E, X, Y) PROVE Meeting(C1, E, X1, Y)
    BY <1>3 DEF PhasesFit, Meeting
  <1>4. QED
    BY <1>1, <1>2, <1>3

\* The callee takes m from its queue and goes from E to E1.
LEMMA CalleeHears ==
    ASSUME NEW C, NEW E, NEW E1, NEW X, NEW Y, NEW Y1, NEW m,
           PhasesFit(C, E, X, Y), Y = Y1 \cup {m}, "CALL_INVITE" \notin Y1,
           \/ /\ E1 = E /\ m # "CALL_INVITE"
              /\ m = "CALL_END" => E \notin {"RINGING", "ACTIVE"}
           \/ E = "absent" /\ m = "CALL_INVITE" /\ E1 = "RINGING"
           \/ E \in {"RINGING", "ACTIVE"} /\ m = "CALL_END" /\ E1 = "ENDED"
    PROVE  /\ PhasesFit(C, E1, X, Y1)
           /\ Meeting(C, E, X, Y) => Meeting(C, E1, X, Y1)
           /\ Together(C, E1, Y1) => Together(C, E, Y)
  <1>1. PhasesFit(C, E1, X, Y1)
    BY DEF PhasesFit
  <1>2. Together(C, E1, Y1) => Together(C, E, Y)
    BY DEF Together
  <1>3. ASSUME Meeting(C, E, X, Y) PROVE Meeting(C, E1, X, Y1)
    BY <1>3 DEF PhasesFit, Meeting
  <1>4. QED
    BY <1>1, <1>2, <1>3

\* A recording message is heard by the side it is for.
LEMMA TalkingHeard ==
    ASSUME TypeOK, Talking, NEW p \in Peers, session[p] # <<>>,
           Head(session[p]) \in ConsentMsgs,
           session' = [session EXCEPT ![p] = Tail(session[p])],
           consent' = [consent EXCEPT ![p] = Consent(consent[p], Head(session[p]))]
    PROVE  Talking'
  <1>1. PICK f, g \in Seq(ConsentMsgs) :
          /\ Spells(session["caller"], f) /\ Spells(session["callee"], g)
          /\ Talk(consent["caller"], consent["callee"], f, g)
    BY DEF Talking
  <1>2. /\ session \in [Peers -> Seq(Msgs)] /\ consent \in [Peers -> ConsentPhase]
        /\ session[p] \in Seq(Msgs)
    BY Typed DEF TypeOK, Msgs
  <1>3. CASE p = "caller"
    <2>1. /\ session'["caller"] = Tail(session["caller"]) /\ session'["callee"] = session["callee"]
          /\ consent'["caller"] = Consent(consent["caller"], Head(session["caller"]))
          /\ consent'["callee"] = consent["callee"]
      BY <1>2, <1>3 DEF Peers
    <2>2. f # Nil /\ Head(f) = Head(session["caller"]) /\ Spells(Tail(session["caller"]), Tail(f))
      BY <1>1, <1>2, <1>3, SpellsHear
    <2>3. Tail(f) \in Seq(ConsentMsgs)
      BY <2>2 DEF Nil
    <2>4. Talk(Consent(consent["caller"], Head(f)), consent["callee"], Tail(f), g)
      BY <1>1, <2>2, TalkReceive
    <2>5. QED
      BY <1>1, <2>1, <2>2, <2>3, <2>4 DEF Talking
  <1>4. CASE p = "callee"
    <2>1. /\ session'["callee"] = Tail(session["callee"]) /\ session'["caller"] = session["caller"]
          /\ consent'["callee"] = Consent(consent["callee"], Head(session["callee"]))
          /\ consent'["caller"] = consent["caller"]
      BY <1>2, <1>4 DEF Peers
    <2>2. g # Nil /\ Head(g) = Head(session["callee"]) /\ Spells(Tail(session["callee"]), Tail(g))
      BY <1>1, <1>2, <1>4, SpellsHear
    <2>3. Tail(g) \in Seq(ConsentMsgs)
      BY <2>2 DEF Nil
    <2>4. Talk(Consent(consent["callee"], Head(g)), consent["caller"], Tail(g), f)
      BY <1>1, <2>2, TalkReceive, TalkSwaps
    <2>5. Talk(consent["caller"], Consent(consent["callee"], Head(g)), f, Tail(g))
      BY <2>4, TalkSwaps
    <2>6. QED
      BY <1>1, <2>1, <2>2, <2>3, <2>5 DEF Talking
  <1>5. QED
    BY <1>3, <1>4 DEF Peers

\* A side takes the next message of its queue.
LEMMA ReceiveAgrees ==
    ASSUME TypeOK, Undisturbed, Reliable', NEW p \in Peers, Receive(p)
    PROVE  Undisturbed'
  <1> DEFINE m == Head(session[p])
             q == Other(p)
  <1>1. /\ session[p] # <<>> /\ Dispatch(p, m) /\ fresh' = fresh
        /\ session' = [session EXCEPT ![p] = Tail(session[p])]
    BY DEF Receive
  <1>2. /\ session \in [Peers -> Seq(Msgs)] /\ session[p] \in Seq(Msgs)
        /\ phase \in [Peers -> CallPhase] /\ consent \in [Peers -> ConsentPhase]
        /\ q \in Peers /\ q # p
    BY Typed, TwoPeers DEF TypeOK, Msgs
  <1>3. session'[p] = Tail(session[p]) /\ session'[q] = session[q]
    BY <1>1, <1>2
  <1>4. /\ m \in Msgs /\ Flight(p) = Flight(p)' \cup {m} /\ Flight(q)' = Flight(q)
        /\ m \in Flight(p)
        /\ InviteFirst(session[p]) => /\ InviteFirst(session'[p])
                                      /\ "CALL_INVITE" \notin Flight(p)'
        /\ AcceptFirst(session[p]) => /\ AcceptFirst(session'[p])
                                      /\ m = "CALL_END" => "CALL_ACCEPT" \notin Flight(p)
    BY <1>1, <1>2, <1>3, ElemsTail DEF Flight
  <1>5. hist.placed
    BY <1>1 DEF Undisturbed, Pristine
  <1>6. /\ hist'.placed = hist.placed /\ hist'.unilateral = hist.unilateral
        /\ hist'.withdrawn = hist.withdrawn
    BY <1>1 DEF Dispatch, TypeOK
  <1> HIDE DEF m, q
  <1>7. PhasesFit(phase["caller"], phase["callee"], Flight("caller"), Flight("callee"))
    BY DEF Undisturbed
  <1>8. /\ phase'[q] = phase[q]
        /\ \/ m = "CALL_INVITE" /\ phase[p] = "absent" /\ phase'[p] = Lifecycle(p, "INVITING", m)
           \/ /\ m \in CallMsgs \ {"RESUME_OFFER"} /\ phase[p] # "absent"
              /\ phase'[p] = Lifecycle(p, phase[p], m)
           \/ m \in ConsentMsgs /\ phase[p] # "absent" /\ phase'[p] = phase[p]
           \/ m = "RESUME_OFFER" /\ phase'[p] = phase[p]
           \/ m # "CALL_INVITE" /\ phase[p] = "absent" /\ phase'[p] = phase[p]
    BY <1>1, <1>2, <1>4
       DEF Dispatch, LifecycleEvent, ConsentEvent, manager, WireTypes, CallMsgs, ConsentMsgs, Msgs
  <1>9. \/ m \in ConsentMsgs /\ phase[p] # "absent"
           /\ consent' = [consent EXCEPT ![p] = Consent(consent[p], m)]
        \/ m \in ConsentMsgs /\ phase[p] = "absent"
        \/ m \notin ConsentMsgs /\ consent' = consent
    BY <1>1, <1>2, <1>4
       DEF Dispatch, LifecycleEvent, ConsentEvent, manager, WireTypes, CallMsgs, ConsentMsgs, Msgs
  <1>10. /\ InviteFirst(session'["callee"]) /\ AcceptFirst(session'["caller"])
         /\ PhasesFit(phase["caller"], phase["callee"], Flight("caller"), Flight("callee"))'
         /\ ~hist.unilateral =>
              Meeting(phase["caller"], phase["callee"], Flight("caller"), Flight("callee"))'
         /\ Together(phase["caller"], phase["callee"], Flight("callee"))'
              => Together(phase["caller"], phase["callee"], Flight("callee"))
         /\ Together(phase["caller"], phase["callee"], Flight("callee"))'
              => phase[p] # "absent" \/ m \notin ConsentMsgs
    <2>1. CASE p = "caller"
      <3>1. q = "callee"
        BY <2>1 DEF q, Other
      <3>2. m # "CALL_INVITE"
        BY <1>4, <1>7, <2>1 DEF PhasesFit
      <3>3. \/ /\ phase'[p] = phase[p] /\ (m = "CALL_END" => phase[p] # "ACTIVE")
               /\ m \in {"CALL_ACCEPT", "CALL_DECLINE"} => phase[p] # "INVITING"
            \/ phase[p] = "INVITING" /\ m = "CALL_ACCEPT" /\ phase'[p] = "ACTIVE"
            \/ phase[p] = "INVITING" /\ m = "CALL_DECLINE" /\ phase'[p] = "ASYNC_CAPTURE"
            \/ phase[p] = "ACTIVE" /\ m = "CALL_END" /\ phase'[p] = "ENDED"
        <4>1. CASE m \in CallMsgs \ {"RESUME_OFFER"} /\ phase'[p] = Lifecycle(p, phase[p], m)
          BY <1>7, <2>1, <3>2, <4>1 DEF Lifecycle, CallMsgs, PhasesFit
        <4>2. CASE m \in ConsentMsgs /\ phase'[p] = phase[p]
          BY <4>2 DEF ConsentMsgs
        <4>3. QED
          BY <1>8, <3>2, <4>1, <4>2
      <3>4. m = "CALL_END" => "CALL_ACCEPT" \notin Flight("caller")
        BY <1>4, <2>1 DEF Undisturbed
      <3>5. /\ PhasesFit(phase'["caller"], phase["callee"], Flight("caller")', Flight("callee"))
            /\ Meeting(phase["caller"], phase["callee"], Flight("caller"), Flight("callee"))
                 => Meeting(phase'["caller"], phase["callee"], Flight("caller")', Flight("callee"))
            /\ Together(phase'["caller"], phase["callee"], Flight("callee"))
                 => Together(phase["caller"], phase["callee"], Flight("callee"))
        BY <1>4, <1>7, <2>1, <3>3, <3>4, CallerHears
      <3>6. InviteFirst(session'["callee"]) /\ AcceptFirst(session'["caller"])
        BY <1>3, <1>4, <2>1, <3>1 DEF Undisturbed
      <3>7. Together(phase["caller"], phase["callee"], Flight("callee"))
              => phase["caller"] # "absent"
        BY DEF Together
      <3>8. QED
        BY <1>4, <1>8, <2>1, <3>1, <3>5, <3>6, <3>7 DEF Undisturbed
    <2>2. CASE p = "callee"
      <3>1. q = "caller"
        BY <2>2 DEF q, Other
      <3>2. "CALL_INVITE" \notin Flight("callee")'
        BY <1>4, <2>2 DEF Undisturbed
      <3>3. m = "CALL_INVITE" => phase[p] = "absent"
        BY <1>4, <1>7, <2>2 DEF PhasesFit
      <3>4. \/ /\ phase'[p] = phase[p] /\ m # "CALL_INVITE"
               /\ m = "CALL_END" => phase[p] \notin {"RINGING", "ACTIVE"}
            \/ phase[p] = "absent" /\ m = "CALL_INVITE" /\ phase'[p] = "RINGING"
            \/ phase[p] \in {"RINGING", "ACTIVE"} /\ m = "CALL_END" /\ phase'[p] = "ENDED"
        <4>1. CASE m = "CALL_INVITE" /\ phase[p] = "absent" /\ phase'[p] = Lifecycle(p, "INVITING", m)
          BY <2>2, <4>1 DEF Lifecycle
        <4>2. CASE /\ m \in CallMsgs \ {"RESUME_OFFER"} /\ phase[p] # "absent"
                   /\ phase'[p] = Lifecycle(p, phase[p], m)
          <5>1. m # "CALL_INVITE" /\ phase[p] # "INVITING"
            BY <1>7, <2>2, <3>3, <4>2 DEF PhasesFit
          <5>2. QED
            BY <2>2, <4>2, <5>1 DEF Lifecycle, CallMsgs
        <4>3. CASE m \in ConsentMsgs /\ phase'[p] = phase[p]
          BY <4>3 DEF ConsentMsgs
        <4>4. CASE m = "RESUME_OFFER" /\ phase'[p] = phase[p]
          BY <4>4
        <4>5. CASE m # "CALL_INVITE" /\ phase[p] = "absent" /\ phase'[p] = phase[p]
          BY <4>5
        <4>6. QED
          BY <1>8, <4>1, <4>2, <4>3, <4>4, <4>5
      <3>5. /\ PhasesFit(phase["caller"], phase'["callee"], Flight("caller"), Flight("callee")')
            /\ Meeting(phase["caller"], phase["callee"], Flight("caller"), Flight("callee"))
                 => Meeting(phase["caller"], phase'["callee"], Flight("caller"), Flight("callee")')
            /\ Together(phase["caller"], phase'["callee"], Flight("callee")')
                 => Together(phase["caller"], phase["callee"], Flight("callee"))
        BY <1>4, <1>7, <2>2, <3>2, <3>4, CalleeHears
      <3>6. InviteFirst(session'["callee"]) /\ AcceptFirst(session'["caller"])
        BY <1>3, <1>4, <2>2, <3>1 DEF Undisturbed
      <3>7. Together(phase["caller"], phase'["callee"], Flight("callee")')
              => phase'["callee"] \in {"RINGING", "ACTIVE"}
        BY <3>2 DEF Together
      <3>8. phase[p] = "absent" /\ m \in ConsentMsgs => phase'[p] = "absent"
        BY <1>8 DEF ConsentMsgs, CallMsgs
      <3>9. QED
        BY <1>4, <1>8, <2>2, <3>1, <3>5, <3>6, <3>7, <3>8 DEF Undisturbed
    <2>3. QED
      BY <2>1, <2>2 DEF Peers
  <1>11. ASSUME Talking, phase[p] # "absent" \/ m \notin ConsentMsgs PROVE Talking'
    <2>1. CASE m \in ConsentMsgs /\ consent' = [consent EXCEPT ![p] = Consent(consent[p], m)]
      BY <1>1, <1>11, <2>1, TalkingHeard DEF m
    <2>2. CASE m \notin ConsentMsgs /\ consent' = consent
      <3>1. \A r \in Peers : r = p \/ r = q
        BY TwoPeers DEF Peers, q, Other
      <3>2. QED
        BY <1>1, <1>3, <1>11, <2>2, <3>1, TalkingKept DEF m
    <2>3. QED
      BY <1>9, <1>11, <2>1, <2>2
  <1>12. QED
    BY <1>1, <1>5, <1>6, <1>10, <1>11 DEF Undisturbed

\* A side that leaves the call takes its recording with it.
LEMMA SideLeaves ==
    ASSUME TypeOK, Undisturbed, NEW p \in Peers, NEW to \in {"absent", "ASYNC_CAPTURE", "RESUMABLE", "ENDED"},
           phase[p] # "absent", phase' = [phase EXCEPT ![p] = to],
           session' = session, fresh' = fresh, hist'.placed = hist.placed,
           \/ hist'.unilateral
           \/ /\ hist'.unilateral = hist.unilateral
              /\ \/ phase[p] \in {"ASYNC_CAPTURE", "ENDED"}
                 \/ phase[p] = "RINGING"
    PROVE  Undisturbed'
  <1>1. phase \in [Peers -> CallPhase] /\ "caller" \in Peers /\ "callee" \in Peers
    BY DEF TypeOK, Peers
  <1>2. /\ Flight("caller")' = Flight("caller") /\ Flight("callee")' = Flight("callee")
        /\ InviteFirst(session'["callee"]) /\ AcceptFirst(session'["caller"])
    BY DEF Flight, Undisturbed
  <1>3. PhasesFit(phase["caller"], phase["callee"], Flight("caller"), Flight("callee"))
    BY DEF Undisturbed
  <1>4. hist.placed
    BY DEF Undisturbed, Pristine
  <1>5. /\ PhasesFit(phase'["caller"], phase'["callee"], Flight("caller"), Flight("callee"))
        /\ ~Together(phase'["caller"], phase'["callee"], Flight("callee"))
        /\ ~hist'.unilateral =>
             Meeting(phase'["caller"], phase'["callee"], Flight("caller"), Flight("callee"))
    <2>1. CASE p = "caller"
      <3>1. phase'["caller"] = to /\ phase'["callee"] = phase["callee"]
        BY <1>1, <2>1
      <3>2. PhasesFit(to, phase["callee"], Flight("caller"), Flight("callee"))
        BY <1>3, <2>1 DEF PhasesFit
      <3>3. ~Together(to, phase["callee"], Flight("callee"))
        BY DEF Together
      <3>4. ~hist'.unilateral => Meeting(to, phase["callee"], Flight("caller"), Flight("callee"))
        BY <1>3, <2>1 DEF Undisturbed, PhasesFit, Meeting
      <3>5. QED
        BY <3>1, <3>2, <3>3, <3>4
    <2>2. CASE p = "callee"
      <3>1. phase'["callee"] = to /\ phase'["caller"] = phase["caller"]
        BY <1>1, <2>2
      <3>2. PhasesFit(phase["caller"], to, Flight("caller"), Flight("callee"))
        BY <1>3, <2>2 DEF PhasesFit
      <3>3. ~Together(phase["caller"], to, Flight("callee"))
        BY <1>3, <2>2 DEF Together, PhasesFit
      <3>4. ~hist'.unilateral => Meeting(phase["caller"], to, Flight("caller"), Flight("callee"))
        BY <1>3, <2>2 DEF Undisturbed, PhasesFit, Meeting
      <3>5. QED
        BY <3>1, <3>2, <3>3, <3>4
    <2>3. QED
      BY <2>1, <2>2 DEF Peers
  <1>6. QED
    BY <1>2, <1>4, <1>5 DEF Undisturbed

\* The steps that only end a side's part in the call.
LEMMA LeavingAgrees ==
    ASSUME TypeOK, Undisturbed, NEW p \in Peers,
           ImmuneConvert(p) \/ Finalize(p) \/ InviteTimer(p) \/ ReapStale(p) \/ Close(p)
    PROVE  Undisturbed'
  <1>1. phase \in [Peers -> CallPhase] /\ session' = session /\ fresh' = fresh
    BY DEF TypeOK, ImmuneConvert, Finalize, InviteTimer, ReapStale, Close, network
  <1>2. PhasesFit(phase["caller"], phase["callee"], Flight("caller"), Flight("callee"))
    BY DEF Undisturbed
  <1>3. phase[p] = "RINGING" => p = "callee"
    BY <1>2 DEF PhasesFit, Peers
  <1>4. phase[p] = "INVITING" => p = "caller"
    BY <1>2 DEF PhasesFit, Peers
  <1>5. PICK to \in {"absent", "ASYNC_CAPTURE", "RESUMABLE", "ENDED"} :
          phase' = [phase EXCEPT ![p] = to]
    BY <1>4 DEF ImmuneConvert, Finalize, InviteTimer, ReapStale, Close, LifecycleEvent, Lifecycle
  <1>6. phase[p] # "absent"
    BY DEF ImmuneConvert, Finalize, InviteTimer, ReapStale, Close
  <1>7. /\ hist'.placed = hist.placed
        /\ \/ hist'.unilateral
           \/ /\ hist'.unilateral = hist.unilateral
              /\ \/ phase[p] \in {"ASYNC_CAPTURE", "ENDED"}
                 \/ phase[p] = "RINGING"
    BY <1>4 DEF TypeOK, ImmuneConvert, Finalize, InviteTimer, ReapStale, Close
  <1>8. QED
    BY <1>1, <1>5, <1>6, <1>7, SideLeaves

\* The call begins with the invite alone on its way.
LEMMA InitiateAgrees ==
    ASSUME TypeOK, Undisturbed, Reliable', Initiate
    PROVE  Undisturbed'
  <1>1. /\ Pristine /\ faults' = 0 /\ consent' = consent /\ hist'.placed
        /\ hist'.unilateral = hist.unilateral
        /\ phase \in [Peers -> CallPhase] /\ phase' = [phase EXCEPT !["caller"] = "INVITING"]
        /\ "caller" \in Peers /\ "callee" \in Peers
    BY DEF Undisturbed, Reliable, Initiate, TypeOK, Peers
  <1>2. Send("caller", <<"CALL_INVITE">>) /\ "CALL_INVITE" \in Msgs \ ConsentMsgs
    BY DEF Initiate, LifecycleSends, Msgs, CallMsgs, ConsentMsgs
  <1>3. /\ fresh' = fresh /\ session'["caller"] = <<>>
        /\ session'["callee"] = Append(<<>>, "CALL_INVITE") /\ <<>> \in Seq(Msgs)
    BY <1>1, <1>2, SentOne DEF Pristine, Other
  <1>4. phase'["caller"] = "INVITING" /\ phase'["callee"] = "absent"
    BY <1>1 DEF Pristine
  <1>5. Flight("caller")' = {} /\ Elems(<<>>) = {}
    BY <1>3 DEF Flight, Elems
  <1>6. InviteFirst(<<>>)
    BY DEF InviteFirst
  <1>7. Flight("callee")' = {"CALL_INVITE"} /\ InviteFirst(session'["callee"])
    BY <1>2, <1>3, <1>5, <1>6, ElemsAppend DEF Flight
  <1>8. AcceptFirst(session'["caller"])
    BY <1>3 DEF AcceptFirst
  <1>9. PhasesFit(phase["caller"], phase["callee"], Flight("caller"), Flight("callee"))'
    BY <1>4, <1>5, <1>7 DEF PhasesFit
  <1>10. Meeting(phase["caller"], phase["callee"], Flight("caller"), Flight("callee"))'
    BY <1>4, <1>5, <1>7 DEF Meeting
  <1>11. Talking'
    <2>1. Nil \in Seq(ConsentMsgs) /\ Spells(<<>>, Nil)
      BY ShortWords, SpellsNothing
    <2>2. Spells(Append(<<>>, "CALL_INVITE"), Nil)
      BY <1>2, <1>3, <2>1, SpellsPass
    <2>3. consent'["caller"] = "NONE" /\ consent'["callee"] = "NONE"
      BY <1>1 DEF Pristine
    <2>4. Talk("NONE", "NONE", Nil, Nil)
      BY DEF Talk, HalfTalk
    <2>5. QED
      BY <1>3, <2>1, <2>2, <2>3, <2>4 DEF Talking
  <1>12. QED
    BY <1>1, <1>3, <1>7, <1>8, <1>9, <1>10, <1>11 DEF Undisturbed

\* What was unreliable stays unreliable.
LEMMA ReliableBefore ==
    ASSUME TypeOK, Next, Reliable'
    PROVE  Reliable
  <1>1. faults \in Nat /\ restarts \in Nat
    BY Typed DEF TypeOK
  <1>2. ASSUME NEW p, NEW msgs, Send(p, msgs) PROVE faults' = faults \/ faults' = faults + 1
    BY <1>2 DEF Send
  <1>3. CASE Initiate
    BY <1>1, <1>2, <1>3 DEF Initiate, Reliable
  <1>4. ASSUME NEW p \in Peers, Step(p) PROVE Reliable
    <2>1. CASE \E ev \in {"ACCEPT", "DECLINE", "HANGUP", "CONVERT", "RESUME"} : UserCall(p, ev)
      BY <1>1, <1>2, <2>1 DEF UserCall, Reliable
    <2>2. CASE \E ev \in {"REQUEST", "APPROVE", "DECLINE", "STOP"} : UserRecording(p, ev)
      BY <1>1, <1>2, <2>2 DEF UserRecording, Reliable
    <2>3. CASE ImmuneConvert(p) \/ Finalize(p) \/ InviteTimer(p) \/ ReapStale(p) \/ Close(p)
      BY <2>3 DEF ImmuneConvert, Finalize, InviteTimer, ReapStale, Close, Reliable
    <2>4. CASE Receive(p) \/ (\E m \in fresh[p] : ReceiveFresh(p, m))
      BY <2>4 DEF Receive, ReceiveFresh, Reliable
    <2>5. CASE Restart(p)
      BY <1>1, <2>5 DEF Restart, Reliable
    <2>6. QED
      BY <1>4, <2>1, <2>2, <2>3, <2>4, <2>5 DEF Step
  <1>5. QED
    BY <1>3, <1>4 DEF Next

\* Every step keeps it.
LEMMA CallStep ==
    ASSUME TypeOK, CallInv, [Next]_vars
    PROVE  CallInv'
  <1> SUFFICES ASSUME Reliable' PROVE Undisturbed'
    BY DEF CallInv
  <1>1. CASE UNCHANGED vars
    BY <1>1 DEF vars, CallInv, Reliable, Undisturbed, Pristine, Talking, Flight
  <1>2. CASE Next
    <2>1. Undisturbed
      BY <1>2, ReliableBefore DEF CallInv
    <2>2. CASE Initiate
      BY <2>1, <2>2, InitiateAgrees
    <2>3. ASSUME NEW p \in Peers, Step(p) PROVE Undisturbed'
      <3>1. CASE \E ev \in {"ACCEPT", "DECLINE", "HANGUP", "CONVERT", "RESUME"} : UserCall(p, ev)
        BY <2>1, <3>1, UserCallAgrees
      <3>2. CASE \E ev \in {"REQUEST", "APPROVE", "DECLINE", "STOP"} : UserRecording(p, ev)
        BY <2>1, <3>2, UserRecordingAgrees
      <3>3. CASE ImmuneConvert(p) \/ Finalize(p) \/ InviteTimer(p) \/ ReapStale(p) \/ Close(p)
        BY <2>1, <3>3, LeavingAgrees
      <3>4. CASE Receive(p)
        BY <2>1, <3>4, ReceiveAgrees
      <3>5. CASE \E m \in fresh[p] : ReceiveFresh(p, m)
        BY <2>1, <3>5 DEF Undisturbed
      <3>6. CASE Restart(p)
        <4>1. restarts \in Nat /\ restarts' = restarts + 1 /\ restarts' = 0
          BY <3>6, Typed DEF Restart, Reliable, TypeOK
        <4>2. QED
          BY <4>1
      <3>7. QED
        BY <2>3, <3>1, <3>2, <3>3, <3>4, <3>5, <3>6 DEF Step
    <2>4. QED
      BY <1>2, <2>2, <2>3 DEF Next
  <1>3. QED
    BY <1>1, <1>2

\* It holds at the start.
LEMMA CallStarts ==
    ASSUME Init
    PROVE  CallInv
  <1>1. /\ \A p \in Peers : fresh[p] = {}
        /\ Pristine
    BY DEF Init, Pristine
  <1>2. /\ phase["caller"] = "absent" /\ phase["callee"] = "absent"
        /\ session["caller"] = <<>> /\ session["callee"] = <<>>
    BY DEF Init, Peers
  <1>3. Flight("caller") = {} /\ Flight("callee") = {}
    BY <1>2 DEF Flight, Elems
  <1>4. InviteFirst(session["callee"]) /\ AcceptFirst(session["caller"])
    BY <1>2 DEF InviteFirst, AcceptFirst
  <1>5. /\ PhasesFit("absent", "absent", {}, {}) /\ Meeting("absent", "absent", {}, {})
        /\ ~Together("absent", "absent", {})
    BY DEF PhasesFit, Meeting, Together
  <1>6. QED
    BY <1>1, <1>2, <1>3, <1>4, <1>5 DEF CallInv, Undisturbed

-----------------------------------------------------------------------------
\* The inductive invariant of a session that loses nothing: phases, messages
\* about the call and messages about the recording always fit together.
THEOREM CallInvariant == Spec => []CallInv
  <1>1. RecordingInv => TypeOK
    BY DEF RecordingInv
  <1>2. Init => CallInv
    BY CallStarts
  <1>3. RecordingInv /\ CallInv /\ [Next]_vars => CallInv'
    BY <1>1, CallStep
  <1>4. QED
    BY <1>2, <1>3, RecordingInvariant, PTL DEF Spec

\* Both sides agree (SidesAgree): when a session that lost nothing is quiet, both
\* sides are in the call or neither is, and both record or neither does, for any
\* number of taps in any order (recording_consent.py "recording requires both
\* sides agreeing throughout").
THEOREM SidesReachAgreement == Spec => []SidesAgree
  <1>1. ASSUME CallInv, Quiet, Reliable
        PROVE  /\ ~hist.unilateral =>
                     (phase["caller"] = "ACTIVE" <=> phase["callee"] = "ACTIVE")
               /\ /\ ~hist.withdrawn
                  /\ phase["caller"] = "ACTIVE" /\ phase["callee"] = "ACTIVE"
                  => (consent["caller"] = "RECORDING" <=> consent["callee"] = "RECORDING")
    <2>1. Undisturbed /\ session["caller"] = <<>> /\ session["callee"] = <<>>
      BY <1>1 DEF CallInv, Quiet, Peers
    <2>2. Flight("caller") = {} /\ Flight("callee") = {}
      BY <2>1 DEF Flight, Elems
    <2>3. ~hist.unilateral => (phase["caller"] = "ACTIVE" <=> phase["callee"] = "ACTIVE")
      BY <2>1, <2>2 DEF Undisturbed, Meeting
    <2>4. ASSUME ~hist.withdrawn, phase["caller"] = "ACTIVE", phase["callee"] = "ACTIVE"
          PROVE  consent["caller"] = "RECORDING" <=> consent["callee"] = "RECORDING"
      <3>1. Talking
        BY <2>1, <2>4 DEF Undisturbed, Together
      <3>2. PICK f, g \in Seq(ConsentMsgs) :
              /\ Spells(session["caller"], f) /\ Spells(session["callee"], g)
              /\ Talk(consent["caller"], consent["callee"], f, g)
        BY <3>1 DEF Talking
      <3>3. f = Nil /\ g = Nil
        BY <2>1, <3>2, SpellsNothing
      <3>4. QED
        BY <3>2, <3>3, TalkQuiet
    <2>5. QED
      BY <2>3, <2>4
  <1>2. CallInv => SidesAgree
    BY <1>1 DEF SidesAgree
  <1>3. QED
    BY <1>2, CallInvariant, PTL

-----------------------------------------------------------------------------
(* The table of calls: any peers, call ids and limits.                     *)

\* A set of at most n elements.
Within(S, n) == IsFiniteSet(S) /\ Cardinality(S) <= n

\* A table of calls within the limits.
TableFits(cs) ==
    /\ cs \in [CallIds -> Call]
    /\ Within(OpenIn(cs), MaxCalls)
    /\ \A p \in RemotePeers : Within(CallsOf(cs, p), MaxCallsPerPeer)

AdmittedIn(ad) == {c \in CallIds : ad[c] # NoAdmission}
AdmittedOf(ad, p) == {c \in AdmittedIn(ad) : ad[c].peer = p}

\* A pre-invite cache within the limits.
CacheFits(ad) ==
    /\ ad \in [CallIds -> Admission]
    /\ Within(AdmittedIn(ad), PreInviteMax)
    /\ \A p \in RemotePeers : Within(AdmittedOf(ad, p), PreInvitePerPeer)

\* The calls dialled here that ring or are connected.
Dialled(cs) == {c \in CallIds : /\ cs[c].phase \in {"pending", "active"}
                                /\ cs[c].role = "originator"}

OneEach(cs) ==
    \A c, d \in Dialled(cs) :
        cs[c].peer = cs[d].peer /\ cs[c].kind = cs[d].kind => c = d

Separate(cs, ad) == \A c \in CallIds : ad[c] # NoAdmission => cs[c] = NoCall

RegistryInv ==
    /\ RegistryTypeOK
    /\ TableFits(calls) /\ CacheFits(admissions)
    /\ OneEach(calls) /\ Separate(calls, admissions)

-----------------------------------------------------------------------------
(* Sets within a bound.                                                    *)

\* A part of a bounded set is bounded.
LEMMA WithinSubset ==
    ASSUME NEW S, NEW n \in Nat, Within(S, n), NEW T \in SUBSET S
    PROVE  Within(T, n)
  BY FS_Subset, FS_CardinalityType DEF Within

\* One more element fits where there is room.
LEMMA WithinGrown ==
    ASSUME NEW S, NEW n \in Nat, Within(S, n), Cardinality(S) < n,
           NEW x, NEW T \in SUBSET (S \cup {x})
    PROVE  Within(T, n)
  <1>1. IsFiniteSet(S \cup {x}) /\ Cardinality(S \cup {x}) <= n
    <2>1. IsFiniteSet(S) /\ Cardinality(S) \in Nat
      BY FS_CardinalityType DEF Within
    <2>2. /\ IsFiniteSet(S \cup {x})
          /\ \/ Cardinality(S \cup {x}) = Cardinality(S)
             \/ Cardinality(S \cup {x}) = Cardinality(S) + 1
      BY <2>1, FS_AddElement
    <2>3. QED
      BY <2>1, <2>2
  <1>2. QED
    BY <1>1, WithinSubset DEF Within

\* What is known of a call and of its absence.
LEMMA CallFacts ==
    /\ NoCall \in Call /\ NoCall.peer = NoPeer /\ NoCall.phase = "none"
    /\ NoAdmission \in Admission /\ NoAdmission.peer = NoPeer
    /\ \A x \in Call : x # NoCall => x.peer \in RemotePeers
    /\ {MaxCalls, MaxCallsPerPeer, PreInviteMax, PreInvitePerPeer} \subseteq Nat
  BY LimitsAssumption DEF NoCall, NoAdmission, Call, Admission, Kinds, Roles

-----------------------------------------------------------------------------
(* Tables.                                                                 *)

\* Calls that leave the table break nothing.
LEMMA TableShrinks ==
    ASSUME NEW cs, TableFits(cs), NEW ds \in [CallIds -> Call],
           \A c \in CallIds : ds[c] = cs[c] \/ ds[c] = NoCall
    PROVE  /\ TableFits(ds)
           /\ OneEach(cs) => OneEach(ds)
           /\ \A ad : Separate(cs, ad) => Separate(ds, ad)
  <1>1. OpenIn(ds) \subseteq OpenIn(cs)
    BY DEF OpenIn
  <1>2. \A p \in RemotePeers : CallsOf(ds, p) \subseteq CallsOf(cs, p)
    BY CallFacts, LimitsAssumption DEF CallsOf
  <1>3. TableFits(ds)
    BY <1>1, <1>2, WithinSubset, CallFacts DEF TableFits
  <1>4. OneEach(cs) => OneEach(ds)
    BY CallFacts DEF OneEach, Dialled
  <1>5. QED
    BY <1>3, <1>4 DEF Separate

\* A call that the capacity tests admit keeps the table within its limits.
LEMMA TableOpens ==
    ASSUME NEW cs, TableFits(cs), NEW c \in CallIds, NEW p \in RemotePeers,
           NEW role \in Roles, NEW kind \in Kinds, HasRoom(cs, p)
    PROVE  TableFits(Opened(cs, c, p, role, kind))
  <1> DEFINE new == [peer |-> p, role |-> role, kind |-> kind, phase |-> "pending"]
             ds == Opened(cs, c, p, role, kind)
  <1>1. new \in Call /\ new.peer = p
    BY DEF Call
  <1>2. ds = [cs EXCEPT ![c] = new] /\ cs \in [CallIds -> Call]
    BY DEF Opened, TableFits
  <1> HIDE DEF new, ds
  <1>3. ds \in [CallIds -> Call] /\ ds[c] = new
        /\ \A d \in CallIds \ {c} : ds[d] = cs[d]
    BY <1>1, <1>2
  <1>4. OpenIn(ds) \subseteq OpenIn(cs) \cup {c}
    BY <1>3 DEF OpenIn
  <1>5. Within(OpenIn(ds), MaxCalls)
    BY <1>4, WithinGrown, CallFacts DEF TableFits, HasRoom
  <1>6. ASSUME NEW q \in RemotePeers PROVE Within(CallsOf(ds, q), MaxCallsPerPeer)
    <2>1. CASE q = p
      <3>1. CallsOf(ds, q) \subseteq CallsOf(cs, q) \cup {c}
        BY <1>3 DEF CallsOf
      <3>2. QED
        BY <2>1, <3>1, WithinGrown, CallFacts DEF TableFits, HasRoom
    <2>2. CASE q # p
      <3>1. CallsOf(ds, q) \subseteq CallsOf(cs, q)
        BY <1>1, <1>3, <2>2 DEF CallsOf
      <3>2. QED
        BY <3>1, WithinSubset, CallFacts DEF TableFits
    <2>3. QED
      BY <2>1, <2>2
  <1>7. QED
    BY <1>3, <1>5, <1>6 DEF TableFits, ds

\* Admissions that are dropped break nothing.
LEMMA CacheShrinks ==
    ASSUME NEW ad, CacheFits(ad), NEW bd \in [CallIds -> Admission],
           \A c \in CallIds : bd[c] = ad[c] \/ bd[c] = NoAdmission
    PROVE  /\ CacheFits(bd)
           /\ \A cs : Separate(cs, ad) => Separate(cs, bd)
  <1>1. AdmittedIn(bd) \subseteq AdmittedIn(ad)
    BY DEF AdmittedIn
  <1>2. \A p \in RemotePeers : AdmittedOf(bd, p) \subseteq AdmittedOf(ad, p)
    BY DEF AdmittedIn, AdmittedOf
  <1>3. CacheFits(bd)
    BY <1>1, <1>2, WithinSubset, CallFacts DEF CacheFits
  <1>4. QED
    BY <1>3 DEF Separate

\* Reaping only removes.
LEMMA ReapedFits ==
    ASSUME RegistryInv, NEW stale \in SUBSET Pending
    PROVE  /\ TableFits(Reaped(stale)) /\ OneEach(Reaped(stale))
           /\ Separate(Reaped(stale), admissions)
           /\ \A c \in CallIds : Reaped(stale)[c] = calls[c] \/ Reaped(stale)[c] = NoCall
  <1>1. Reaped(stale) \in [CallIds -> Call]
    BY CallFacts DEF Reaped, RegistryInv, RegistryTypeOK
  <1>2. \A c \in CallIds : Reaped(stale)[c] = calls[c] \/ Reaped(stale)[c] = NoCall
    BY DEF Reaped
  <1>3. QED
    BY <1>1, <1>2, TableShrinks DEF RegistryInv

-----------------------------------------------------------------------------
(* Steps.                                                                  *)

\* A dialled call opens only where no live one exists and room is left.
LEMMA DialKeeps ==
    ASSUME RegistryInv, NEW p \in RemotePeers, NEW kind \in Kinds, InitiateCall(p, kind)
    PROVE  RegistryInv'
  <1>1. PICK stale \in SUBSET Pending, c \in CallIds \ minted :
           /\ minted' = minted \cup {c}
           /\ calls[c] = NoCall /\ c \notin Admitted
           /\ \/ /\ HasRoom(Reaped(stale), p)
                 /\ calls' = Opened(Reaped(stale), c, p, "originator", kind)
                 /\ turnedAway' = turnedAway
              \/ calls' = Reaped(stale) /\ turnedAway' = turnedAway \cup {p}
    BY DEF InitiateCall
  <1> DEFINE left == Reaped(stale)
  <1>2. /\ TableFits(left) /\ OneEach(left) /\ Separate(left, admissions)
        /\ \A d \in CallIds : left[d] = calls[d] \/ left[d] = NoCall
    BY ReapedFits
  <1>3. /\ admissions' = admissions /\ media' = media
        /\ minted' \subseteq CallIds /\ turnedAway' \subseteq RemotePeers
    BY <1>1 DEF InitiateCall, RegistryInv, RegistryTypeOK
  <1>4. CASE calls' = left
    BY <1>2, <1>3, <1>4 DEF RegistryInv, RegistryTypeOK, TableFits
  <1>5. CASE HasRoom(left, p) /\ calls' = Opened(left, c, p, "originator", kind)
    <2>1. TableFits(calls')
      BY <1>2, <1>5, TableOpens DEF Roles
    <2>2. /\ calls'[c] = [peer |-> p, role |-> "originator", kind |-> kind, phase |-> "pending"]
          /\ \A d \in CallIds \ {c} : calls'[d] = left[d]
      <3>1. left \in [CallIds -> Call]
        BY <1>2 DEF TableFits
      <3> HIDE DEF left
      <3>2. QED
        BY <1>5, <3>1 DEF Opened
    <2>3. Separate(calls', admissions')
      BY <1>1, <1>2, <1>3, <2>2 DEF Separate, Admitted
    <2>4. OneEach(calls')
      <3>1. \A d \in Dialled(left) : ~(left[d].peer = p /\ left[d].kind = kind)
        BY <1>2, CallFacts DEF InitiateCall, LiveWith, Dialled
      <3>2. Dialled(calls') \subseteq Dialled(left) \cup {c}
        BY <2>2 DEF Dialled
      <3>3. calls'[c].peer = p /\ calls'[c].kind = kind
        BY <2>2
      <3>4. QED
        BY <1>2, <2>2, <3>1, <3>2, <3>3 DEF OneEach, Dialled
    <2>5. QED
      BY <1>3, <2>1, <2>3, <2>4 DEF RegistryInv, RegistryTypeOK, TableFits
  <1>6. QED
    BY <1>1, <1>4, <1>5

\* Media before its invite takes an admission where room is left.
LEMMA ReceiveMediaKeeps ==
    ASSUME RegistryInv, NEW c \in CallIds, NEW p \in RemotePeers, NEW kind \in Kinds,
           ReceiveMedia(c, p, kind)
    PROVE  RegistryInv'
  <1> DEFINE new == [peer |-> p, kind |-> kind]
  <1>1. /\ calls' = calls /\ minted' = minted /\ turnedAway' = turnedAway
        /\ media' \in [CallIds -> RemotePeers \cup {NoPeer}]
    BY DEF ReceiveMedia, RegistryInv, RegistryTypeOK
  <1>2. CASE calls[c] # NoCall
    BY <1>1, <1>2 DEF ReceiveMedia, RegistryInv, RegistryTypeOK
  <1>3. CASE calls[c] = NoCall
    <2>1. admissions' = [admissions EXCEPT ![c] = new] /\ new \in Admission /\ new.peer = p
      BY <1>3 DEF ReceiveMedia, Admission
    <2> HIDE DEF new
    <2>2. /\ admissions' \in [CallIds -> Admission] /\ admissions'[c] = new
          /\ \A d \in CallIds \ {c} : admissions'[d] = admissions[d]
      BY <2>1 DEF RegistryInv, RegistryTypeOK
    <2>3. Separate(calls', admissions')
      BY <1>1, <1>3, <2>2 DEF RegistryInv, Separate
    <2>4. CASE c \in Admitted
      <3>1. admissions[c] = new
        BY <1>3, <2>4 DEF ReceiveMedia, MayAdmit, new
      <3>2. admissions' = admissions
        BY <2>2, <3>1 DEF RegistryInv, RegistryTypeOK
      <3>3. QED
        BY <1>1, <3>2 DEF RegistryInv, RegistryTypeOK
    <2>5. CASE c \notin Admitted
      <3>1. /\ Cardinality(AdmittedIn(admissions)) < PreInviteMax
            /\ Cardinality(AdmittedOf(admissions, p)) < PreInvitePerPeer
        BY <1>3, <2>5 DEF ReceiveMedia, MayAdmit, AdmittedIn, AdmittedOf, Admitted
      <3>2. AdmittedIn(admissions') \subseteq AdmittedIn(admissions) \cup {c}
        BY <2>2 DEF AdmittedIn
      <3>3. Within(AdmittedIn(admissions'), PreInviteMax)
        BY <3>1, <3>2, WithinGrown, CallFacts DEF RegistryInv, CacheFits
      <3>4. ASSUME NEW q \in RemotePeers
            PROVE  Within(AdmittedOf(admissions', q), PreInvitePerPeer)
        <4>1. CASE q = p
          <5>1. AdmittedOf(admissions', q) \subseteq AdmittedOf(admissions, q) \cup {c}
            BY <2>2 DEF AdmittedOf, AdmittedIn
          <5>2. QED
            BY <3>1, <4>1, <5>1, WithinGrown, CallFacts DEF RegistryInv, CacheFits
        <4>2. CASE q # p
          <5>1. AdmittedOf(admissions', q) \subseteq AdmittedOf(admissions, q)
            BY <2>1, <2>2, <4>2 DEF AdmittedOf, AdmittedIn
          <5>2. QED
            BY <5>1, WithinSubset, CallFacts DEF RegistryInv, CacheFits
        <4>3. QED
          BY <4>1, <4>2
      <3>5. CacheFits(admissions')
        BY <2>2, <3>3, <3>4 DEF CacheFits
      <3>6. QED
        BY <1>1, <2>2, <2>3, <3>5 DEF RegistryInv, RegistryTypeOK
    <2>6. QED
      BY <2>4, <2>5
  <1>4. QED
    BY <1>2, <1>3

\* An invite turns the admission of its id into a call.
LEMMA ReceiveInviteKeeps ==
    ASSUME RegistryInv, NEW c \in CallIds, NEW p \in RemotePeers, NEW kind \in Kinds,
           ReceiveInvite(c, p, kind)
    PROVE  RegistryInv'
  <1>1. PICK stale \in SUBSET Pending :
           LET left == Reaped(stale)
               same == left[c] # NoCall /\ left[c].role = "recipient"
               fits == left[c] = NoCall /\ HasRoom(left, p)
           IN  /\ calls' = IF fits THEN Opened(left, c, p, "recipient", kind) ELSE left
               /\ admissions' =
                    IF fits \/ same THEN [admissions EXCEPT ![c] = NoAdmission] ELSE admissions
               /\ media' =
                    IF fits \/ same \/ c \in Admitted THEN media
                    ELSE [media EXCEPT ![c] = NoPeer]
    BY DEF ReceiveInvite
  <1> DEFINE left == Reaped(stale)
  <1>2. /\ TableFits(left) /\ OneEach(left) /\ Separate(left, admissions)
    BY ReapedFits
  <1>3. /\ minted' = minted /\ turnedAway' = turnedAway
        /\ media' \in [CallIds -> RemotePeers \cup {NoPeer}]
    BY <1>1 DEF ReceiveInvite, RegistryInv, RegistryTypeOK
  <1>4. /\ admissions' \in [CallIds -> Admission]
        /\ \A d \in CallIds : admissions'[d] = admissions[d] \/ admissions'[d] = NoAdmission
    BY <1>1, CallFacts DEF RegistryInv, RegistryTypeOK
  <1>5. CacheFits(admissions') /\ Separate(left, admissions')
    BY <1>2, <1>4, CacheShrinks DEF RegistryInv
  <1>6. CASE left[c] = NoCall /\ HasRoom(left, p)
    <2>1. /\ calls' = Opened(left, c, p, "recipient", kind)
          /\ admissions'[c] = NoAdmission
      BY <1>1, <1>6 DEF RegistryInv, RegistryTypeOK
    <2>2. TableFits(calls')
      BY <1>2, <1>6, <2>1, TableOpens DEF Roles
    <2>3. /\ calls'[c].role = "recipient"
          /\ \A d \in CallIds \ {c} : calls'[d] = left[d]
      <3>1. left \in [CallIds -> Call]
        BY <1>2 DEF TableFits
      <3> HIDE DEF left
      <3>2. QED
        BY <2>1, <3>1 DEF Opened
    <2>4. Separate(calls', admissions')
      BY <1>5, <2>1, <2>3 DEF Separate
    <2>5. OneEach(calls')
      BY <1>2, <2>3 DEF OneEach, Dialled
    <2>6. QED
      BY <1>3, <1>4, <1>5, <2>2, <2>4, <2>5 DEF RegistryInv, RegistryTypeOK, TableFits
  <1>7. CASE ~(left[c] = NoCall /\ HasRoom(left, p))
    <2>1. calls' = left
      BY <1>1, <1>7
    <2>2. QED
      BY <1>2, <1>3, <1>4, <1>5, <2>1 DEF RegistryInv, RegistryTypeOK, TableFits
  <1>8. QED
    BY <1>6, <1>7

\* A call changes its phase and nothing else.
LEMMA AdvanceKeeps ==
    ASSUME RegistryInv, NEW c \in CallIds, NEW to \in {"active", "stub", "ended"},
           Advance(c, to)
    PROVE  RegistryInv'
  <1>1. /\ calls[c].phase \in {"pending", "active", "stub"}
        /\ to = "active" => calls[c].phase = "pending"
        /\ calls' = [calls EXCEPT ![c].phase = to]
        /\ admissions' = admissions /\ media' = media
        /\ minted' = minted /\ turnedAway' = turnedAway
    BY DEF Advance
  <1>2. calls \in [CallIds -> Call] /\ calls[c] # NoCall
    BY <1>1, CallFacts DEF RegistryInv, RegistryTypeOK
  <1>3. calls[c] \in [peer : RemotePeers, role : Roles, kind : Kinds,
                     phase : {"pending", "active", "stub", "ended"}]
    BY <1>2 DEF Call
  <1>4. /\ calls'[c] = [calls[c] EXCEPT !.phase = to]
        /\ \A d \in CallIds \ {c} : calls'[d] = calls[d]
    BY <1>1, <1>2
  <1>5. /\ calls'[c] \in [peer : RemotePeers, role : Roles, kind : Kinds,
                         phase : {"pending", "active", "stub", "ended"}]
        /\ calls'[c].peer = calls[c].peer /\ calls'[c].kind = calls[c].kind
        /\ calls'[c].role = calls[c].role /\ calls'[c].phase = to
    BY <1>3, <1>4
  <1>6. calls'[c] \in Call /\ calls'[c] # NoCall
    BY <1>5, CallFacts DEF Call
  <1>7. calls' \in [CallIds -> Call]
    BY <1>1, <1>2, <1>6
  <1>8. OpenIn(calls') = OpenIn(calls) /\ \A p : CallsOf(calls', p) = CallsOf(calls, p)
    BY <1>2, <1>4, <1>5, <1>6 DEF OpenIn, CallsOf
  <1>9. TableFits(calls')
    BY <1>7, <1>8 DEF RegistryInv, TableFits
  <1>10. OneEach(calls')
    <2>1. Dialled(calls') \subseteq Dialled(calls)
      BY <1>1, <1>4, <1>5 DEF Dialled
    <2>2. \A d \in CallIds : calls'[d].peer = calls[d].peer /\ calls'[d].kind = calls[d].kind
      BY <1>4, <1>5
    <2>3. QED
      BY <2>1, <2>2 DEF RegistryInv, OneEach, Dialled
  <1>11. Separate(calls', admissions')
    BY <1>1, <1>2, <1>4 DEF RegistryInv, Separate
  <1>12. QED
    BY <1>1, <1>7, <1>9, <1>10, <1>11 DEF RegistryInv, RegistryTypeOK

\* Closing, reaping, pruning and restarting only take away.
LEMMA RemovalsKeep ==
    ASSUME RegistryInv,
           calls' \in [CallIds -> Call], admissions' \in [CallIds -> Admission],
           media' \in [CallIds -> RemotePeers \cup {NoPeer}],
           minted' = minted, turnedAway' = turnedAway,
           \A c \in CallIds : calls'[c] = calls[c] \/ calls'[c] = NoCall,
           \A c \in CallIds : admissions'[c] = admissions[c] \/ admissions'[c] = NoAdmission
    PROVE  RegistryInv'
  <1>1. TableFits(calls') /\ OneEach(calls') /\ Separate(calls', admissions)
    BY TableShrinks DEF RegistryInv
  <1>2. CacheFits(admissions') /\ Separate(calls', admissions')
    BY <1>1, CacheShrinks DEF RegistryInv
  <1>3. QED
    BY <1>1, <1>2 DEF RegistryInv, RegistryTypeOK

\* The steps that only take away.
LEMMA OthersKeep ==
    ASSUME RegistryInv,
           \/ \E c \in CallIds : CloseCall(c) \/ PruneAdmission(c)
           \/ \E stale \in SUBSET Pending : TickReap(stale)
           \/ RegistryRestart
    PROVE  RegistryInv'
  <1>1. RegistryTypeOK /\ NoPeer \in RemotePeers \cup {NoPeer}
    BY DEF RegistryInv
  <1>2. ASSUME NEW c \in CallIds, CloseCall(c) PROVE RegistryInv'
    BY <1>1, <1>2, RemovalsKeep, CallFacts DEF CloseCall, RegistryTypeOK
  <1>3. ASSUME NEW c \in CallIds, PruneAdmission(c) PROVE RegistryInv'
    BY <1>1, <1>3, RemovalsKeep, CallFacts DEF PruneAdmission, RegistryTypeOK
  <1>4. ASSUME NEW stale \in SUBSET Pending, TickReap(stale) PROVE RegistryInv'
    BY <1>1, <1>4, RemovalsKeep, CallFacts DEF TickReap, Reaped, RegistryTypeOK
  <1>5. ASSUME RegistryRestart PROVE RegistryInv'
    BY <1>1, <1>5, RemovalsKeep, CallFacts DEF RegistryRestart, RegistryTypeOK
  <1>6. QED
    BY <1>2, <1>3, <1>4, <1>5

-----------------------------------------------------------------------------
\* The inductive invariant: both tables are typed, finite and within their
\* limits, and no id is in both.
THEOREM RegistryInvariant == RegistrySpec => []RegistryInv
  <1>1. RegistryInit => RegistryInv
    <2> SUFFICES ASSUME RegistryInit PROVE RegistryInv
      OBVIOUS
    <2>1. RegistryTypeOK
      BY CallFacts DEF RegistryInit, RegistryTypeOK
    <2>2. /\ OpenIn(calls) = {} /\ \A p \in RemotePeers : CallsOf(calls, p) = {}
          /\ AdmittedIn(admissions) = {} /\ \A p \in RemotePeers : AdmittedOf(admissions, p) = {}
      BY CallFacts, LimitsAssumption DEF RegistryInit, OpenIn, CallsOf, AdmittedIn, AdmittedOf
    <2>3. \A n \in Nat : Within({}, n)
      BY FS_EmptySet DEF Within
    <2>4. TableFits(calls) /\ CacheFits(admissions)
      BY <2>1, <2>2, <2>3, CallFacts DEF TableFits, CacheFits, RegistryTypeOK
    <2>5. OneEach(calls) /\ Separate(calls, admissions)
      BY CallFacts DEF RegistryInit, OneEach, Dialled, Separate
    <2>6. QED
      BY <2>1, <2>4, <2>5 DEF RegistryInv
  <1>2. RegistryInv /\ [RegistryNext]_registryVars => RegistryInv'
    <2> SUFFICES ASSUME RegistryInv, [RegistryNext]_registryVars PROVE RegistryInv'
      OBVIOUS
    <2>1. CASE UNCHANGED registryVars
      BY <2>1 DEF RegistryInv, RegistryTypeOK, registryVars
    <2>2. CASE \E p \in RemotePeers, kind \in Kinds : InitiateCall(p, kind)
      BY <2>2, DialKeeps
    <2>3. CASE \E c \in CallIds, p \in RemotePeers, kind \in Kinds :
                  ReceiveMedia(c, p, kind) \/ ReceiveInvite(c, p, kind)
      BY <2>3, ReceiveMediaKeeps, ReceiveInviteKeeps
    <2>4. CASE \E c \in CallIds, to \in {"active", "stub", "ended"} : Advance(c, to)
      BY <2>4, AdvanceKeeps
    <2>5. CASE \/ \E c \in CallIds : CloseCall(c) \/ PruneAdmission(c)
               \/ \E stale \in SUBSET Pending : TickReap(stale)
               \/ RegistryRestart
      BY <2>5, OthersKeep
    <2>6. QED
      BY <2>1, <2>2, <2>3, <2>4, <2>5 DEF RegistryNext
  <1>3. QED
    BY <1>1, <1>2, PTL DEF RegistrySpec

\* The call table and the pre-invite cache never exceed their limits, in all
\* or for one peer, and no id is counted in both (RegistryBounded), for any
\* limits, peers and ids (CallManagerRegistry.open, _admit_call_backfill).
THEOREM RegistryIsBounded == RegistrySpec => []RegistryBounded
  <1>1. RegistryInv => RegistryBounded
    BY DEF RegistryInv, RegistryBounded, TableBounded, OneOwner, TableFits, CacheFits,
           Within, AdmittedIn, AdmittedOf, Admitted, Separate
  <1>2. QED
    BY <1>1, RegistryInvariant, PTL

\* The user never has two calls of one kind to one peer ringing or connected
\* that were dialled here (OneDialledCall, CallAPI._dispatch_initiate).
THEOREM DialledOnce == RegistrySpec => []OneDialledCall
  <1>1. RegistryInv => OneDialledCall
    BY DEF RegistryInv, OneDialledCall, OneEach, Dialled
  <1>2. QED
    BY <1>1, RegistryInvariant, PTL

=============================================================================
