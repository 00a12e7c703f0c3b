------------------------------ MODULE CallSignaling ------------------------------
(***************************************************************************)
(* One call between two peers: the lifecycle machine of call_signaling.py, *)
(* the recording consent machine of recording_consent.py, the CallManager  *)
(* that drives both, and the daemon's wire dispatch, flush, invite timer,  *)
(* stale-call reaper and restart from the call resume ledger.              *)
(*                                                                         *)
(* A manager is "absent" when the registry holds none for the call.  Both  *)
(* machines are pure functions of (phase, event); an event they do not     *)
(* expect leaves the state alone.  Signalling runs over the reusable       *)
(* session, which is first in first out; a message whose acknowledgement   *)
(* is missed is sent again over a fresh channel when its type is in the    *)
(* retryable set, and that copy may arrive at any later time.              *)
(***************************************************************************)
EXTENDS Naturals, Sequences, FiniteSets

CONSTANTS
    Budgets \* bounds: how often each user taps a recording button, how many
            \* sends fail and how many daemons restart in one behaviour

ASSUME BudgetsAssumption ==
    Budgets \subseteq [taps : Nat, faults : Nat, restarts : Nat]

VARIABLES
    phase,      \* lifecycle phase of each peer's manager
    consent,    \* consent phase of each peer's manager
    builder,    \* capsule builder: its recording_state_at_conversion
    ledger,     \* the phase the call resume ledger holds on disk
    session,    \* messages in flight to each peer on the session
    fresh,      \* retried copies in flight to each peer
    taps,       \* recording taps of each user so far
    faults,     \* sends that failed so far
    restarts,   \* restarts so far
    budget,     \* the bounds of this behaviour
    hist        \* history: what the users did (read by properties only)

vars == <<phase, consent, builder, ledger, session, fresh, taps, faults,
          restarts, budget, hist>>

manager == <<phase, consent, builder>>
network == <<session, fresh>>

Peers == {"caller", "callee"}

Other(p) == IF p = "caller" THEN "callee" ELSE "caller"

CallPhase == {"absent", "INVITING", "RINGING", "ACTIVE", "ASYNC_CAPTURE",
              "RESUMABLE", "ENDED"}

ConsentPhase == {"NONE", "AWAITING_REMOTE", "AWAITING_LOCAL", "RECORDING"}

CallMsgs == {"CALL_INVITE", "CALL_ACCEPT", "CALL_DECLINE", "CALL_END", "RESUME_OFFER"}

ConsentMsgs == {"RECORDING_REQUEST", "RECORDING_GRANT", "RECORDING_DECLINE",
                "RECORDING_STOP"}

(* The types the receive loop routes to the call dispatch.  The lifecycle  *)
(* machine emits RESUME_OFFER; the set names CALL_RESUME_OFFER.            *)
WireTypes == {"CALL_INVITE", "CALL_ACCEPT", "CALL_DECLINE", "CALL_END",
              "CALL_RESUME_OFFER"} \cup ConsentMsgs

(* The types sent again over a fresh channel.  The set names               *)
(* RECORDING_START, which nothing sends.                                   *)
Retryable == {"CALL_INVITE", "CALL_ACCEPT", "CALL_DECLINE", "CALL_END",
              "RECORDING_START", "RECORDING_STOP"}

-----------------------------------------------------------------------------
\* Mutant: a remote hangup is taken for a late event of an active call.
LifecycleEndIsLate(p, ph, ev) ==
    CASE ph = "INVITING" /\ p = "caller" /\ ev = "CALL_ACCEPT" -> "ACTIVE"
      [] ph = "INVITING" /\ p = "callee" /\ ev = "CALL_INVITE" -> "RINGING"
      [] ph = "RINGING" /\ ev = "ACCEPT" -> "ACTIVE"
      [] ph \in {"RINGING", "INVITING"} /\ ev = "TIMER" -> "ENDED"
      [] ph = "ACTIVE" /\ ev = "HANGUP" -> "ENDED"
      [] OTHER -> ph

(* CallLifecycle.handle: the phase after an event, and what it sends.      *)
Lifecycle(p, ph, ev) ==
    CASE ph = "INVITING" /\ p = "caller" /\ ev = "CALL_ACCEPT" -> "ACTIVE"
      [] ph = "INVITING" /\ p = "caller" /\ ev \in {"CALL_DECLINE", "TIMER"} -> "ASYNC_CAPTURE"
      [] ph = "INVITING" /\ p = "caller" /\ ev = "HANGUP" -> "ENDED"
      [] ph = "INVITING" /\ p = "callee" /\ ev = "CALL_INVITE" -> "RINGING"
      [] ph = "RINGING" /\ ev = "ACCEPT" -> "ACTIVE"
      [] ph = "RINGING" /\ ev \in {"DECLINE", "TIMER", "CALL_END"} -> "ENDED"
      [] ph = "ACTIVE" /\ ev \in {"HANGUP", "CALL_END"} -> "ENDED"
      [] ph = "ACTIVE" /\ ev = "CONVERT" -> "ASYNC_CAPTURE"
      [] ph = "ASYNC_CAPTURE" /\ ev = "FINALIZED" -> "RESUMABLE"
      [] ph = "RESUMABLE" /\ ev \in {"RESUME", "CALL_RESUME_OFFER", "WINDOW"} -> "ENDED"
      [] OTHER -> ph

\* Mutant: cancelling an invite is not announced to the callee.
LifecycleSendsNoCancel(p, ph, ev) ==
    CASE ph = "INVITING" /\ p = "caller" /\ ev = "INITIATE" -> <<"CALL_INVITE">>
      [] ph = "RINGING" /\ ev = "ACCEPT" -> <<"CALL_ACCEPT">>
      [] ph = "RINGING" /\ ev = "DECLINE" -> <<"CALL_DECLINE">>
      [] ph = "ACTIVE" /\ ev = "HANGUP" -> <<"CALL_END">>
      [] OTHER -> <<>>

LifecycleSends(p, ph, ev) ==
    CASE ph = "INVITING" /\ p = "caller" /\ ev = "INITIATE" -> <<"CALL_INVITE">>
      [] ph = "INVITING" /\ p = "caller" /\ ev = "HANGUP" -> <<"CALL_END">>
      [] ph = "RINGING" /\ ev = "ACCEPT" -> <<"CALL_ACCEPT">>
      [] ph = "RINGING" /\ ev = "DECLINE" -> <<"CALL_DECLINE">>
      [] ph = "ACTIVE" /\ ev = "HANGUP" -> <<"CALL_END">>
      [] ph = "RESUMABLE" /\ ev = "RESUME" -> <<"RESUME_OFFER">>
      [] OTHER -> <<>>

\* Mutant: a peer's request starts the recording without asking the user.
ConsentAutoGrant(ph, ev) ==
    CASE ph = "NONE" /\ ev = "REQUEST" -> "AWAITING_REMOTE"
      [] ph = "NONE" /\ ev = "RECORDING_REQUEST" -> "RECORDING"
      [] OTHER -> ph

(* RecordingConsent.handle.                                                *)
Consent(ph, ev) ==
    CASE ph = "NONE" /\ ev = "REQUEST" -> "AWAITING_REMOTE"
      [] ph = "NONE" /\ ev = "RECORDING_REQUEST" -> "AWAITING_LOCAL"
      [] ph = "AWAITING_REMOTE" /\ ev = "RECORDING_GRANT" -> "RECORDING"
      [] ph = "AWAITING_REMOTE" /\ ev \in {"RECORDING_DECLINE", "STOP"} -> "NONE"
      [] ph = "AWAITING_LOCAL" /\ ev = "APPROVE" -> "RECORDING"
      [] ph = "AWAITING_LOCAL" /\ ev \in {"DECLINE", "RECORDING_STOP"} -> "NONE"
      [] ph = "RECORDING" /\ ev \in {"STOP", "RECORDING_STOP"} -> "NONE"
      [] OTHER -> ph

ConsentSends(ph, ev) ==
    CASE ph = "NONE" /\ ev = "REQUEST" -> <<"RECORDING_REQUEST">>
      [] ph \in {"AWAITING_REMOTE", "RECORDING"} /\ ev = "STOP" -> <<"RECORDING_STOP">>
      [] ph = "AWAITING_LOCAL" /\ ev = "APPROVE" -> <<"RECORDING_GRANT">>
      [] ph = "AWAITING_LOCAL" /\ ev = "DECLINE" -> <<"RECORDING_DECLINE">>
      [] OTHER -> <<>>

-----------------------------------------------------------------------------
(* CallManager._lifecycle_event: the machine's step; a call that turns to  *)
(* capture opens the capsule builder, which notes the recording state.     *)
LifecycleEvent(p, ev) ==
    LET to == Lifecycle(p, phase[p], ev) IN
    /\ phase' = [phase EXCEPT ![p] = to]
    /\ builder' = [builder EXCEPT ![p] =
                     IF to = "ASYNC_CAPTURE" /\ phase[p] # to /\ @ = "none"
                     THEN IF consent[p] = "RECORDING" THEN "mutual" ELSE "plain"
                     ELSE @]
    /\ UNCHANGED consent

(* CallManager._consent_event.                                             *)
ConsentEvent(p, ev) ==
    /\ consent' = [consent EXCEPT ![p] = Consent(@, ev)]
    /\ UNCHANGED <<phase, builder>>

(* send_call_signal: the batch goes out on the session; when the session   *)
(* fails or its acknowledgement is missed, retryable messages are sent     *)
(* again over a fresh channel and the others are given up.                 *)
Send(p, msgs) ==
    LET q == Other(p)
        queued == [session EXCEPT ![q] = @ \o msgs]
    IN  \/ session' = queued /\ UNCHANGED <<fresh, faults>>
        \/ /\ msgs # <<>>
           /\ faults < budget.faults
           /\ faults' = faults + 1
           /\ session' \in {session, queued}
           /\ fresh' = [fresh EXCEPT ![q] =
                          @ \cup {msgs[i] : i \in {k \in DOMAIN msgs : msgs[k] \in Retryable}}]

(* The last part of a flush, after its sends: _save_call_resume_ledger.    *)
(* While a crash is still possible it may come first, and the file keeps   *)
(* what an earlier flush wrote.                                            *)
Saves(p) ==
    ledger' \in {[ledger EXCEPT ![p] = phase'[p]]}
                \cup (IF restarts < budget.restarts THEN {ledger} ELSE {})

-----------------------------------------------------------------------------
(* CallAPI._dispatch_initiate: mints the call id and invites the peer.     *)
Initiate ==
    /\ phase["caller"] = "absent" /\ ~hist.placed
    /\ phase' = [phase EXCEPT !["caller"] = "INVITING"]
    /\ Send("caller", LifecycleSends("caller", "INVITING", "INITIATE"))
    /\ Saves("caller")
    /\ hist' = [hist EXCEPT !.placed = TRUE]
    /\ UNCHANGED <<consent, builder, taps, restarts>>

(* CallAPI._dispatch for the actions on the lifecycle; convert_to_async is *)
(* also what the immune loop does, without a flush.                        *)
UserCall(p, ev) ==
    /\ phase[p] # "absent"
    /\ Lifecycle(p, phase[p], ev) # phase[p]
    /\ Send(p, LifecycleSends(p, phase[p], ev))
    /\ LifecycleEvent(p, ev)
    /\ Saves(p)
    /\ hist' = [hist EXCEPT !.over = @ \/ (p = "callee" /\ phase'[p] = "ENDED"),
                            !.unilateral = @ \/ ev = "CONVERT"]
    /\ UNCHANGED <<taps, restarts>>

(* CallAPI._dispatch for the actions on the recording; nothing asks for a  *)
(* connected call, only for a manager.                                     *)
UserRecording(p, ev) ==
    /\ phase[p] # "absent"
    /\ Consent(consent[p], ev) # consent[p]
    /\ taps[p] < budget.taps
    /\ taps' = [taps EXCEPT ![p] = @ + 1]
    /\ Send(p, ConsentSends(consent[p], ev))
    /\ ConsentEvent(p, ev)
    /\ Saves(p)
    /\ hist' = [hist EXCEPT !.agreed = IF ev \in {"REQUEST", "APPROVE"} THEN @ \cup {p} ELSE @,
                            !.withdrawn = @ \/ (ev = "STOP" /\ consent[p] = "AWAITING_REMOTE")]
    /\ UNCHANGED restarts

(* _immune_tick_loop with execute_plan: the manager's output is dropped,   *)
(* so neither the ledger nor the user interface hears of it.               *)
ImmuneConvert(p) ==
    /\ phase[p] = "ACTIVE"
    /\ LifecycleEvent(p, "CONVERT")
    /\ hist' = [hist EXCEPT !.unilateral = TRUE]
    /\ UNCHANGED <<ledger, network, taps, faults, restarts>>

(* _capture_audio_segment and _finalize_capsule_event: only with a builder.*)
Finalize(p) ==
    /\ phase[p] = "ASYNC_CAPTURE" /\ builder[p] # "none"
    /\ LifecycleEvent(p, "FINALIZED")
    /\ Saves(p)
    /\ UNCHANGED <<network, taps, faults, restarts, hist>>

(* _expire_call_invite_if_due.                                             *)
InviteTimer(p) ==
    /\ phase[p] \in {"INVITING", "RINGING"}
    /\ LifecycleEvent(p, "TIMER")
    /\ Saves(p)
    /\ hist' = [hist EXCEPT !.unilateral = @ \/ p = "caller"]
    /\ UNCHANGED <<network, taps, faults, restarts>>

(* reap_stale_pending in the tick loop: an unanswered call older than its  *)
(* admission limit disappears, and the ledger is saved at once.            *)
ReapStale(p) ==
    /\ phase[p] \in {"INVITING", "RINGING"}
    /\ phase' = [phase EXCEPT ![p] = "absent"]
    /\ consent' = [consent EXCEPT ![p] = "NONE"]
    /\ ledger' = [ledger EXCEPT ![p] = "absent"]
    /\ hist' = [hist EXCEPT !.unilateral = TRUE]
    /\ UNCHANGED <<builder, network, taps, faults, restarts>>

(* The end of the flush of the event that completed the call: its manager  *)
(* leaves the registry, and the ledger is saved.  Until then, while the    *)
(* sends are awaited, the ended manager still answers to the call id.      *)
Close(p) ==
    /\ phase[p] = "ENDED"
    /\ phase' = [phase EXCEPT ![p] = "absent"]
    /\ consent' = [consent EXCEPT ![p] = "NONE"]
    /\ builder' = [builder EXCEPT ![p] = "none"]
    /\ ledger' = [ledger EXCEPT ![p] = "absent"]
    /\ UNCHANGED <<network, taps, faults, restarts, hist>>

(* _dispatch_living_presence_message for one message: an invite opens the  *)
(* manager when there is none; everything else needs one.                  *)
Dispatch(p, m) ==
    \/ /\ m = "CALL_INVITE" /\ phase[p] = "absent"
       /\ phase' = [phase EXCEPT ![p] = Lifecycle(p, "INVITING", m)]
       /\ Saves(p)
       /\ UNCHANGED <<consent, builder, hist>>
    \/ /\ m \in WireTypes \ ConsentMsgs /\ phase[p] # "absent"
       /\ LifecycleEvent(p, m)
       /\ Saves(p)
       /\ hist' = [hist EXCEPT !.over = @ \/ (p = "callee" /\ phase'[p] = "ENDED")]
    \/ /\ m \in ConsentMsgs /\ phase[p] # "absent"
       /\ ConsentEvent(p, m)
       /\ Saves(p)
       /\ UNCHANGED hist
    \/ /\ m \notin WireTypes \/ (m # "CALL_INVITE" /\ phase[p] = "absent")
       /\ UNCHANGED <<manager, ledger, hist>>

Receive(p) ==
    /\ session[p] # <<>>
    /\ Dispatch(p, Head(session[p]))
    /\ session' = [session EXCEPT ![p] = Tail(@)]
    /\ UNCHANGED <<fresh, taps, faults, restarts>>

ReceiveFresh(p, m) ==
    /\ m \in fresh[p]
    /\ Dispatch(p, m)
    /\ fresh' = [fresh EXCEPT ![p] = @ \ {m}]
    /\ UNCHANGED <<session, taps, faults, restarts>>

(* The daemon dies and _restore_call_resume_ledger reopens the call: the   *)
(* phase comes back, the consent and the capsule builder do not.           *)
Restart(p) ==
    /\ restarts < budget.restarts
    /\ restarts' = restarts + 1
    /\ phase' = [phase EXCEPT ![p] = IF ledger[p] = "ENDED" THEN "absent" ELSE ledger[p]]
    /\ consent' = [consent EXCEPT ![p] = "NONE"]
    /\ builder' = [builder EXCEPT ![p] = "none"]
    /\ session' = [q \in Peers |-> <<>>]
    /\ UNCHANGED <<ledger, fresh, taps, faults, hist>>

-----------------------------------------------------------------------------
Init ==
    /\ phase = [p \in Peers |-> "absent"]
    /\ consent = [p \in Peers |-> "NONE"]
    /\ builder = [p \in Peers |-> "none"]
    /\ ledger = [p \in Peers |-> "absent"]
    /\ session = [p \in Peers |-> <<>>]
    /\ fresh = [p \in Peers |-> {}]
    /\ taps = [p \in Peers |-> 0]
    /\ faults = 0
    /\ restarts = 0
    /\ budget \in Budgets
    /\ hist = [placed |-> FALSE, over |-> FALSE, unilateral |-> FALSE,
               withdrawn |-> FALSE, agreed |-> {}]

Step(p) ==
    \/ \E ev \in {"ACCEPT", "DECLINE", "HANGUP", "CONVERT", "RESUME"} : UserCall(p, ev)
    \/ \E ev \in {"REQUEST", "APPROVE", "DECLINE", "STOP"} : UserRecording(p, ev)
    \/ ImmuneConvert(p)
    \/ Finalize(p)
    \/ InviteTimer(p)
    \/ ReapStale(p)
    \/ Close(p)
    \/ Receive(p)
    \/ \E m \in fresh[p] : ReceiveFresh(p, m)
    \/ Restart(p)

Next ==
    /\ budget' = budget
    /\ \/ Initiate
       \/ \E p \in Peers : Step(p)

Spec == Init /\ [][Next]_vars

(* The tick loop runs every 100 ms, the receive loop drains the session    *)
(* and a flush ends by its send timeout.  Users owe nothing.               *)
Fairness ==
    \A p \in Peers :
        /\ WF_vars(InviteTimer(p) /\ UNCHANGED budget)
        /\ WF_vars(Close(p) /\ UNCHANGED budget)
        /\ WF_vars(Receive(p) /\ UNCHANGED budget)

LiveSpec == Spec /\ Fairness

-----------------------------------------------------------------------------
(* Phases, consent and the messages in flight are always ones the two      *)
(* machines know (CallPhase, ConsentPhase and the wire vocabulary).        *)
TypeOK ==
    /\ phase \in [Peers -> CallPhase]
    /\ consent \in [Peers -> ConsentPhase]
    /\ builder \in [Peers -> {"none", "plain", "mutual"}]
    /\ ledger \in [Peers -> CallPhase]
    /\ session \in [Peers -> Seq(CallMsgs \cup ConsentMsgs)]
    /\ fresh \in [Peers -> SUBSET (CallMsgs \cup ConsentMsgs)]
    /\ budget \in Budgets
    /\ taps \in [Peers -> 0 .. budget.taps]
    /\ faults \in 0 .. budget.faults
    /\ restarts \in 0 .. budget.restarts
    /\ hist \in [placed : BOOLEAN, over : BOOLEAN, unilateral : BOOLEAN,
                 withdrawn : BOOLEAN, agreed : SUBSET Peers]

Quiet == \A p \in Peers : session[p] = <<>> /\ fresh[p] = {}

Reliable == faults = 0 /\ restarts = 0

(* No silent recording: a side that records, or a capsule tagged as        *)
(* mutually recorded, means that both users asked for or approved a        *)
(* recording during this call, whatever is lost, repeated or restarted     *)
(* (recording_consent.py "Both ends must explicitly tap").                 *)
NoSilentRecording ==
    \A p \in Peers :
        consent[p] = "RECORDING" \/ builder[p] = "mutual" => hist.agreed = Peers

(* On a session that lost nothing, when every message has arrived: unless  *)
(* a side turned to capture or was reaped on its own, either both sides    *)
(* are in the call or neither is, so that answers, refusals, cancelled     *)
(* invites and hangups that cross each other end in agreement; and unless  *)
(* somebody withdrew an unanswered request, two connected sides agree on   *)
(* whether they record (recording_consent.py "recording requires both      *)
(* sides agreeing throughout").                                            *)
SidesAgree ==
    Quiet /\ Reliable =>
        /\ ~hist.unilateral =>
              (phase["caller"] = "ACTIVE" <=> phase["callee"] = "ACTIVE")
        /\ /\ ~hist.withdrawn
           /\ phase["caller"] = "ACTIVE" /\ phase["callee"] = "ACTIVE"
           => (consent["caller"] = "RECORDING" <=> consent["callee"] = "RECORDING")

(* The same without the exception for withdrawn requests, as the docstring *)
(* of recording_consent.py states it: a grant that crosses the withdrawal  *)
(* of its request answers the next request, which nobody granted.          *)
RecordingAlwaysAgreed ==
    /\ Quiet /\ Reliable
    /\ phase["caller"] = "ACTIVE" /\ phase["callee"] = "ACTIVE"
    => (consent["caller"] = "RECORDING" <=> consent["callee"] = "RECORDING")

(* A call refused or cancelled at the callee does not ring again: what the *)
(* comment on _call_signal_retryable ("a one-shot fresh-session retry is   *)
(* safe") needs of a repeated invite.                                      *)
NoGhostRing == hist.over => phase["callee"] # "RINGING"

(* A resume offer that arrives closes the other side's resume window, as   *)
(* the comment on _resumable_to_new_call says ("The peer receives it").    *)
ResumeHeard ==
    [][\A p \in Peers :
         /\ session[p] # <<>> /\ Head(session[p]) = "RESUME_OFFER"
         /\ session'[p] = Tail(session[p]) /\ phase[p] = "RESUMABLE"
         => phase'[p] # "RESUMABLE"]_vars

(* Every ring and every unanswered invite comes to an end.                 *)
RingStops ==
    \A p \in Peers :
        phase[p] \in {"INVITING", "RINGING"} ~> phase[p] \notin {"INVITING", "RINGING"}

(* On a session that loses nothing, hanging up ends the call at the other  *)
(* side too, unless a side had turned to capture or was reaped.            *)
HangupHeard ==
    \A p \in Peers :
        (phase[p] = "ENDED" /\ phase[Other(p)] = "ACTIVE" /\ Reliable /\ ~hist.unilateral)
            ~> (phase[Other(p)] # "ACTIVE" \/ ~Reliable)

(* Calls come to an end on both sides: rings by their timers and answers,  *)
(* connected calls by the hangup of either user.                           *)
CallsEnd == RingStops /\ HangupHeard

(* The resume window closes (LIVING_PRESENCE_ARCHITECTURE.md 6.6 "Both     *)
(* sides see resume affordance for 10 minutes").                           *)
ResumeWindowCloses ==
    \A p \in Peers : phase[p] = "RESUMABLE" ~> phase[p] # "RESUMABLE"

=============================================================================
