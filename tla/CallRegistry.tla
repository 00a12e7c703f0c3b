------------------------------ MODULE CallRegistry ------------------------------
(***************************************************************************)
(* The daemon's table of calls: CallManagerRegistry (admission by identity *)
(* and capacity, closing, reaping of stale unanswered calls), the outgoing *)
(* calls of CallAPI, the admission of calls that peers open, and the cache *)
(* of media offers that may arrive before their invite.                    *)
(*                                                                         *)
(* CallSignaling follows one call in detail; here a call is only as        *)
(* detailed as the table needs: "pending" is INVITING or RINGING, "stub"   *)
(* is ASYNC_CAPTURE or RESUMABLE.  Ages are not counted: an entry may be   *)
(* found past its time limit at any moment.                                *)
(***************************************************************************)
EXTENDS Naturals, FiniteSets

CONSTANTS
    CallIds,        \* call identifiers
    RemotePeers,    \* peers of this daemon
    NoPeer,         \* no peer
    MaxCalls,       \* MAX_ACTIVE_CALLS
    MaxCallsPerPeer,\* MAX_ACTIVE_CALLS_PER_PEER
    PreInviteMax,   \* CALL_PREINVITE_CACHE_MAX
    PreInvitePerPeer\* CALL_PREINVITE_CACHE_PER_PEER_MAX

ASSUME LimitsAssumption ==
    /\ MaxCalls \in Nat \ {0} /\ MaxCallsPerPeer \in Nat \ {0}
    /\ PreInviteMax \in Nat \ {0} /\ PreInvitePerPeer \in Nat \ {0}
    /\ NoPeer \notin RemotePeers

VARIABLES
    calls,      \* _calls: the manager of each id
    admissions, \* _call_backfill_admissions: ids whose media came first
    media,      \* the peer whose media the backfill caches hold for an id
    minted,     \* ids this daemon has minted
    turnedAway  \* history: peers whom Initiate could not call

registryVars == <<calls, admissions, media, minted, turnedAway>>

Kinds == {"voice", "video"}
Roles == {"originator", "recipient"}
NoCall == [peer |-> NoPeer, role |-> "originator", kind |-> "voice", phase |-> "none"]
NoAdmission == [peer |-> NoPeer, kind |-> "voice"]

Call == [peer : RemotePeers, role : Roles, kind : Kinds,
         phase : {"pending", "active", "stub", "ended"}] \cup {NoCall}
Admission == [peer : RemotePeers, kind : Kinds] \cup {NoAdmission}

OpenIn(cs) == {c \in CallIds : cs[c] # NoCall}
CallsOf(cs, p) == {c \in CallIds : cs[c].peer = p}
Admitted == {c \in CallIds : admissions[c] # NoAdmission}

-----------------------------------------------------------------------------
(* _reap_stale_pending_locked: any unanswered calls may be past the limit. *)
Reaped(stale) == [c \in CallIds |-> IF c \in stale THEN NoCall ELSE calls[c]]

Pending == {c \in CallIds : calls[c].phase = "pending"}

\* Mutant: the per-peer limit is not consulted.
HasRoomForAll(cs, p) == Cardinality(OpenIn(cs)) < MaxCalls

(* The capacity tests of CallManagerRegistry.open.                         *)
HasRoom(cs, p) ==
    /\ Cardinality(OpenIn(cs)) < MaxCalls
    /\ Cardinality(CallsOf(cs, p)) < MaxCallsPerPeer

(* CallManagerRegistry.open for an id the table does not hold.             *)
Opened(cs, c, p, role, kind) ==
    [cs EXCEPT ![c] = [peer |-> p, role |-> role, kind |-> kind, phase |-> "pending"]]

\* Mutant: only a connected call counts as a call in progress.
LiveWithConnected(p, kind) ==
    {c \in CallIds : calls[c].peer = p /\ calls[c].kind = kind
                     /\ calls[c].phase = "active"}

(* CallAPI._find_active_call_with_peer.                                    *)
LiveWith(p, kind) ==
    {c \in CallIds : calls[c].peer = p /\ calls[c].kind = kind
                     /\ calls[c].phase \in {"pending", "active"}}

(* CallAPI._dispatch_initiate: an existing live call is returned as it is; *)
(* otherwise a fresh id is opened, after open reaped what is stale, or the *)
(* table is full and the user is told that something did not work.         *)
InitiateCall(p, kind) ==
    /\ LiveWith(p, kind) = {}
    /\ \E stale \in SUBSET Pending, c \in CallIds \ minted :
        LET left == Reaped(stale) IN
        /\ minted' = minted \cup {c}
        /\ calls[c] = NoCall /\ c \notin Admitted /\ media[c] = NoPeer
        /\ \/ /\ HasRoom(left, p)
              /\ calls' = Opened(left, c, p, "originator", kind)
              /\ UNCHANGED turnedAway
           \/ /\ ~HasRoom(left, p)
              /\ calls' = left
              /\ turnedAway' = turnedAway \cup {p}
    /\ UNCHANGED <<admissions, media>>

-----------------------------------------------------------------------------
(* _call_kind_for_payload: a kind bound to the id wins over the message.   *)
KindFits(c, kind) ==
    /\ calls[c] # NoCall => kind = calls[c].kind
    /\ calls[c] = NoCall /\ c \in Admitted => kind = admissions[c].kind

(* _admit_call_backfill: the namespace of the id is the peer's, or there   *)
(* is room for a new one.                                                  *)
MayAdmit(c, p, kind) ==
    /\ calls[c] # NoCall => calls[c].peer = p /\ calls[c].kind = kind
    /\ calls[c] = NoCall /\ c \in Admitted => admissions[c] = [peer |-> p, kind |-> kind]
    /\ calls[c] = NoCall /\ c \notin Admitted =>
         /\ Cardinality(Admitted) < PreInviteMax
         /\ Cardinality({d \in Admitted : admissions[d].peer = p}) < PreInvitePerPeer

(* CALL_SDP_OFFER, CALL_SDP_ANSWER or CALL_ICE, before or after the        *)
(* invite: the peer's media is cached under the id.                        *)
ReceiveMedia(c, p, kind) ==
    /\ KindFits(c, kind) /\ MayAdmit(c, p, kind)
    /\ admissions' = IF calls[c] = NoCall
                     THEN [admissions EXCEPT ![c] = [peer |-> p, kind |-> kind]]
                     ELSE admissions
    /\ media' = [media EXCEPT ![c] = p]
    /\ UNCHANGED <<calls, minted, turnedAway>>

(* CALL_INVITE: admission, then registry.open with role recipient, which   *)
(* reaps first; a refused open takes a new admission back.                 *)
ReceiveInvite(c, p, kind) ==
    /\ KindFits(c, kind) /\ MayAdmit(c, p, kind)
    /\ \E stale \in SUBSET Pending :
        LET left == Reaped(stale)
            same == left[c] # NoCall /\ left[c].role = "recipient"
            fits == left[c] = NoCall /\ HasRoom(left, p)
        IN  /\ calls' = IF fits THEN Opened(left, c, p, "recipient", kind) ELSE left
            /\ admissions' =
                 IF fits \/ same THEN [admissions EXCEPT ![c] = NoAdmission] ELSE admissions
            /\ media' =
                 IF fits \/ same \/ c \in Admitted THEN media
                 ELSE [media EXCEPT ![c] = NoPeer]
    /\ UNCHANGED <<minted, turnedAway>>

-----------------------------------------------------------------------------
(* What the lifecycle makes of a call: answered, turned to capture, ended. *)
Advance(c, to) ==
    /\ <<calls[c].phase, to>> \in
         {<<"pending", "active">>, <<"pending", "stub">>, <<"pending", "ended">>,
          <<"active", "stub">>, <<"active", "ended">>, <<"stub", "ended">>}
    /\ calls' = [calls EXCEPT ![c].phase = to]
    /\ UNCHANGED <<admissions, media, minted, turnedAway>>

(* The end of the flush that completed the call: _remove_call_backfill and *)
(* registry.close.                                                         *)
CloseCall(c) ==
    /\ calls[c].phase = "ended"
    /\ calls' = [calls EXCEPT ![c] = NoCall]
    /\ admissions' = [admissions EXCEPT ![c] = NoAdmission]
    /\ media' = [media EXCEPT ![c] = NoPeer]
    /\ UNCHANGED <<minted, turnedAway>>

(* reap_stale_pending in _immune_tick_loop, with the media of each call.   *)
TickReap(stale) ==
    /\ stale # {}
    /\ calls' = Reaped(stale)
    /\ admissions' = [c \in CallIds |-> IF c \in stale THEN NoAdmission ELSE admissions[c]]
    /\ media' = [c \in CallIds |-> IF c \in stale THEN NoPeer ELSE media[c]]
    /\ UNCHANGED <<minted, turnedAway>>

(* _prune_call_backfill_admissions for one expired admission.              *)
PruneAdmission(c) ==
    /\ c \in Admitted
    /\ admissions' = [admissions EXCEPT ![c] = NoAdmission]
    /\ media' = [media EXCEPT ![c] = IF calls[c] = NoCall THEN NoPeer ELSE @]
    /\ UNCHANGED <<calls, minted, turnedAway>>

(* A restart: _restore_call_resume_ledger reopens every call that had not  *)
(* ended, with its media; the admissions are gone.                         *)
RegistryRestart ==
    /\ calls' = [c \in CallIds |-> IF calls[c].phase = "ended" THEN NoCall ELSE calls[c]]
    /\ admissions' = [c \in CallIds |-> NoAdmission]
    /\ media' = [c \in CallIds |-> IF calls'[c] = NoCall THEN NoPeer ELSE media[c]]
    /\ UNCHANGED <<minted, turnedAway>>

-----------------------------------------------------------------------------
RegistryInit ==
    /\ calls = [c \in CallIds |-> NoCall]
    /\ admissions = [c \in CallIds |-> NoAdmission]
    /\ media = [c \in CallIds |-> NoPeer]
    /\ minted = {}
    /\ turnedAway = {}

RegistryNext ==
    \/ \E p \in RemotePeers, kind \in Kinds : InitiateCall(p, kind)
    \/ \E c \in CallIds, p \in RemotePeers, kind \in Kinds :
        ReceiveMedia(c, p, kind) \/ ReceiveInvite(c, p, kind)
    \/ \E c \in CallIds :
        \/ \E to \in {"active", "stub", "ended"} : Advance(c, to)
        \/ CloseCall(c)
        \/ PruneAdmission(c)
    \/ \E stale \in SUBSET Pending : TickReap(stale)
    \/ RegistryRestart

RegistrySpec == RegistryInit /\ [][RegistryNext]_registryVars

-----------------------------------------------------------------------------
(* Every entry of the tables is a call or an admission of a known peer.    *)
RegistryTypeOK ==
    /\ calls \in [CallIds -> Call]
    /\ admissions \in [CallIds -> Admission]
    /\ media \in [CallIds -> RemotePeers \cup {NoPeer}]
    /\ minted \subseteq CallIds
    /\ turnedAway \subseteq RemotePeers

(* Neither a peer nor all peers together hold more managers or pre-invite  *)
(* namespaces than the limits, however invites, media and outgoing calls   *)
(* interleave with reaping and restarts (CallManagerRegistry "Bounded").   *)
TableBounded ==
    /\ Cardinality(OpenIn(calls)) <= MaxCalls
    /\ Cardinality(Admitted) <= PreInviteMax
    /\ \A p \in RemotePeers :
        /\ Cardinality(CallsOf(calls, p)) <= MaxCallsPerPeer
        /\ Cardinality({c \in Admitted : admissions[c].peer = p}) <= PreInvitePerPeer

(* The user never has two calls of one kind ringing or connected that both *)
(* were dialled here to the same peer (CallAPI "Idempotent: if there's     *)
(* already an active call with this peer, return its id").                 *)
OneDialledCall ==
    \A c, d \in CallIds :
        /\ calls[c].phase \in {"pending", "active"} /\ calls[d].phase \in {"pending", "active"}
        /\ calls[c].role = "originator" /\ calls[d].role = "originator"
        /\ calls[c].peer = calls[d].peer /\ calls[c].kind = calls[d].kind
        => c = d

(* An id is either an open call or a pre-invite namespace, never both: an  *)
(* invite turns the one into the other, so what was prepared under an id   *)
(* is settled with the call and cannot expire under it.                    *)
OneOwner == \A c \in Admitted : calls[c] = NoCall

(* The table and the pre-invite cache are bounded, and count no id twice.  *)
RegistryBounded == TableBounded /\ OneOwner

(* Cached media belongs to a call or to a bounded admission of the same    *)
(* peer (_admit_call_backfill "reserve one bounded pre-invite media        *)
(* namespace").  The reaping inside registry.open drops the manager of a   *)
(* stale call and leaves its media behind.                                 *)
MediaIsBound ==
    \A c \in CallIds :
        media[c] # NoPeer => media[c] \in {calls[c].peer, admissions[c].peer}

(* With no call in progress a new one can be placed                        *)
(* (_find_active_call_with_peer "re-initiating to the same peer should     *)
(* open a fresh call").  Calls left in capture count against the limits    *)
(* and nothing removes them.                                               *)
FreshCallOpens ==
    [][\A p \in RemotePeers :
         p \in turnedAway' \ turnedAway =>
            \E c \in CallIds : calls[c].phase \in {"pending", "active"}]_registryVars

=============================================================================
