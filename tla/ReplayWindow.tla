---------------------------- MODULE ReplayWindow ----------------------------
(***************************************************************************)
(* The sliding replay window for authenticated frames (replay_window.py).  *)
(* The bitmap is the set of the positions of its set bits: bit k stands    *)
(* for sequence number high - k. Frames arrive in any order, any number    *)
(* of times, with any timestamp.                                           *)
(***************************************************************************)
EXTENDS Integers

CONSTANTS
    WindowSize,   \* window_size
    MaxAge,       \* max_age_ms
    MaxSkew,      \* max_future_skew_ms
    Seqs,         \* sequence numbers that frames carry
    Times         \* values of now_ms and ts_ms

ASSUME WindowAssumption ==
    /\ WindowSize \in Nat \ {0}
    /\ MaxAge \in Nat /\ MaxSkew \in Nat
    /\ Seqs \subseteq Int /\ Times \subseteq Int

VARIABLES
    high,     \* high_water, -1 before the first frame
    bits,     \* set bits of _bitmap
    accepted, \* sequence numbers of all frames accepted so far (history)
    decision  \* the ReplayDecision returned last, with its sequence number

windowVars == <<high, bits, accepted, decision>>

Outcomes == {"none", "accept_new", "accept_reorder", "reject_replay",
             "reject_too_old", "reject_bad_sequence", "reject_bad_timestamp"}

WindowInit ==
    /\ high = -1 /\ bits = {} /\ accepted = {}
    /\ decision = [seq |-> 0, outcome |-> "none"]

BadTimestamp(now, ts) == ts < now - MaxAge \/ ts > now + MaxSkew

Decide(seq, outcome) == decision' = [seq |-> seq, outcome |-> outcome]

Reject(seq, outcome) ==
    /\ Decide(seq, outcome)
    /\ UNCHANGED <<high, bits, accepted>>

\* Mutant: the bitmap is cleared although the shift stays in the window.
ShiftedCleared(by) == IF by >= WindowSize - 1 THEN {} ELSE
                      {k \in 0..(WindowSize - 1) : k - by \in bits}

\* _bitmap << shift, masked to the window.
Shifted(by) == {k \in 0..(WindowSize - 1) : k - by \in bits}

\* Mutant: the bit of a reordered frame is not set.
AcceptReorderForgets(seq) ==
    /\ high # -1 /\ seq <= high /\ high - seq < WindowSize
    /\ high - seq \notin bits
    /\ UNCHANGED <<high, bits>>
    /\ accepted' = accepted \cup {seq}
    /\ Decide(seq, "accept_reorder")

AcceptNew(seq) ==
    /\ seq > high
    /\ high' = seq
    /\ bits' = (IF high = -1 THEN {} ELSE Shifted(seq - high)) \cup {0}
    /\ accepted' = accepted \cup {seq}
    /\ Decide(seq, "accept_new")

AcceptReorder(seq) ==
    /\ high # -1 /\ seq <= high /\ high - seq < WindowSize
    /\ high - seq \notin bits
    /\ bits' = bits \cup {high - seq}
    /\ accepted' = accepted \cup {seq}
    /\ Decide(seq, "accept_reorder")
    /\ UNCHANGED high

\* Mutant: the last position of the window counts as outside.
RejectTooOldOffByOne(seq) ==
    /\ high # -1 /\ seq <= high /\ high - seq >= WindowSize - 1
    /\ Reject(seq, "reject_too_old")

RejectTooOld(seq) ==
    /\ high # -1 /\ seq <= high /\ high - seq >= WindowSize
    /\ Reject(seq, "reject_too_old")

RejectReplay(seq) ==
    /\ high # -1 /\ seq <= high /\ high - seq < WindowSize
    /\ high - seq \in bits
    /\ Reject(seq, "reject_replay")

\* check(seq, now_ms, ts_ms)
Check(seq, now, ts) ==
    \/ seq < 0 /\ Reject(seq, "reject_bad_sequence")
    \/ seq >= 0 /\ BadTimestamp(now, ts) /\ Reject(seq, "reject_bad_timestamp")
    \/ /\ seq >= 0 /\ ~BadTimestamp(now, ts)
       /\ \/ AcceptNew(seq) \/ AcceptReorder(seq)
          \/ RejectTooOld(seq) \/ RejectReplay(seq)

WindowNext == \E seq \in Seqs, now \in Times, ts \in Times : Check(seq, now, ts)

WindowSpec == WindowInit /\ [][WindowNext]_windowVars

-----------------------------------------------------------------------------
\* The bitmap fits its WindowSize bits and the high-water mark is a sequence
\* number of a frame that arrived.
WindowTypeOK ==
    /\ high \in (Seqs \cap Nat) \cup {-1}
    /\ bits \subseteq 0..(WindowSize - 1)
    /\ accepted \subseteq Seqs \cap Nat
    /\ decision.outcome \in Outcomes

\* The bitmap remembers exactly the accepted sequence numbers that are still
\* in the window, after any order of arrivals and any jump of the mark.
WindowExact ==
    /\ \A s \in accepted : s <= high
    /\ \A k \in 0..(WindowSize - 1) : k \in bits <=> high - k \in accepted

\* A frame is accepted at most once: check never accepts a sequence number
\* it has accepted before.
NoReplay ==
    [][\A s \in Seqs : AcceptNew(s) \/ AcceptReorder(s) => s \notin accepted]_windowVars

\* Reordering costs nothing inside the window: a frame that is rejected as a
\* replay was really accepted before, and one rejected as too old lies a
\* whole window behind the mark.
NoFalseReject ==
    /\ decision.outcome = "reject_replay" => decision.seq \in accepted
    /\ decision.outcome = "reject_too_old" => high - decision.seq >= WindowSize
=============================================================================
