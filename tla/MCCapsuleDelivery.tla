------------------------- MODULE MCCapsuleDelivery -------------------------
(***************************************************************************)
(* Instances of CapsuleDelivery for TLC.                                   *)
(***************************************************************************)
EXTENDS CapsuleDelivery, TLC

CONSTANTS c1, c2, p1, p2

\* Two capsules of two chunks and one chunk.
MCNChunks == [c \in Capsules |-> IF c = c1 THEN 2 ELSE 1]

\* A single capsule's parts.
MCOneChunk == [c \in Capsules |-> 1]

MCSize == [c \in Capsules |-> IF c = c1 THEN 2 ELSE 1]

MCOnePeer == [c \in Capsules |-> p1]

MCTwoPeers == [c \in Capsules |-> IF c = c1 THEN p1 ELSE p2]

MCSymmetry == Permutations(Channels)

=============================================================================
