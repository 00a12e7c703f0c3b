--------------------------- MODULE MCCapsuleStore ---------------------------
(***************************************************************************)
(* An instance of CapsuleStore for TLC: two ids, so that a restart settles *)
(* several rows, and contents of both directions that compete for an id.   *)
(***************************************************************************)
EXTENDS CapsuleStore, TLC

CONSTANTS o1, o2, in1

MCSymmetry == Permutations(Ids) \cup Permutations({o1, o2})

=============================================================================
