------------------------- MODULE MCCallRegistry -------------------------
(* The instances of CallRegistry that TLC checks.                          *)
EXTENDS CallRegistry, TLC

MCSymmetry == Permutations(CallIds) \cup Permutations(RemotePeers)
=============================================================================
