---------------------------- MODULE MCUiDelivery ----------------------------
(***************************************************************************)
(* Instances of UiDelivery for TLC.                                        *)
(***************************************************************************)
EXTENDS UiDelivery, TLC

MCSymmetry == Permutations(Requests) \cup Permutations(Ids)

=============================================================================
