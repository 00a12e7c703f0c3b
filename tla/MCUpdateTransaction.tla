------------------------ MODULE MCUpdateTransaction ------------------------
(* The instances of UpdateTransaction that TLC checks.                     *)
EXTENDS UpdateTransaction
=============================================================================
