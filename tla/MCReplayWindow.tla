--------------------------- MODULE MCReplayWindow ---------------------------
(* The instance of ReplayWindow that TLC checks.                           *)
EXTENDS ReplayWindow
MCSeqs  == -1..8
MCTimes == 0..2
=============================================================================
