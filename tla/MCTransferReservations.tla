----------------------- MODULE MCTransferReservations -----------------------
(* The instances of TransferReservations that TLC checks: the files of one *)
(* peer and an upload of another. The files are alike.                     *)
EXTENDS TransferReservations, TLC
MCOwner == [t \in Transfers |-> IF t \in Files THEN "p" ELSE "q"]
MCSymmetry == Permutations(Files)
=============================================================================
