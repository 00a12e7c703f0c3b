---------------------------- MODULE MCChatOutbox ----------------------------
(***************************************************************************)
(* Instances of ChatOutbox for TLC.                                        *)
(***************************************************************************)
EXTENDS ChatOutbox

MCBudgets == {[msgs |-> 3, faults |-> 1], [msgs |-> 2, faults |-> 2]}

=============================================================================
