-------------------------- MODULE CapsuleContract --------------------------
(***************************************************************************)
(* What durable capsule delivery promises, without saying how: a capsule   *)
(* is queued by its sender, then stored by its receiver, and only then     *)
(* confirmed to the sender. A receiver that restarts may make several      *)
(* half-finished commits durable at once.                                  *)
(***************************************************************************)
CONSTANT Capsules

VARIABLE stage

Init == stage = [c \in Capsules |-> "none"]

Queue(c) ==
    /\ stage[c] = "none"
    /\ stage' = [stage EXCEPT ![c] = "queued"]

Store(S) ==
    /\ \A c \in S : stage[c] = "queued"
    /\ stage' = [c \in Capsules |-> IF c \in S THEN "stored" ELSE stage[c]]

Confirm(c) ==
    /\ stage[c] = "stored"
    /\ stage' = [stage EXCEPT ![c] = "confirmed"]

Next ==
    \/ \E c \in Capsules : Queue(c) \/ Confirm(c)
    \/ \E S \in SUBSET Capsules : Store(S)

Spec == Init /\ [][Next]_stage

=============================================================================
