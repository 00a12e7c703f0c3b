--------------------------- MODULE MCFileReceive ---------------------------
(* The instances of FileReceive that TLC checks.                           *)
EXTENDS FileReceive

CONSTANTS d1, d2

\* Two deliveries of one content, disk faults and a restart.
MCTwo == [offered |-> {d1, d2}, writers |-> 3, faults |-> 1, crashes |-> 1,
          require |-> FALSE, swarm |-> FALSE, overlap |-> FALSE]

\* One delivery with more faults.
MCFaulty == [MCTwo EXCEPT !.offered = {d1}, !.faults = 2]

\* One delivery the user must accept, over channels that overlap.
MCHeld == [MCFaulty EXCEPT !.writers = 2, !.faults = 1, !.require = TRUE,
                           !.overlap = TRUE]

\* The same with other devices helping and no crash.
MCAssisted == [MCHeld EXCEPT !.writers = 1, !.crashes = 0, !.swarm = TRUE]

\* One delivery to a receiver that crashes twice, other devices helping.
MCCrashing == [MCFaulty EXCEPT !.writers = 5, !.faults = 0, !.crashes = 2,
                               !.swarm = TRUE]

\* Two deliveries the user is asked about, other devices helping.
MCPrompts == [MCTwo EXCEPT !.writers = 2, !.require = TRUE, !.swarm = TRUE]

MCScenarios == {MCTwo, MCFaulty, MCHeld, MCAssisted, MCCrashing,
                MCPrompts}

=============================================================================
