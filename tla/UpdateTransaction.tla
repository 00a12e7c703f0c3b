-------------------------- MODULE UpdateTransaction --------------------------
(***************************************************************************)
(* The standalone updater: the journaled exchange of the installed bundle  *)
(* (update_transaction.py) as the external helper drives it                *)
(* (update_helper.py), with crashes between any two durable steps and I/O  *)
(* errors. In the program only the helper recovers. recover_update_        *)
(* transaction is also an exported entry point: in the behaviours with     *)
(* direct it is called beside the helper too, at any time or never.        *)
(*                                                                         *)
(* A bundle is the release it was cut from; manifest digests tell bundles  *)
(* apart exactly. Version and rollback index advance together. The paths   *)
(* of a transaction carry its random id, so a new one starts without       *)
(* backup, stage and quarantine. A rename and a write of a state file are  *)
(* atomic; shutil.rmtree is not.                                           *)
(***************************************************************************)
EXTENDS Integers

CONSTANTS
    MaxVersion, \* the newest release
    MaxTxns,    \* bound on the transactions of a behaviour
    MaxFaults,  \* bound on I/O errors, refused exits and killed helpers
    MaxCrashes  \* bound on crashes

ASSUME UpdateAssumption ==
    MaxVersion \in Nat /\ MaxTxns \in Nat /\ MaxFaults \in Nat /\ MaxCrashes \in Nat

Releases == 1..MaxVersion
Absent   == 0    \* nothing at the path
Partial  == -1   \* a tree rmtree has begun to remove
Hollow   == -2   \* a stage container whose bundle is gone

Phases ==
    {"none", "prepared", "backup_intent", "backup_created", "activate_intent",
     "candidate_active", "health_accepted", "high_water_committed", "committed",
     "rollback_intent", "rolled_back"}

Settled == {"none", "committed", "rolled_back"}

\* Where a locked operation is: activation, recovery, the health commit and
\* the rollback, the durable steps in their order.
Activation ==
    {"rename_previous", "journal_backup", "journal_activate",
     "rename_candidate", "journal_active"}

Steps ==
    Activation \cup
    {"idle", "recover",
     "finalize", "high_water", "journal_high_water", "drop_backup",
     "drop_backup_rest", "drop_stage", "drop_stage_rest", "journal_commit",
     "rollback", "restore", "restore_backup", "drop_failed",
     "drop_failed_rest", "retire_stage", "retire_stage_rest",
     "journal_rolled_back"}

HelperStates ==
    {"off", "recover", "prepare", "activate", "mark", "clean", "abort"}

Accepted == {"health_accepted", "high_water_committed", "committed"}

VARIABLES
    phase,      \* phase of the journal
    cand, prev, \* the candidate and the previous bundle it names
    install, backup, stage, failed,  \* the bundles on disk
    health,     \* the health marker of this transaction is on disk
    late,       \* its health deadline has passed
    highWater,  \* newest release committed, or 0
    handoff,    \* the helper handoff is unfinished
    helper,     \* where execute_external_update_handoff is
    current,    \* the version that handed over to it
    direct,     \* recovery is called directly too (fixed for a behaviour)
    holder,     \* who holds the lock: "none", "helper" or "caller"
    step,       \* where the locked operation is
    txns, faults, crashes

journal == <<phase, cand, prev>>
trees   == <<install, backup, stage, failed>>
marks   == <<health, highWater>>
flow    == <<handoff, helper, current, direct>>
bounds  == <<txns, faults, crashes>>
vars    == <<journal, trees, marks, late, flow, holder, step, bounds>>

\* Every variable keeps its kind; a journal of a transaction names a newer
\* candidate and an older bundle it replaces.
TypeOK ==
    /\ phase \in Phases
    /\ cand \in 0..MaxVersion /\ prev \in 0..MaxVersion
    /\ phase # "none" => prev \in Releases /\ cand \in Releases
    /\ install \in Releases \cup {Absent}
    /\ backup \in Releases \cup {Absent, Partial}
    /\ failed \in Releases \cup {Absent, Partial}
    /\ stage \in Releases \cup {Absent, Partial, Hollow}
    /\ health \in BOOLEAN /\ late \in BOOLEAN
    /\ highWater \in 0..MaxVersion
    /\ handoff \in BOOLEAN
    /\ helper \in HelperStates
    /\ current \in 0..MaxVersion
    /\ direct \in BOOLEAN
    /\ holder \in {"none", "helper", "caller"}
    /\ step \in Steps
    /\ txns \in 0..MaxTxns /\ faults \in 0..MaxFaults /\ crashes \in 0..MaxCrashes

Init ==
    /\ phase = "none" /\ cand = 0 /\ prev = 0
    /\ install \in Releases
    /\ backup = Absent /\ stage = Absent /\ failed = Absent
    /\ health = FALSE /\ late = FALSE
    /\ highWater \in 0..MaxVersion \* an older release may be reinstalled by hand
    /\ handoff = FALSE /\ helper = "off" /\ current = 0
    /\ direct \in BOOLEAN
    /\ holder = "none" /\ step = "idle"
    /\ txns = 0 /\ faults = 0 /\ crashes = 0

Fault == faults < MaxFaults /\ faults' = faults + 1 /\ UNCHANGED <<txns, crashes>>

----------------------------------------------------------------------------
(* The helper between its locked operations.                               *)

\* The helper closes its handoff. The transition needs the lock: when a
\* direct caller has it, the handoff stays unfinished.
End   == helper' = "off" /\ handoff' \in {FALSE, direct} /\ UNCHANGED <<current, direct>>
Dies  == helper' = "off" /\ UNCHANGED <<handoff, current, direct>>
To(s) == helper' = s /\ UNCHANGED <<handoff, current, direct>>

\* A locked operation is over and its caller goes on. A transaction that
\* settled or became active is a success.
Returns ==
    /\ holder' = "none" /\ step' = "idle"
    /\ IF holder = "caller" THEN UNCHANGED flow
       ELSE CASE helper = "recover"  -> To("prepare")
              [] helper = "activate" -> To(IF phase' = "candidate_active"
                                           THEN "mark" ELSE "clean")
              [] helper = "mark" /\ phase' # "committed" -> To("clean")
              [] OTHER               -> End

\* The caller sees an UpdateTransactionError. The handler of the helper
\* recovers what it prepared itself, and fails closed on an error there.
Refuses ==
    /\ holder' = "none" /\ step' = "idle"
    /\ IF holder = "caller" THEN UNCHANGED flow
       ELSE IF helper \in {"activate", "mark"} THEN To("clean") ELSE End

\* The caller sees an OSError: the handler of the helper does not catch it.
Escapes ==
    /\ holder' = "none" /\ step' = "idle"
    /\ IF holder = "caller" THEN UNCHANGED flow
       ELSE IF helper \in {"activate", "mark"} THEN To("clean")
       ELSE IF helper \in {"clean", "abort"} THEN Dies ELSE End

\* The next locked operation of the helper finds the lock taken.
Busy ==
    /\ helper # "off" /\ holder = "caller"
    /\ IF helper \in {"activate", "mark"} THEN To("clean") ELSE End
    /\ UNCHANGED <<journal, trees, marks, late, holder, step, bounds>>

\* The running application hands over to a helper: no other handoff is
\* unfinished.
Launch ==
    /\ ~handoff /\ helper = "off" /\ install \in Releases
    /\ txns < MaxTxns
    /\ handoff' = TRUE /\ helper' = "recover" /\ current' = install
    /\ UNCHANGED <<direct, journal, trees, marks, late, holder, step, bounds>>

\* The parent does not get the acceptance: it ends the helper and revokes
\* the handoff, which has not gone further than "accepted".
CancelLaunch ==
    /\ helper \in {"recover", "prepare"} /\ Fault
    /\ End
    /\ IF holder = "helper" THEN holder' = "none" /\ step' = "idle"
       ELSE UNCHANGED <<holder, step>>
    /\ UNCHANGED <<journal, trees, marks, late>>

Deadline ==
    /\ phase \notin Settled /\ ~late /\ late' = TRUE
    /\ UNCHANGED <<journal, trees, marks, flow, holder, step, bounds>>

\* Power fails, or both processes are killed.
Crash ==
    /\ crashes < MaxCrashes /\ crashes' = crashes + 1
    /\ helper # "off" \/ holder # "none"
    /\ Dies /\ holder' = "none" /\ step' = "idle"
    /\ UNCHANGED <<journal, trees, marks, late, txns, faults>>

----------------------------------------------------------------------------
(* prepare_update_transaction                                              *)

\* Mutant: the high-water ledger is not consulted.
CandidateAllowedByVersion(v) == current < v

\* _assert_candidate_allowed
CandidateAllowed(v) == current < v /\ highWater < v

\* The stage is extracted and the journal written; a stage without a journal
\* is never looked at again.
Prepare(v) ==
    /\ helper = "prepare" /\ holder = "none"
    /\ phase \in Settled /\ CandidateAllowed(v) /\ install \in Releases
    /\ txns < MaxTxns /\ txns' = txns + 1
    /\ phase' = "prepared" /\ cand' = v /\ prev' = install
    /\ stage' = v /\ backup' = Absent /\ failed' = Absent
    /\ health' = FALSE /\ late' = FALSE
    /\ To("activate")
    /\ UNCHANGED <<install, highWater, holder, step, faults, crashes>>

\* No release, no authentic one, none that is allowed, or no intact bundle.
PrepareRefused ==
    /\ helper = "prepare" /\ holder = "none"
    /\ End
    /\ UNCHANGED <<journal, trees, marks, late, holder, step, bounds>>

----------------------------------------------------------------------------
(* activate_prepared_update                                                *)

Takes(who) == holder = "none" /\ holder' = who

Activate ==
    /\ helper = "activate" /\ Takes("helper")
    /\ phase = "prepared" /\ backup = Absent /\ failed = Absent
    /\ install = prev /\ stage = cand
    /\ phase' = "backup_intent" /\ step' = "rename_previous"
    /\ UNCHANGED <<cand, prev, trees, marks, late, flow, bounds>>

\* The old process does not exit in time, the transaction was settled by
\* somebody else, or the journal cannot be written.
ActivateRefused ==
    /\ helper = "activate" /\ holder = "none"
    /\ IF phase = "prepared" THEN Fault ELSE UNCHANGED bounds
    /\ To("clean")
    /\ UNCHANGED <<journal, trees, marks, late, holder, step>>

RenamePrevious ==
    /\ step = "rename_previous" /\ step' = "journal_backup"
    /\ backup' = install /\ install' = Absent
    /\ UNCHANGED <<journal, stage, failed, marks, late, flow, holder, bounds>>

JournalBackup ==
    /\ step = "journal_backup" /\ step' = "journal_activate"
    /\ phase' = "backup_created"
    /\ UNCHANGED <<cand, prev, trees, marks, late, flow, holder, bounds>>

JournalActivate ==
    /\ step = "journal_activate" /\ step' = "rename_candidate"
    /\ phase' = "activate_intent"
    /\ UNCHANGED <<cand, prev, trees, marks, late, flow, holder, bounds>>

RenameCandidate ==
    /\ step = "rename_candidate" /\ step' = "journal_active"
    /\ install' = stage /\ stage' = Hollow
    /\ UNCHANGED <<journal, backup, failed, marks, late, flow, holder, bounds>>

JournalActive ==
    /\ step = "journal_active"
    /\ phase' = "candidate_active"
    /\ Returns
    /\ UNCHANGED <<cand, prev, trees, marks, late, bounds>>

----------------------------------------------------------------------------
(* mark_update_healthy and _finalize_healthy_locked                        *)

\* The candidate runs and answers its probe in time: the marker is written.
Mark ==
    /\ helper = "mark" /\ Takes("helper")
    /\ phase = "candidate_active" /\ ~late /\ install = cand
    /\ health' = TRUE
    /\ step' = "finalize"
    /\ UNCHANGED <<journal, trees, highWater, late, flow, bounds>>

\* It answers after the deadline.
MarkExpired ==
    /\ helper = "mark" /\ Takes("helper")
    /\ phase = "candidate_active" /\ late
    /\ step' = "rollback"
    /\ UNCHANGED <<journal, trees, marks, late, flow, bounds>>

\* It does not start or not answer, or somebody else settled the transaction.
MarkRefused ==
    /\ helper = "mark" /\ holder = "none"
    /\ To("clean")
    /\ UNCHANGED <<journal, trees, marks, late, holder, step, bounds>>

Finalize ==
    /\ step = "finalize"
    /\ IF install = cand /\ health
       THEN /\ IF phase = "candidate_active" THEN phase' = "health_accepted"
               ELSE UNCHANGED phase
            /\ step' = IF phase = "high_water_committed" THEN "drop_backup"
                       ELSE "high_water"
            /\ UNCHANGED <<flow, holder>>
       ELSE Refuses /\ UNCHANGED phase
    /\ UNCHANGED <<cand, prev, trees, marks, late, bounds>>

\* _append_high_water and write_high_water
AppendHighWater ==
    /\ step = "high_water"
    /\ IF cand < highWater THEN Refuses /\ UNCHANGED highWater
       ELSE highWater' = cand /\ step' = "journal_high_water"
            /\ UNCHANGED <<flow, holder>>
    /\ UNCHANGED <<journal, trees, health, late, bounds>>

JournalHighWater ==
    /\ step = "journal_high_water" /\ step' = "drop_backup"
    /\ phase' = "high_water_committed"
    /\ UNCHANGED <<cand, prev, trees, marks, late, flow, holder, bounds>>

\* What a crash inside rmtree leaves of the stage: part of its bundle, or the
\* container without it.
BeginDropStage ==
    IF stage \in Releases THEN stage' \in {Partial, Hollow} ELSE UNCHANGED stage

\* The backup is validated, and its removal begins.
DropBackup ==
    /\ step = "drop_backup"
    /\ IF highWater = cand /\ backup \in {prev, Absent}
       THEN /\ step' = "drop_backup_rest"
            /\ backup' = IF backup = Absent THEN Absent ELSE Partial
            /\ UNCHANGED <<flow, holder>>
       ELSE Refuses /\ UNCHANGED backup
    /\ UNCHANGED <<journal, install, stage, failed, marks, late, bounds>>

DropBackupRest ==
    /\ step = "drop_backup_rest" /\ step' = "drop_stage"
    /\ backup' = Absent
    /\ UNCHANGED <<journal, install, stage, failed, marks, late, flow, holder,
                   bounds>>

DropStage ==
    /\ step = "drop_stage" /\ step' = "drop_stage_rest"
    /\ BeginDropStage
    /\ UNCHANGED <<journal, install, backup, failed, marks, late, flow, holder,
                   bounds>>

DropStageRest ==
    /\ step = "drop_stage_rest" /\ step' = "journal_commit"
    /\ stage' = Absent
    /\ UNCHANGED <<journal, install, backup, failed, marks, late, flow, holder,
                   bounds>>

JournalCommit ==
    /\ step = "journal_commit"
    /\ IF failed = Absent THEN phase' = "committed" /\ Returns
       ELSE Refuses /\ UNCHANGED phase
    /\ UNCHANGED <<cand, prev, trees, marks, late, bounds>>

----------------------------------------------------------------------------
(* _rollback_locked                                                        *)

Rollback ==
    /\ step = "rollback"
    /\ IF phase \in Accepted THEN Refuses /\ UNCHANGED phase
       ELSE /\ phase' = "rollback_intent" /\ step' = "restore"
            /\ UNCHANGED <<flow, holder>>
    /\ UNCHANGED <<cand, prev, trees, marks, late, bounds>>

\* Mutant: the installed bundle is quarantined whether there is a backup or
\* not.
RestoreUnchecked ==
    /\ step = "restore"
    /\ IF install # Absent
       THEN failed' = install /\ install' = Absent /\ step' = "restore_backup"
            /\ UNCHANGED backup
       ELSE install' = backup /\ backup' = Absent /\ step' = "drop_failed"
            /\ UNCHANGED failed
    /\ UNCHANGED <<journal, stage, marks, late, flow, holder, bounds>>

\* The candidate goes into quarantine if it is installed and a backup is
\* there; a backup goes back to its place. Other paths stop the rollback.
Restore ==
    /\ step = "restore"
    /\ CASE backup = prev /\ install = cand /\ failed = Absent ->
               /\ failed' = install /\ install' = Absent
               /\ step' = "restore_backup"
               /\ UNCHANGED <<backup, flow, holder>>
         [] backup = prev /\ install = Absent ->
               /\ install' = backup /\ backup' = Absent
               /\ step' = "drop_failed"
               /\ UNCHANGED <<failed, flow, holder>>
         [] backup = Absent /\ install = prev ->
               /\ step' = "drop_failed"
               /\ UNCHANGED <<install, backup, failed, flow, holder>>
         [] OTHER -> Refuses /\ UNCHANGED <<install, backup, failed>>
    /\ UNCHANGED <<journal, stage, marks, late, bounds>>

RestoreBackup ==
    /\ step = "restore_backup" /\ step' = "drop_failed"
    /\ install' = backup /\ backup' = Absent
    /\ UNCHANGED <<journal, stage, failed, marks, late, flow, holder, bounds>>

DropFailed ==
    /\ step = "drop_failed" /\ step' = "drop_failed_rest"
    /\ failed' = IF failed = Absent THEN Absent ELSE Partial
    /\ UNCHANGED <<journal, install, backup, stage, marks, late, flow, holder,
                   bounds>>

\* Mutant: the stage stays.
DropFailedOnly ==
    /\ step = "drop_failed_rest" /\ step' = "journal_rolled_back"
    /\ failed' = Absent
    /\ UNCHANGED <<journal, install, backup, stage, marks, late, flow, holder,
                   bounds>>

DropFailedRest ==
    /\ step = "drop_failed_rest" /\ step' = "retire_stage"
    /\ failed' = Absent
    /\ UNCHANGED <<journal, install, backup, stage, marks, late, flow, holder,
                   bounds>>

\* A bundle that is still staged is validated before it is removed.
RetireStage ==
    /\ step = "retire_stage"
    /\ IF stage \in {cand, Hollow, Absent}
       THEN BeginDropStage /\ step' = "retire_stage_rest" /\ UNCHANGED <<flow, holder>>
       ELSE Refuses /\ UNCHANGED stage
    /\ UNCHANGED <<journal, install, backup, failed, marks, late, bounds>>

RetireStageRest ==
    /\ step = "retire_stage_rest" /\ step' = "journal_rolled_back"
    /\ stage' = Absent
    /\ UNCHANGED <<journal, install, backup, failed, marks, late, flow, holder,
                   bounds>>

JournalRolledBack ==
    /\ step = "journal_rolled_back"
    /\ IF install = prev THEN phase' = "rolled_back" /\ Returns
       ELSE Refuses /\ UNCHANGED phase
    /\ UNCHANGED <<cand, prev, trees, marks, late, bounds>>

----------------------------------------------------------------------------
(* recover_update_transaction and abort_update_transaction                 *)

\* Mutant: the deadline is looked at before the health marker.
ActiveRuleByDeadline ==
    IF late THEN "rollback" ELSE IF health THEN "finalize"
    ELSE IF install = cand /\ backup # Absent THEN "await" ELSE "refuse"

\* What recovery does with an active candidate.
ActiveRule ==
    IF health THEN "finalize"
    ELSE IF late THEN "rollback"
    ELSE IF install = cand /\ backup # Absent THEN "await" ELSE "refuse"

\* The rule of recover_update_transaction for each phase.
RecoveryRule ==
    CASE phase \in Settled -> "return"
      [] phase = "prepared" ->
            IF install = prev /\ backup = Absent THEN "rollback" ELSE "refuse"
      [] phase \in {"backup_intent", "backup_created"} -> "rollback"
      [] phase = "activate_intent" ->
            IF install = cand /\ backup # Absent THEN "resume" ELSE "rollback"
      [] phase = "candidate_active" -> ActiveRule
      [] phase \in {"health_accepted", "high_water_committed"} -> "finalize"
      [] phase = "rollback_intent" -> "refuse"

\* The helper recovers first, and again when what it prepared has failed.
HelperRecovers ==
    /\ helper \in {"recover", "clean"} /\ Takes("helper")
    /\ step' = "recover"
    /\ UNCHANGED <<journal, trees, marks, late, flow, bounds>>

\* recover_update_transaction, not called by the helper.
DirectRecovery ==
    /\ direct /\ phase \notin Settled /\ Takes("caller")
    /\ step' = "recover"
    /\ UNCHANGED <<journal, trees, marks, late, flow, bounds>>

RecoverActs ==
    /\ step = "recover" /\ RecoveryRule \in {"rollback", "finalize"}
    /\ step' = RecoveryRule
    /\ UNCHANGED <<journal, trees, marks, late, flow, holder, bounds>>

\* The candidate was renamed into place: the journal catches up.
RecoverResumes ==
    /\ step = "recover" /\ RecoveryRule = "resume"
    /\ phase' = "candidate_active"
    /\ UNCHANGED <<cand, prev, trees, marks, late, flow, holder, step, bounds>>

\* Mutant: the helper waits for the deadline like ordinary recovery.
RecoverAwaitsGivesUp ==
    /\ step = "recover" /\ RecoveryRule = "await"
    /\ holder' = "none" /\ step' = "idle"
    /\ IF holder = "caller" THEN UNCHANGED flow ELSE End
    /\ UNCHANGED <<journal, trees, marks, late, bounds>>

\* A helper that has just been launched gives up; one whose own candidate
\* failed stops it and aborts.
RecoverAwaits ==
    /\ step = "recover" /\ RecoveryRule = "await"
    /\ holder' = "none" /\ step' = "idle"
    /\ IF holder = "caller" THEN UNCHANGED flow
       ELSE IF helper = "clean" THEN To("abort") ELSE End
    /\ UNCHANGED <<journal, trees, marks, late, bounds>>

RecoverReturns ==
    /\ step = "recover" /\ RecoveryRule = "return"
    /\ Returns
    /\ UNCHANGED <<journal, trees, marks, late, bounds>>

RecoverRefuses ==
    /\ step = "recover" /\ RecoveryRule = "refuse"
    /\ Refuses
    /\ UNCHANGED <<journal, trees, marks, late, bounds>>

Abort ==
    /\ helper = "abort" /\ Takes("helper")
    /\ phase \notin Settled
    /\ step' = IF phase \in Accepted THEN "finalize" ELSE "rollback"
    /\ UNCHANGED <<journal, trees, marks, late, flow, bounds>>

AbortReturns ==
    /\ helper = "abort" /\ holder = "none" /\ phase \in Settled
    /\ End
    /\ UNCHANGED <<journal, trees, marks, late, holder, step, bounds>>

\* A durable step of a locked operation fails: activation rolls back, the
\* others pass the error on.
IoError ==
    /\ step # "idle" /\ Fault
    /\ IF step \in Activation THEN step' = "rollback" /\ UNCHANGED <<flow, holder>>
       ELSE Escapes
    /\ UNCHANGED <<journal, trees, marks, late>>

----------------------------------------------------------------------------
HelperMoves ==
    \/ Busy \/ (\E v \in Releases : Prepare(v)) \/ PrepareRefused
    \/ Activate \/ ActivateRefused \/ Mark \/ MarkExpired \/ MarkRefused
    \/ HelperRecovers \/ Abort \/ AbortReturns

LockedStep ==
    \/ RenamePrevious \/ JournalBackup \/ JournalActivate \/ RenameCandidate
    \/ JournalActive
    \/ Finalize \/ AppendHighWater \/ JournalHighWater \/ DropBackup
    \/ DropBackupRest \/ DropStage \/ DropStageRest \/ JournalCommit
    \/ Rollback \/ Restore \/ RestoreBackup \/ DropFailed
    \/ DropFailedRest \/ RetireStage \/ RetireStageRest \/ JournalRolledBack
    \/ RecoverActs \/ RecoverResumes \/ RecoverAwaits \/ RecoverReturns
    \/ RecoverRefuses

Next ==
    \/ Launch \/ CancelLaunch \/ Deadline \/ Crash \/ IoError
    \/ HelperMoves \/ DirectRecovery \/ LockedStep

Spec == Init /\ [][Next]_vars

\* A locked operation runs on, a helper that is alive goes on to its next one,
\* and time passes. Nobody has to launch a helper or to call recovery.
FairSpec ==
    Spec /\ WF_vars(LockedStep) /\ WF_vars(HelperMoves) /\ WF_vars(Deadline)

----------------------------------------------------------------------------
(* What makes an update safe.                                              *)

\* Wherever a process dies, an intact bundle is left to run or to go back to:
\* the installed one, or the previous one beside it.
BundleKept ==
    install \in Releases \/ (install = Absent /\ backup = prev /\ prev \in Releases)

\* Once the health marker of a candidate is on disk, the candidate stays
\* installed and nobody rolls it back, late or not.
HealthIsFinal ==
    health => /\ install = cand
              /\ phase \in {"candidate_active"} \cup Accepted

\* A transaction that is over leaves one bundle: the candidate when the
\* ledger has it, the previous one otherwise, and no tree of its own.
SettledClean ==
    /\ phase = "committed" => install = cand /\ highWater = cand
    /\ phase = "rolled_back" => install = prev
    /\ phase \in {"committed", "rolled_back"} =>
          backup = Absent /\ stage = Absent /\ failed = Absent

\* The updater puts a release into place only if it is newer than all the
\* ledger knows, or puts back the one it took away; the ledger never goes back.
OnlyForward ==
    [][/\ install' \notin {install, Absent} => install' = prev \/ install' > highWater
       /\ highWater' >= highWater]_vars

\* A rollback that was interrupted, or a backup half removed: the two states
\* recover_update_transaction has no way out of.
Wedged ==
    /\ holder = "none"
    /\ \/ phase = "rollback_intent"
       \/ phase = "high_water_committed" /\ backup = Partial

\* A helper that died, or whose clean-up met an OSError: its handoff stays
\* unfinished and no other helper is launched.
Orphaned == handoff /\ helper = "off"

\* A helper that lives settles its transaction: whatever refusal, failed probe,
\* I/O error or missed deadline it meets, it does not close its handoff and
\* leave a transaction behind that recovery could still settle.
Recovers ==
    (~direct /\ phase \notin Settled) ~> (phase \in Settled \/ Wedged \/ Orphaned)

\* "Repair or resume every journaled crash boundary deterministically", for
\* recovery that is called again and again.
RecoveryRepairs ==
    direct /\ WF_vars(DirectRecovery) => (phase \notin Settled ~> phase \in Settled)

\* "A candidate without an authenticated health marker remains active only
\* until its signed journal deadline; expiry restores the byte-validated
\* previous bundle."
ExpiryRestores ==
    (~direct /\ phase = "candidate_active" /\ ~health /\ late) ~> install = prev

=============================================================================
