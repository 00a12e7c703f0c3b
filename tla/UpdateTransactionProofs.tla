----------------------- MODULE UpdateTransactionProofs -----------------------
(***************************************************************************)
(* Proofs about UpdateTransaction, for every number of releases,           *)
(* transactions, faults and crashes. Each action has its lemma; the        *)
(* theorems follow from the inductive invariant UpdateInv.                 *)
(***************************************************************************)
EXTENDS UpdateTransaction, TLAPS

----------------------------------------------------------------------------
(* The inductive invariant.                                                *)

\* The shape of the disk in every phase: what a crash may leave behind.
DiskInv ==
    /\ phase = "none" =>
          install \in Releases /\ backup = Absent /\ stage = Absent /\ failed = Absent
    /\ phase = "prepared" => install = prev /\ backup = Absent
    /\ phase = "backup_intent" =>
          \/ install = prev /\ backup = Absent
          \/ install = Absent /\ backup = prev
    /\ phase = "backup_created" => install = Absent
    /\ phase = "activate_intent" =>
          \/ install = Absent /\ stage = cand
          \/ install = cand /\ stage = Hollow
    /\ phase \in {"backup_created", "activate_intent", "candidate_active",
                  "health_accepted"} => backup = prev
    /\ phase \in {"prepared", "backup_intent", "backup_created"} => stage = cand
    /\ phase \in {"candidate_active", "health_accepted"} => stage = Hollow
    /\ phase \in {"candidate_active", "health_accepted", "high_water_committed",
                  "committed"} => install = cand
    /\ phase = "rollback_intent" =>
          \/ install = cand /\ backup = prev /\ failed = Absent
          \/ install = Absent /\ backup = prev
          \/ install = prev /\ backup = Absent
    /\ phase = "rolled_back" => install = prev
    /\ phase \in {"committed", "rolled_back"} => backup = Absent /\ stage = Absent
    /\ phase # "rollback_intent" => failed = Absent

\* What the journal says of health and ledger.
LedgerInv ==
    /\ health => phase \in {"candidate_active"} \cup Accepted
    /\ phase \in Accepted => health
    /\ phase \in {"prepared", "backup_intent", "backup_created",
                  "activate_intent", "candidate_active"} => highWater < cand
    /\ phase = "health_accepted" => highWater <= cand
    /\ phase \in {"high_water_committed", "committed"} => highWater = cand
    /\ phase # "none" => prev < cand

\* Where the holder of the lock is.
StepInv ==
    /\ holder = "none" <=> step = "idle"
    /\ step \in Activation => helper = "activate" /\ holder = "helper"
    /\ step = "rename_previous" => phase = "backup_intent" /\ install = prev
    /\ step = "journal_backup" => phase = "backup_intent" /\ install = Absent
    /\ step = "journal_activate" => phase = "backup_created"
    /\ step = "rename_candidate" => phase = "activate_intent" /\ install = Absent
    /\ step = "journal_active" => phase = "activate_intent" /\ install = cand
    /\ step = "finalize" => health /\ phase # "committed"
    /\ step \in {"high_water", "journal_high_water"} => phase = "health_accepted"
    /\ step = "journal_high_water" => highWater = cand
    /\ step \in {"drop_backup", "drop_backup_rest", "drop_stage",
                 "drop_stage_rest", "journal_commit"} =>
          phase = "high_water_committed"
    /\ step \in {"drop_stage", "drop_stage_rest", "journal_commit"} =>
          backup = Absent
    /\ step = "journal_commit" => stage = Absent
    /\ step = "rollback" => ~health /\ phase \notin Settled
    /\ step \in {"restore", "restore_backup", "drop_failed", "drop_failed_rest",
                 "retire_stage", "retire_stage_rest", "journal_rolled_back"} =>
          phase = "rollback_intent"
    /\ step = "restore_backup" => install = Absent
    /\ step \in {"drop_failed", "drop_failed_rest", "retire_stage",
                 "retire_stage_rest", "journal_rolled_back"} => install = prev
    /\ step \in {"retire_stage", "retire_stage_rest", "journal_rolled_back"} =>
          failed = Absent
    /\ step = "journal_rolled_back" => stage = Absent

\* A helper that has not prepared anything was launched by a version at least
\* as new as every bundle recovery can put into place.
LaunchInv ==
    helper \in {"recover", "prepare"} =>
        install <= current /\ (backup = prev => prev <= current)

\* Only the helper that probes the candidate writes its health marker.
ProbeInv ==
    /\ helper \in {"activate", "mark"} /\ holder # "helper" => ~health
    /\ helper = "abort" => ~health

\* The inductive invariant.
UpdateInv == TypeOK /\ DiskInv /\ LedgerInv /\ StepInv /\ LaunchInv /\ ProbeInv

----------------------------------------------------------------------------
(* The sets and tuples every step is about are open in all proofs.         *)

USE DEF Phases, Steps, Settled, Accepted, Activation, Releases, Absent,
        Partial, Hollow, HelperStates, journal, trees, marks, flow, bounds

----------------------------------------------------------------------------
(* How a locked operation ends.                                            *)

\* The lock is free, and the helper is not back before its own preparation.
Ended ==
    /\ holder' = "none" /\ step' = "idle" /\ current' = current
    /\ direct' = direct /\ handoff' \in BOOLEAN /\ helper' \in HelperStates
    /\ helper' \in {"recover", "prepare"} => helper \in {"recover", "prepare"}
    /\ helper' = "abort" => helper = "abort"
    /\ helper' \in {"activate", "mark"} =>
          \/ helper' = helper /\ holder = "caller"
          \/ phase' = "candidate_active"

\* After an error the helper has nothing more to probe.
Stopped ==
    Ended /\ (helper' \in {"activate", "mark"} =>
                 helper' = helper /\ holder = "caller")

\* A helper that closes its handoff, or fails to, is gone.
LEMMA EndIsOff ==
    ASSUME TypeOK, End
    PROVE  helper' = "off" /\ handoff' \in BOOLEAN /\ UNCHANGED <<current, direct>>
BY Zenon DEF TypeOK, End

\* A return leaves the lock and a lawful caller.
LEMMA ReturnsEnds ==
    ASSUME TypeOK, Returns
    PROVE  Ended
BY EndIsOff DEF TypeOK, Returns, Ended, To

\* So does an error of either kind.
LEMMA ErrorsStop ==
    ASSUME TypeOK, Refuses \/ Escapes
    PROVE  Stopped
BY EndIsOff DEF TypeOK, Refuses, Escapes, Ended, Stopped, To, Dies

----------------------------------------------------------------------------
(* One lemma per action: the invariant survives it.                        *)

LEMMA LaunchKeeps == UpdateInv /\ Launch => UpdateInv'
BY UpdateAssumption DEF Launch, UpdateInv, TypeOK, DiskInv, LedgerInv,
   StepInv, LaunchInv, ProbeInv

LEMMA CancelLaunchKeeps == UpdateInv /\ CancelLaunch => UpdateInv'
<1> SUFFICES ASSUME UpdateInv, CancelLaunch PROVE UpdateInv'
  OBVIOUS
<1>1. helper' = "off" /\ handoff' \in BOOLEAN /\ UNCHANGED <<current, direct>>
  BY Zenon, EndIsOff DEF CancelLaunch, UpdateInv
<1>2. QED
  BY <1>1, UpdateAssumption DEF CancelLaunch, UpdateInv, TypeOK, DiskInv,
     LedgerInv, StepInv, LaunchInv, ProbeInv, Fault

LEMMA DeadlineKeeps == UpdateInv /\ Deadline => UpdateInv'
BY UpdateAssumption DEF Deadline, UpdateInv, TypeOK, DiskInv, LedgerInv,
   StepInv, LaunchInv, ProbeInv

LEMMA CrashKeeps == UpdateInv /\ Crash => UpdateInv'
BY UpdateAssumption DEF Crash, Dies, UpdateInv, TypeOK, DiskInv, LedgerInv, StepInv,
   LaunchInv, ProbeInv

LEMMA IoErrorKeeps == UpdateInv /\ IoError => UpdateInv'
BY UpdateAssumption, ErrorsStop DEF IoError, Ended, Stopped, UpdateInv,
   TypeOK, DiskInv, LedgerInv, StepInv, LaunchInv, ProbeInv, Fault

LEMMA DirectRecoveryKeeps == UpdateInv /\ DirectRecovery => UpdateInv'
BY UpdateAssumption DEF DirectRecovery, UpdateInv, TypeOK, DiskInv,
   LedgerInv, StepInv, LaunchInv, ProbeInv, Takes

LEMMA BusyKeeps == UpdateInv /\ Busy => UpdateInv'
<1> SUFFICES ASSUME UpdateInv, Busy PROVE UpdateInv'
  OBVIOUS
<1>1. \/ helper' = "off" /\ handoff' \in BOOLEAN /\ UNCHANGED <<current, direct>>
      \/ To("clean")
  BY Zenon, EndIsOff DEF Busy, UpdateInv
<1>2. QED
  BY <1>1, UpdateAssumption DEF Busy, UpdateInv, TypeOK, DiskInv, LedgerInv,
     StepInv, LaunchInv, ProbeInv, To

LEMMA PrepareRefusedKeeps == UpdateInv /\ PrepareRefused => UpdateInv'
<1> SUFFICES ASSUME UpdateInv, PrepareRefused PROVE UpdateInv'
  OBVIOUS
<1>1. helper' = "off" /\ handoff' \in BOOLEAN /\ UNCHANGED <<current, direct>>
  BY Zenon, EndIsOff DEF PrepareRefused, UpdateInv
<1>2. QED
  BY <1>1, UpdateAssumption DEF PrepareRefused, UpdateInv, TypeOK, DiskInv,
     LedgerInv, StepInv, LaunchInv, ProbeInv

LEMMA ActivateKeeps == UpdateInv /\ Activate => UpdateInv'
BY UpdateAssumption DEF Activate, UpdateInv, TypeOK, DiskInv, LedgerInv,
   StepInv, LaunchInv, ProbeInv, Takes

LEMMA ActivateRefusedKeeps == UpdateInv /\ ActivateRefused => UpdateInv'
BY UpdateAssumption DEF ActivateRefused, UpdateInv, TypeOK, DiskInv,
   LedgerInv, StepInv, LaunchInv, ProbeInv, Fault, To

LEMMA MarkKeeps == UpdateInv /\ Mark => UpdateInv'
BY UpdateAssumption DEF Mark, UpdateInv, TypeOK, DiskInv, LedgerInv, StepInv,
   LaunchInv, ProbeInv, Takes

LEMMA MarkExpiredKeeps == UpdateInv /\ MarkExpired => UpdateInv'
BY UpdateAssumption DEF MarkExpired, UpdateInv, TypeOK, DiskInv, LedgerInv,
   StepInv, LaunchInv, ProbeInv, Takes

LEMMA MarkRefusedKeeps == UpdateInv /\ MarkRefused => UpdateInv'
BY UpdateAssumption DEF MarkRefused, UpdateInv, TypeOK, DiskInv, LedgerInv,
   StepInv, LaunchInv, ProbeInv, To

LEMMA HelperRecoversKeeps == UpdateInv /\ HelperRecovers => UpdateInv'
BY UpdateAssumption DEF HelperRecovers, UpdateInv, TypeOK, DiskInv, LedgerInv,
   StepInv, LaunchInv, ProbeInv, Takes

LEMMA AbortKeeps == UpdateInv /\ Abort => UpdateInv'
BY UpdateAssumption DEF Abort, UpdateInv, TypeOK, DiskInv, LedgerInv, StepInv,
   LaunchInv, ProbeInv, Takes

LEMMA AbortReturnsKeeps == UpdateInv /\ AbortReturns => UpdateInv'
<1> SUFFICES ASSUME UpdateInv, AbortReturns PROVE UpdateInv'
  OBVIOUS
<1>1. helper' = "off" /\ handoff' \in BOOLEAN /\ UNCHANGED <<current, direct>>
  BY Zenon, EndIsOff DEF AbortReturns, UpdateInv
<1>2. QED
  BY <1>1, UpdateAssumption DEF AbortReturns, UpdateInv, TypeOK, DiskInv,
     LedgerInv, StepInv, LaunchInv, ProbeInv

LEMMA RenamePreviousKeeps == UpdateInv /\ RenamePrevious => UpdateInv'
BY UpdateAssumption DEF RenamePrevious, UpdateInv, TypeOK, DiskInv, LedgerInv,
   StepInv, LaunchInv, ProbeInv

LEMMA JournalBackupKeeps == UpdateInv /\ JournalBackup => UpdateInv'
BY UpdateAssumption DEF JournalBackup, UpdateInv, TypeOK, DiskInv, LedgerInv,
   StepInv, LaunchInv, ProbeInv

LEMMA JournalActivateKeeps == UpdateInv /\ JournalActivate => UpdateInv'
BY UpdateAssumption DEF JournalActivate, UpdateInv, TypeOK, DiskInv,
   LedgerInv, StepInv, LaunchInv, ProbeInv

LEMMA RenameCandidateKeeps == UpdateInv /\ RenameCandidate => UpdateInv'
BY UpdateAssumption DEF RenameCandidate, UpdateInv, TypeOK, DiskInv,
   LedgerInv, StepInv, LaunchInv, ProbeInv

LEMMA JournalActiveKeeps == UpdateInv /\ JournalActive => UpdateInv'
BY UpdateAssumption, ReturnsEnds DEF JournalActive, Ended, UpdateInv, TypeOK,
   DiskInv, LedgerInv, StepInv, LaunchInv, ProbeInv

LEMMA FinalizeKeeps == UpdateInv /\ Finalize => UpdateInv'
BY UpdateAssumption, ErrorsStop DEF Finalize, Ended, Stopped, UpdateInv,
   TypeOK, DiskInv, LedgerInv, StepInv, LaunchInv, ProbeInv

LEMMA AppendHighWaterKeeps == UpdateInv /\ AppendHighWater => UpdateInv'
BY UpdateAssumption, ErrorsStop DEF AppendHighWater, Ended, Stopped,
   UpdateInv, TypeOK, DiskInv, LedgerInv, StepInv, LaunchInv, ProbeInv

LEMMA JournalHighWaterKeeps == UpdateInv /\ JournalHighWater => UpdateInv'
BY UpdateAssumption DEF JournalHighWater, UpdateInv, TypeOK, DiskInv,
   LedgerInv, StepInv, LaunchInv, ProbeInv

LEMMA DropBackupKeeps == UpdateInv /\ DropBackup => UpdateInv'
BY UpdateAssumption, ErrorsStop DEF DropBackup, Ended, Stopped, UpdateInv,
   TypeOK, DiskInv, LedgerInv, StepInv, LaunchInv, ProbeInv

LEMMA DropBackupRestKeeps == UpdateInv /\ DropBackupRest => UpdateInv'
BY UpdateAssumption DEF DropBackupRest, UpdateInv, TypeOK, DiskInv, LedgerInv,
   StepInv, LaunchInv, ProbeInv

LEMMA DropStageKeeps == UpdateInv /\ DropStage => UpdateInv'
BY UpdateAssumption DEF DropStage, BeginDropStage, UpdateInv, TypeOK, DiskInv,
   LedgerInv, StepInv, LaunchInv, ProbeInv

LEMMA DropStageRestKeeps == UpdateInv /\ DropStageRest => UpdateInv'
BY UpdateAssumption DEF DropStageRest, UpdateInv, TypeOK, DiskInv, LedgerInv,
   StepInv, LaunchInv, ProbeInv

LEMMA JournalCommitKeeps == UpdateInv /\ JournalCommit => UpdateInv'
BY UpdateAssumption, ReturnsEnds, ErrorsStop DEF JournalCommit, Ended,
   Stopped, UpdateInv, TypeOK, DiskInv, LedgerInv, StepInv, LaunchInv,
   ProbeInv

LEMMA RollbackKeeps == UpdateInv /\ Rollback => UpdateInv'
BY UpdateAssumption, ErrorsStop DEF Rollback, Ended, Stopped, UpdateInv,
   TypeOK, DiskInv, LedgerInv, StepInv, LaunchInv, ProbeInv

LEMMA RestoreKeeps == UpdateInv /\ Restore => UpdateInv'
BY UpdateAssumption, ErrorsStop DEF Restore, Ended, Stopped, UpdateInv,
   TypeOK, DiskInv, LedgerInv, StepInv, LaunchInv, ProbeInv

LEMMA RestoreBackupKeeps == UpdateInv /\ RestoreBackup => UpdateInv'
BY UpdateAssumption DEF RestoreBackup, UpdateInv, TypeOK, DiskInv, LedgerInv,
   StepInv, LaunchInv, ProbeInv

LEMMA DropFailedKeeps == UpdateInv /\ DropFailed => UpdateInv'
BY UpdateAssumption DEF DropFailed, UpdateInv, TypeOK, DiskInv, LedgerInv,
   StepInv, LaunchInv, ProbeInv

LEMMA DropFailedRestKeeps == UpdateInv /\ DropFailedRest => UpdateInv'
BY UpdateAssumption DEF DropFailedRest, UpdateInv, TypeOK, DiskInv, LedgerInv,
   StepInv, LaunchInv, ProbeInv

LEMMA RetireStageKeeps == UpdateInv /\ RetireStage => UpdateInv'
BY UpdateAssumption, ErrorsStop DEF RetireStage, Ended, Stopped,
   BeginDropStage, UpdateInv, TypeOK, DiskInv, LedgerInv, StepInv, LaunchInv,
   ProbeInv

LEMMA RetireStageRestKeeps == UpdateInv /\ RetireStageRest => UpdateInv'
BY UpdateAssumption DEF RetireStageRest, UpdateInv, TypeOK, DiskInv,
   LedgerInv, StepInv, LaunchInv, ProbeInv

LEMMA JournalRolledBackKeeps == UpdateInv /\ JournalRolledBack => UpdateInv'
BY UpdateAssumption, ReturnsEnds, ErrorsStop DEF JournalRolledBack, Ended,
   Stopped, UpdateInv, TypeOK, DiskInv, LedgerInv, StepInv, LaunchInv,
   ProbeInv

LEMMA RecoverActsKeeps == UpdateInv /\ RecoverActs => UpdateInv'
BY UpdateAssumption DEF RecoverActs, RecoveryRule, ActiveRule, UpdateInv,
   TypeOK, DiskInv, LedgerInv, StepInv, LaunchInv, ProbeInv

LEMMA RecoverResumesKeeps == UpdateInv /\ RecoverResumes => UpdateInv'
BY UpdateAssumption DEF RecoverResumes, RecoveryRule, ActiveRule, UpdateInv,
   TypeOK, DiskInv, LedgerInv, StepInv, LaunchInv, ProbeInv

LEMMA RecoverAwaitsKeeps == UpdateInv /\ RecoverAwaits => UpdateInv'
<1> SUFFICES ASSUME UpdateInv, RecoverAwaits PROVE UpdateInv'
  OBVIOUS
<1>1. \/ helper' = "off" /\ handoff' \in BOOLEAN /\ UNCHANGED <<current, direct>>
      \/ To("abort") /\ helper = "clean"
      \/ UNCHANGED flow /\ holder = "caller"
  BY Zenon, EndIsOff DEF RecoverAwaits, UpdateInv
<1>2. QED
  BY <1>1, UpdateAssumption DEF RecoverAwaits, RecoveryRule, ActiveRule,
     UpdateInv, TypeOK, DiskInv, LedgerInv, StepInv, LaunchInv, ProbeInv, To

LEMMA RecoverReturnsKeeps == UpdateInv /\ RecoverReturns => UpdateInv'
<1> SUFFICES ASSUME UpdateInv, RecoverReturns PROVE UpdateInv'
  OBVIOUS
<1>1. phase \in Settled
  BY DEF RecoverReturns, RecoveryRule, ActiveRule, UpdateInv, TypeOK
<1>2. QED
  BY <1>1, UpdateAssumption, ReturnsEnds DEF RecoverReturns, Ended, UpdateInv,
     TypeOK, DiskInv, LedgerInv, StepInv, LaunchInv, ProbeInv

LEMMA RecoverRefusesKeeps == UpdateInv /\ RecoverRefuses => UpdateInv'
BY UpdateAssumption, ErrorsStop DEF RecoverRefuses, Ended, Stopped, UpdateInv,
   TypeOK, DiskInv, LedgerInv, StepInv, LaunchInv, ProbeInv

LEMMA PrepareKeeps ==
    ASSUME UpdateInv, NEW v \in Releases, Prepare(v)
    PROVE  UpdateInv'
<1>1. ~health' /\ health' \in BOOLEAN /\ late' \in BOOLEAN
  BY Zenon DEF Prepare
<1>2. install < v /\ highWater < v
  BY UpdateAssumption DEF Prepare, CandidateAllowed, UpdateInv, TypeOK,
     LaunchInv
<1>3. TypeOK'
  BY <1>1, UpdateAssumption DEF Prepare, UpdateInv, TypeOK, To
<1>4. DiskInv' /\ LedgerInv'
  BY <1>1, <1>2 DEF Prepare, DiskInv, LedgerInv, UpdateInv
<1>5. StepInv'
  BY DEF Prepare, StepInv, UpdateInv
<1>6. LaunchInv' /\ ProbeInv'
  BY <1>1 DEF Prepare, LaunchInv, ProbeInv, To
<1>7. QED
  BY <1>3, <1>4, <1>5, <1>6 DEF UpdateInv

----------------------------------------------------------------------------
(* The theorems.                                                           *)

LEMMA InitInv == Init => UpdateInv
<1> SUFFICES ASSUME Init PROVE UpdateInv
  OBVIOUS
<1>1. ~health /\ health \in BOOLEAN /\ late \in BOOLEAN /\ handoff \in BOOLEAN
  BY Zenon DEF Init
<1>2. install \in Releases /\ highWater \in 0..MaxVersion
  BY DEF Init
<1>3. TypeOK
  BY <1>1, UpdateAssumption DEF Init, TypeOK
<1>4. DiskInv /\ LedgerInv
  BY <1>1 DEF Init, DiskInv, LedgerInv
<1>5. StepInv
  BY DEF Init, StepInv
<1>6. LaunchInv /\ ProbeInv
  BY <1>1 DEF Init, LaunchInv, ProbeInv
<1>7. QED
  BY <1>3, <1>4, <1>5, <1>6 DEF UpdateInv

LEMMA StepKeepsInv == UpdateInv /\ [Next]_vars => UpdateInv'
<1> SUFFICES ASSUME UpdateInv, [Next]_vars PROVE UpdateInv'
  OBVIOUS
<1>1. CASE Launch \/ CancelLaunch \/ Deadline \/ Crash \/ IoError \/ DirectRecovery
  BY <1>1, LaunchKeeps, CancelLaunchKeeps, DeadlineKeeps, CrashKeeps, IoErrorKeeps,
     DirectRecoveryKeeps
<1>2. CASE HelperMoves
  BY <1>2, BusyKeeps, PrepareKeeps, PrepareRefusedKeeps, ActivateKeeps,
     ActivateRefusedKeeps, MarkKeeps, MarkExpiredKeeps, MarkRefusedKeeps,
     HelperRecoversKeeps, AbortKeeps, AbortReturnsKeeps DEF HelperMoves
<1>3. CASE LockedStep
  BY <1>3, RenamePreviousKeeps, JournalBackupKeeps, JournalActivateKeeps,
     RenameCandidateKeeps, JournalActiveKeeps, FinalizeKeeps,
     AppendHighWaterKeeps, JournalHighWaterKeeps, DropBackupKeeps,
     DropBackupRestKeeps, DropStageKeeps, DropStageRestKeeps,
     JournalCommitKeeps, RollbackKeeps, RestoreKeeps, RestoreBackupKeeps,
     DropFailedKeeps, DropFailedRestKeeps, RetireStageKeeps,
     RetireStageRestKeeps, JournalRolledBackKeeps, RecoverActsKeeps,
     RecoverResumesKeeps, RecoverAwaitsKeeps, RecoverReturnsKeeps,
     RecoverRefusesKeeps DEF LockedStep
<1>4. CASE UNCHANGED vars
  BY <1>4 DEF vars, UpdateInv, TypeOK, DiskInv, LedgerInv, StepInv, LaunchInv,
     ProbeInv
<1>5. QED
  BY <1>1, <1>2, <1>3, <1>4 DEF Next

\* What a step may do to the installed bundle and to the ledger.
Forward ==
    /\ install' \notin {install, Absent} => install' = prev \/ install' > highWater
    /\ highWater' >= highWater

LEMMA StepsForward == UpdateInv /\ [Next]_vars => Forward
<1> SUFFICES ASSUME UpdateInv, [Next]_vars PROVE Forward
  OBVIOUS
<1>1. highWater \in Int /\ install \in Int /\ cand \in Int
  BY UpdateAssumption DEF UpdateInv, TypeOK
<1>2. CASE RenamePrevious \/ RenameCandidate
  <2>1. CASE RenamePrevious
    BY <1>1, <2>1 DEF RenamePrevious, Forward
  <2>2. CASE RenameCandidate
    <3>1. stage = cand /\ highWater < cand
      BY <2>2, UpdateAssumption DEF RenameCandidate, UpdateInv, TypeOK, DiskInv,
         LedgerInv, StepInv
    <3>2. QED
      BY <1>1, <2>2, <3>1 DEF RenameCandidate, Forward
  <2>3. QED
    BY <1>2, <2>1, <2>2
<1>3. CASE Restore \/ RestoreBackup
  BY <1>1, <1>3 DEF Restore, RestoreBackup, Forward, UpdateInv, DiskInv,
     StepInv
<1>4. CASE AppendHighWater
  BY <1>1, <1>4 DEF AppendHighWater, Forward
<1>5. CASE UNCHANGED <<install, highWater>>
  BY <1>1, <1>5 DEF Forward
<1>6. Launch \/ CancelLaunch \/ Deadline \/ Crash \/ IoError \/ DirectRecovery
        => UNCHANGED <<install, highWater>>
  BY DEF Launch, CancelLaunch, Deadline, Crash, IoError, DirectRecovery
<1>7. HelperMoves => UNCHANGED <<install, highWater>>
  BY DEF HelperMoves, Busy, Prepare, PrepareRefused, Activate,
     ActivateRefused, Mark, MarkExpired, MarkRefused, HelperRecovers, Abort,
     AbortReturns
<1>8. LockedStep => \/ RenamePrevious \/ RenameCandidate \/ Restore \/ RestoreBackup
                    \/ AppendHighWater \/ UNCHANGED <<install, highWater>>
  BY DEF LockedStep, JournalBackup, JournalActivate, JournalActive, Finalize,
     JournalHighWater, DropBackup, DropBackupRest, DropStage, DropStageRest,
     JournalCommit, Rollback, DropFailed, DropFailedRest, RetireStage,
     RetireStageRest, JournalRolledBack, RecoverActs, RecoverResumes,
     RecoverAwaits, RecoverReturns, RecoverRefuses
<1>9. UNCHANGED vars => UNCHANGED <<install, highWater>>
  BY DEF vars
<1>10. QED
  BY <1>2, <1>3, <1>4, <1>5, <1>6, <1>7, <1>8, <1>9 DEF Next

\* The state files, the bundles on disk and the processes stay well formed
\* through every crash and error.
THEOREM UpdateTypeOK == Spec => []TypeOK
<1>1. UpdateInv => TypeOK
  BY DEF UpdateInv
<1>2. QED
  BY <1>1, InitInv, StepKeepsInv, PTL DEF Spec

\* The application is never lost: whatever step of prepare, activate, commit
\* or rollback is cut short, an intact bundle is installed or can be restored.
THEOREM UpdateBundleKept == Spec => []BundleKept
<1>1. UpdateInv => BundleKept
  BY UpdateAssumption DEF BundleKept, UpdateInv, TypeOK, DiskInv, LedgerInv,
     StepInv, LaunchInv, ProbeInv
<1>2. QED
  BY <1>1, InitInv, StepKeepsInv, PTL DEF Spec

\* A candidate that proved its health is never rolled back, by deadline,
\* recovery, abort or activation error.
THEOREM UpdateHealthIsFinal == Spec => []HealthIsFinal
<1>1. UpdateInv => HealthIsFinal
  BY UpdateAssumption DEF HealthIsFinal, UpdateInv, TypeOK, DiskInv,
     LedgerInv, StepInv, LaunchInv, ProbeInv
<1>2. QED
  BY <1>1, InitInv, StepKeepsInv, PTL DEF Spec

\* A transaction that is over leaves the bundle its outcome names and no tree
\* of its own.
THEOREM UpdateSettledClean == Spec => []SettledClean
<1>1. UpdateInv => SettledClean
  BY UpdateAssumption DEF SettledClean, UpdateInv, TypeOK, DiskInv, LedgerInv,
     StepInv, LaunchInv, ProbeInv
<1>2. QED
  BY <1>1, InitInv, StepKeepsInv, PTL DEF Spec

\* The installed release goes forward or back to the one it came from, and
\* the rollback ledger only forward.
THEOREM UpdateOnlyForward == Spec => OnlyForward
<1>1. UpdateInv /\ [Next]_vars => [Forward]_vars
  BY StepsForward
<1>2. QED
  BY <1>1, InitInv, StepKeepsInv, PTL DEF Spec, OnlyForward, Forward

=============================================================================
