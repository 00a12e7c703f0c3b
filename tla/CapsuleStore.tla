---------------------------- MODULE CapsuleStore ----------------------------
(***************************************************************************)
(* The crash-consistent capsule repository (capsule_store.py): an SQLite   *)
(* index whose rows go staging -> pending/received -> delivered, and one   *)
(* sealed file per capsule id, replaced atomically. The repository's lock  *)
(* lets one operation run at a time; a crash may fall between any two of   *)
(* its durable writes.                                                     *)
(*                                                                         *)
(* A content stands for the whole contract a row is compared by: peer,     *)
(* direction, call, payload hash and content hash.                         *)
(***************************************************************************)
EXTENDS Naturals

CONSTANTS
    Ids,         \* capsule ids
    Outbound,    \* contents captured here, to be delivered to a peer
    Inbound,     \* contents received from a peer
    None,        \* no row, no file, no operation
    MaxAttempts, \* bound on the delivery attempts counted
    MaxStoreFaults \* bound on the I/O errors and crashes of a behaviour

Contents == Outbound \cup Inbound

ASSUME StoreAssumption ==
    /\ Outbound \cap Inbound = {}
    /\ None \notin Contents
    /\ None \notin Ids
    /\ MaxAttempts \in Nat
    /\ MaxStoreFaults \in Nat

VARIABLES
    content,   \* content[id]: the contract of the row, or None
    status,    \* status[id]: the status column of the row
    attempts,  \* attempts[id]: the attempts column
    storeDue,  \* rows whose next_attempt_ms has passed
    file,      \* file[id]: the content of the sealed file, or None
    pc,        \* where the operation that holds the lock is
    opId,      \* the capsule id it works on
    opContent, \* the content it was called with
    promised,  \* <<id, content>> pairs store_capsule returned a record for
    leftover,  \* ids whose staging row a failed rollback left behind
    storeFaults \* faults so far

rowVars == <<content, status, attempts, storeDue>>
opVars  == <<pc, opId, opContent>>
storeVars == <<rowVars, file, opVars, promised, leftover, storeFaults>>

Statuses == {"absent", "staging", "pending", "received", "delivered"}

StoreTypeOK ==
    /\ content \in [Ids -> Contents \cup {None}]
    /\ status \in [Ids -> Statuses]
    /\ attempts \in [Ids -> 0..MaxAttempts]
    /\ storeDue \subseteq Ids
    /\ file \in [Ids -> Contents \cup {None}]
    /\ pc \in {"idle", "inserted", "saved", "rollback", "unlink"}
    /\ opId \in Ids \cup {None}
    /\ opContent \in Contents \cup {None}
    /\ promised \subseteq Ids \X Contents
    /\ leftover \subseteq Ids
    /\ storeFaults \in 0..MaxStoreFaults

StoreInit ==
    /\ content = [i \in Ids |-> None]
    /\ status = [i \in Ids |-> "absent"]
    /\ attempts = [i \in Ids |-> 0]
    /\ storeDue = {}
    /\ file = [i \in Ids |-> None]
    /\ pc = "idle" /\ opId = None /\ opContent = None
    /\ promised = {}
    /\ leftover = {}
    /\ storeFaults = 0

StoreFault == storeFaults < MaxStoreFaults /\ storeFaults' = storeFaults + 1

\* The status a committed row starts with.
ReadyStatus(v) == IF v \in Outbound THEN "pending" ELSE "received"

Release == pc' = "idle" /\ opId' = None /\ opContent' = None

\* The INSERT of a staging row for content v.
InsertStaging(i, v) ==
    /\ content' = [content EXCEPT ![i] = v]
    /\ status' = [status EXCEPT ![i] = "staging"]
    /\ attempts' = [attempts EXCEPT ![i] = 0]
    /\ storeDue' = storeDue \cup {i}
    /\ leftover' = leftover \ {i}
    /\ pc' = "inserted" /\ opId' = i /\ opContent' = v

\* The UPDATE of a staging row to its ready status.
CommitRow(i) ==
    /\ status' = [status EXCEPT ![i] = ReadyStatus(content[i])]
    /\ UNCHANGED <<content, attempts, storeDue>>

\* DELETE ... WHERE status = 'staging'
DeleteStaging(i) ==
    /\ content' = [content EXCEPT ![i] = None]
    /\ status' = [status EXCEPT ![i] = "absent"]
    /\ UNCHANGED <<attempts, storeDue>>

----------------------------------------------------------------------------
(* store_capsule, one action per durable write.                            *)

\* Mutant: INSERT OR REPLACE, whatever row the id already has.
StoreNewReplaces(i, v) ==
    /\ pc = "idle"
    /\ InsertStaging(i, v)
    /\ UNCHANGED <<file, promised, storeFaults>>

\* No row yet: a staging row is inserted before any byte is written.
StoreNew(i, v) ==
    /\ pc = "idle"
    /\ status[i] = "absent"
    /\ InsertStaging(i, v)
    /\ UNCHANGED <<file, promised, storeFaults>>

\* A committed row of the same contract is returned as it is; one of another
\* contract raises CapsuleConflictError and nothing changes.
StoreExisting(i, v) ==
    /\ pc = "idle"
    /\ status[i] \notin {"absent", "staging"}
    /\ content[i] = v
    /\ promised' = promised \cup {<<i, v>>}
    /\ UNCHANGED <<rowVars, file, opVars, leftover, storeFaults>>

\* A staging row left behind is settled first (_recover_one_staging): a good
\* sealed file commits it, otherwise it is removed and inserted again.
StoreLeftover(i, v) ==
    /\ pc = "idle"
    /\ status[i] = "staging"
    /\ content[i] = v
    /\ \/ /\ file[i] = v
          /\ CommitRow(i)
          /\ promised' = promised \cup {<<i, v>>}
          /\ leftover' = leftover \ {i}
          /\ UNCHANGED <<file, opVars>>
       \/ /\ file[i] # v
          /\ InsertStaging(i, v)
          \* an invalid file is moved to quarantine, if the move works
          /\ file' \in {file, [file EXCEPT ![i] = None]}
          /\ UNCHANGED promised
    /\ UNCHANGED storeFaults

SaveSealed ==
    /\ pc = "inserted"
    /\ file' = [file EXCEPT ![opId] = opContent]
    /\ pc' = "saved"
    /\ UNCHANGED <<rowVars, opId, opContent, promised, leftover, storeFaults>>

\* Mutant: the error of a failed file write is ignored.
SaveFailsIgnored ==
    /\ pc = "inserted"
    /\ StoreFault
    /\ pc' = "saved"
    /\ UNCHANGED <<rowVars, file, opId, opContent, promised, leftover>>

\* Writing the temporary file, or the directory sync after the rename, fails.
SaveFails ==
    /\ pc = "inserted"
    /\ StoreFault
    /\ file' \in {file, [file EXCEPT ![opId] = opContent]}
    /\ pc' = "rollback"
    /\ UNCHANGED <<rowVars, opId, opContent, promised, leftover>>

Commit ==
    /\ pc = "saved"
    /\ CommitRow(opId)
    /\ promised' = promised \cup {<<opId, opContent>>}
    /\ Release
    /\ UNCHANGED <<file, leftover, storeFaults>>

CommitFails ==
    /\ pc = "saved"
    /\ StoreFault
    /\ pc' = "rollback"
    /\ UNCHANGED <<rowVars, file, opId, opContent, promised, leftover>>

RollbackDelete ==
    /\ pc = "rollback"
    /\ DeleteStaging(opId)
    /\ pc' = "unlink"
    /\ UNCHANGED <<file, opId, opContent, promised, leftover, storeFaults>>

\* The DELETE raises: the unlink is skipped and the row stays staging.
RollbackFails ==
    /\ pc = "rollback"
    /\ StoreFault
    /\ leftover' = leftover \cup {opId}
    /\ Release
    /\ UNCHANGED <<rowVars, file, promised>>

\* An OSError of the unlink is ignored.
RollbackUnlink ==
    /\ pc = "unlink"
    /\ \/ file' = [file EXCEPT ![opId] = None] /\ UNCHANGED storeFaults
       \/ StoreFault /\ UNCHANGED file
    /\ Release
    /\ UNCHANGED <<rowVars, promised, leftover>>

----------------------------------------------------------------------------
(* The outbox operations.                                                  *)

MarkRowAttemptFailed(i) ==
    /\ pc = "idle"
    /\ status[i] = "pending"
    /\ attempts[i] < MaxAttempts
    /\ attempts' = [attempts EXCEPT ![i] = @ + 1]
    /\ storeDue' = storeDue \ {i}
    /\ UNCHANGED <<content, status, file, opVars, promised, leftover, storeFaults>>

MarkRowDelivered(i) ==
    /\ pc = "idle"
    /\ status[i] = "pending"
    /\ status' = [status EXCEPT ![i] = "delivered"]
    /\ storeDue' = storeDue \cup {i}
    /\ UNCHANGED <<content, attempts, file, opVars, promised, leftover, storeFaults>>

RowBackoffElapses(i) ==
    /\ status[i] = "pending"
    /\ i \notin storeDue
    /\ storeDue' = storeDue \cup {i}
    /\ UNCHANGED <<content, status, attempts, file, opVars, promised>>
    /\ UNCHANGED <<leftover, storeFaults>>

\* The rows due_outbound returns.
DueOutbound == {i \in storeDue : status[i] = "pending"}

\* Mutant: the repository opens without settling its staging rows.
RestartSkipsRecovery ==
    /\ StoreFault
    /\ Release
    /\ leftover' = {}
    /\ UNCHANGED <<rowVars, file, promised>>

\* The process dies and opens the repository again: __init__ settles every
\* staging row by its sealed file. A file that does not match its row is moved
\* to quarantine, if the move works, and the row is deleted.
Restart ==
    LET staging == {i \in Ids : status[i] = "staging"}
        good == {i \in staging : file[i] = content[i]}
        bad  == staging \ good
    IN
    /\ StoreFault
    /\ status' = [i \in Ids |-> IF i \in good THEN ReadyStatus(content[i])
                                ELSE IF i \in bad THEN "absent" ELSE status[i]]
    /\ content' = [i \in Ids |-> IF i \in bad THEN None ELSE content[i]]
    /\ \E moved \in SUBSET bad :
         file' = [i \in Ids |-> IF i \in moved THEN None ELSE file[i]]
    /\ Release
    /\ leftover' = {}
    /\ UNCHANGED <<attempts, storeDue, promised>>

----------------------------------------------------------------------------
StoreNext ==
    \/ \E i \in Ids, v \in Contents :
         StoreNew(i, v) \/ StoreExisting(i, v) \/ StoreLeftover(i, v)
    \/ SaveSealed \/ SaveFails \/ Commit \/ CommitFails
    \/ RollbackDelete \/ RollbackFails \/ RollbackUnlink
    \/ \E i \in Ids : MarkRowAttemptFailed(i) \/ MarkRowDelivered(i) \/ RowBackoffElapses(i)
    \/ Restart

StoreSpec == StoreInit /\ [][StoreNext]_storeVars

----------------------------------------------------------------------------
\* Every row a reader may act on has the sealed file it describes, whatever
\* write a crash or an I/O error cut short and whatever an earlier store of the
\* same id left on disk (load_capsule verifies the file against the row).
ReadyIsReadable ==
    \A i \in Ids :
      status[i] \in {"pending", "received", "delivered"} =>
        content[i] # None /\ file[i] = content[i]

\* Once store_capsule has returned a record for a content, that content stays
\* the committed content of its id: no crash, retry, conflicting store or
\* late rollback replaces or deletes it.
KeepsPromises ==
    \A p \in promised :
      /\ content[p[1]] = p[2]
      /\ status[p[1]] \in {ReadyStatus(p[2]), "delivered"}

\* A row is staging only while its store_capsule runs, or after a rollback that
\* failed in this process: a restart settles all of them.
StagingHasOwner ==
    \A i \in Ids : status[i] = "staging" =>
      \/ opId = i /\ pc \in {"inserted", "saved", "rollback"}
      \/ i \in leftover

\* Delivery ends once: a delivered row never becomes due again.
DeliveredIsFinal ==
    [][\A i \in Ids : status[i] = "delivered" =>
         status'[i] = "delivered" /\ i \notin DueOutbound']_storeVars

=============================================================================
