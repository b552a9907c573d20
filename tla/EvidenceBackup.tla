----------------------------- MODULE EvidenceBackup -----------------------------
(***************************************************************************)
(* The operator's backup (scripts/backup-cli.cjs) beside the retention     *)
(* command.  Database and bucket cannot be copied at one moment: the       *)
(* operator stops the application, the tool takes the advisory lock of the *)
(* retention command, looks for other connections, and compares what it    *)
(* saw before and after.  The model does not trust the operator: the       *)
(* application may come back, the retention command may be started and the *)
(* lock's connection may be lost at any moment, noticed or not.            *)
(*                                                                         *)
(* The inventory of the database is read by one psql after the other, so   *)
(* each query is a step; of the tables it counts, the two that matter are  *)
(* modelled: leaving out a comparison can only publish more.               *)
(***************************************************************************)
EXTENDS EvidenceRetention

VARIABLES
  audited,  \* audit_events has grown since the backup counted it first
  backup    \* the backup: its step, what it saw, dumped and copied

backupVars == <<retention, audited, backup>>

NoBackup == [pc |-> "none", again |-> FALSE, files |-> 0, references |-> {},
             objects |-> {}, dump |-> [f \in Files |-> "NONE"], copied |-> {}]

BackupInit ==
  RetentionInit /\ audited = FALSE /\ backup = NoBackup

(* recordAudit is called in the transactions that hold, request and        *)
(* record a deletion; no code removes such a row.                          *)
WritesAudit ==
  \/ PlaceHold \/ LiftHold
  \/ \E w \in Workers : (Request(w) \/ CommitRemoval(w)) /\ row' # row

Counted == backup.pc \notin {"none", "locked", "verified"}

(* A step of the application or of the retention command. *)
Beside(A) ==
  /\ A
  /\ audited' = (audited \/ (Counted /\ WritesAudit))
  /\ UNCHANGED backup

-----------------------------------------------------------------------------
(* The backup *)

BackupAt(pc) == backup.pc = pc
Goes(state) == backup' = state /\ UNCHANGED retention

(* assertQuiescent: no other client of the database at this moment.  The   *)
(* application may have been stopped for it, and start again at once.      *)
Quiescent == \A w \in Workers : worker[w] = Idle

(* acquireRetentionLock does not wait. *)
AcquireRetentionLock ==
  /\ BackupAt("none")
  /\ lock = NoOne
  /\ lock' = Backup
  /\ backup' = [NoBackup EXCEPT !.pc = "locked"]
  /\ UNCHANGED <<attempt, staged, row, job, old, store, sent, worker, audited>>

AssertQuiescent ==
  /\ BackupAt("locked")
  /\ Quiescent
  /\ Goes([backup EXCEPT !.pc = "audit"])
  /\ UNCHANGED audited

(* Mutant: only the tables of the recordings are compared. *)
JournalIgnored == TRUE

JournalUnchanged == ~ audited

(* databaseInventory, before the dump and again after the copies.  A count *)
(* that only grows is the same again iff no row was added.                 *)
CountAuditRows ==
  /\ BackupAt("audit")
  /\ backup.again => JournalUnchanged
  /\ audited' = FALSE
  /\ Goes([backup EXCEPT !.pc = "files"])

FileRows == Cardinality({f \in Files : row[f] # "NONE"})

CountFileRows ==
  /\ BackupAt("files")
  /\ backup.again => FileRows = backup.files
  /\ Goes([backup EXCEPT !.pc = "pending", !.files = FileRows])
  /\ UNCHANGED audited

NoPendingDeletion == \A f \in Files : row[f] # "PENDING"

RefusePending ==
  /\ BackupAt("pending")
  /\ NoPendingDeletion
  /\ Goes([backup EXCEPT !.pc = "references"])
  /\ UNCHANGED audited

References == {f \in Files : row[f] \in {"AVAILABLE", "PENDING"}}

ReadReferences ==
  /\ BackupAt("references")
  /\ backup.again => References = backup.references
  /\ Goes([backup EXCEPT !.pc = "objects", !.references = References])
  /\ UNCHANGED audited

(* storageInventory; assertReferences *)
StorageInventory ==
  /\ BackupAt("objects")
  /\ IF backup.again THEN store = backup.objects ELSE backup.references \subseteq store
  /\ Goes([backup EXCEPT !.pc = IF backup.again THEN "publish" ELSE "dump",
                         !.objects = store])
  /\ UNCHANGED audited

(* pg_dump reads one snapshot. *)
Dump ==
  /\ BackupAt("dump")
  /\ Goes([backup EXCEPT !.pc = "copy", !.dump = row])
  /\ UNCHANGED audited

Download(f) ==
  /\ BackupAt("copy")
  /\ f \in backup.objects \ backup.copied
  /\ f \in store
  /\ Goes([backup EXCEPT !.copied = @ \cup {f}])
  /\ UNCHANGED audited

AssertStillQuiescent ==
  /\ BackupAt("copy")
  /\ backup.copied = backup.objects
  /\ Quiescent
  /\ Goes([backup EXCEPT !.pc = "audit", !.again = TRUE])
  /\ UNCHANGED audited

LockFreed == lock' = IF lock = Backup THEN NoOne ELSE lock

(* lock.assertHeld looks at the local psql, not at the lock: with the lock *)
(* lost it may find psql ended (BackupFails) and it may find it waiting.   *)
(* Then the manifest and its checksum are written, and the lock goes.      *)
Publish ==
  /\ BackupAt("publish")
  /\ LockFreed
  /\ backup' = [backup EXCEPT !.pc = "verified"]
  /\ UNCHANGED <<attempt, staged, row, job, old, store, sent, worker, audited>>

(* Any check fails, assertHeld's among them, or the tool dies: the         *)
(* directory is never published.                                           *)
BackupFails ==
  /\ backup.pc \notin {"none", "verified"}
  /\ LockFreed
  /\ backup' = NoBackup /\ audited' = FALSE
  /\ UNCHANGED <<attempt, staged, row, job, old, store, sent, worker>>

(* The connection that holds the lock is dropped.  psql waits for its next *)
(* input and may not notice: the backup goes on.                           *)
LoseBackupLock ==
  /\ lock = Backup
  /\ lock' = NoOne
  /\ UNCHANGED <<attempt, staged, row, job, old, store, sent, worker, audited, backup>>

Inventory == CountAuditRows \/ CountFileRows \/ RefusePending \/ ReadReferences

BackupSteps ==
  \/ AcquireRetentionLock \/ AssertQuiescent \/ Inventory \/ StorageInventory
  \/ Dump \/ (\E f \in Files : Download(f)) \/ AssertStillQuiescent \/ Publish
  \/ BackupFails

BackupNext ==
  \/ Beside(RetentionNext)
  \/ BackupSteps
  \/ LoseBackupLock

BackupSpec == BackupInit /\ [][BackupNext]_backupVars

(* The command is repeated (docs/DATA_RETENTION.md) and comes to its end,  *)
(* leases run out, the backup tool ends one way or the other, and some day *)
(* the storage and the database stop failing and answer within the lease.  *)
(* A step that finds nothing to do gives up too: that is no fault.         *)
Fault(w) ==
  \/ Fail(w) /\ ~ Succeed(w)
  \/ /\ worker[w].pc \in {"begin", "remove", "commit"}
     /\ HoldsJob(w) /\ LeaseEnds(worker[w].file)

BackupFairness ==
  /\ \A f \in Files : /\ WF_backupVars(Beside(LeaseEnds(f)))
                      /\ SF_backupVars(Beside(\E w \in Workers : Scan(w, f)))
  /\ \A w \in Workers : /\ SF_backupVars(Beside(Succeed(w))) /\ SF_backupVars(Beside(Claim(w)))
                        /\ <>[][~ Fault(w)]_backupVars
  /\ WF_backupVars(BackupSteps)

FairBackupSpec == BackupSpec /\ BackupFairness

-----------------------------------------------------------------------------
(* A backup called verified can be restored to a complete system: its      *)
(* manifest names the recordings its database still offers, every one of   *)
(* them was copied, and none is in the middle of a deletion, whatever was  *)
(* started beside it, and also when the lock was lost unnoticed.           *)
VerifiedBackupIsComplete ==
  backup.pc = "verified" =>
    /\ {f \in Files : backup.dump[f] = "AVAILABLE"} = backup.references
    /\ backup.references \subseteq backup.copied
    /\ \A f \in Files : backup.dump[f] # "PENDING"
=============================================================================
