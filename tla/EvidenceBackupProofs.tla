-------------------------- MODULE EvidenceBackupProofs --------------------------
(***************************************************************************)
(* Proofs about EvidenceRetention and EvidenceBackup, for any number of    *)
(* recordings and of retention commands running at once.                   *)
(*                                                                         *)
(* Two arguments carry them.  A deletion that was started is never taken   *)
(* back, and while there is one the attempt stays decided and unheld: so   *)
(* whatever removes an object, however late, removes what may go.  And no  *)
(* row of a recording changes without a trace in what the backup counts:   *)
(* it is new, or a row of the audit journal was written with the change.   *)
(* So the backup is right when its counts agree; the lock, which may be    *)
(* lost unnoticed, is not what makes it so.                                *)
(***************************************************************************)
EXTENDS EvidenceBackup, FiniteSetTheorems, TLAPS

-----------------------------------------------------------------------------
(* The invariants *)

Started(f) == job[f] # NoJob /\ job[f].started

Final == attempt.state \in {"APPROVED", "UPHELD"} /\ ~ attempt.hold

(* What a deletion leaves behind, at any of its steps. *)
DeletionInv ==
  /\ \A f \in Files : Started(f) => Final
  /\ \A f \in sent : Started(f)
  /\ \A w \in Workers :
       /\ worker[w].pc \in {"begin", "remove", "commit", "late"} => Started(worker[w].file)
       /\ worker[w].pc \in {"commit", "late"} => worker[w].file \notin store

LockInv == \A w \in Workers : worker[w].pc \in {"remove", "commit", "late"} => lock = w

RetentionInv == RetentionTypeOK /\ TombstonesTellTheTruth /\ DeletionInv /\ LockInv

(* The backup takes the lock or gives it up, or loses it. *)
LockMoves ==
  /\ \/ lock = NoOne /\ lock' = Backup
     \/ lock = Backup /\ lock' = NoOne
  /\ UNCHANGED <<attempt, staged, row, job, old, store, sent, worker>>

RowStates == {"NONE", "AVAILABLE", "PENDING", "DELETED"}

BackupTypeOK ==
  /\ audited \in BOOLEAN
  /\ backup \in [pc : {"none", "locked", "audit", "files", "pending", "references", "objects",
                       "dump", "copy", "publish", "verified"},
                 again : BOOLEAN, files : Nat, references : SUBSET Files,
                 objects : SUBSET Files, dump : [Files -> RowStates], copied : SUBSET Files]

(* The dump offers what the manifest names. *)
Faithful ==
  /\ {f \in Files : backup.dump[f] = "AVAILABLE"} = backup.references
  /\ \A f \in Files : backup.dump[f] # "PENDING"

(* The rows were counted, and the journal not yet compared: unless a row   *)
(* or a line of the journal came since, what was seen is still so.         *)
Watching ==
  IF backup.again THEN BackupAt("audit")
                  ELSE backup.pc \in {"pending", "references", "objects", "dump", "copy"}

SeenStillSo ==
  /\ backup.again \/ ~ BackupAt("pending") => NoPendingDeletion
  /\ backup.again \/ backup.pc \in {"objects", "dump", "copy"} =>
       References = backup.references
  /\ backup.again \/ BackupAt("copy") => backup.dump = row

(* Once the journal agreed, the dump is known to be faithful if the count  *)
(* of the rows agrees too, and then for good.                              *)
CountsInv ==
  /\ Watching => /\ backup.files <= FileRows
                 /\ FileRows = backup.files /\ ~ audited => SeenStillSo
  /\ backup.again /\ BackupAt("files") =>
       /\ backup.files <= FileRows
       /\ FileRows = backup.files => Faithful
  /\ backup.again /\ ~ (BackupAt("audit") \/ BackupAt("files")) => Faithful

CopyInv ==
  /\ backup.again \/ backup.pc \in {"dump", "copy"} => backup.references \subseteq backup.objects
  /\ backup.again => backup.copied = backup.objects
  /\ backup.pc \in {"publish", "verified"} => backup.again
  /\ backup.pc \in {"none", "locked", "dump", "copy"} => ~ backup.again

BackupInv == BackupTypeOK /\ CountsInv /\ CopyInv

-----------------------------------------------------------------------------
(* Types *)

(* A job row is never the absence of one, and an idle worker none at work. *)
LEMMA RowsDiffer ==
  /\ \A j \in JobRow : j # NoJob
  /\ \A s \in WorkerState : s # Idle /\ s.pc # "idle"
  BY DEF JobRow, NoJob, WorkerState, Idle

LEMMA RetentionInitTyped == RetentionInit => RetentionTypeOK
<1> SUFFICES ASSUME RetentionInit PROVE RetentionTypeOK
  OBVIOUS
<1>1. attempt \in [state : {"ACTIVE", "PENDING", "APPROVED", "REJECTED", "APPEALED", "UPHELD"},
                  hold : BOOLEAN]
  BY DEF RetentionInit
<1>2. row \in [Files -> {"NONE", "AVAILABLE", "PENDING", "DELETED"}]
  BY DEF RetentionInit
<1>3. job \in [Files -> JobRow \cup {NoJob}] /\ worker \in [Workers -> WorkerState \cup {Idle}]
  BY DEF RetentionInit
<1> QED BY <1>1, <1>2, <1>3 DEF RetentionInit, RetentionTypeOK

(* Whatever is done to a worker at work, it has a file. *)
LEMMA AtWork ==
  ASSUME RetentionTypeOK, NEW w \in Workers, worker[w].pc # "idle"
  PROVE  worker[w] \in WorkerState /\ worker[w].file \in Files
  BY DEF RetentionTypeOK, WorkerState, Idle

LEMMA RetryTyped ==
  ASSUME RetentionTypeOK, NEW w \in Workers, worker[w].pc # "idle", Retry(w)
  PROVE  /\ job' \in [Files -> JobRow \cup {NoJob}]
         /\ \A f \in Files : /\ job'[f] = NoJob <=> job[f] = NoJob
                             /\ Started(f)' <=> Started(f)
<1> DEFINE g == worker[w].file
<1>1. g \in Files
  BY AtWork
<1>2. CASE HoldsJob(w) /\ job[g].state = "RUNNING"
  <2>1. job[g] \in JobRow
    BY <1>1, <1>2 DEF HoldsJob, RetentionTypeOK
  <2>2. job' = [job EXCEPT ![g] = [job[g] EXCEPT !.state = "RETRY"]]
    BY <1>2 DEF Retry
  <2>3. [job[g] EXCEPT !.state = "RETRY"] \in JobRow
        /\ [job[g] EXCEPT !.state = "RETRY"].started = job[g].started
    BY <2>1 DEF JobRow
  <2>4. [job[g] EXCEPT !.state = "RETRY"] # NoJob /\ job[g] # NoJob
    BY <2>1, <2>3, RowsDiffer
  <2> QED BY <1>1, <2>2, <2>3, <2>4 DEF RetentionTypeOK, Started
<1>3. CASE ~ (HoldsJob(w) /\ job[g].state = "RUNNING")
  BY <1>3 DEF Retry, RetentionTypeOK, Started
<1> QED BY <1>2, <1>3

LEMMA RetentionTyped ==
  ASSUME RetentionTypeOK, RetentionNext
  PROVE  RetentionTypeOK'
<1> USE DEF RetentionTypeOK
<1>1. ASSUME NEW w \in Workers, NEW s \in WorkerState \cup {Idle}, Becomes(w, s)
      PROVE  worker' \in [Workers -> WorkerState \cup {Idle}]
  BY <1>1 DEF Becomes
<1>2. \A pc \in {"request", "claim", "begin", "remove", "commit", "late"}, f \in Files :
        [pc |-> pc, file |-> f] \in WorkerState
  BY DEF WorkerState
<1>3. ASSUME NEW w \in Workers, worker[w].pc # "idle"
      PROVE  worker[w] \in WorkerState /\ worker[w].file \in Files
  BY <1>3, AtWork
<1>4. CASE StartUpload
  BY <1>4 DEF StartUpload
<1>5. CASE PlaceHold
  BY <1>5 DEF PlaceHold
<1>6. CASE LiftHold
  BY <1>6 DEF LiftHold
<1>7. ASSUME NEW f \in Files, RegisterEvidence(f)
      PROVE  RetentionTypeOK'
  BY <1>7 DEF RegisterEvidence
<1>8. ASSUME NEW to \in {"PENDING", "APPROVED", "REJECTED", "APPEALED", "UPHELD"}, MoveAttempt(to)
      PROVE  RetentionTypeOK'
  BY <1>8 DEF MoveAttempt
<1>9. CASE ClearStaging
  BY <1>9 DEF ClearStaging
<1>10. ASSUME NEW f \in Files, GrowOld(f) \/ LeaseEnds(f) \/ LateDeletion(f)
       PROVE  RetentionTypeOK'
  <2>1. CASE GrowOld(f)
    BY <2>1 DEF GrowOld
  <2>2. CASE LeaseEnds(f)
    <3>1. job[f] \in JobRow
      BY <2>2 DEF LeaseEnds
    <3>2. [job[f] EXCEPT !.leased = FALSE] \in JobRow
      BY <3>1 DEF JobRow
    <3> QED BY <2>2, <3>2 DEF LeaseEnds
  <2>3. CASE LateDeletion(f)
    BY <2>3 DEF LateDeletion
  <2> QED BY <1>10, <2>1, <2>2, <2>3
<1>11. ASSUME NEW w \in Workers, WorkerNext(w)
       PROVE  RetentionTypeOK'
  <2>1. ASSUME NEW f \in Files, Scan(w, f)
        PROVE  RetentionTypeOK'
    BY <1>1, <1>2, <2>1 DEF Scan
  <2>2. CASE Request(w)
    <3>1. [state |-> "PENDING", started |-> FALSE, token |-> NoOne, leased |-> FALSE] \in JobRow
      BY DEF JobRow
    <3>2. worker[w].file \in Files
      BY <1>3, <2>2 DEF Request, At
    <3> QED BY <1>1, <1>2, <2>2, <3>1, <3>2 DEF Request
  <2>3. CASE Claim(w)
    <3>1. [state |-> "RUNNING", started |-> TRUE, token |-> w, leased |-> TRUE] \in JobRow
      BY DEF JobRow
    <3>2. worker[w].file \in Files
      BY <1>3, <2>3 DEF Claim, At
    <3> QED BY <1>1, <1>2, <2>3, <3>1, <3>2 DEF Claim
  <2>4. CASE BeginRemoval(w)
    <3>1. worker[w].file \in Files
      BY <1>3, <2>4 DEF BeginRemoval, At
    <3> QED BY <1>1, <1>2, <2>4, <3>1 DEF BeginRemoval
  <2>5. CASE RemoveObject(w)
    <3>1. worker[w] \in WorkerState
      BY <1>3, <2>5 DEF RemoveObject, At
    <3>2. [worker[w] EXCEPT !.pc = "commit"] \in WorkerState
      BY <3>1 DEF WorkerState
    <3> QED BY <2>5, <3>2 DEF RemoveObject
  <2>6. CASE CommitRemoval(w)
    <3>1. [state |-> "DONE", started |-> TRUE, token |-> NoOne, leased |-> FALSE] \in JobRow
      BY DEF JobRow
    <3>2. worker[w].file \in Files
      BY <1>3, <2>6 DEF CommitRemoval
    <3> QED BY <1>1, <2>6, <3>1, <3>2 DEF CommitRemoval
  <2>7. CASE FailRemoval(w)
    <3>1. worker[w].file \in Files
      BY <1>3, <2>7 DEF FailRemoval
    <3>2. job' \in [Files -> JobRow \cup {NoJob}]
      BY <2>7, RetryTyped DEF FailRemoval
    <3> QED BY <1>1, <2>7, <3>1, <3>2 DEF FailRemoval
  <2>8. CASE LoseCommit(w)
    <3>1. worker[w] \in WorkerState
      BY <1>3, <2>8 DEF LoseCommit, At
    <3>2. [worker[w] EXCEPT !.pc = "late"] \in WorkerState
      BY <3>1 DEF WorkerState
    <3>3. job' \in [Files -> JobRow \cup {NoJob}]
      BY <2>8, RetryTyped DEF LoseCommit, At
    <3> QED BY <2>8, <3>2, <3>3 DEF LoseCommit
  <2>9. CASE LateCommitFails(w)
    BY <1>1, <2>9 DEF LateCommitFails
  <2>10. CASE StopWorker(w)
    BY <1>1, <2>10 DEF StopWorker
  <2> QED BY <1>11, <2>1, <2>2, <2>3, <2>4, <2>5, <2>6, <2>7, <2>8, <2>9, <2>10
         DEF WorkerNext, Succeed, Fail
<1> QED BY <1>4, <1>5, <1>6, <1>7, <1>8, <1>9, <1>10, <1>11
       DEF RetentionNext, ApiNext, StorageNext

-----------------------------------------------------------------------------
(* Deletions *)

(* A deletion that was started is never taken back. *)
LEMMA StartedStays ==
  ASSUME RetentionTypeOK, RetentionNext, NEW f \in Files, Started(f)
  PROVE  Started(f)'
<1> USE DEF RetentionTypeOK, Started
<1>1. CASE PlaceHold
  BY <1>1 DEF PlaceHold
<1>2. CASE \/ StartUpload \/ LiftHold \/ ClearStaging
           \/ \E g \in Files : RegisterEvidence(g) \/ GrowOld(g) \/ LateDeletion(g)
           \/ \E to \in {"PENDING", "APPROVED", "REJECTED", "APPEALED", "UPHELD"} : MoveAttempt(to)
  BY <1>2 DEF StartUpload, LiftHold, ClearStaging, RegisterEvidence, GrowOld, LateDeletion, MoveAttempt
<1>3. ASSUME NEW g \in Files, LeaseEnds(g)
      PROVE  Started(f)'
  <2>1. CASE f = g
    <3>1. job[f] \in JobRow
      BY <1>3, <2>1 DEF LeaseEnds
    <3>2. job'[f] = [job[f] EXCEPT !.leased = FALSE]
      BY <1>3, <2>1 DEF LeaseEnds
    <3>3. job'[f] \in JobRow /\ job'[f].started
      BY <3>1, <3>2 DEF JobRow
    <3> QED BY <3>3, RowsDiffer
  <2>2. CASE f # g
    BY <1>3, <2>2 DEF LeaseEnds
  <2> QED BY <2>1, <2>2
<1>4. ASSUME NEW w \in Workers, WorkerNext(w)
      PROVE  Started(f)'
  <2>1. CASE \/ \E g \in Files : Scan(w, g)
             \/ BeginRemoval(w) \/ RemoveObject(w) \/ LateCommitFails(w) \/ StopWorker(w)
    BY <2>1 DEF Scan, BeginRemoval, RemoveObject, LateCommitFails, StopWorker
  <2>2. CASE Request(w)
    BY <2>2 DEF Request
  <2>3. CASE Claim(w)
    <3>1. [state |-> "RUNNING", started |-> TRUE, token |-> w, leased |-> TRUE] \in JobRow
      BY DEF JobRow
    <3> QED BY <2>3, <3>1, RowsDiffer DEF Claim
  <2>4. CASE CommitRemoval(w)
    <3>1. [state |-> "DONE", started |-> TRUE, token |-> NoOne, leased |-> FALSE] \in JobRow
      BY DEF JobRow
    <3> QED BY <2>4, <3>1, RowsDiffer DEF CommitRemoval
  <2>5. CASE FailRemoval(w) \/ LoseCommit(w)
    BY <2>5, RetryTyped DEF FailRemoval, LoseCommit, At
  <2> QED BY <1>4, <2>1, <2>2, <2>3, <2>4, <2>5 DEF WorkerNext, Succeed, Fail
<1> QED BY <1>1, <1>2, <1>3, <1>4 DEF RetentionNext, ApiNext, StorageNext

(* A deletion starts only for a decided, unheld attempt, which stays so:   *)
(* no decision is left to be taken and a hold is refused.                  *)
LEMMA FinalStays ==
  ASSUME RetentionTypeOK, DeletionInv, RetentionNext, NEW f \in Files, Started(f)'
  PROVE  Final'
<1> USE DEF RetentionTypeOK
<1>1. CASE Started(f)
  <2>1. Final
    BY <1>1 DEF DeletionInv
  <2>2. CASE PlaceHold
    BY <1>1, <2>2 DEF PlaceHold, Started
  <2>3. CASE \/ StartUpload \/ ClearStaging \/ \E g \in Files : RegisterEvidence(g)
             \/ StorageNext \/ \E w \in Workers : WorkerNext(w)
    <3>1. UNCHANGED attempt
      BY <2>3 DEF StartUpload, ClearStaging, RegisterEvidence, StorageNext, GrowOld, LeaseEnds,
           LateDeletion, WorkerNext, Succeed, Fail, Scan, Request, Claim, BeginRemoval,
           RemoveObject, CommitRemoval, FailRemoval, LoseCommit, LateCommitFails, StopWorker
    <3> QED BY <2>1, <3>1 DEF Final
  <2>4. CASE LiftHold
    BY <2>1, <2>4 DEF LiftHold, Final
  <2>5. ASSUME NEW to \in {"PENDING", "APPROVED", "REJECTED", "APPEALED", "UPHELD"}, MoveAttempt(to)
        PROVE  Final'
    BY <2>1, <2>5 DEF MoveAttempt, Moves, Final
  <2> QED BY <2>2, <2>3, <2>4, <2>5 DEF RetentionNext, ApiNext
<1>2. CASE ~ Started(f)
  <2>1. CASE \E w \in Workers : Claim(w) /\ MayClaim(worker[w].file)
    BY <2>1 DEF Claim, MayClaim, Eligible, Final
  <2>2. CASE PlaceHold
    BY <2>2, <1>2 DEF PlaceHold, Started
  <2>3. CASE \/ StartUpload \/ LiftHold \/ ClearStaging
             \/ \E g \in Files : RegisterEvidence(g) \/ GrowOld(g) \/ LateDeletion(g)
             \/ \E to \in {"PENDING", "APPROVED", "REJECTED", "APPEALED", "UPHELD"} : MoveAttempt(to)
    BY <2>3, <1>2 DEF StartUpload, LiftHold, ClearStaging, RegisterEvidence, GrowOld,
         LateDeletion, MoveAttempt, Started
  <2>4. ASSUME NEW g \in Files, LeaseEnds(g)
        PROVE  FALSE
    <3>1. job[g] \in JobRow /\ job'[g] = [job[g] EXCEPT !.leased = FALSE]
      BY <2>4 DEF LeaseEnds
    <3>2. job'[g].started = job[g].started /\ job[g] # NoJob
      BY <3>1, RowsDiffer DEF JobRow
    <3> QED BY <1>2, <2>4, <3>2 DEF LeaseEnds, Started
  <2>5. ASSUME NEW w \in Workers, WorkerNext(w), ~ (Claim(w) /\ MayClaim(worker[w].file))
        PROVE  FALSE
    <3>1. CASE \/ \E g \in Files : Scan(w, g)
               \/ BeginRemoval(w) \/ RemoveObject(w) \/ LateCommitFails(w) \/ StopWorker(w)
               \/ Claim(w)
      BY <1>2, <2>5, <3>1 DEF Scan, BeginRemoval, RemoveObject, LateCommitFails, StopWorker,
           Claim, Started
    <3>2. CASE Request(w)
      BY <1>2, <3>2 DEF Request, Started
    <3>3. CASE CommitRemoval(w)
      <4>1. worker[w].file # f
        BY <1>2, <3>3 DEF CommitRemoval, DeletionInv
      <4> QED BY <1>2, <3>3, <4>1 DEF CommitRemoval, Started
    <3>4. CASE FailRemoval(w) \/ LoseCommit(w)
      BY <1>2, <3>4, RetryTyped DEF FailRemoval, LoseCommit, At, Started
    <3> QED BY <2>5, <3>1, <3>2, <3>3, <3>4 DEF WorkerNext, Succeed, Fail
  <2> QED BY <2>1, <2>2, <2>3, <2>4, <2>5 DEF RetentionNext, ApiNext, StorageNext
<1> QED BY <1>1, <1>2

(* Objects go only after their deletion was started, and come back never.  *)
LEMMA ObjectsGo ==
  ASSUME RetentionTypeOK, DeletionInv, RetentionNext, NEW f \in store, f \notin store'
  PROVE  Started(f)
<1> USE DEF RetentionTypeOK, DeletionInv
<1>1. CASE LateDeletion(f)
  BY <1>1 DEF LateDeletion
<1>2. ASSUME NEW w \in Workers, RemoveObject(w)
      PROVE  Started(f)
  BY <1>2 DEF RemoveObject, At
<1>3. CASE ~ LateDeletion(f) /\ ~ \E w \in Workers : RemoveObject(w)
  BY <1>3 DEF RetentionNext, ApiNext, StorageNext, WorkerNext, Succeed, Fail, StartUpload,
     PlaceHold, LiftHold, RegisterEvidence, MoveAttempt, ClearStaging, GrowOld, LeaseEnds,
     LateDeletion, Scan, Request, Claim, BeginRemoval, CommitRemoval, FailRemoval,
     LoseCommit, LateCommitFails, StopWorker
<1> QED BY <1>1, <1>2, <1>3

LEMMA ObjectsCome ==
  ASSUME RetentionTypeOK, RetentionNext, NEW f \in store', f \notin store
  PROVE  RegisterEvidence(f)
<1> USE DEF RetentionTypeOK
<1>1. ASSUME NEW g \in Files, RegisterEvidence(g)
      PROVE  f = g
  BY <1>1 DEF RegisterEvidence
<1>2. CASE ~ \E g \in Files : RegisterEvidence(g)
  BY <1>2 DEF RetentionNext, ApiNext, StorageNext, WorkerNext, Succeed, Fail, StartUpload,
     PlaceHold, LiftHold, MoveAttempt, ClearStaging, GrowOld, LeaseEnds,
     LateDeletion, Scan, Request, Claim, BeginRemoval, RemoveObject, CommitRemoval, FailRemoval,
     LoseCommit, LateCommitFails, StopWorker
<1> QED BY <1>1, <1>2

(* What can become of a worker: each step of a deletion has one way in. *)
LEMMA WorkerMoves ==
  ASSUME RetentionTypeOK, RetentionNext, NEW w \in Workers
  PROVE  \/ worker'[w] = worker[w]
         \/ worker'[w].pc \in {"idle", "request", "claim"}
         \/ /\ Claim(w) /\ MayClaim(worker[w].file)
            /\ worker'[w].pc = "begin" /\ worker'[w].file = worker[w].file
         \/ /\ BeginRemoval(w) /\ lock' = w
            /\ worker[w].pc = "begin"
            /\ worker'[w].pc = "remove" /\ worker'[w].file = worker[w].file
         \/ /\ RemoveObject(w)
            /\ worker[w].pc = "remove"
            /\ worker'[w].pc = "commit" /\ worker'[w].file = worker[w].file
         \/ /\ LoseCommit(w)
            /\ worker[w].pc = "commit"
            /\ worker'[w].pc = "late" /\ worker'[w].file = worker[w].file
<1> USE DEF Idle
<1>1. CASE UNCHANGED worker
  BY <1>1
<1>2. ASSUME NEW v \in Workers, WorkerNext(v), v # w
      PROVE  worker'[w] = worker[w]
  BY <1>2 DEF RetentionTypeOK, WorkerNext, Succeed, Fail, Scan, Request, Claim, BeginRemoval,
     RemoveObject, CommitRemoval, FailRemoval, LoseCommit, LateCommitFails, StopWorker, Becomes
<1>3. CASE (\E f \in Files : Scan(w, f)) \/ Request(w)
  BY <1>3 DEF RetentionTypeOK, Scan, Request, Becomes
<1>4. CASE Claim(w)
  BY <1>4 DEF RetentionTypeOK, Claim, Becomes
<1>5. CASE BeginRemoval(w)
  BY <1>5 DEF RetentionTypeOK, BeginRemoval, Becomes, At
<1>6. CASE RemoveObject(w)
  <2>1. worker[w] \in WorkerState /\ worker[w].pc = "remove"
    BY <1>6, AtWork DEF RemoveObject, At
  <2>2. worker'[w] = [worker[w] EXCEPT !.pc = "commit"]
    BY <1>6 DEF RetentionTypeOK, RemoveObject
  <2>3. worker'[w].pc = "commit" /\ worker'[w].file = worker[w].file
    BY <2>1, <2>2 DEF WorkerState
  <2> QED BY <1>6, <2>1, <2>3
<1>7. CASE LoseCommit(w)
  <2>1. worker[w] \in WorkerState /\ worker[w].pc = "commit"
    BY <1>7, AtWork DEF LoseCommit, At
  <2>2. worker'[w] = [worker[w] EXCEPT !.pc = "late"]
    BY <1>7 DEF RetentionTypeOK, LoseCommit
  <2>3. worker'[w].pc = "late" /\ worker'[w].file = worker[w].file
    BY <2>1, <2>2 DEF WorkerState
  <2> QED BY <1>7, <2>1, <2>3
<1>8. CASE CommitRemoval(w) \/ FailRemoval(w) \/ LateCommitFails(w) \/ StopWorker(w)
  BY <1>8 DEF RetentionTypeOK, CommitRemoval, FailRemoval, LateCommitFails, StopWorker, Becomes
<1>9. UNCHANGED worker \/ \E v \in Workers : WorkerNext(v)
  BY DEF RetentionNext, ApiNext, StorageNext, StartUpload, PlaceHold, LiftHold, RegisterEvidence,
     MoveAttempt, ClearStaging, GrowOld, LeaseEnds, LateDeletion
<1> QED BY <1>1, <1>2, <1>3, <1>4, <1>5, <1>6, <1>7, <1>8, <1>9 DEF WorkerNext, Succeed, Fail

LEMMA DeletionStep ==
  ASSUME RetentionTypeOK, TombstonesTellTheTruth, DeletionInv, RetentionNext
  PROVE  DeletionInv'
<1>0. RetentionTypeOK'
  BY RetentionTyped
<1>1. \A f \in Files : Started(f)' => Final'
  BY FinalStays
<1>2. \A f \in Files : Started(f) => Started(f)'
  BY StartedStays
<1>3. ASSUME NEW f \in sent'
      PROVE  Started(f)'
  <2>1. CASE f \in sent
    BY <1>2, <2>1 DEF DeletionInv, RetentionTypeOK
  <2>2. CASE f \notin sent
    <3>1. PICK w \in Workers : FailRemoval(w) /\ At(w, "remove") /\ f = worker[w].file
      BY <2>2 DEF RetentionNext, ApiNext, StorageNext, WorkerNext, Succeed, Fail, StartUpload,
         PlaceHold, LiftHold, RegisterEvidence, MoveAttempt, ClearStaging, GrowOld, LeaseEnds,
         LateDeletion, Scan, Request, Claim, BeginRemoval, RemoveObject, CommitRemoval, FailRemoval,
         LoseCommit, LateCommitFails, StopWorker
    <3>2. f \in Files
      BY <1>0 DEF RetentionTypeOK
    <3> QED BY <1>2, <3>1, <3>2 DEF At, DeletionInv
  <2> QED BY <2>1, <2>2
<1>4. ASSUME NEW w \in Workers, worker'[w].pc \in {"begin", "remove", "commit", "late"},
             NEW f, f = worker'[w].file
      PROVE  f \in Files /\ Started(f)'
  <2>1. f \in Files
    <3>1. worker'[w] \in WorkerState
      BY <1>0, <1>4 DEF RetentionTypeOK, Idle
    <3> QED BY <1>4, <3>1 DEF WorkerState
  <2>2. CASE Claim(w) /\ MayClaim(worker[w].file) /\ f = worker[w].file
    <3>1. job' = [job EXCEPT ![f] = [state |-> "RUNNING", started |-> TRUE,
                                     token |-> w, leased |-> TRUE]]
      BY <2>2 DEF Claim
    <3>2. [state |-> "RUNNING", started |-> TRUE, token |-> w, leased |-> TRUE] \in JobRow
      BY DEF JobRow
    <3>3. job'[f] = [state |-> "RUNNING", started |-> TRUE, token |-> w, leased |-> TRUE]
      BY <2>1, <3>1 DEF RetentionTypeOK
    <3>4. job'[f].started
      BY <3>3
    <3>5. job'[f] # NoJob
      BY <3>2, <3>3, RowsDiffer
    <3> QED BY <2>1, <3>4, <3>5 DEF Started
  <2>3. CASE worker[w].pc \in {"begin", "remove", "commit", "late"} /\ f = worker[w].file
    BY <1>2, <2>1, <2>3 DEF DeletionInv
  <2> QED BY <1>4, <2>1, <2>2, <2>3, WorkerMoves
<1>5. ASSUME NEW w \in Workers, worker'[w].pc \in {"commit", "late"}
      PROVE  worker'[w].file \notin store'
  <2>1. CASE RemoveObject(w) /\ worker'[w].file = worker[w].file
    BY <2>1 DEF RemoveObject
  <2>2. CASE worker[w].pc \in {"commit", "late"} /\ worker'[w].file = worker[w].file
    <3>1. worker[w].file \notin store /\ Started(worker[w].file) /\ worker[w].file \in Files
      BY <2>2, AtWork DEF DeletionInv
    <3>2. row[worker[w].file] # "NONE"
      BY <3>1 DEF TombstonesTellTheTruth, Started
    <3> QED BY <2>2, <3>1, <3>2, ObjectsCome DEF RegisterEvidence
  <2> QED BY <1>5, <2>1, <2>2, WorkerMoves
<1>6. \A w \in Workers :
        /\ worker'[w].pc \in {"begin", "remove", "commit", "late"} => Started(worker[w].file)'
        /\ worker'[w].pc \in {"commit", "late"} => worker'[w].file \notin store'
  BY <1>4, <1>5
<1> QED BY <1>1, <1>3, <1>6 DEF DeletionInv

(* A tombstone and its job come and go together. *)
LEMMA JobsAndTombstones ==
  ASSUME RetentionTypeOK, TombstonesTellTheTruth, DeletionInv, RetentionNext, NEW f \in Files
  PROVE  row'[f] \in {"PENDING", "DELETED"} <=> job'[f] # NoJob
<1> USE DEF RetentionTypeOK
<1>1. row[f] \in {"PENDING", "DELETED"} <=> job[f] # NoJob
  BY DEF TombstonesTellTheTruth
<1>2. CASE PlaceHold
  <2>1. row[f] # "DELETED"
    BY <1>2 DEF PlaceHold, TombstonesTellTheTruth
  <2> QED BY <1>2, <2>1 DEF PlaceHold
<1>3. ASSUME NEW g \in Files, RegisterEvidence(g)
      PROVE  row'[f] \in {"PENDING", "DELETED"} <=> job'[f] # NoJob
  BY <1>1, <1>3 DEF RegisterEvidence
<1>4. ASSUME NEW g \in Files, LeaseEnds(g)
      PROVE  row'[f] \in {"PENDING", "DELETED"} <=> job'[f] # NoJob
  <2>1. job[g] \in JobRow
    BY <1>4 DEF LeaseEnds
  <2>2. [job[g] EXCEPT !.leased = FALSE] \in JobRow
    BY <2>1 DEF JobRow
  <2>3. job[g] # NoJob /\ [job[g] EXCEPT !.leased = FALSE] # NoJob
    BY <2>1, <2>2, RowsDiffer
  <2>4. job'[f] = IF f = g THEN [job[g] EXCEPT !.leased = FALSE] ELSE job[f]
    BY <1>4 DEF LeaseEnds
  <2> QED BY <1>1, <1>4, <2>3, <2>4 DEF LeaseEnds
<1>5. ASSUME NEW w \in Workers, WorkerNext(w)
      PROVE  row'[f] \in {"PENDING", "DELETED"} <=> job'[f] # NoJob
  <2>1. CASE Request(w)
    <3>1. [state |-> "PENDING", started |-> FALSE, token |-> NoOne, leased |-> FALSE] \in JobRow
      BY DEF JobRow
    <3> QED BY <1>1, <2>1, <3>1, RowsDiffer DEF Request
  <2>2. CASE Claim(w)
    <3>1. [state |-> "RUNNING", started |-> TRUE, token |-> w, leased |-> TRUE] \in JobRow
      BY DEF JobRow
    <3> QED BY <1>1, <2>2, <3>1, RowsDiffer DEF Claim, MayClaim
  <2>3. CASE CommitRemoval(w)
    <3>1. [state |-> "DONE", started |-> TRUE, token |-> NoOne, leased |-> FALSE] \in JobRow
      BY DEF JobRow
    <3> QED BY <1>1, <2>3, <3>1, RowsDiffer DEF CommitRemoval
  <2>4. CASE FailRemoval(w) \/ LoseCommit(w)
    BY <1>1, <2>4, RetryTyped DEF FailRemoval, LoseCommit, At
  <2>5. CASE \/ \E g \in Files : Scan(w, g)
             \/ BeginRemoval(w) \/ RemoveObject(w) \/ LateCommitFails(w) \/ StopWorker(w)
    BY <1>1, <2>5 DEF Scan, BeginRemoval, RemoveObject, LateCommitFails, StopWorker
  <2> QED BY <1>5, <2>1, <2>2, <2>3, <2>4, <2>5 DEF WorkerNext, Succeed, Fail
<1>6. CASE \/ StartUpload \/ LiftHold \/ ClearStaging
           \/ \E g \in Files : GrowOld(g) \/ LateDeletion(g)
           \/ \E to \in {"PENDING", "APPROVED", "REJECTED", "APPEALED", "UPHELD"} : MoveAttempt(to)
  BY <1>1, <1>6 DEF StartUpload, LiftHold, ClearStaging, GrowOld, LateDeletion, MoveAttempt
<1> QED BY <1>2, <1>3, <1>4, <1>5, <1>6 DEF RetentionNext, ApiNext, StorageNext

(* What changes in a row: it is created with its object, asked to be       *)
(* deleted, released by a hold, or its object is known to be gone.         *)
LEMMA RowMoves ==
  ASSUME RetentionTypeOK, RetentionNext, NEW f \in Files, row'[f] # row[f]
  PROVE  \/ RegisterEvidence(f) /\ row'[f] = "AVAILABLE"
         \/ /\ \E w \in Workers : Request(w) /\ lock = NoOne
            /\ row[f] \in {"AVAILABLE", "PENDING"} /\ row'[f] = "PENDING"
         \/ PlaceHold /\ row[f] = "PENDING" /\ row'[f] = "AVAILABLE"
         \/ /\ \E w \in Workers : /\ CommitRemoval(w) /\ f = worker[w].file
                                   /\ worker[w].pc \in {"commit", "late"}
            /\ row'[f] = "DELETED"
<1> USE DEF RetentionTypeOK
<1>1. ASSUME NEW g \in Files, RegisterEvidence(g)
      PROVE  RegisterEvidence(f) /\ row'[f] = "AVAILABLE"
  BY <1>1 DEF RegisterEvidence
<1>2. CASE PlaceHold
  BY <1>2 DEF PlaceHold
<1>3. ASSUME NEW w \in Workers, Request(w)
      PROVE  /\ lock = NoOne
             /\ row[f] \in {"AVAILABLE", "PENDING"} /\ row'[f] = "PENDING"
  BY <1>3 DEF Request, Eligible
<1>4. ASSUME NEW w \in Workers, CommitRemoval(w)
      PROVE  /\ f = worker[w].file
             /\ worker[w].pc \in {"commit", "late"}
             /\ row'[f] = "DELETED"
  BY <1>4 DEF CommitRemoval
<1>5. CASE UNCHANGED row
  BY <1>5
<1> QED BY <1>1, <1>2, <1>3, <1>4, <1>5 DEF RetentionNext, ApiNext, StorageNext, WorkerNext,
       Succeed, Fail, StartUpload, LiftHold, MoveAttempt, ClearStaging, GrowOld, LeaseEnds,
       LateDeletion, Scan, Claim, BeginRemoval, RemoveObject, FailRemoval, LoseCommit,
       LateCommitFails, StopWorker

LEMMA TombstoneStep ==
  ASSUME RetentionTypeOK, TombstonesTellTheTruth, DeletionInv, RetentionNext
  PROVE  TombstonesTellTheTruth'
<1>1. ASSUME NEW f \in Files, row'[f] # "NONE", f \notin store'
      PROVE  Started(f)'
  <2>1. CASE f \in store
    BY <2>1, <1>1, ObjectsGo, StartedStays
  <2>2. CASE f \notin store /\ row[f] # "NONE"
    <3>1. Started(f)
      BY <2>2 DEF TombstonesTellTheTruth, Started
    <3> QED BY <3>1, StartedStays
  <2>3. CASE f \notin store /\ row[f] = "NONE"
    <3>1. CASE RegisterEvidence(f)
      BY <1>1, <3>1 DEF RegisterEvidence
    <3>2. ASSUME NEW w \in Workers, f = worker[w].file, worker[w].pc \in {"commit", "late"}
          PROVE  FALSE
      <4>1. Started(f)
        BY <3>2 DEF DeletionInv
      <4> QED BY <2>3, <4>1 DEF TombstonesTellTheTruth, Started
    <3> QED BY <1>1, <2>3, <3>1, <3>2, RowMoves
  <2> QED BY <2>1, <2>2, <2>3
<1>2. ASSUME NEW f \in Files, row'[f] = "DELETED"
      PROVE  f \notin store'
  <2>1. CASE row[f] = "DELETED"
    <3>1. f \notin store
      BY <2>1 DEF TombstonesTellTheTruth
    <3> QED BY <2>1, <3>1, ObjectsCome DEF RegisterEvidence
  <2>2. CASE row[f] # "DELETED"
    <3>1. PICK w \in Workers : /\ CommitRemoval(w) /\ f = worker[w].file
                               /\ worker[w].pc \in {"commit", "late"}
      BY <1>2, <2>2, RowMoves
    <3>2. f \notin store
      BY <3>1 DEF DeletionInv
    <3> QED BY <3>1, <3>2 DEF CommitRemoval
  <2> QED BY <2>1, <2>2
<1> QED BY <1>1, <1>2, JobsAndTombstones DEF TombstonesTellTheTruth, Started

-----------------------------------------------------------------------------
(* The lock *)

(* Only the worker that deletes holds the lock, and only it lets it go. *)
LEMMA LockKept ==
  ASSUME RetentionTypeOK, LockInv, RetentionNext
  PROVE  /\ LockInv'
         /\ lock' = Backup <=> lock = Backup
<1> USE DEF RetentionTypeOK, LockInv
<1>1. ASSUME NEW w \in Workers, worker[w].pc \in {"remove", "commit", "late"}
      PROVE  lock = w
  BY <1>1
<1>2. \/ UNCHANGED lock
      \/ \E w \in Workers : lock = NoOne /\ lock' = w
      \/ \E w \in Workers : lock = w /\ lock' = NoOne /\ worker'[w] = Idle
  BY DEF RetentionNext, ApiNext, StorageNext, WorkerNext, Succeed, Fail, StartUpload,
     PlaceHold, LiftHold, RegisterEvidence, MoveAttempt, ClearStaging, GrowOld, LeaseEnds,
     LateDeletion, Scan, Request, Claim, BeginRemoval, RemoveObject, CommitRemoval, FailRemoval,
     LoseCommit, LateCommitFails, StopWorker, Becomes, At
<1>3. ASSUME NEW w \in Workers, worker'[w].pc \in {"remove", "commit", "late"}
      PROVE  lock' = w
  <2>1. CASE BeginRemoval(w) /\ lock' = w
    BY <2>1
  <2>2. CASE worker[w].pc \in {"remove", "commit", "late"}
    <3>1. lock = w
      BY <2>2
    <3> QED BY <1>2, <1>3, <3>1, HolderAssumption DEF Idle
  <2> QED BY <1>3, <2>1, <2>2, WorkerMoves
<1>4. LockInv'
  BY <1>3
<1>5. lock' = Backup <=> lock = Backup
  BY <1>2, HolderAssumption
<1> QED BY <1>4, <1>5

-----------------------------------------------------------------------------
(* The retention command by itself, and beside the backup *)

LEMMA RetentionStarts == RetentionInit => RetentionInv
<1> SUFFICES ASSUME RetentionInit PROVE RetentionInv
  OBVIOUS
<1>1. TombstonesTellTheTruth
  BY DEF RetentionInit, TombstonesTellTheTruth
<1>2. DeletionInv /\ LockInv
  BY DEF RetentionInit, DeletionInv, LockInv, Started, Idle
<1> QED BY <1>1, <1>2, RetentionInitTyped DEF RetentionInv

LEMMA RetentionGoesOn ==
  ASSUME RetentionInv, RetentionNext \/ LockMoves \/ UNCHANGED retention
  PROVE  RetentionInv'
<1>1. CASE RetentionNext
  BY <1>1, RetentionTyped, TombstoneStep, DeletionStep, LockKept DEF RetentionInv
<1>2. CASE LockMoves
  <2>1. RetentionTypeOK'
    BY <1>2 DEF LockMoves, RetentionInv, RetentionTypeOK
  <2>2. TombstonesTellTheTruth' /\ DeletionInv'
    BY <1>2 DEF LockMoves, RetentionInv, TombstonesTellTheTruth, DeletionInv, Started, Final
  <2>3. LockInv'
    BY <1>2, HolderAssumption DEF LockMoves, RetentionInv, LockInv
  <2> QED BY <2>1, <2>2, <2>3 DEF RetentionInv
<1>3. CASE UNCHANGED retention
  BY <1>3 DEF retention, RetentionInv, RetentionTypeOK, TombstonesTellTheTruth, DeletionInv,
     LockInv, Started, Final
<1> QED BY <1>1, <1>2, <1>3

(* For the rows, the backup is somebody who takes the lock. *)
LEMMA BackupStep ==
  ASSUME [BackupNext]_backupVars
  PROVE  RetentionNext \/ LockMoves \/ UNCHANGED retention
<1>1. CASE UNCHANGED backupVars
  BY <1>1 DEF backupVars
<1>2. CASE Beside(RetentionNext)
  BY <1>2 DEF Beside
<1>3. CASE AcquireRetentionLock \/ Publish \/ BackupFails \/ LoseBackupLock
  BY <1>3 DEF AcquireRetentionLock, Publish, BackupFails, LoseBackupLock, LockFreed, LockMoves,
     retention
<1>4. CASE AssertQuiescent \/ Inventory \/ StorageInventory \/ Dump
           \/ (\E f \in Files : Download(f)) \/ AssertStillQuiescent
  BY <1>4 DEF AssertQuiescent, Inventory, CountAuditRows, CountFileRows, RefusePending,
     ReadReferences, StorageInventory, Dump, Download, AssertStillQuiescent, Goes
<1> QED BY <1>1, <1>2, <1>3, <1>4 DEF BackupNext, BackupSteps

LEMMA RetentionInvariant == BackupSpec => []RetentionInv
<1>1. BackupInit => RetentionInv
  BY RetentionStarts DEF BackupInit
<1>2. RetentionInv /\ [BackupNext]_backupVars => RetentionInv'
  BY BackupStep, RetentionGoesOn
<1> QED BY <1>1, <1>2, PTL DEF BackupSpec

(* Rows, jobs, workers and lock are well typed at any time. *)
THEOREM RetentionTypes == BackupSpec => []RetentionTypeOK
<1>1. RetentionInv => RetentionTypeOK
  BY DEF RetentionInv
<1> QED BY <1>1, RetentionInvariant, PTL

(* However many commands run, fail and are repeated beside the backup: a   *)
(* missing recording has a tombstone and a started job, and what is called *)
(* deleted is gone.                                                        *)
THEOREM TombstonesHold == BackupSpec => []TombstonesTellTheTruth
<1>1. RetentionInv => TombstonesTellTheTruth
  BY DEF RetentionInv
<1> QED BY <1>1, RetentionInvariant, PTL

(* No recording disappears while its attempt is held or not decided for    *)
(* good, not even by a deletion sent long ago.                             *)
THEOREM EvidenceKept == BackupSpec => ProtectedEvidenceKept
<1>1. ASSUME RetentionInv, [BackupNext]_backupVars
      PROVE  [(attempt.hold \/ attempt.state \notin {"APPROVED", "UPHELD"}) =>
                store \subseteq store']_retention
  <2>1. CASE UNCHANGED retention
    BY <2>1
  <2>2. CASE LockMoves
    BY <2>2 DEF LockMoves
  <2>3. CASE RetentionNext
    <3> SUFFICES ASSUME NEW f \in store, f \notin store' PROVE Final
      BY DEF Final
    <3>1. f \in Files
      BY <1>1 DEF RetentionInv, RetentionTypeOK
    <3>2. Started(f)
      BY <1>1, <2>3, ObjectsGo DEF RetentionInv
    <3> QED BY <1>1, <3>1, <3>2 DEF RetentionInv, DeletionInv
  <2> QED BY <1>1, <2>1, <2>2, <2>3, BackupStep
<1> QED BY <1>1, RetentionInvariant, PTL DEF BackupSpec, ProtectedEvidenceKept

-----------------------------------------------------------------------------
(* The backup *)

LEMMA RowsCounted == RetentionTypeOK => FileRows \in Nat
<1>1. {f \in Files : row[f] # "NONE"} \in SUBSET Files
  OBVIOUS
<1> QED BY <1>1, FilesAssumption, FS_Subset, FS_CardinalityType DEF FileRows

LEMMA RowsCountedNext == RetentionTypeOK' => FileRows' \in Nat
<1>1. {f \in Files : row'[f] # "NONE"} \in SUBSET Files
  OBVIOUS
<1> QED BY <1>1, FilesAssumption, FS_Subset, FS_CardinalityType DEF FileRows

(* Rows never go; and beside the backup no row of a recording changes      *)
(* without a new row, of a recording or in the journal.                    *)
LEMMA RowsWatched ==
  ASSUME RetentionInv, BackupTypeOK, Counted, Beside(RetentionNext)
  PROVE  /\ FileRows <= FileRows'
         /\ FileRows' = FileRows /\ ~ audited' => row' = row /\ ~ audited
<1> USE DEF RetentionInv
<1> DEFINE Known == {f \in Files : row[f] # "NONE"}
           KnownNext == {f \in Files : row'[f] # "NONE"}
<1>0. RetentionNext /\ RetentionTypeOK /\ RetentionTypeOK'
  BY RetentionTyped DEF Beside
<1>1. ASSUME NEW f \in Files, row[f] # "NONE" PROVE row'[f] # "NONE"
  BY <1>0, <1>1, RowMoves
<1>2. Known \in SUBSET KnownNext /\ KnownNext \in SUBSET Files
  BY <1>1
<1>3. /\ Cardinality(Known) <= Cardinality(KnownNext)
      /\ Cardinality(Known) = Cardinality(KnownNext) => Known = KnownNext
  <2> HIDE DEF Known, KnownNext
  <2>1. IsFiniteSet(KnownNext)
    BY <1>2, FilesAssumption, FS_Subset
  <2> QED BY <1>2, <2>1, FS_Subset
<1>4. FileRows = Cardinality(Known) /\ FileRows' = Cardinality(KnownNext)
  BY DEF FileRows
<1>5. ASSUME Known = KnownNext, ~ audited' PROVE row' = row /\ ~ audited
  <2>1. ~ audited /\ ~ WritesAudit
    BY <1>5 DEF Beside, BackupTypeOK
  <2>2. ASSUME NEW f \in Files, row'[f] # row[f] PROVE FALSE
    <3>1. ~ RegisterEvidence(f)
      <4>1. ASSUME RegisterEvidence(f) PROVE f \notin Known /\ f \in KnownNext
        BY <1>0, <4>1 DEF RegisterEvidence, RetentionTypeOK
      <4> QED BY <4>1, <1>5
    <3> QED BY <1>0, <2>1, <2>2, <3>1, RowMoves DEF WritesAudit
  <2> QED BY <1>0, <2>1, <2>2 DEF RetentionTypeOK
<1> QED BY <1>3, <1>4, <1>5

(* The application and the retention command leave the backup right.       *)
LEMMA BackupWaits ==
  ASSUME RetentionInv, BackupInv, Beside(RetentionNext)
  PROVE  BackupInv'
<1> USE DEF BackupInv
<1>1. UNCHANGED backup /\ audited' \in BOOLEAN
  BY DEF Beside
<1>2. BackupTypeOK' /\ CopyInv'
  BY <1>1 DEF BackupTypeOK, CopyInv
<1>3. RetentionTypeOK /\ RetentionTypeOK'
  BY RetentionTyped DEF RetentionInv, Beside
<1>4. FileRows \in Nat /\ FileRows' \in Nat
  BY <1>3, RowsCounted, RowsCountedNext
<1>5. CASE Counted
  <2>1. /\ FileRows <= FileRows'
        /\ FileRows' = FileRows /\ ~ audited' => row' = row /\ ~ audited
    BY <1>5, RowsWatched
  <2>2. ASSUME Watching
        PROVE  /\ backup.files <= FileRows'
               /\ FileRows' = backup.files /\ ~ audited' => SeenStillSo'
    <3>1. backup.files <= FileRows /\ backup.files \in Nat
      BY <2>2 DEF CountsInv, BackupTypeOK
    <3>2. ASSUME FileRows' = backup.files, ~ audited' PROVE SeenStillSo'
      <4>1. row' = row /\ SeenStillSo
        BY <1>4, <2>1, <2>2, <3>1, <3>2 DEF CountsInv
      <4> QED BY <1>1, <4>1 DEF SeenStillSo, NoPendingDeletion, References, BackupAt
    <3> QED BY <1>4, <2>1, <3>1, <3>2
  <2>3. ASSUME backup.again, BackupAt("files")
        PROVE  backup.files <= FileRows' /\ (FileRows' = backup.files => Faithful)
    <3>1. backup.files <= FileRows /\ backup.files \in Nat /\ (FileRows = backup.files => Faithful)
      BY <2>3 DEF CountsInv, BackupTypeOK
    <3> QED BY <1>4, <2>1, <3>1
  <2> QED BY <1>1, <1>2, <2>2, <2>3 DEF CountsInv, Watching, Faithful, BackupAt
<1>6. CASE ~ Counted
  BY <1>1, <1>2, <1>6 DEF Counted, CountsInv, Watching, Faithful, BackupAt
<1> QED BY <1>5, <1>6

(* Every step of the backup leaves it right: it reads what is, or goes on  *)
(* only if what it saw is still so.                                        *)
LEMMA BackupGoesOn ==
  ASSUME RetentionInv, BackupInv, [BackupNext]_backupVars
  PROVE  BackupInv'
<1> USE DEF BackupInv
<1>0. RetentionTypeOK /\ FileRows \in Nat /\ row \in [Files -> RowStates]
  BY RowsCounted DEF RetentionInv, RetentionTypeOK, RowStates
<1>1. CASE UNCHANGED backupVars
  BY <1>1 DEF backupVars, retention, BackupTypeOK, CountsInv, CopyInv, Watching, SeenStillSo,
     Faithful, FileRows, NoPendingDeletion, References, BackupAt
<1>2. CASE Beside(RetentionNext)
  BY <1>2, BackupWaits
<1>3. CASE LoseBackupLock
  BY <1>3 DEF LoseBackupLock, BackupTypeOK, CountsInv, CopyInv, Watching, SeenStillSo,
     Faithful, FileRows, NoPendingDeletion, References, BackupAt
<1>4. CASE AcquireRetentionLock
  <2>1. NoBackup \in [pc : {"none"}, again : {FALSE}, files : Nat, references : SUBSET Files,
                      objects : SUBSET Files, dump : [Files -> RowStates], copied : SUBSET Files]
    BY DEF NoBackup, RowStates
  <2> QED BY <1>4, <2>1 DEF AcquireRetentionLock, BackupTypeOK, CountsInv, CopyInv, Watching,
         Faithful, BackupAt
<1>5. CASE BackupFails
  <2>1. NoBackup \in [pc : {"none"}, again : {FALSE}, files : Nat, references : SUBSET Files,
                      objects : SUBSET Files, dump : [Files -> RowStates], copied : SUBSET Files]
    BY DEF NoBackup, RowStates
  <2> QED BY <1>5, <2>1 DEF BackupFails, BackupTypeOK, CountsInv, CopyInv, Watching,
         Faithful, BackupAt
<1>6. CASE AssertQuiescent
  BY <1>6 DEF AssertQuiescent, Goes, BackupTypeOK, CountsInv, CopyInv, Watching, Faithful, BackupAt
<1>7. CASE CountAuditRows
  <2>1. /\ UNCHANGED row /\ FileRows' = FileRows /\ audited' = FALSE
        /\ backup.pc = "audit" /\ (backup.again => ~ audited)
        /\ backup' = [backup EXCEPT !.pc = "files"]
    BY <1>7 DEF CountAuditRows, JournalUnchanged, Goes, retention, FileRows, BackupAt
  <2>2. BackupTypeOK' /\ CopyInv'
    BY <2>1 DEF BackupTypeOK, CopyInv
  <2>3. ASSUME backup.again
        PROVE  /\ backup.files <= FileRows
               /\ FileRows = backup.files => Faithful
    BY <2>1, <2>3 DEF CountsInv, Watching, SeenStillSo, Faithful, NoPendingDeletion,
       References, BackupAt
  <2>4. CountsInv'
    BY <2>1, <2>3 DEF BackupTypeOK, CountsInv, Watching, Faithful, BackupAt
  <2> QED BY <2>2, <2>4
<1>8. CASE CountFileRows
  <2>1. /\ FileRows' = FileRows
        /\ backup.pc = "files" /\ (backup.again => FileRows = backup.files)
        /\ backup' = [backup EXCEPT !.pc = "pending", !.files = FileRows]
    BY <1>8 DEF CountFileRows, Goes, retention, FileRows, BackupAt
  <2>2. backup.again => Faithful
    BY <2>1 DEF CountsInv, BackupAt
  <2>3. BackupTypeOK'
    BY <1>0, <1>8, <2>1 DEF BackupTypeOK, CountFileRows
  <2>4. CountsInv'
    BY <1>0, <2>1, <2>2 DEF BackupTypeOK, CountsInv, Watching, SeenStillSo, Faithful, BackupAt
  <2>5. CopyInv'
    BY <2>1 DEF BackupTypeOK, CopyInv
  <2> QED BY <2>3, <2>4, <2>5
<1>9. CASE RefusePending
  <2>1. /\ UNCHANGED <<row, audited>> /\ FileRows' = FileRows
        /\ backup.pc = "pending" /\ NoPendingDeletion
        /\ backup' = [backup EXCEPT !.pc = "references"]
    BY <1>0, <1>9 DEF RefusePending, Goes, retention, FileRows, BackupAt
  <2>2. BackupTypeOK' /\ CopyInv'
    BY <1>0, <2>1 DEF BackupTypeOK, CopyInv
  <2>3. CountsInv'
    BY <2>1 DEF BackupTypeOK, CountsInv, Watching, SeenStillSo, Faithful, NoPendingDeletion,
       References, BackupAt
  <2> QED BY <2>2, <2>3
<1>10. CASE ReadReferences
  <2>1. /\ UNCHANGED <<row, audited>> /\ FileRows' = FileRows
        /\ backup.pc = "references" /\ (backup.again => References = backup.references)
        /\ backup' = [backup EXCEPT !.pc = "objects", !.references = References]
    BY <1>0, <1>10 DEF ReadReferences, Goes, retention, FileRows, BackupAt
  <2>2. BackupTypeOK' /\ CopyInv'
    BY <1>0, <2>1 DEF BackupTypeOK, CopyInv, References
  <2>3. CountsInv'
    BY <2>1 DEF BackupTypeOK, CountsInv, Watching, SeenStillSo, Faithful, NoPendingDeletion,
       References, BackupAt
  <2> QED BY <2>2, <2>3
<1>11. CASE StorageInventory
  <2> DEFINE next == IF backup.again THEN "publish" ELSE "dump"
  <2>1. /\ UNCHANGED <<row, audited>> /\ FileRows' = FileRows
        /\ backup.pc = "objects" /\ store \subseteq Files
        /\ IF backup.again THEN store = backup.objects ELSE backup.references \subseteq store
        /\ backup' = [backup EXCEPT !.pc = next, !.objects = store]
    BY <1>0, <1>11 DEF StorageInventory, Goes, retention, FileRows, BackupAt, RetentionTypeOK
  <2>2. BackupTypeOK' /\ CopyInv'
    BY <2>1 DEF BackupTypeOK, CopyInv
  <2>3. CASE backup.again
    <3>1. Faithful /\ backup'.again /\ backup'.pc = "publish"
      BY <2>1, <2>3 DEF BackupTypeOK, CountsInv, BackupAt
    <3>2. Faithful'
      BY <2>1, <3>1 DEF BackupTypeOK, Faithful
    <3> QED BY <2>2, <3>1, <3>2 DEF CountsInv, Watching, BackupAt
  <2>4. CASE ~ backup.again
    <3>1. Watching /\ ~ backup'.again /\ backup'.pc = "dump" /\ backup'.files = backup.files
          /\ backup'.references = backup.references
      BY <2>1, <2>4 DEF BackupTypeOK, Watching
    <3>2. SeenStillSo => SeenStillSo'
      BY <2>1, <2>4, <3>1 DEF SeenStillSo, NoPendingDeletion, References, BackupAt
    <3> QED BY <2>1, <2>2, <3>1, <3>2 DEF CountsInv, BackupAt
  <2> QED BY <2>2, <2>3, <2>4
<1>12. CASE Dump
  <2>1. /\ UNCHANGED <<row, audited>> /\ FileRows' = FileRows
        /\ backup.pc = "dump" /\ ~ backup.again
        /\ backup' = [backup EXCEPT !.pc = "copy", !.dump = row]
    BY <1>0, <1>12 DEF Dump, Goes, retention, FileRows, BackupAt, CopyInv
  <2>2. BackupTypeOK' /\ CopyInv'
    BY <1>0, <2>1 DEF BackupTypeOK, CopyInv
  <2>3. /\ Watching /\ ~ backup'.again /\ backup'.pc = "copy" /\ backup'.dump = row
        /\ backup'.files = backup.files /\ backup'.references = backup.references
    BY <2>1 DEF BackupTypeOK, Watching
  <2>4. SeenStillSo => SeenStillSo'
    BY <2>1, <2>3 DEF SeenStillSo, NoPendingDeletion, References, BackupAt
  <2> QED BY <2>1, <2>2, <2>3, <2>4 DEF CountsInv, BackupAt
<1>13. ASSUME NEW f \in Files, Download(f)
       PROVE  BackupInv'
  <2>1. /\ UNCHANGED <<row, audited>> /\ FileRows' = FileRows
        /\ backup.pc = "copy" /\ ~ backup.again /\ f \in backup.objects
        /\ backup' = [backup EXCEPT !.copied = @ \cup {f}]
    BY <1>13 DEF Download, Goes, retention, FileRows, BackupAt, CopyInv
  <2>2. BackupTypeOK' /\ CopyInv'
    BY <2>1 DEF BackupTypeOK, CopyInv
  <2>3. /\ Watching /\ ~ backup'.again /\ backup'.pc = "copy" /\ backup'.dump = backup.dump
        /\ backup'.files = backup.files /\ backup'.references = backup.references
    BY <2>1 DEF BackupTypeOK, Watching
  <2>4. SeenStillSo => SeenStillSo'
    BY <2>1, <2>3 DEF SeenStillSo, NoPendingDeletion, References, BackupAt
  <2> QED BY <2>1, <2>2, <2>3, <2>4 DEF CountsInv, BackupAt
<1>14. CASE AssertStillQuiescent
  <2>1. /\ UNCHANGED <<row, audited>> /\ FileRows' = FileRows
        /\ backup.pc = "copy" /\ backup.copied = backup.objects
        /\ backup' = [backup EXCEPT !.pc = "audit", !.again = TRUE]
    BY <1>14 DEF AssertStillQuiescent, Goes, retention, FileRows, BackupAt
  <2>2. BackupTypeOK' /\ CopyInv'
    BY <2>1 DEF BackupTypeOK, CopyInv
  <2>3. SeenStillSo /\ ~ backup.again => SeenStillSo'
    BY <2>1 DEF BackupTypeOK, SeenStillSo, NoPendingDeletion, References, BackupAt
  <2>4. CountsInv'
    <3>1. Watching /\ ~ backup.again
      BY <2>1 DEF Watching, CopyInv
    <3> QED BY <2>1, <2>3, <3>1 DEF BackupTypeOK, CountsInv, Watching, BackupAt
  <2> QED BY <2>2, <2>4
<1>15. CASE Publish
  BY <1>15 DEF Publish, BackupTypeOK, CountsInv, CopyInv, Watching, Faithful, BackupAt
<1> QED BY <1>1, <1>2, <1>3, <1>4, <1>5, <1>6, <1>7, <1>8, <1>9, <1>10, <1>11, <1>12, <1>13,
       <1>14, <1>15 DEF BackupNext, BackupSteps, Inventory

(* Whatever the operator starts beside it, and whether or not the lock was *)
(* lost and the loss noticed: a backup called verified names the           *)
(* recordings its database offers, holds every one of them, and none is in *)
(* the middle of a deletion.                                               *)
THEOREM BackupComplete == BackupSpec => []VerifiedBackupIsComplete
<1>1. BackupInit => BackupInv
  <2> SUFFICES ASSUME BackupInit PROVE BackupInv
    OBVIOUS
  <2>1. NoBackup \in [pc : {"none"}, again : {FALSE}, files : Nat, references : SUBSET Files,
                      objects : SUBSET Files, dump : [Files -> RowStates], copied : SUBSET Files]
    BY DEF NoBackup, RowStates
  <2> QED BY <2>1 DEF BackupInit, BackupInv, BackupTypeOK, CountsInv, CopyInv, Watching,
         Faithful, BackupAt
<1>2. RetentionInv /\ BackupInv /\ [BackupNext]_backupVars => BackupInv'
  BY BackupGoesOn
<1>3. BackupInv => VerifiedBackupIsComplete
  BY DEF BackupInv, CountsInv, CopyInv, BackupAt, Faithful, VerifiedBackupIsComplete
<1> QED BY <1>1, <1>2, <1>3, RetentionInvariant, PTL DEF BackupSpec
=============================================================================
