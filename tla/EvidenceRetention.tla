--------------------------- MODULE EvidenceRetention ---------------------------
(***************************************************************************)
(* Deletion of old recordings (backend/src/evidence/                       *)
(* evidence-retention.service.ts) for one attempt, while it is reviewed    *)
(* and appealed, while an administrator forbids deletion and permits it    *)
(* again, and while processes die and outcomes stay unknown.               *)
(*                                                                         *)
(* Every transaction is one action, except the one that deletes: it holds  *)
(* the advisory lock while it talks to the object storage.  A deletion     *)
(* that was sent may take effect after its sender gave up, and a commit    *)
(* reported as failed may still happen.                                    *)
(*                                                                         *)
(* Time is what has run out: "old" are the files whose retention period is *)
(* over, and a lease is held or not.  A token is the worker that drew it:  *)
(* a worker starts again only when nothing it began before is left.        *)
(***************************************************************************)
EXTENDS Naturals, FiniteSets

CONSTANTS
  Files,    \* evidence files the attempt may get
  Workers,  \* runs of the retention command
  Backup,   \* the backup tool, which takes the same lock
  NoOne     \* nobody holds the lock or the lease token

ASSUME FilesAssumption == IsFiniteSet(Files)
ASSUME HolderAssumption == NoOne \notin Workers /\ Backup \notin Workers \cup {NoOne}

VARIABLES
  attempt,  \* [state, hold]: the attempt and its legal hold
  staged,   \* the attempt's uploads: "open" while a session is unfinished,
            \* "left" while finished ones have chunk rows, or "none"
  row,      \* row[f]: the EvidenceFile row and its tombstone
  job,      \* job[f]: its EvidenceDeletionJob
  old,      \* files past the retention period
  store,    \* final objects in the storage
  sent,     \* deletions given up on that may still take effect
  worker,   \* worker[w]: what the command is doing
  lock      \* holder of EVIDENCE_MAINTENANCE_LOCK

retention == <<attempt, staged, row, job, old, store, sent, worker, lock>>

NoJob == [state |-> "NONE"]
Idle  == [pc |-> "idle"]

RetentionInit ==
  /\ attempt = [state |-> "ACTIVE", hold |-> FALSE]
  /\ staged = "none"
  /\ row = [f \in Files |-> "NONE"]
  /\ job = [f \in Files |-> NoJob]
  /\ old = {}
  /\ store = {}
  /\ sent = {}
  /\ worker = [w \in Workers |-> Idle]
  /\ lock = NoOne

-----------------------------------------------------------------------------
(* The attempt and its recordings *)

WindowOpen == attempt.state \in {"ACTIVE", "PENDING", "APPEALED"}

StartUpload ==
  /\ WindowOpen /\ staged # "open"
  /\ staged' = "open"
  /\ UNCHANGED <<attempt, row, job, old, store, sent, worker, lock>>

(* complete: the object is stored, then its row is created; another        *)
(* session may still be open                                               *)
RegisterEvidence(f) ==
  /\ WindowOpen /\ staged = "open"
  /\ row[f] = "NONE"
  /\ row' = [row EXCEPT ![f] = "AVAILABLE"]
  /\ store' = store \cup {f}
  /\ staged' \in {"open", "left"}
  /\ UNCHANGED <<attempt, job, old, sent, worker, lock>>

(* cleanupStaged: an overdue session ends, the chunk rows go *)
ClearStaging ==
  /\ \/ staged = "open" /\ staged' = "left"
     \/ staged = "left" /\ staged' = "none"
  /\ UNCHANGED <<attempt, row, job, old, store, sent, worker, lock>>

Moves == { <<"ACTIVE", "PENDING">>,       \* submitAnswers, finalizeExpiredAttempt
           <<"PENDING", "REJECTED">>,     \* reviewAttempt
           <<"REJECTED", "APPEALED">>,    \* createAppeal
           <<"APPEALED", "UPHELD">> }     \* resolveAppeal

(* A decision restarts the retention period of every file.  An approval    *)
(* needs finished sessions (assertEvidenceReady).                          *)
MoveAttempt(to) ==
  /\ \/ <<attempt.state, to>> \in Moves
     \/ to = "APPROVED" /\ attempt.state \in {"PENDING", "APPEALED"} /\ staged # "open"
  /\ attempt' = [attempt EXCEPT !.state = to]
  /\ old' = {}
  /\ UNCHANGED <<staged, row, job, store, sent, worker, lock>>

GrowOld(f) ==
  /\ row[f] # "NONE" /\ f \notin old
  /\ old' = old \cup {f}
  /\ UNCHANGED <<attempt, staged, row, job, store, sent, worker, lock>>

(* retentionEligibility: the file's attempt is decided for good, nobody    *)
(* holds it, its uploads are over and the retention period is.             *)
Eligible(f) ==
  /\ row[f] \in {"AVAILABLE", "PENDING"}
  /\ attempt.state \in {"APPROVED", "UPHELD"}
  /\ ~ attempt.hold
  /\ staged = "none"
  /\ f \in old

(* Mutant: only a deletion running at the moment refuses the hold. *)
PlaceHoldUnlessRunning ==
  /\ \A f \in Files : job[f].state # "RUNNING"
  /\ attempt' = [attempt EXCEPT !.hold = TRUE]
  /\ job' = [f \in Files |-> IF job[f].state = "DONE" THEN job[f] ELSE NoJob]
  /\ row' = [f \in Files |-> IF row[f] = "PENDING" THEN "AVAILABLE" ELSE row[f]]
  /\ UNCHANGED <<staged, old, store, sent, worker, lock>>

(* setHold, on: refused once a deletion was started, and cancels those     *)
(* that were only requested.                                               *)
PlaceHold ==
  /\ \A f \in Files : job[f] # NoJob => ~ job[f].started
  /\ attempt' = [attempt EXCEPT !.hold = TRUE]
  /\ job' = [f \in Files |-> NoJob]
  /\ row' = [f \in Files |-> IF row[f] = "PENDING" THEN "AVAILABLE" ELSE row[f]]
  /\ UNCHANGED <<staged, old, store, sent, worker, lock>>

LiftHold ==
  /\ attempt.hold
  /\ attempt' = [attempt EXCEPT !.hold = FALSE]
  /\ UNCHANGED <<staged, row, job, old, store, sent, worker, lock>>

-----------------------------------------------------------------------------
(* The retention command.  run reads the files outside any transaction ... *)

At(w, pc) == worker[w].pc = pc
Becomes(w, state) == worker' = [worker EXCEPT ![w] = state]

Scan(w, f) ==
  /\ worker[w] = Idle
  /\ Eligible(f)
  /\ Becomes(w, [pc |-> "request", file |-> f])
  /\ UNCHANGED <<attempt, staged, row, job, old, store, sent, lock>>

(* ... then request leaves a tombstone and a job, once ... *)
Request(w) ==
  LET f == worker[w].file IN
  /\ At(w, "request")
  /\ lock = NoOne
  /\ IF Eligible(f) /\ job[f] = NoJob
     THEN /\ row' = [row EXCEPT ![f] = "PENDING"]
          /\ job' = [job EXCEPT ![f] = [state |-> "PENDING", started |-> FALSE,
                                        token |-> NoOne, leased |-> FALSE]]
     ELSE UNCHANGED <<row, job>>
  /\ Becomes(w, [pc |-> "claim", file |-> f])
  /\ UNCHANGED <<attempt, staged, old, store, sent, lock>>

(* Mutant: only a job nobody has tried yet is taken. *)
MayClaimNew(f) == row[f] = "PENDING" /\ Eligible(f) /\ job[f].state = "PENDING"

(* ... process claims the job unless a lease is held or it is done ... *)
MayClaim(f) ==
  /\ row[f] = "PENDING" /\ Eligible(f)
  /\ job[f] # NoJob /\ job[f].state # "DONE"
  /\ ~ job[f].leased

Claim(w) ==
  LET f == worker[w].file IN
  /\ At(w, "claim")
  /\ lock = NoOne
  /\ IF MayClaim(f)
     THEN /\ job' = [job EXCEPT ![f] = [state |-> "RUNNING", started |-> TRUE,
                                        token |-> w, leased |-> TRUE]]
          /\ Becomes(w, [pc |-> "begin", file |-> f])
     ELSE Becomes(w, Idle) /\ UNCHANGED job
  /\ UNCHANGED <<attempt, staged, row, old, store, sent, lock>>

LeaseEnds(f) ==
  /\ job[f] # NoJob /\ job[f].leased
  /\ job' = [job EXCEPT ![f].leased = FALSE]
  /\ UNCHANGED <<attempt, staged, row, old, store, sent, worker, lock>>

HoldsJob(w) == job[worker[w].file] # NoJob /\ job[worker[w].file].token = w

(* ... and a second transaction takes the lock, looks again ... *)
BeginRemoval(w) ==
  LET f == worker[w].file IN
  /\ At(w, "begin")
  /\ lock = NoOne
  /\ IF HoldsJob(w) /\ Eligible(f)
     THEN lock' = w /\ Becomes(w, [pc |-> "remove", file |-> f])
     ELSE Becomes(w, Idle) /\ UNCHANGED lock
  /\ UNCHANGED <<attempt, staged, row, job, old, store, sent>>

(* ... removes the object, and knows it ... *)
RemoveObject(w) ==
  /\ At(w, "remove")
  /\ store' = store \ {worker[w].file}
  /\ worker' = [worker EXCEPT ![w].pc = "commit"]
  /\ UNCHANGED <<attempt, staged, row, job, old, sent, lock>>

(* ... and records it, if the job is still its own; the lock goes with     *)
(* the transaction.  A late commit is one whose sender was told it failed. *)
CommitRemoval(w) ==
  LET f == worker[w].file IN
  /\ worker[w].pc \in {"commit", "late"}
  /\ IF HoldsJob(w) /\ job[f].state \in {"RUNNING", "RETRY"}
     THEN /\ job' = [job EXCEPT ![f] = [state |-> "DONE", started |-> TRUE,
                                        token |-> NoOne, leased |-> FALSE]]
          /\ row' = [row EXCEPT ![f] = "DELETED"]
     ELSE UNCHANGED <<job, row>>
  /\ lock' = NoOne
  /\ Becomes(w, Idle)
  /\ UNCHANGED <<attempt, staged, old, store, sent>>

(* Mutant: a failed deletion is withdrawn. *)
RetryForgets(w) ==
  IF HoldsJob(w) /\ job[worker[w].file].state = "RUNNING"
  THEN job' = [job EXCEPT ![worker[w].file] = NoJob] ELSE UNCHANGED job

(* The catch block: the job is kept for a retry, and its lease with it. *)
Retry(w) ==
  IF HoldsJob(w) /\ job[worker[w].file].state = "RUNNING"
  THEN job' = [job EXCEPT ![worker[w].file].state = "RETRY"] ELSE UNCHANGED job

(* The deletion fails or times out, or the process dies.  The transaction  *)
(* rolls back; what was sent may still arrive, and the catch block may or  *)
(* may not reach the database.                                             *)
FailRemoval(w) ==
  /\ worker[w].pc \in {"begin", "remove", "commit"}
  /\ \/ At(w, "remove") /\ sent' = sent \cup {worker[w].file}
     \/ UNCHANGED sent
  /\ Retry(w) \/ UNCHANGED job
  /\ lock' = IF lock = w THEN NoOne ELSE lock
  /\ Becomes(w, Idle)
  /\ UNCHANGED <<attempt, staged, row, old, store>>

(* The commit is reported as failed, but is still on its way. *)
LoseCommit(w) ==
  /\ At(w, "commit")
  /\ Retry(w) \/ UNCHANGED job
  /\ worker' = [worker EXCEPT ![w].pc = "late"]
  /\ UNCHANGED <<attempt, staged, row, old, store, sent, lock>>

LateCommitFails(w) ==
  /\ At(w, "late")
  /\ lock' = NoOne
  /\ Becomes(w, Idle)
  /\ UNCHANGED <<attempt, staged, row, job, old, store, sent>>

(* The command is interrupted between two transactions. *)
StopWorker(w) ==
  /\ worker[w].pc \in {"request", "claim"}
  /\ Becomes(w, Idle)
  /\ UNCHANGED <<attempt, staged, row, job, old, store, sent, lock>>

LateDeletion(f) ==
  /\ f \in sent
  /\ sent' = sent \ {f}
  /\ store' = store \ {f}
  /\ UNCHANGED <<attempt, staged, row, job, old, worker, lock>>

-----------------------------------------------------------------------------
ApiNext ==
  \/ StartUpload \/ PlaceHold \/ LiftHold
  \/ \E f \in Files : RegisterEvidence(f)
  \/ \E to \in {"PENDING", "APPROVED", "REJECTED", "APPEALED", "UPHELD"} : MoveAttempt(to)

StorageNext == \E f \in Files : GrowOld(f) \/ LeaseEnds(f) \/ LateDeletion(f)

Succeed(w) == Request(w) \/ Claim(w) \/ BeginRemoval(w) \/ RemoveObject(w) \/ CommitRemoval(w)
Fail(w)    == FailRemoval(w) \/ LoseCommit(w) \/ LateCommitFails(w) \/ StopWorker(w)

WorkerNext(w) == (\E f \in Files : Scan(w, f)) \/ Succeed(w) \/ Fail(w)

RetentionNext == ApiNext \/ ClearStaging \/ StorageNext \/ \E w \in Workers : WorkerNext(w)

RetentionSpec == RetentionInit /\ [][RetentionNext]_retention

-----------------------------------------------------------------------------
(* Properties *)

JobRow == [state : {"PENDING", "RUNNING", "RETRY", "DONE"}, started : BOOLEAN,
           token : Workers \cup {NoOne}, leased : BOOLEAN]

WorkerState == [pc : {"request", "claim", "begin", "remove", "commit", "late"}, file : Files]

(* Type correctness of the rows and of the workers. *)
RetentionTypeOK ==
  /\ attempt \in [state : {"ACTIVE", "PENDING", "APPROVED", "REJECTED", "APPEALED", "UPHELD"},
                  hold : BOOLEAN]
  /\ staged \in {"none", "open", "left"}
  /\ row \in [Files -> {"NONE", "AVAILABLE", "PENDING", "DELETED"}]
  /\ job \in [Files -> JobRow \cup {NoJob}]
  /\ old \in SUBSET Files /\ store \in SUBSET Files /\ sent \in SUBSET Files
  /\ worker \in [Workers -> WorkerState \cup {Idle}]
  /\ lock \in Workers \cup {Backup, NoOne}

(* A recording disappears only when the decision about its attempt is      *)
(* final and nobody holds it, also when the deletion was sent by a worker  *)
(* long gone: a hold that was granted is never broken, and an appeal still *)
(* possible finds its evidence.                                            *)
ProtectedEvidenceKept ==
  [][(attempt.hold \/ attempt.state \notin {"APPROVED", "UPHELD"}) =>
       store \subseteq store']_retention

(* No recording is lost without a trace: a missing object's row says so    *)
(* and its job is there to finish it; a file called deleted is gone; only  *)
(* what is still there is called available.                                *)
TombstonesTellTheTruth ==
  \A f \in Files :
    /\ row[f] \in {"PENDING", "DELETED"} <=> job[f] # NoJob
    /\ row[f] # "NONE" /\ f \notin store => job[f] # NoJob /\ job[f].started
    /\ row[f] = "DELETED" => f \notin store

(* A deletion that was started is finished, however often it failed. *)
StartedDeletionsFinish ==
  \A f \in Files : (job[f] # NoJob /\ job[f].started) ~> row[f] = "DELETED"
=============================================================================
