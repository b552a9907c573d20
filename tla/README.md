# ProctoLearn: formal models and proofs

ProctoLearn is an online learning platform: a NestJS backend (`src/backend`) on
PostgreSQL and S3-compatible object storage, and a Next.js frontend
(`src/frontend`).  Students take timed exams under proctoring, the browser
records camera and screen, and a proctor decides whether a certificate is
issued.  This directory holds TLA+ models of that core, the TLC runs that check
them on small instances, and TLAPS proofs for every value of the constants.
Paths below are relative to the repository.

## 1. The system

| component | state it keeps | operations | talks to |
|---|---|---|---|
| exam attempts (`backend/src/attempts`) | `Attempt`, `Answer` rows, exam snapshot, draft and its revision | start, draft, save, submit, two readers that finalise expired attempts | exams, enrolment, webhook, browser |
| exam editing (`backend/src/exams`) | `Exam`, `Question` rows | update, add, change and remove questions, remove | finalises expired attempts |
| recording uploads (`backend/src/evidence/recording-uploads*`) | `RecordingUpload`, `RecordingChunk`, `EvidenceFile` rows, staged and final objects | create, put chunk, complete, abort | object storage, review, browser |
| recording cleanup (`cleanupStaged`) | the same | an operator's command: close overdue sessions, sweep objects | object storage |
| review, appeals, certificates (`proctor.service.ts`, `certificates`) | review status, reviews, appeal, certificate, enrolment | review, appeal, resolve, issue | uploads, retention |
| proctor events (`proctor.gateway.ts`) | events, trust score, sockets, token buckets | start, event, end | auth, assignments |
| evidence retention (`evidence-retention*`) | holds, deletion jobs with leases | hold, request, process | object storage, backup |
| authentication (`backend/src/auth`, `frontend/src/lib/session-coordinator.ts`) | refresh token digest, token version, reset tokens; cookies and generations in tabs | refresh, logout, change and reset password | every request |
| enrolment (`backend/src/enrollments`) | `Enrollment` rows | enrol, complete, leave, administrator's grant | certificates |
| browser recorder (`durable-recording.ts`, `recording-store.ts`) | local chunks, two queues, Web Lock | append, upload, finish, recover | recording uploads |
| browser draft saver (`exam-draft.ts`) | the latest answers, revision, write in flight | update, flush, replace | attempts |
| proctor page (`proctor-feed.ts`, `dashboard/proctor/page.tsx`) | events and score shown, socket, request in flight | select, join, merge, reconnect | gateway |
| backup tool (`scripts/backup-cli.cjs`) | backup directory, advisory lock | back up, verify, restore | retention, database, bucket |
| lessons, steps, courses, users, audit journal, mail, storage adapter, AI, pages | single rows, or none | create, read, update, delete; I/O | |

What makes them hard, and what makes them correct:

- **Attempts.** Students have several tabs; requests are late, repeated or lost;
  time runs out during a request; nothing runs in the background, so an expired
  attempt is finalised by whoever reads it next; the teacher edits the exam.
  Correct means: one attempt at a time and a limit; drafts never silently
  overwritten; nothing late counts and nobody is cut off early; every result
  that was told is the stored one; nobody is graded against an exam that moved.
- **Uploads.** A completion works for minutes outside any transaction under a
  lease that can be taken over; a database call may fail towards the caller and
  commit later; object storage is not transactional; review closes the window
  at any moment and an appeal reopens it.  Correct means: the evidence is
  exactly what was recorded, once; acknowledgements hold; a closed review
  freezes the evidence; quotas hold.
- **Cleanup.** It reads, then deletes, with all of the above going on.  Correct
  means: it never removes what is or may become evidence, and what nobody needs
  eventually goes.
- **Review and appeals.** An approval rests on finished recordings; the appeal is
  decided by somebody else; one certificate per user and course.
- **Retention.** A hold wins unless a deletion already started; a deletion whose
  outcome is unknown is retried and never forgotten.
- **Authentication.** One refresh succeeds per token; tabs of one browser do not
  sign each other out; a reset leaves no live session or token.
- **Browser recorder.** A local chunk goes only after the server has the whole
  recording; a recording that does not say it was interrupted is whole.
- **Backup.** Database and bucket cannot be copied at one moment: what is called
  verified must still fit together.
- **Events.** A proctor's live page misses nothing that was announced, whatever
  order pushed and fetched data arrive in, and nothing at all once it asks; a
  revoked proctor hears nothing new.

The hazards, each at its line, are listed in `PROJECT.json`.

## 2. Modules

| module | models | theorems |
|---|---|---|
| `AttemptLedger` | abstract: what the attempt service promises | |
| `ExamAttempt` | attempts and exam edits, clock and network; refines `AttemptLedger` | `ExamAttemptProofs` |
| `EvidenceVault` | abstract: what the recordings of an attempt promise student and reviewer | |
| `RecordingUpload` | upload sessions, object storage, finalisation, review and appeal as they bear on them; refines `EvidenceVault` | `RecordingUploadProofs` |
| `RecordingCleanup` | extends `RecordingUpload` with the cleanup command | `RecordingCleanupProofs` |
| `EvidenceRetention` | legal holds, deletion jobs and their workers, beside review and appeal | |
| `EvidenceBackup` | extends `EvidenceRetention` with the backup tool and the application that comes back | `EvidenceBackupProofs`, about both |
| `AuthServer` | the session rows and the handlers of the authentication service | |
| `AuthTabs` | extends `AuthServer` with the tabs of one browser | `AuthTabsProofs`, about both |
| `Recorder` | the browser's recorder, its local store, its tabs and recovery | `RecorderProofs` |
| `Certification` | enrolment, review, appeal, grants and the certificate of one course | `CertificationProofs` |
| `ProctorFeed` | events, gateway, assignments and the proctor's page | `ProctorFeedProofs` |
| `MC...` | the values TLC needs, one module for each that is checked | |

The parts meet where the code makes them meet: retention runs beside the uploads,
the review and the backup; the tabs beside the authentication service; the
recorder beside a server that does what `RecordingUpload` promises; certificates
beside enrolment, review and grants.

### ExamAttempt

`attempt[a]` is the row of attempt `a`, `exam` what the teacher left, and `view`
and `net` the tabs and their requests.  One action is one handler, because every
handler runs in `serializable()` (`backend/src/prisma/serializable.ts`): a
serializable transaction, tried again at most three times when PostgreSQL reports
a conflict, then refused.  A refusal has no effect and is no action.  Two things
are not atomic with the handler and are separate:

- *the clock*: a transaction read it up to `TxTime` before it commits
  (`ClockReads`);
- *the exchange*: a request stays in `net` after it was handled, when its sender
  retries it, or disappears (`Lose`); the answer reaches the tab or not
  (`Answer`).  The webhook and the answer of a submission follow the commit in a
  step of their own (`NotifyN8nExamSubmit`), and the process may die in between
  (`Crash`).

An answer sheet is a function from questions to texts, and texts are compared by
`Canonical` (`normalizedAnswer`); the digest is the normalised sheet, that is,
the hash is taken to be injective.  Every saved draft counts only the questions
of the snapshot, as `validateAnswerIds` requires.  Three fields are history and
influence no step: `base` in a request (the draft its tab was looking at),
`hooked` and `acked`.

Abstracted: admission (enrolment, lessons, tasks), which refuses a start before
anything changes; the backfill of snapshots of attempts that predate them
(migration `20260928010000`); the status FLAGGED, which no code sets any more;
`flagAttempt`, whose `flaggedAt` no modelled decision reads.  A snapshot always
has a question, because `startAttempt` refuses an exam without one.

### RecordingUpload

`upload[u]` is a session's row with its chunk rows; `store` and `final` are the
staged and the final objects; `put` and `fin` the `putChunk` and `complete`
requests and where they are.  A transaction or a conditional `updateMany` is one
action; every call to the object storage is another.  `FailFinish` and `LosePut`
are any exception, including a failed commit that may still happen (`late`,
`LateChunk`, `LateFinal`); `CrashFinish` is the death of the process.
`saved` (what was first recorded at each index) and `acked` are history.
Object keys and finalisation tokens are random UUIDs: each is drawn once
(`spent`).  Review and appeal are the handlers of `proctor.service.ts` as far as
they open, close and settle the recordings.

Abstracted: ownership and format checks, which refuse before anything changes;
the second of the two byte counts in `assemble` (a chunk with the recorded hash
has the recorded size); the catch block's lookup and its reset are one action,
and so are the two reads of `removeUnreferenced`; approval assumes a passed
attempt (`issueForAttempt` refuses and rolls back otherwise), so approvals here
are more frequent than in the code.  The branch of `create` that renews an
expired session during an appeal is left out, because it cannot be taken:
`createAppeal` has renewed every open session already, in the transaction that
opens the appeal, to the very time `create` would set (`AppealExtendsSessions`).

`EvidenceVault` forgets requests, leases, objects, failures and time.  A recording
is absent, open, complete or aborted; open, it takes each index once; complete, it
is one file, the pieces in order; while a decision stands nothing is opened,
recorded or completed (an unfinished recording may still be given up); an approval
finds every recording finished and a file of every kind; a rejection can be
appealed once.  The mapping reads the state off the row (FINALIZING is still
open), the pieces off `saved` and the files off the evidence rows *and the final
objects they name*, so a row whose object is missing, doubled or wrong breaks it.

### RecordingCleanup

`cleaner` is the command, between any two of whose steps everything else may
happen; a run handles sessions and objects one after another, each from a
snapshot of its own, so one at a time is enough.  The age floor of 24 hours is
the set `aged`: an object is in it only when no `putChunk` request that wrote it
is left, nor a commit of it that is still unknown.  No such assumption is made
of finalisations, which heartbeats can keep alive for ever.  Local temporary
files and page cursors are left out.

### EvidenceRetention and EvidenceBackup

`row[f]` is an evidence file with its tombstone, `job[f]` its deletion job,
`store` what is in the bucket, `worker[w]` a run of the retention command.  Every
transaction is one action but the one that deletes: it holds the advisory lock
while it talks to the storage, so it takes three (`BeginRemoval`, `RemoveObject`,
`CommitRemoval`) and can fail between any two.  A deletion given up on may still
happen (`sent`), a commit reported as failed too (`late`).
The retention period and the leases are what has run out (`old`, `leased`), not a
clock: nothing compares two of them.  Of the upload sessions only `staged` is kept:
while one is unfinished ("open") an approval is refused, and while chunk rows of
finished ones remain ("left") retention alone waits.

The backup (`backup`) takes the same advisory lock, looks for other connections,
compares two inventories and two bucket listings, and publishes.  The model does
not trust the operator: the application and the retention command may act between
any two of its steps.  The inventory of the database is read by one `psql` after
the other, so each query is a step (`CountAuditRows`, `CountFileRows`,
`RefusePending`, `ReadReferences`), and the second round compares as it reads.  Of
the tables whose rows it counts, two are modelled: `evidence_files`, and
`audit_events`, to which holds, requests and completed deletions each add a row in
their own transaction (`audited`: it has grown since the first count).  To leave
out a comparison can only publish more, so what holds here holds of the tool.  The
connection that holds the lock may be lost at any moment (`LoseBackupLock`), and
the tool may not notice: `assertHeld` (`backup-cli.cjs:145`) looks at the local
`psql`, which waits for input.  `Publish` therefore has no guard on the lock, and a
loss that is noticed is a `BackupFails`.  A bucket listing is one step; the
references of `recording_chunks` (staging objects) are left out; so are `verify`
and `restore`, which run alone on a directory nobody changes.

### AuthServer and AuthTabs

`account[u]` is the user's row: session version, the serial of the one valid
refresh token and, as history, the version under which the password was checked.
A handler reads the row, works (bcrypt, signing) and writes with a conditional
update: two actions.  `req[c]` is the request of tab `c`, or in the slot `Late`
one whose sender has given up.  `AuthTabs` adds the browser: the cookies `jar`,
which change when an answer arrives, the Web Lock, unread messages of the
channel (`news`), and in each tab the user shown, the principal and what it does.

Abstracted: a wrong password or a forged token is refused without effect; a
password is known by the version of the row it was compared with; `register` is a
sign-in of a new row; a password reset is the revocation of every session
(`RevokeElsewhere`); reset tokens, CSRF tokens and `mustChangePassword` are left
out; a tab does one thing at a time; an unread message stands for one that is
late or lost; an answer to a request given up on is heard by nobody.

### Recorder

`local[s]` is the IndexedDB row of a session with its chunks, `captured[s]` what
MediaRecorder delivered (history), `server[s]` the upload session, `net` the
requests that may still be executed, `page[t]` the exam page in a tab with its
writer: the blobs in memory, the flags of the two queues, and where the upload
loop is with what it read, asked and was answered.  Pages are left, closed,
killed and opened again; an aborted upload is replaced by a new one that shares
the local chunks (`Clone`).

Abstracted: one kind of recording and one writer per page; a full disk and a full
memory are one failure (`PersistFails`); refusals of a closed window end in
`GiveUp`; the list of sessions to recover is read when the page is opened, and a
page is not disposed of in the middle of one append.

### Certification

The rows of one student, one course and its exam, with everybody who may decide,
among them the student, who may be made a proctor (`UpdateRole`).  Attempts in
`Legacy` were rejected before reviews had a history.  Review, appeal, resolution,
grants and submission are serializable transactions and one action each;
`enroll`, `completeEnrollment` and `unenroll` are not, and take one action per
statement (`request[c]`).  Abstracted: `learned` (all lessons and tasks done)
only grows, a reason is identified with the person who gives it, recordings are
ready or not, evidence is not deleted by retention here.

### ProctorFeed

`scores` are the recorded events with the score after each.  A delivery looks up
the room's sockets, checks each recipient and sends, in separate actions
(`fetching`, `tasks`); `start` is the progress of a socket's `proctor:start`,
`wire` what is on its way to the page, `page` what the page shows and its summary
request.  An event whose commit is reported as failed is stored and not delivered
(`RecordUnheard`): `serializable.ts:14` throws, and `handleEvent` does not get to
`emitToSession` (`proctor.gateway.ts:187`).  `since` (who has been entitled since
an event) and `untold` (what was recorded undelivered since a page last asked for
its summary) are history.  One proctor watches in the run, because the pages of several meet only in the room's set.
Abstracted: the per-minute limit, the token bucket and the metadata checks, which
only refuse; the two reads of one delivery check are one step.

## 3. Runs

Each `.cfg` names its bounds.  `CHECK_DEADLOCK FALSE` everywhere: the clock, the
ids and the requests are bounded, and a system in which nobody does anything has
nothing to do.

| run | instance | question | shows |
|---|---|---|---|
| `ExamDrafts` | 1 student, 2 tabs, 2 requests, 2 saves, deadline 1, clock to 2 | is the revision an optimistic lock, whatever is repeated or lost, and does every handler keep the ledger's promises? | a save replaces only the draft its tab was looking at; answers always belong to the exam's questions; `ExamAttempt` implements `AttemptLedger` |
| `ExamSubmit` | 1 tab, 2 texts that normalise alike, grace 1, transactions of length 1, clock to 4 | what do the deadline, repeated requests and a crash between commit and answer do? | nothing late counts, nobody is closed early, every result told is the stored one, the webhook is called once or not at all |
| `ExamRules` | 2 students, 3 attempt ids, limit 2, 1 teacher | do concurrent starts and edits break the rules? | one open attempt each, an exam that does not move under an open attempt |
| `UploadFinalize` | 1 session of 2 chunks of 2 contents, 2 completions, 2 tokens, both flags, lease 1 | who registers the evidence, and is it what was recorded? | one evidence per upload with exactly the recorded chunks in order; acknowledged completions stand; a closed review and a closed session stay as they are; `RecordingUpload` implements `EvidenceVault` |
| `UploadSessions` | 2 sessions of 1 chunk, 2 chunk requests, 1 completion, sizes 1 and 2, quota 2, review and appeal, clock to 2 | do racing chunks, unknown outcomes and an appeal lose, duplicate or overfill anything? | every row has its object, acknowledged chunks are kept, the quota holds, an approval rests on finished recordings, an appeal renews every open session |
| `CleanupSweep` | 1 session, 1 object, 1 token, 1 request of each kind, fairness | does cleanup destroy anything needed, and does everything unneeded go? | evidence and referenced chunks survive; overdue sessions close, orphans and unused final objects are removed |
| `RetentionBackup` | 1 file, 2 retention commands, the backup, whose lock may be lost unnoticed, fairness | can a deletion break a hold or an appeal, be forgotten, or slip into a backup? | protected evidence stays, tombstones tell the truth, a started deletion finishes, a verified backup is complete even without the lock |
| `AuthTabs` | 2 users, 2 tabs, 2 refresh tokens, 2 versions, 3 user actions | what do tabs with one cookie jar do to each other, and late answers to all of them? | no session outlives its password, no request runs as the wrong user, no tab signs another out, no refresh undoes a logout |
| `Recorder` | 2 tabs, a session and its replacement, 2 blobs, 1 run, 2 late requests | can the only copy of a chunk go, or a gap stay unmarked? | persisted chunks survive until the server has them, an unmarked recording is whole |
| `RecorderReclaim` | the same, 1 late request | does repeating the completion take over a crashed assembly, as a comment says? | no: see the finding below |
| `Certification` | 2 attempts, one from before the history, 2 proctors, an administrator, the student, 1 enrolment request | can a certificate be doubled or unearned, or a decided appeal be contradicted? | at most one certificate, earned or granted; the deciding reviewer's repeated request is confirmed |
| `ProctorFeed` | 1 proctor, 3 events, 2 shown, 2 messages on the wire | does merging pushed and fetched data lose an event or believe an old score, and who hears what after a revocation? | a live page lacks no event and no deduction but those recorded unannounced since it last asked; nothing recorded after a revocation is sent |

Why the bounds are enough: every hazard in question needs two actors on one row
(two tabs, two completions, a completion and a cleaner, a worker and a backup),
one repetition or loss, and time to pass one boundary (deadline, grace, lease,
window) by one; the instances have exactly that and one to spare where a count is
the question.  Two answers that overtake each other are the least that a merge
can get wrong.  For most of the safety properties the proofs below remove the
bounds.  The limit of attempts, which the one attempt id of `ExamDrafts`
cannot exceed, is left to the theorems `LimitHolds` and `Refinement`.  Boundaries
that a run keeps out of the way (`Grace = 0`, `TxTime = 0`, `MaxRevision = 0`) are
the subject of another run.

Symmetry is used only where all properties are safety properties.  Tabs, attempt
ids, objects, tokens, requests, accounts and recorder sessions are permuted
freely, because no constant or operator distinguishes them.  Students own tabs,
so they change places together with them (`SwapStudents`); of the people of
`Certification` only the two proctors are alike.  Chunk contents and answers are
not permuted: `Size` and `Canonical` tell them apart.  `CleanupSweep` and
`RetentionBackup`, which check liveness, use no symmetry.

The properties, in words, stand above their definitions.  Every one has a mutant
in `PROJECT.json`: the same definition with a plausible bug, which violates it
in the same instance.

**Fairness.** Only `CleanupSweep` and `RetentionBackup` assume any; requests of
students, reviewers and teachers need none, because nothing these two promise
depends on a client coming back.

- `Fairness` in `RecordingCleanup`.  The documentation tells the operator to
  repeat the command with the cursors it returned
  (`docs/RECORDINGS_AND_APPEALS.md`, "Очистка временного хранения"), so a session
  or object that qualifies again and again is found (SF of `ReadSession`,
  `FindOrphan` and `FindFinal`, for each item); a run goes on to its end (WF of
  `Proceed`), although any number of runs may stop half-way, as long as some day
  they stop only at their end (`<>[][CleanerStops => Proceed]_cvars`); and an
  object left alone grows old (WF of its ageing).
- `BackupFairness` in `EvidenceBackup`.  The retention command is repeated as
  well (`docs/DATA_RETENTION.md`): SF of `Scan` for each file and of the
  successful steps of each run, among them `Claim`, because lock and lease are
  free again and again but not for ever; a lease runs out (WF of `LeaseEnds`);
  storage and database fail any number of times, but some day no more
  (`<>[][~ Fault(w)]`); and the backup tool, which may hold the lock, ends one way
  or the other (WF of `BackupSteps`).

**Finding** (`RecorderReclaim`).  `durable-recording.ts:167` says "Only complete
can reclaim an expired server lease after its worker crashes."  A completion is
claimed as uninterrupted; the student leaves the page while the server assembles,
and leaving marks the local session as interrupted; the server process dies.  The
page opened again repeats the completion with the mark, and
`recording-uploads.service.ts:207` refuses it as one with other parameters, which
the recorder takes for final: the recording stays unfinished until the cleanup
closes it.

Met while modelling, and not the subject of a run: `enrollments.service.ts:91`
says an enrolment can be dropped only if it is not completed, but `unenroll`
reads at one time and deletes at another, so that a completion in between goes
with it (the certificate remains); the comment at `:13` of the same file says that
`enroll` fails if another enrolment is active, which nothing checks; a repeated
initial rejection that arrives after its appeal was overturned is answered with a
conflict (`proctor.service.ts:79`); a lesson's `completionSource` can be
overwritten by a write that rests on an old read (`lessons.service.ts:158`); a
socket expelled from its room, also by a passing database error, is not told, so
its page stays "live" until it reconnects: `FeedIsComplete` is about pages whose
socket is in the room.  An event whose commit is reported as failed is stored and
pushed to nobody, so a live page lacks it until its next summary: `FeedIsComplete`
excepts exactly these.  `backup-cli.cjs:145` announces "Backup retention lock was
lost. No complete backup is published.", but sees only a `psql` that has ended: a
backup can be published after its lock was lost, and what keeps
`VerifiedBackupIsComplete` true is that the counted rows agree.  `getSessionSummary` checks the access before it reads, so
`RevokedHearNothing` is about what the socket delivers.

## 4. Proofs

The theorems hold for every set of users, tabs, attempts, files, people and
requests and for every bound, from the assumptions the modules state about their
constants: `Questions` is finite, durations are positive, sizes are positive,
workers are not the backup, staged keys and tokens (random UUIDs under different
prefixes) do not meet (`KeyAssumption`).  A few only keep a value that stands for
"nothing" apart from the real ones (`NoneAssumption`, `LockAssumption`, and `NoToken`
and `NoData` in `ChunkAssumption`), as `null` is apart from every row.  The set of
session ids may be infinite: that the sessions there are are finitely many is part
of `QuotaInv`, and follows from the limit in `create`.

| module | theorem | property |
|---|---|---|
| `ExamAttemptProofs` | `TypeCorrect` | `TypeOK` |
| | `OneActive`, `LimitHolds` | `OneActivePerUser`, `AttemptLimit` |
| | `ExamStable`, `AnswersRefer` | `ExamStableWhileActive`, `AnswersReferToExam` |
| | `RevisionLock`, `LostUpdatesExcluded` | `RevisionIdentifiesDraft`, `NoLostUpdate` |
| | `LateAnswersExcluded`, `EarlyClosingExcluded` | `LateAnswersIgnored`, `NotClosedEarly` |
| | `AckedCounted`, `WebhookOnce` | `AckedSubmissionCounted`, `WebhookAtMostOnce` |
| | `Refinement` | `ImplementsLedger` |
| `RecordingUploadProofs` | `UploadTypes` | `TypeOK` |
| | `OneEvidence`, `CompletedIntact` | `OneEvidencePerUpload`, `EvidenceIntact` |
| | `ClosedForGood`, `ReviewedEvidenceStays` | `ClosedSessionsStay`, `ClosedReviewFreezesEvidence` |
| | `ApprovalSettles`, `AppealsExtend` | `ApprovedIsSettled`, `AppealExtendsSessions` |
| | `ChunksStored`, `AnswersStand` | `ReferencedChunksStored`, `AcksHonoured` |
| | `QuotaKept` | `QuotaHolds` |
| | `VaultImplemented` | `ImplementsVault` |
| `RecordingCleanupProofs` | `EvidenceOutlivesCleanup`, `ChunksOutliveCleanup` | `EvidenceIntact`, `ReferencedChunksStored` |
| | `AnswersOutliveCleanup`, `QuotaOutlivesCleanup` | `AcksHonoured`, `QuotaHolds` |
| | `VaultOutlivesCleanup` | `ImplementsVault` |
| `EvidenceBackupProofs` | `RetentionTypes` | `RetentionTypeOK` |
| | `TombstonesHold`, `EvidenceKept` | `TombstonesTellTheTruth`, `ProtectedEvidenceKept` |
| | `BackupComplete` | `VerifiedBackupIsComplete` |
| `AuthTabsProofs` | `SessionsProved`, `LogoutStands` | `LiveSessionsProvedThePassword`, `LateRefreshCannotUndoLogout` |
| | `RequestsMatch`, `SignedOutOnlyThen` | `RequestsRunAsTheirUser`, `SignedOutOnlyWhenOver` |
| `RecorderProofs` | `ChunksSurvive`, `UninterruptedWhole` | `PersistedChunksSurvive`, `UninterruptedIsWhole` |
| `CertificationProofs` | `CertificatesEarned`, `AppealsConfirmed` | `CertificateIsEarned`, `AppealDecisionsAreConfirmed` |
| `ProctorFeedProofs` | `RevokedAreNotTold`, `FeedComplete` | `RevokedHearNothing`, `FeedIsComplete` |

Type correctness and `AttemptLimit` are only proved and are not part of a run.

**Attempts.** The argument goes over the rows, not over the handlers.  `RowsStep`
says once and for all what a step can do: open one free row for a user with none
open and fewer than the limit, or finalise expired rows, save a current draft,
grade one submission, and leave the rest alone; `RowFate` reads it for one row.
The handlers are visited only there, in `ViewStep`, in `NetStep` and in
`HookStep`; every theorem follows from these.  `RevisionIdentifiesDraft` is not
inductive: a tab could know a revision that the row has not reached.  `KnowsInv`
adds that every view and request knows a revision at most the row's, of a row
that exists.  `AckedSubmissionCounted` needs `GradesInv` (a closed row is graded
on its answers) and `PendingInv` (a submission waiting for its answer is the one
the row was graded on); `WebhookAtMostOnce` needs that one submission of an
attempt is pending, before its webhook and never after (`HookInv`);
`AnswersReferToExam` needs that a request answers only what its attempt was given
(`AskedInv`) and that a closed row has no draft, for the guard of
`RemoveQuestion` looks at the answers alone.  The refinement needs only the limit
and `OneActivePerUser` beside `RowsStep`.

**Uploads.** `RowMove` says what can become of a session's row, whoever acts on
it; `FinStep` and `PutStep` say what a step does to the requests.  The core of
`EvidenceIntact` is `ClaimInv`: tokens are drawn once, and a request that still
holds its session (or a commit of it that is still unknown) has read exactly the
chunks the session has now, because a session that is being finalised takes no
chunk.  `SavedInv` ties the rows to what was first recorded, `ObjectInv` the rows
to the storage: an object key is drawn once and the object of a request that has
not recorded it belongs to no row, so removing it destroys nothing.  `AckInv` puts
both together for what was acknowledged.

**The quota.** `QuotaHolds` is a sum over the sessions, compared with the limit in
the transaction that records a chunk, each session's count being itself a sum over
its chunks.  What a sum is for every finite set cannot be had by the library's
induction, whose theorems take an operator; it is proved instead from the least
counterexample: a set with the smallest cardinality on which two ways of summing
differ, or that has no sum, has an element without which it does not (`SumsAgree`,
`SumsExist`).  `TotalAdds` and `TotalGrows` say what a step needs: one summand grows
by `d`, or one is added, and so does the sum.  `SizeMoves` then shows that a step
records at most one chunk, in the window, and `AllowanceStays` that the allowance,
doubled by an appeal, is never taken back while sessions may rely on it.

**The vault.** `SeenMove` is what the vault can see of a move of one session's row,
`OnlyOneMoves` that one session moves at a time.  The files need no argument of
their own: before and after a step `EvidenceIntact` and `OneEvidencePerUpload` say
what they are (`FilesAre`).  The decision is PENDING exactly while the window may be
open, which needs that an open appeal is about a rejection (`OpenInv`).

**Cleanup.** The command acts on what it read earlier, so `CleanerInv` says why what
it holds is still removable when it acts: the session it took objects from stays
closed (`SessionTask`); an old object without a row was drawn once, its request is
over, and no other can name it (`OrphanTask`); a final object whose session was not
being finalised under its token can never be registered, and is not evidence once
that was looked up after (`FinalTask`).  `SpentInv` (what is stored was drawn) makes
"drawn once" usable.  The invariants of the uploads are then shown to survive a
step of the command (`Cleaned`), for which the claims about completed recordings
speak of `saved`, as the chunk rows may be gone; so do those about
acknowledgements, and the quota and the vault are proved of uploads and command
together.

**Retention and backup.** `DeletionInv` says what every step of a deletion leaves
behind: it was started under a final decision without a hold, and what is
committed is gone; no hold or appeal is granted afterwards, so `ProtectedEvidenceKept`
holds also for a deletion that arrives long after it was sent.  The backup does not
rely on its lock, which may be gone without its knowing.  No row of a recording
changes unless a row is added to `evidence_files` or to the audit journal in the
same transaction (`RowsWatched`), and neither table loses one.  So while the counts
have not moved, what the first inventory and the dump saw is still so (`CountsInv`),
and when the second inventory finds both counts unchanged, the dump offers exactly
what the manifest names, for good.  With `CopyInv` (what was listed was copied) that
is `VerifiedBackupIsComplete`.

**Sessions.** `DeadStaysDead`: a refresh token that is not the live one never
becomes it again, because every token has a serial of its own.  `HolderInv` is
about the tab inside the Web Lock: the request it waits for carries the refresh
token of the jar, so what it is told of that token is true of the jar.  Only one
tab is inside, so no other changes the jar's token meanwhile.

**The recorder.** Everything rests on when a session stops growing.  One page at a
time has a writer, the one inside the Web Lock (`LockInv`).  A session that is no
longer being recorded has nothing left in its writer's memory (`WriterInv`), so its
count of chunks is final, for itself and for the sessions that replace it
(`FamilyInv`); what the writer last asked and was answered is true of the server
(`AnswerInv`).  Local rows go only after a completion with exactly that count
(`ChunksInv`).  `Whole(s, n)`, that `n` blobs are all that was captured, nothing was
missed and nobody records any more, stays true for ever once it is true; a request
to complete without the mark is sent only then, so however late the server takes
it, it is still right (`WholeInv`).

**Certificates.** `CaseInv` describes each attempt's case file (row, history,
appeal); `CloseInv` says that an enrolment is, or is about to be, completed only
with a certificate there; `EarnedInv` that a proctored one rests on an attempt
whose approval stands (`ApprovalStands`).

**The feed.** Completeness is told event by event (`CoverInv`): for a page that is
live and in the room, an event is shown, or older than a full list of shown ones,
or on its way, by a delivery not yet checked, a message on the wire or a summary
not yet read.  What a merge keeps is a fact about the largest elements of a set
(`NewestKeeps`, again by an extreme counterexample).  A score is covered in the same
way: because the trust score only falls (`ScoresInv`), the lower of two answers is
the later one, and the page may take it whatever order they arrive in.
What was recorded unheard is covered by nothing until the page asks again: the
claims are made of the events outside `untold`, and an announced one never enters
it (`Told`).  `HearInv` ties a message to those entitled when its event was recorded or since.

Only model-checked: the liveness properties of `CleanupSweep` and `RetentionBackup`
(fairness and ENABLED are out of the prover's reach).  Every safety property of
every passing run is a theorem.

## 5. Plan and limits

What is left, in this order:

1. `EvidenceVault` as the server of `Recorder`, in place of the short server there.
2. The browser's draft saver as a client of `ExamAttempt`: what it shows as saved
   against what is saved.

### Not modelled

- *Lessons, steps, courses, modules, users, administrative lists*: reads, and
  single-row writes behind access checks.  What bears on a certificate is in
  `Certification`; the rest has no step that another actor could fall between
  with an effect worth a property, except the lesson's `completionSource` above.
- *`forgotPassword`* deletes old reset tokens and creates one without a
  transaction, so two requests can leave two valid links; the first reset deletes
  both, in its transaction, and ends every session.
- *Limits of the event stream* (per minute, per socket): they only refuse.
- *`verify` and `restore` of the backup tool*, *local temporary files*: one
  process alone, with files nobody else has.
- *Audit journal, mail, health checks, language model, PDF, storage adapter*: pure
  input and output; no decision of the modelled parts depends on their answers,
  but for the storage, which is modelled from its use, and the number of rows of
  the journal, which the backup compares (`audited`).
- *Pages, styles, landing page, seed data, deployment*: most of the repository's
  lines by count, without any state of the system that two actors share.  This is
  why the modelled lines are a small share of all lines: they are chosen for the
  concurrency, failure and time in them.
