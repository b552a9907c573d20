------------------------------ MODULE ExamAttempt ------------------------------
(***************************************************************************)
(* The life of the attempts at one exam: start, draft, submit and the lazy *)
(* expiry that every reader performs, racing with the teacher's edits of   *)
(* the exam (backend/src/attempts, backend/src/exams).                     *)
(*                                                                         *)
(* Every handler runs in serializable() (prisma/serializable.ts), so one   *)
(* handler is one action.  Two things are NOT atomic with it and are       *)
(* modelled apart: the wall clock, which a transaction may have read up to *)
(* TxTime before it commits, and the HTTP exchange, whose request may be   *)
(* delivered late, twice or never and whose answer may be lost.            *)
(*                                                                         *)
(* Data is abstracted to what the properties tell apart.  An answer sheet  *)
(* is a function from the answered questions to raw texts; a text is only  *)
(* compared through Canonical (normalizedAnswer).  Admission to the exam   *)
(* (enrollment, lessons, tasks) is decided before a start: a refused start *)
(* changes nothing.  ids that validateAnswerIds rejects never get further. *)
(***************************************************************************)
EXTENDS Integers, FiniteSets

CONSTANTS
  Users,        \* students
  Tabs,         \* browser tabs
  Owner,        \* Owner[tab]: the student signed in there
  Attempts,     \* attempt ids
  Questions,    \* question ids
  Answers,      \* raw answer texts
  Canonical,    \* Canonical[text]: its normal form
  PassScores,   \* pass scores a teacher may set
  Durations,    \* durations a teacher may set
  MaxAttempts,  \* MAX_ATTEMPTS_PER_EXAM
  Grace,        \* SUBMISSION_GRACE_MS
  TxTime,       \* longest time between a transaction's clock read and its commit
  MaxTime,      \* bound on the clock
  MaxRevision,  \* bound on the draft revision
  MaxRequests   \* bound on the requests in flight

ASSUME TabAssumption    == Owner \in [Tabs -> Users]
ASSUME TextAssumption   == Canonical \in [Answers -> Answers]
ASSUME QuestionAssumption == IsFiniteSet(Questions)
ASSUME ScoreAssumption  == PassScores \subseteq 0..100
ASSUME TimeAssumption   == /\ Durations \subseteq Nat \ {0}
                           /\ Grace \in Nat
                           /\ TxTime \in Nat
                           /\ MaxTime \in Nat
ASSUME BoundAssumption  == /\ MaxAttempts \in Nat \ {0}
                           /\ MaxRevision \in Nat
                           /\ MaxRequests \in Nat

VARIABLES
  examExists,  \* the exam row is there
  exam,        \* its settings and questions, as the teacher left them
  attempt,     \* attempt[a]: the row with id a
  now,         \* wall clock
  view,        \* view[tab]: the draft and revision the tab last received
  net,         \* requests on their way to the server
  pending,     \* submissions committed, webhook and answer still to be sent
  hooked,      \* history: hooked[a] is how often the webhook was called
  acked        \* history: the submissions whose sender was told the result

db     == <<examExists, exam, attempt>>
client == <<view, net>>
server == <<pending, hooked, acked>>
vars   == <<db, now, client, server>>

-----------------------------------------------------------------------------
(* Data *)

Sheet   == UNION {[Q -> Answers] : Q \in SUBSET Questions}
Content == [key : Sheet, passScore : PassScores, duration : Durations]
NoSheet == [q \in {} |-> q]

(* submissionDigest: a hash of the normalised answers, in no order. *)
Digest(sheet) == [q \in DOMAIN sheet |-> Canonical[sheet[q]]]

Correct(sheet, content) ==
  {q \in DOMAIN sheet \cap DOMAIN content.key :
      Canonical[sheet[q]] = Canonical[content.key[q]]}

(* Math.round(correct / questions * 100). *)
ScoreOf(sheet, content) ==
  LET n == Cardinality(DOMAIN content.key)
  IN  IF n = 0 THEN 0
      ELSE (200 * Cardinality(Correct(sheet, content)) + n) \div (2 * n)

NoRow == [status |-> "NONE"]

Row == [user : Users, startedAt : Nat, snapshot : Content,
        draft : Sheet, revision : Nat,
        status : {"IN_PROGRESS", "FINISHED", "FAILED"},
        answers : Sheet, score : Int, digest : Sheet]

Active(a)   == attempt[a].status = "IN_PROGRESS"
Finished(a) == attempt[a].status \in {"FINISHED", "FAILED"}
Of(u)       == {a \in Attempts : attempt[a] # NoRow /\ attempt[a].user = u}

-----------------------------------------------------------------------------
(* Time *)

Deadline(row) == row.startedAt + row.snapshot.duration

ExpiredWithoutGrace(row, t) == t > Deadline(row)              \* mutant
ExpiredAfterTwoGraces(row, t) == t > Deadline(row) + 2 * Grace  \* mutant

Expired(row, t) == t > Deadline(row) + Grace

(* The clock values a transaction that commits now may have read. *)
ClockReads == {t \in 0..now : now - t <= TxTime}

Tick == /\ now < MaxTime
        /\ now' = now + 1
        /\ UNCHANGED <<db, client, server>>

-----------------------------------------------------------------------------
(* Grading *)

Graded(row, sheet) ==
  LET score == ScoreOf(sheet, row.snapshot)
  IN  [row EXCEPT !.status   = IF score >= row.snapshot.passScore
                               THEN "FINISHED" ELSE "FAILED",
                  !.answers  = sheet,
                  !.score    = score,
                  !.digest   = Digest(sheet),
                  !.draft    = NoSheet,
                  !.revision = @ + 1]

(* finalizeExpiredAttempt: a late request grades only what was saved. *)
Finalized(row) == Graded(row, row.draft)

(* Mutant: an attempt already closed is finalised again. *)
ExpireAgain(S, t) ==
  [a \in Attempts |-> IF a \in S /\ attempt[a] # NoRow /\ Expired(attempt[a], t)
                      THEN Finalized(attempt[a]) ELSE attempt[a]]

(* The rows after every attempt of S that has expired is finalised. *)
ExpireIn(S, t) ==
  [a \in Attempts |-> IF a \in S /\ Active(a) /\ Expired(attempt[a], t)
                      THEN Finalized(attempt[a]) ELSE attempt[a]]

-----------------------------------------------------------------------------
(* Requests *)

NoView == [attempt |-> "none"]

View == [attempt : Attempts, revision : Nat, answers : Sheet]

(* base is history: the draft the tab was looking at when it sent this. *)
Request == [kind : {"save", "submit"}, tab : Tabs, attempt : Attempts,
            revision : Nat, base : Sheet, answers : Sheet]

Receipt == [attempt : Attempts, answers : Sheet, score : Int]

DraftOf(a) == [attempt |-> a, revision |-> attempt[a].revision,
               answers |-> attempt[a].draft]

(* The answer v reaches the tab, or is lost on its way. *)
Answer(tab, v) == view' \in {view, [view EXCEPT ![tab] = v]}

(* A handled request is gone, or its sender retries the very same one. *)
Handled(r) == r \in net /\ net' \in {net, net \ {r}}

Init ==
  /\ examExists = TRUE
  /\ exam \in {c \in Content : DOMAIN c.key # {}}
  /\ attempt = [a \in Attempts |-> NoRow]
  /\ now = 0
  /\ view = [tab \in Tabs |-> NoView]
  /\ net = {}
  /\ pending = {}
  /\ hooked = [a \in Attempts |-> 0]
  /\ acked = {}

(* The page sends its answers with the revision it last received. *)
Send(kind, tab, sheet) ==
  /\ view[tab] # NoView
  /\ Cardinality(net) < MaxRequests
  /\ DOMAIN sheet \subseteq DOMAIN attempt[view[tab].attempt].snapshot.key
  /\ net' = net \cup {[kind |-> kind, tab |-> tab,
                       attempt |-> view[tab].attempt,
                       revision |-> view[tab].revision,
                       base |-> view[tab].answers, answers |-> sheet]}
  /\ UNCHANGED <<db, now, view, server>>

(* The network drops a request, or its sender stops retrying it. *)
Lose(r) == /\ r \in net
           /\ net' = net \ {r}
           /\ UNCHANGED <<db, now, view, server>>

-----------------------------------------------------------------------------
(* Handlers of AttemptsService *)

NewRow(u, t) ==
  [user |-> u, startedAt |-> t, snapshot |-> exam, draft |-> NoSheet,
   revision |-> 0, status |-> "IN_PROGRESS", answers |-> NoSheet,
   score |-> 0, digest |-> NoSheet]

SomeActive(u)   == u \in Users                           \* mutant

NoneActive(u) == ~ \E a \in Of(u) : Active(a)
BelowLimit(u) == Cardinality(Of(u)) < MaxAttempts

CreateAttempt(tab, t) ==
  LET u == Owner[tab] IN
  /\ examExists
  /\ NoneActive(u)
  /\ DOMAIN exam.key # {}
  /\ BelowLimit(u)
  /\ \E a \in Attempts :
       /\ attempt[a] = NoRow
       /\ attempt' = [attempt EXCEPT ![a] = NewRow(u, t)]
       /\ Answer(tab, [attempt |-> a, revision |-> 0, answers |-> NoSheet])
  /\ UNCHANGED <<examExists, exam, now, net, server>>

ResumeAttempt(tab, t) ==
  /\ examExists
  /\ \E a \in Of(Owner[tab]) :
       /\ Active(a)
       /\ attempt' = ExpireIn({a}, t)
       /\ IF Expired(attempt[a], t) THEN UNCHANGED view
                                   ELSE Answer(tab, DraftOf(a))
  /\ UNCHANGED <<examExists, exam, now, net, server>>

(* startAttempt: an attempt in progress is resumed, else one is created. *)
StartAttempt(tab, t) == CreateAttempt(tab, t) \/ ResumeAttempt(tab, t)

GetDraft(tab, a, t) ==
  /\ a \in Of(Owner[tab])
  /\ Active(a)
  /\ attempt' = ExpireIn({a}, t)
  /\ IF Expired(attempt[a], t) THEN UNCHANGED view
                              ELSE Answer(tab, DraftOf(a))
  /\ UNCHANGED <<examExists, exam, now, net, server>>

AnyRevision(r) == r.kind = "save"                            \* mutant
SavedAtSameRevision(row, sheet) == [row EXCEPT !.draft = sheet]  \* mutant

CurrentRevision(r) == attempt[r.attempt].revision = r.revision

Saved(row, sheet) == [row EXCEPT !.draft = sheet, !.revision = @ + 1]

(* saveDraft.  A closed attempt or another revision is refused: no effect. *)
SaveDraft(r, t) ==
  LET a == r.attempt IN
  /\ r.kind = "save"
  /\ Handled(r)
  /\ Active(a)
  /\ \/ /\ Expired(attempt[a], t)
        /\ attempt' = ExpireIn({a}, t)
        /\ UNCHANGED view
     \/ /\ ~ Expired(attempt[a], t)
        /\ CurrentRevision(r)
        /\ r.revision < MaxRevision
        /\ attempt' = [attempt EXCEPT ![a] = Saved(@, r.answers)]
        /\ Answer(r.tab, [attempt |-> a, revision |-> r.revision + 1,
                          answers |-> r.answers])
  /\ UNCHANGED <<examExists, exam, now, server>>

(* The sender of submission r learns the result stored for its attempt. *)
ReceiptFor(r) == [attempt |-> r.attempt, answers |-> r.answers,
                  score |-> attempt[r.attempt].score]

(* submitAnswers on an attempt in progress; webhook and answer follow. *)
SubmitAnswers(r, t) ==
  LET a == r.attempt IN
  /\ r.kind = "submit"
  /\ Handled(r)
  /\ Active(a)
  /\ \/ /\ Expired(attempt[a], t)
        /\ attempt' = ExpireIn({a}, t)
        /\ UNCHANGED pending
     \/ /\ ~ Expired(attempt[a], t)
        /\ attempt' = [attempt EXCEPT ![a] = Graded(@, r.answers)]
        /\ pending' = pending \cup {r}
  /\ UNCHANGED <<examExists, exam, now, view, hooked, acked>>

AnySubmission(r) == Finished(r.attempt)  \* mutant

SameSubmission(r) == attempt[r.attempt].digest = Digest(r.answers)

(* Mutant: a replay is announced like a first submission. *)
ReplayAndNotify(r) ==
  /\ r.kind = "submit"
  /\ Handled(r)
  /\ Finished(r.attempt)
  /\ SameSubmission(r)
  /\ pending' = pending \cup {r}
  /\ UNCHANGED <<db, now, view, hooked, acked>>

(* submitAnswers on a closed attempt: only the same answers get the result. *)
ReplaySubmission(r) ==
  /\ r.kind = "submit"
  /\ Handled(r)
  /\ Finished(r.attempt)
  /\ SameSubmission(r)
  /\ acked' \in {acked, acked \cup {ReceiptFor(r)}}
  /\ UNCHANGED <<db, now, view, pending, hooked>>

(* notifyN8nExamSubmit after the commit, then the answer to the sender. *)
NotifyN8nExamSubmit(r) ==
  /\ r \in pending
  /\ pending' = pending \ {r}
  /\ hooked' = [hooked EXCEPT ![r.attempt] = @ + 1]
  /\ acked' \in {acked, acked \cup {ReceiptFor(r)}}
  /\ UNCHANGED <<db, now, client>>

(* The process dies between the commit and the webhook. *)
Crash == /\ pending # {}
         /\ pending' = {}
         /\ UNCHANGED <<db, now, client, hooked, acked>>

(* getAttempt, by its owner *)
GetAttempt(a, t) ==
  /\ Active(a)
  /\ Expired(attempt[a], t)
  /\ attempt' = ExpireIn({a}, t)
  /\ UNCHANGED <<examExists, exam, now, client, server>>

(* getUserAttempts *)
GetUserAttempts(u, t) ==
  /\ attempt' = ExpireIn(Of(u), t)
  /\ UNCHANGED <<examExists, exam, now, client, server>>

-----------------------------------------------------------------------------
(* Handlers of ExamsService; a refusal rolls the whole transaction back. *)

(* Mutant: those still in do not keep the teacher out. *)
EditableAnyway(t) == /\ examExists
                     /\ attempt' = ExpireIn(Attempts, t)

(* editableExam: finalise what expired, refuse while anyone is still in. *)
EditableExam(t) ==
  /\ examExists
  /\ \A a \in Attempts : Active(a) => Expired(attempt[a], t)
  /\ attempt' = ExpireIn(Attempts, t)

EditExam(t, content) ==
  /\ EditableExam(t)
  /\ exam' = content
  /\ UNCHANGED <<examExists, now, client, server>>

UpdateExam(t) ==
  \E p \in PassScores, d \in Durations :
     EditExam(t, [exam EXCEPT !.passScore = p, !.duration = d])

(* A new question's id differs from every id any snapshot knows. *)
AddQuestion(t) ==
  \E q \in Questions, k \in Answers :
     /\ q \notin DOMAIN exam.key
     /\ \A a \in Attempts :
          attempt[a] # NoRow => q \notin DOMAIN attempt[a].snapshot.key
     /\ EditExam(t, [exam EXCEPT !.key =
          [p \in DOMAIN exam.key \cup {q} |-> IF p = q THEN k ELSE exam.key[p]]])

UpdateQuestion(t) ==
  \E q \in DOMAIN exam.key, k \in Answers :
     EditExam(t, [exam EXCEPT !.key[q] = k])

(* Mutant: saved answers do not keep their question. *)
RemoveQuestionAnyway(t) ==
  \E q \in DOMAIN exam.key :
     EditExam(t, [exam EXCEPT !.key = [p \in DOMAIN exam.key \ {q} |-> exam.key[p]]])

(* Saved answers, those just finalised among them, keep their question. *)
RemoveQuestion(t) ==
  \E q \in DOMAIN exam.key :
     /\ EditExam(t, [exam EXCEPT !.key =
          [p \in DOMAIN exam.key \ {q} |-> exam.key[p]]])
     /\ \A a \in Attempts :
          attempt[a] # NoRow => q \notin DOMAIN (attempt'[a].answers)

RemoveExam(t) ==
  /\ EditableExam(t)
  /\ \A a \in Attempts : attempt[a] = NoRow
  /\ examExists' = FALSE
  /\ UNCHANGED <<exam, now, client, server>>

-----------------------------------------------------------------------------
Student(t) ==
  \/ \E tab \in Tabs : StartAttempt(tab, t)
  \/ \E tab \in Tabs, a \in Attempts : GetDraft(tab, a, t)
  \/ \E r \in net : SaveDraft(r, t)
  \/ \E r \in net : SubmitAnswers(r, t)
  \/ \E a \in Attempts : GetAttempt(a, t)
  \/ \E u \in Users : GetUserAttempts(u, t)

Teacher(t) == \/ UpdateExam(t)
              \/ AddQuestion(t)
              \/ UpdateQuestion(t)
              \/ RemoveQuestion(t)
              \/ RemoveExam(t)

Environment ==
  \/ Tick
  \/ Crash
  \/ \E kind \in {"save", "submit"}, tab \in Tabs, sheet \in Sheet :
        Send(kind, tab, sheet)
  \/ \E r \in net : Lose(r)
  \/ \E r \in net : ReplaySubmission(r)
  \/ \E r \in pending : NotifyN8nExamSubmit(r)

Next == \/ \E t \in ClockReads : Student(t) \/ Teacher(t)
        \/ Environment

Spec == Init /\ [][Next]_vars

-----------------------------------------------------------------------------
(* Properties *)

(* Type correctness of the rows, the clients' views and the requests. *)
TypeOK ==
  /\ examExists \in BOOLEAN
  /\ exam \in Content
  /\ attempt \in [Attempts -> Row \cup {NoRow}]
  /\ now \in Nat
  /\ view \in [Tabs -> View \cup {NoView}]
  /\ net \in SUBSET Request
  /\ pending \in SUBSET Request
  /\ hooked \in [Attempts -> Nat]
  /\ acked \in SUBSET Receipt

(* No user ever has two attempts in progress at the exam, however many     *)
(* tabs press start at once (the existing-attempt check of startAttempt).  *)
OneActivePerUser ==
  \A a, b \in Attempts :
     (Active(a) /\ Active(b) /\ attempt[a].user = attempt[b].user) => a = b

(* The limit on attempts per user and exam holds across all interleavings  *)
(* of starts, expiries and submissions.                                    *)
AttemptLimit == \A u \in Users : Cardinality(Of(u)) <= MaxAttempts

(* While anyone is still in the exam, what they were given, and will be    *)
(* graded against, is the exam as it stands: editableExam keeps edits out. *)
ExamStableWhileActive ==
  \A a \in Attempts : Active(a) => examExists /\ attempt[a].snapshot = exam

(* Every saved answer, draft or final, refers to a question that exists:   *)
(* otherwise answer.createMany would fail and the attempt never finish.    *)
AnswersReferToExam ==
  \A a \in Attempts : attempt[a] # NoRow =>
     /\ examExists
     /\ (DOMAIN attempt[a].answers) \cup (DOMAIN attempt[a].draft)
           \subseteq DOMAIN exam.key

(* A revision identifies a draft: a tab whose revision is current knows    *)
(* the saved draft.  This is what makes the revision check of saveDraft    *)
(* an optimistic lock.                                                     *)
RevisionIdentifiesDraft ==
  /\ \A tab \in Tabs : view[tab] # NoView =>
       LET row == attempt[view[tab].attempt] IN
       (row.status = "IN_PROGRESS" /\ view[tab].revision = row.revision)
         => view[tab].answers = row.draft
  /\ \A r \in net :
       LET row == attempt[r.attempt] IN
       (row.status = "IN_PROGRESS" /\ r.revision = row.revision)
         => r.base = row.draft

(* A draft is overwritten only by a tab that had seen it: two tabs, late   *)
(* and repeated requests never silently discard each other's answers.      *)
NoLostUpdate ==
  [][\A a \in Attempts :
       (Active(a) /\ Active(a)' /\ attempt'[a].draft # attempt[a].draft)
         => \E r \in net : /\ r.kind = "save" /\ r.attempt = a
                           /\ r.base = attempt[a].draft
                           /\ r.answers = attempt'[a].draft]_vars

(* Once the time, the grace and the longest transaction are over, nothing  *)
(* can happen to an attempt except being graded on the answers saved in    *)
(* time: neither a late draft nor a late submission gets in.               *)
LateAnswersIgnored ==
  [][\A a \in Attempts :
       (Active(a) /\ now > Deadline(attempt[a]) + Grace + TxTime)
         => attempt'[a] \in {attempt[a], Finalized(attempt[a])}]_vars

(* Until the grace is over an attempt is closed only by the student's own  *)
(* submission, with its answers: no reader or edit finishes it early.      *)
NotClosedEarly ==
  [][\A a \in Attempts :
       (Active(a) /\ ~ Active(a)' /\ now <= Deadline(attempt[a]) + Grace)
         => \E r \in net : /\ r.kind = "submit" /\ r.attempt = a
                           /\ r.answers = attempt'[a].answers]_vars

(* Whoever is told a result is told the grade of the answers they sent,    *)
(* also when a retry is answered from the stored attempt, and those are    *)
(* the answers the attempt was graded on.                                  *)
AckedSubmissionCounted ==
  \A k \in acked :
     /\ Finished(k.attempt)
     /\ attempt[k.attempt].digest = Digest(k.answers)
     /\ k.score = ScoreOf(k.answers, attempt[k.attempt].snapshot)

(* The webhook of an attempt is called at most once, and only about a      *)
(* finished attempt: a replayed submission does not call it again.         *)
WebhookAtMostOnce ==
  \A a \in Attempts :
     /\ hooked[a] + Cardinality({r \in pending : r.attempt = a}) <= 1
     /\ hooked[a] = 1 => Finished(a)

(* The promise of AttemptLedger, read off the rows. *)
LedgerEntry(row) ==
  IF row = NoRow THEN [state |-> "free"]
  ELSE IF row.status = "IN_PROGRESS"
       THEN [state |-> "open", user |-> row.user, content |-> row.snapshot]
       ELSE [state |-> "graded", user |-> row.user, content |-> row.snapshot,
             answers |-> row.answers, score |-> row.score,
             passed |-> row.status = "FINISHED"]

Ledger == INSTANCE AttemptLedger
            WITH ledger <- [a \in Attempts |-> LedgerEntry(attempt[a])]

(* The service implements the ledger: one open attempt per user, graded    *)
(* once and for ever, against the exam as it was on opening.               *)
ImplementsLedger == Ledger!Spec
=============================================================================
