--------------------------- MODULE ExamAttemptProofs ---------------------------
(***************************************************************************)
(* Proofs about ExamAttempt, for every value of its constants.             *)
(*                                                                         *)
(* Every handler touches the rows in one of five ways.  RowsStep says so   *)
(* once, and the properties of the rows follow from it.                    *)
(***************************************************************************)
EXTENDS ExamAttempt, FiniteSetTheorems, TLAPS

-----------------------------------------------------------------------------
(* Answer sheets and grades *)

(* A sheet maps the answered questions to texts. *)
LEMMA SheetElements ==
  ASSUME NEW f
  PROVE  f \in Sheet <=> /\ DOMAIN f \in SUBSET Questions
                         /\ f \in [DOMAIN f -> Answers]
  BY DEF Sheet

LEMMA EmptySheet == NoSheet \in Sheet
<1>1. DOMAIN NoSheet = {} /\ NoSheet \in [{} -> Answers]
  BY DEF NoSheet
<1> QED BY <1>1, SheetElements

(* The digest of a sheet is again a sheet. *)
LEMMA DigestType ==
  ASSUME NEW sheet \in Sheet
  PROVE  Digest(sheet) \in Sheet
<1>1. \A q \in DOMAIN sheet : sheet[q] \in Answers
  BY SheetElements
<1>2. \A q \in DOMAIN sheet : Canonical[sheet[q]] \in Answers
  BY <1>1, TextAssumption
<1>3. Digest(sheet) \in [DOMAIN sheet -> Answers]
  BY <1>2 DEF Digest
<1> QED BY <1>3, SheetElements

(* A grade is an integer, also when the exam has no question. *)
LEMMA ScoreType ==
  ASSUME NEW sheet, NEW content \in Content
  PROVE  ScoreOf(sheet, content) \in Int
<1> DEFINE n == Cardinality(DOMAIN content.key)
           c == Cardinality(Correct(sheet, content))
<1>1. content.key \in Sheet
  BY DEF Content
<1>2. IsFiniteSet(DOMAIN content.key)
  BY <1>1, SheetElements, QuestionAssumption, FS_Subset
<1>3. Correct(sheet, content) \subseteq DOMAIN content.key
  BY DEF Correct
<1>4. n \in Nat /\ c \in Nat
  BY <1>2, <1>3, FS_Subset, FS_CardinalityType
<1>5. ScoreOf(sheet, content) = IF n = 0 THEN 0 ELSE (200 * c + n) \div (2 * n)
  BY DEF ScoreOf
<1> HIDE DEF n, c
<1>6. CASE n = 0
  BY <1>5, <1>6
<1>7. CASE n # 0
  <2>1. (200 * c + n) \in Int /\ 2 * n \in Int /\ 2 * n > 0
    BY <1>4, <1>7
  <2>2. (200 * c + n) \div (2 * n) \in Int
    BY <2>1
  <2> QED BY <1>5, <1>7, <2>2
<1> QED BY <1>6, <1>7

(* Grading a row yields a closed row. *)
LEMMA GradedType ==
  ASSUME NEW row \in Row, NEW sheet \in Sheet
  PROVE  /\ Graded(row, sheet) \in Row
         /\ Graded(row, sheet).status \in {"FINISHED", "FAILED"}
         /\ Graded(row, sheet).user = row.user
         /\ Graded(row, sheet).snapshot = row.snapshot
         /\ Graded(row, sheet).answers = sheet
         /\ Graded(row, sheet).revision = row.revision + 1
<1>1. ScoreOf(sheet, row.snapshot) \in Int
  BY ScoreType DEF Row
<1>2. Digest(sheet) \in Sheet /\ NoSheet \in Sheet
  BY DigestType, EmptySheet
<1>3. row.revision + 1 \in Nat
  BY DEF Row
<1> QED BY <1>1, <1>2, <1>3 DEF Graded, Row

LEMMA FinalizedType ==
  ASSUME NEW row \in Row
  PROVE  /\ Finalized(row) \in Row
         /\ Finalized(row).status \in {"FINISHED", "FAILED"}
         /\ Finalized(row).user = row.user
         /\ Finalized(row).snapshot = row.snapshot
         /\ Finalized(row).answers = row.draft
         /\ Finalized(row).revision = row.revision + 1
<1>1. row.draft \in Sheet
  BY DEF Row
<1> QED BY <1>1, GradedType DEF Finalized

(* Saving a draft leaves a row a row. *)
LEMMA SavedType ==
  ASSUME NEW row \in Row, NEW sheet \in Sheet
  PROVE  /\ Saved(row, sheet) \in Row
         /\ Saved(row, sheet).status = row.status
         /\ Saved(row, sheet).user = row.user
         /\ Saved(row, sheet).snapshot = row.snapshot
         /\ Saved(row, sheet).draft = sheet
         /\ Saved(row, sheet).revision = row.revision + 1
<1>1. row.revision + 1 \in Nat
  BY DEF Row
<1> QED BY <1>1 DEF Saved, Row

-----------------------------------------------------------------------------
(* What a step does to the rows *)

Rows == [Attempts -> Row \cup {NoRow}]

Kept(a) == attempt'[a] = attempt[a]

ClosedAt(a, t) == /\ Active(a)
                  /\ Expired(attempt[a], t)
                  /\ attempt'[a] = Finalized(attempt[a])

SavedBy(a, r, t) ==
  /\ r \in net
  /\ r.kind = "save"
  /\ r.attempt = a
  /\ Active(a)
  /\ ~ Expired(attempt[a], t)
  /\ attempt[a].revision = r.revision
  /\ attempt'[a] = Saved(attempt[a], r.answers)

SubmittedBy(a, r, t) ==
  /\ r \in net
  /\ r.kind = "submit"
  /\ r.attempt = a
  /\ Active(a)
  /\ ~ Expired(attempt[a], t)
  /\ attempt'[a] = Graded(attempt[a], r.answers)

(* One new row, for a user with none in progress and fewer than the limit. *)
Opens(a, tab, t) ==
  /\ examExists
  /\ NoneActive(Owner[tab])
  /\ BelowLimit(Owner[tab])
  /\ attempt[a] = NoRow
  /\ attempt' = [attempt EXCEPT ![a] = NewRow(Owner[tab], t)]
  /\ UNCHANGED <<examExists, exam>>

(* Rows in progress are saved, submitted or closed; the others are kept. *)
Updates(t) ==
  /\ attempt' \in Rows
  /\ \A a \in Attempts :
       \/ Kept(a)
       \/ ClosedAt(a, t)
       \/ \E r \in net : SavedBy(a, r, t) \/ SubmittedBy(a, r, t)

LEMMA RowCases ==
  ASSUME TypeOK, NEW a \in Attempts
  PROVE  /\ attempt[a] \in Row \cup {NoRow}
         /\ Active(a) => attempt[a] \in Row
         /\ Finished(a) => attempt[a] \in Row
         /\ attempt[a] # NoRow => attempt[a] \in Row
  BY DEF TypeOK, Active, Finished, NoRow

(* Expiring rows keeps or closes each of them. *)
LEMMA ExpireStep ==
  ASSUME TypeOK, NEW S, NEW t, attempt' = ExpireIn(S, t)
  PROVE  /\ attempt' \in Rows
         /\ \A a \in Attempts : Kept(a) \/ ClosedAt(a, t)
         /\ \A a \in Attempts \cap S : Active(a) /\ Expired(attempt[a], t)
                                          => attempt'[a] = Finalized(attempt[a])
<1>1. \A a \in Attempts :
        attempt'[a] = IF a \in S /\ Active(a) /\ Expired(attempt[a], t)
                      THEN Finalized(attempt[a]) ELSE attempt[a]
  BY DEF ExpireIn
<1>2. \A a \in Attempts : attempt'[a] \in Row \cup {NoRow}
  BY <1>1, RowCases, FinalizedType
<1>3. attempt' \in Rows
  BY <1>2 DEF ExpireIn, Rows
<1> QED BY <1>1, <1>3 DEF Kept, ClosedAt

(* Replacing one row in progress is an update. *)
LEMMA ReplaceStep ==
  ASSUME TypeOK, NEW a \in Attempts, NEW row \in Row, NEW t,
         attempt' = [attempt EXCEPT ![a] = row],
         \E r \in net : SavedBy(a, r, t) \/ SubmittedBy(a, r, t)
  PROVE  Updates(t)
<1>1. attempt \in Rows
  BY DEF TypeOK, Rows
<1>2. attempt' \in Rows
  BY <1>1 DEF Rows
<1>3. \A b \in Attempts : b # a => attempt'[b] = attempt[b]
  BY <1>1 DEF Rows
<1> QED BY <1>2, <1>3 DEF Updates, Kept

LEMMA ClockReadsNat == ASSUME TypeOK PROVE ClockReads \subseteq Nat /\ now \in ClockReads
  BY TimeAssumption DEF ClockReads, TypeOK

LEMMA NewRowType ==
  ASSUME TypeOK, NEW u \in Users, NEW t \in Nat
  PROVE  NewRow(u, t) \in Row
  BY EmptySheet DEF NewRow, Row, TypeOK

LEMMA KeptStep ==
  ASSUME TypeOK, UNCHANGED attempt, NEW t
  PROVE  Updates(t)
  BY DEF Updates, Kept, TypeOK, Rows

(* A handler of the student opens one attempt or updates some. *)
LEMMA StudentStep ==
  ASSUME TypeOK, NEW t \in ClockReads, Student(t)
  PROVE  \/ Updates(t)
         \/ \E a \in Attempts, tab \in Tabs : Opens(a, tab, t)
<1>1. ASSUME NEW tab \in Tabs, CreateAttempt(tab, t)
      PROVE  \E a \in Attempts : Opens(a, tab, t)
  BY <1>1 DEF CreateAttempt, Opens
<1>2. ASSUME NEW tab \in Tabs, ResumeAttempt(tab, t)
      PROVE  Updates(t)
  BY <1>2, ExpireStep DEF ResumeAttempt, Updates
<1>3. ASSUME NEW tab \in Tabs, NEW a \in Attempts, GetDraft(tab, a, t)
      PROVE  Updates(t)
  BY <1>3, ExpireStep DEF GetDraft, Updates
<1>4. ASSUME NEW r \in net, SaveDraft(r, t)
      PROVE  Updates(t)
  <2>1. r \in Request /\ r.attempt \in Attempts /\ r.answers \in Sheet
    BY DEF TypeOK, Request
  <2> DEFINE a == r.attempt
             row == Saved(attempt[a], r.answers)
  <2>2. Active(a) /\ attempt[a] \in Row
    BY <1>4, <2>1, RowCases DEF SaveDraft
  <2>3. CASE Expired(attempt[a], t)
    <3>1. attempt' = ExpireIn({a}, t)
      BY <1>4, <2>3 DEF SaveDraft
    <3> QED BY <3>1, ExpireStep DEF Updates
  <2>4. CASE ~ Expired(attempt[a], t)
    <3>1. row \in Row
      BY <2>1, <2>2, SavedType
    <3>2. /\ r.kind = "save"
          /\ attempt[a].revision = r.revision
          /\ attempt' = [attempt EXCEPT ![a] = row]
      BY <1>4, <2>4 DEF SaveDraft, CurrentRevision
    <3>3. attempt \in Rows
      BY DEF TypeOK, Rows
    <3>4. SavedBy(a, r, t)
      BY <3>2, <3>3, <2>1, <2>2, <2>4 DEF SavedBy, Rows
    <3> QED BY <3>1, <3>2, <3>4, <2>1, ReplaceStep
  <2> QED BY <2>3, <2>4
<1>5. ASSUME NEW r \in net, SubmitAnswers(r, t)
      PROVE  Updates(t)
  <2>1. r \in Request /\ r.attempt \in Attempts /\ r.answers \in Sheet
    BY DEF TypeOK, Request
  <2> DEFINE a == r.attempt
  <2>2. Active(a) /\ attempt[a] \in Row
    BY <1>5, <2>1, RowCases DEF SubmitAnswers
  <2>3. CASE Expired(attempt[a], t)
    <3>1. attempt' = ExpireIn({a}, t)
      BY <1>5, <2>3 DEF SubmitAnswers
    <3> QED BY <3>1, ExpireStep DEF Updates
  <2>4. CASE ~ Expired(attempt[a], t)
    <3>1. r.kind = "submit" /\ attempt' = [attempt EXCEPT ![a] = Graded(attempt[a], r.answers)]
      BY <1>5, <2>4 DEF SubmitAnswers
    <3>2. Graded(attempt[a], r.answers) \in Row
      BY <2>1, <2>2, GradedType
    <3>3. attempt \in Rows
      BY DEF TypeOK, Rows
    <3>4. SubmittedBy(a, r, t)
      BY <3>1, <3>3, <2>1, <2>2, <2>4 DEF SubmittedBy, Rows
    <3> QED BY <3>1, <3>2, <3>4, <2>1, ReplaceStep
  <2> QED BY <2>3, <2>4
<1>6. ASSUME NEW a \in Attempts, GetAttempt(a, t)
      PROVE  Updates(t)
  BY <1>6, ExpireStep DEF GetAttempt, Updates
<1>7. ASSUME NEW u \in Users, GetUserAttempts(u, t)
      PROVE  Updates(t)
  BY <1>7, ExpireStep DEF GetUserAttempts, Updates
<1> QED BY <1>1, <1>2, <1>3, <1>4, <1>5, <1>6, <1>7 DEF Student, StartAttempt

(* An edit of the exam closes what has expired. *)
LEMMA TeacherStep ==
  ASSUME TypeOK, NEW t \in ClockReads, Teacher(t)
  PROVE  /\ Updates(t)
         /\ EditableExam(t)
<1>1. EditableExam(t)
  BY DEF Teacher, UpdateExam, AddQuestion, UpdateQuestion, RemoveQuestion,
         RemoveExam, EditExam
<1>2. attempt' = ExpireIn(Attempts, t)
  BY <1>1 DEF EditableExam
<1> QED BY <1>1, <1>2, ExpireStep DEF Updates

LEMMA EnvironmentStep ==
  ASSUME Environment
  PROVE  UNCHANGED db
  BY DEF Environment, Tick, Crash, Send, Lose, ReplaySubmission,
         NotifyN8nExamSubmit, db

(* Every step opens one attempt or updates some, at a recent clock read. *)
LEMMA RowsStep ==
  ASSUME TypeOK, Next
  PROVE  \E t \in ClockReads :
            \/ Updates(t)
            \/ \E a \in Attempts, tab \in Tabs : Opens(a, tab, t)
<1>1. CASE Environment
  BY <1>1, EnvironmentStep, KeptStep, ClockReadsNat DEF db
<1>2. CASE \E t \in ClockReads : Student(t) \/ Teacher(t)
  BY <1>2, StudentStep, TeacherStep
<1> QED BY <1>1, <1>2 DEF Next

(* The same, seen from one row. *)
LEMMA RowFate ==
  ASSUME TypeOK, Next, NEW a \in Attempts
  PROVE  \/ Kept(a)
         \/ \E t \in ClockReads :
              \/ ClosedAt(a, t)
              \/ \E r \in net : SavedBy(a, r, t) \/ SubmittedBy(a, r, t)
              \/ \E tab \in Tabs : Opens(a, tab, t)
<1>1. PICK t \in ClockReads :
         \/ Updates(t)
         \/ \E b \in Attempts, tab \in Tabs : Opens(b, tab, t)
  BY RowsStep
<1>2. CASE Updates(t)
  BY <1>2 DEF Updates
<1>3. ASSUME NEW b \in Attempts, NEW tab \in Tabs, Opens(b, tab, t)
      PROVE  Kept(a) \/ Opens(a, tab, t)
  BY <1>3 DEF Opens, Kept, TypeOK
<1> QED BY <1>1, <1>2, <1>3

LEMMA RowsType ==
  ASSUME TypeOK, Next
  PROVE  attempt' \in Rows
<1>1. PICK t \in ClockReads :
         \/ Updates(t)
         \/ \E a \in Attempts, tab \in Tabs : Opens(a, tab, t)
  BY RowsStep
<1>2. CASE Updates(t)
  BY <1>2 DEF Updates
<1>3. ASSUME NEW a \in Attempts, NEW tab \in Tabs, Opens(a, tab, t)
      PROVE  attempt' \in Rows
  <2>1. Owner[tab] \in Users /\ t \in Nat
    BY TabAssumption, ClockReadsNat
  <2>2. NewRow(Owner[tab], t) \in Row
    BY <2>1, NewRowType
  <2> QED BY <1>3, <2>2 DEF Opens, TypeOK, Rows
<1> QED BY <1>1, <1>2, <1>3

(* A closed attempt never changes: its grade stands. *)
LEMMA ClosedStays ==
  ASSUME TypeOK, Next, NEW a \in Attempts, Finished(a)
  PROVE  Kept(a) /\ Finished(a)'
<1>1. attempt[a].status # "IN_PROGRESS" /\ attempt[a] # NoRow
  BY DEF Finished, NoRow
<1>2. Kept(a)
  BY <1>1, RowFate DEF ClosedAt, SavedBy, SubmittedBy, Opens, Active
<1> QED BY <1>2 DEF Kept, Finished

-----------------------------------------------------------------------------
(* What a step does to the clients *)

(* A tab keeps its view, or is shown the draft of an attempt in progress as *)
(* the step leaves it.                                                     *)
Shown(tab) ==
  \/ view'[tab] = view[tab]
  \/ \E a \in Attempts : Active(a)' /\ view'[tab] = DraftOf(a)'

LEMMA AnswerShown ==
  ASSUME TypeOK, NEW tab \in Tabs, NEW a \in Attempts, NEW v,
         Active(a)', v = DraftOf(a)', Answer(tab, v)
  PROVE  /\ \A other \in Tabs : Shown(other)
         /\ view' = [i \in Tabs |-> view'[i]]
  BY DEF TypeOK, Answer, Shown

LEMMA KeptShown ==
  ASSUME TypeOK, UNCHANGED view
  PROVE  /\ \A tab \in Tabs : Shown(tab)
         /\ view' = [i \in Tabs |-> view'[i]]
  BY DEF TypeOK, Shown

(* An attempt read before its expiry is left as it is. *)
LEMMA NotExpiredKept ==
  ASSUME TypeOK, NEW a \in Attempts, NEW t, Active(a), ~ Expired(attempt[a], t),
         attempt' = ExpireIn({a}, t)
  PROVE  Active(a)' /\ DraftOf(a)' = DraftOf(a)
<1>1. attempt'[a] = attempt[a]
  BY DEF ExpireIn
<1> QED BY <1>1 DEF Active, DraftOf

LEMMA ViewStep ==
  ASSUME TypeOK, Next
  PROVE  /\ \A tab \in Tabs : Shown(tab)
         /\ view' = [i \in Tabs |-> view'[i]]
<1> DEFINE Goal == /\ \A tab \in Tabs : Shown(tab)
                   /\ view' = [i \in Tabs |-> view'[i]]
<1>1. ASSUME NEW t \in ClockReads, NEW tab \in Tabs, CreateAttempt(tab, t)
      PROVE  Goal
  <2>1. PICK a \in Attempts :
          /\ attempt' = [attempt EXCEPT ![a] = NewRow(Owner[tab], t)]
          /\ Answer(tab, [attempt |-> a, revision |-> 0, answers |-> NoSheet])
    BY <1>1 DEF CreateAttempt
  <2>2. attempt'[a] = NewRow(Owner[tab], t)
    BY <2>1 DEF TypeOK
  <2>3. /\ Active(a)'
        /\ DraftOf(a)' = [attempt |-> a, revision |-> 0, answers |-> NoSheet]
    BY <2>2 DEF Active, DraftOf, NewRow
  <2> QED BY <2>1, <2>3, AnswerShown
<1>2. ASSUME NEW t \in ClockReads, NEW tab \in Tabs, ResumeAttempt(tab, t)
      PROVE  Goal
  <2>1. PICK a \in Of(Owner[tab]) :
          /\ Active(a)
          /\ attempt' = ExpireIn({a}, t)
          /\ IF Expired(attempt[a], t) THEN UNCHANGED view
                                      ELSE Answer(tab, DraftOf(a))
    BY <1>2 DEF ResumeAttempt
  <2>2. a \in Attempts
    BY DEF Of
  <2>3. CASE Expired(attempt[a], t)
    BY <2>1, <2>3, KeptShown
  <2>4. CASE ~ Expired(attempt[a], t)
    <3>1. Active(a)' /\ DraftOf(a)' = DraftOf(a)
      BY <2>1, <2>2, <2>4, NotExpiredKept
    <3> QED BY <2>1, <2>2, <2>4, <3>1, AnswerShown
  <2> QED BY <2>3, <2>4
<1>3. ASSUME NEW t \in ClockReads, NEW tab \in Tabs, NEW a \in Attempts,
             GetDraft(tab, a, t)
      PROVE  Goal
  <2>1. CASE Expired(attempt[a], t)
    BY <1>3, <2>1, KeptShown DEF GetDraft
  <2>2. CASE ~ Expired(attempt[a], t)
    <3>1. Active(a) /\ attempt' = ExpireIn({a}, t) /\ Answer(tab, DraftOf(a))
      BY <1>3, <2>2 DEF GetDraft
    <3>2. Active(a)' /\ DraftOf(a)' = DraftOf(a)
      BY <2>2, <3>1, NotExpiredKept
    <3> QED BY <3>1, <3>2, AnswerShown
  <2> QED BY <2>1, <2>2
<1>4. ASSUME NEW t \in ClockReads, NEW r \in net, SaveDraft(r, t)
      PROVE  Goal
  <2> DEFINE a == r.attempt
             v == [attempt |-> a, revision |-> r.revision + 1, answers |-> r.answers]
  <2>1. a \in Attempts /\ r.tab \in Tabs
    BY DEF TypeOK, Request
  <2>2. CASE UNCHANGED view
    BY <2>2, KeptShown
  <2>3. CASE /\ Active(a)
             /\ attempt[a].revision = r.revision
             /\ attempt' = [attempt EXCEPT ![a] = Saved(@, r.answers)]
             /\ Answer(r.tab, v)
    <3>1. attempt[a] \in Row
      BY <2>1, <2>3, RowCases
    <3>2. /\ attempt'[a].status = "IN_PROGRESS"
          /\ attempt'[a].revision = r.revision + 1
          /\ attempt'[a].draft = r.answers
      BY <2>1, <2>3, <3>1, SavedType DEF TypeOK, Active, Request
    <3>3. Active(a)' /\ DraftOf(a)' = v
      BY <3>2 DEF Active, DraftOf
    <3> QED BY <2>1, <2>3, <3>3, AnswerShown
  <2> QED BY <1>4, <2>2, <2>3 DEF SaveDraft, CurrentRevision
<1>5. ASSUME NEW t \in ClockReads,
             \/ \E r \in net : SubmitAnswers(r, t)
             \/ \E a \in Attempts : GetAttempt(a, t)
             \/ \E u \in Users : GetUserAttempts(u, t)
             \/ Teacher(t)
      PROVE  Goal
  <2>1. UNCHANGED view
    BY <1>5 DEF SubmitAnswers, GetAttempt, GetUserAttempts, Teacher, UpdateExam,
         AddQuestion, UpdateQuestion, RemoveQuestion, RemoveExam, EditExam, client
  <2> QED BY <2>1, KeptShown
<1>6. CASE Environment
  <2>1. UNCHANGED view
    BY <1>6 DEF Environment, Tick, Crash, Send, Lose, ReplaySubmission,
                NotifyN8nExamSubmit, client
  <2> QED BY <2>1, KeptShown
<1> QED BY <1>1, <1>2, <1>3, <1>4, <1>5, <1>6 DEF Next, Student, StartAttempt

(* A request in flight was there before, or carries what its tab then saw. *)
SentBy(r, tab) == /\ view[tab] # NoView
                  /\ r.attempt = view[tab].attempt
                  /\ r.revision = view[tab].revision
                  /\ r.base = view[tab].answers
                  /\ DOMAIN r.answers
                       \subseteq DOMAIN attempt[r.attempt].snapshot.key

LEMMA NetStep ==
  ASSUME TypeOK, Next, NEW r \in net'
  PROVE  \/ r \in net
         \/ /\ r \in Request
            /\ \E tab \in Tabs : SentBy(r, tab)
            /\ UNCHANGED attempt
<1>1. CASE r \in net
  BY <1>1
<1>2. ASSUME r \notin net
      PROVE  \E kind \in {"save", "submit"}, tab \in Tabs, sheet \in Sheet :
                Send(kind, tab, sheet)
  <2>1. \A s : Handled(s) => r \in net
    BY DEF Handled
  <2>2. ASSUME NEW t \in ClockReads, Student(t) PROVE FALSE
    BY <1>2, <2>1, <2>2 DEF Student, StartAttempt, CreateAttempt, ResumeAttempt,
         GetDraft, SaveDraft, SubmitAnswers, GetAttempt, GetUserAttempts, client
  <2>3. ASSUME NEW t \in ClockReads, Teacher(t) PROVE FALSE
    BY <1>2, <2>3 DEF Teacher, UpdateExam, AddQuestion, UpdateQuestion,
         RemoveQuestion, RemoveExam, EditExam, client
  <2>4. Environment
    BY <2>2, <2>3 DEF Next
  <2> QED BY <1>2, <2>1, <2>4 DEF Environment, Tick, Crash, Lose,
         ReplaySubmission, NotifyN8nExamSubmit, client
<1>3. ASSUME NEW kind \in {"save", "submit"}, NEW tab \in Tabs, NEW sheet \in Sheet,
             Send(kind, tab, sheet), r \notin net
      PROVE  r \in Request /\ SentBy(r, tab) /\ UNCHANGED attempt
  <2>1. /\ view[tab] # NoView
        /\ r = [kind |-> kind, tab |-> tab, attempt |-> view[tab].attempt,
                revision |-> view[tab].revision, base |-> view[tab].answers,
                answers |-> sheet]
        /\ DOMAIN sheet \subseteq DOMAIN attempt[view[tab].attempt].snapshot.key
        /\ UNCHANGED attempt
    BY <1>3 DEF Send, db
  <2>2. view[tab] \in View
    BY <2>1 DEF TypeOK
  <2> QED BY <2>1, <2>2 DEF SentBy, Request, View
<1> QED BY <1>1, <1>2, <1>3

-----------------------------------------------------------------------------
(* Type correctness *)

(* What is pending has been graded: the webhook has a score to report. *)
PendingGraded == \A r \in pending : Finished(r.attempt)

TypeInv == TypeOK /\ PendingGraded

LEMMA InitTypeInv == Init => TypeInv
<1> SUFFICES ASSUME Init PROVE TypeInv
  OBVIOUS
<1>1. attempt \in [Attempts -> Row \cup {NoRow}]
  BY DEF Init
<1>2. view \in [Tabs -> View \cup {NoView}]
  BY DEF Init
<1>3. hooked \in [Attempts -> Nat]
  BY DEF Init
<1> QED BY <1>1, <1>2, <1>3 DEF Init, TypeInv, TypeOK, PendingGraded

(* The edits of the teacher leave an exam an exam. *)
LEMMA ExamType ==
  ASSUME TypeOK, Next
  PROVE  examExists' \in BOOLEAN /\ exam' \in Content
<1> DEFINE Goal == examExists' \in BOOLEAN /\ exam' \in Content
<1>1. exam.key \in Sheet /\ exam \in Content /\ examExists \in BOOLEAN
  BY DEF TypeOK, Content
<1>2. /\ DOMAIN exam.key \subseteq Questions
      /\ \A q \in DOMAIN exam.key : exam.key[q] \in Answers
      /\ exam.key \in [DOMAIN exam.key -> Answers]
  BY <1>1, SheetElements
<1>3. ASSUME NEW sheet \in Sheet, exam' = [exam EXCEPT !.key = sheet],
             UNCHANGED examExists
      PROVE  Goal
  BY <1>1, <1>3 DEF Content
<1>4. ASSUME NEW t, UpdateExam(t) PROVE Goal
  <2>1. PICK p \in PassScores, d \in Durations :
          EditExam(t, [exam EXCEPT !.passScore = p, !.duration = d])
    BY <1>4 DEF UpdateExam
  <2>2. exam' = [exam EXCEPT !.passScore = p, !.duration = d] /\ UNCHANGED examExists
    BY <2>1 DEF EditExam
  <2> QED BY <1>1, <2>2 DEF Content
<1>5. ASSUME NEW t, AddQuestion(t) PROVE Goal
  <2>1. PICK q \in Questions, k \in Answers :
          EditExam(t, [exam EXCEPT !.key =
            [p \in DOMAIN exam.key \cup {q} |-> IF p = q THEN k ELSE exam.key[p]]])
    BY <1>5 DEF AddQuestion
  <2> DEFINE sheet == [p \in DOMAIN exam.key \cup {q} |->
                         IF p = q THEN k ELSE exam.key[p]]
  <2>2. sheet \in [DOMAIN exam.key \cup {q} -> Answers]
    BY <1>2
  <2>3. sheet \in Sheet
    BY <1>2, <2>2, SheetElements
  <2>4. exam' = [exam EXCEPT !.key = sheet] /\ UNCHANGED examExists
    BY <2>1 DEF EditExam
  <2> QED BY <1>3, <2>3, <2>4
<1>6. ASSUME NEW t, UpdateQuestion(t) PROVE Goal
  <2>1. PICK q \in DOMAIN exam.key, k \in Answers :
          EditExam(t, [exam EXCEPT !.key[q] = k])
    BY <1>6 DEF UpdateQuestion
  <2> DEFINE sheet == [exam.key EXCEPT ![q] = k]
  <2>2. sheet \in [DOMAIN exam.key -> Answers]
    BY <1>2
  <2>3. sheet \in Sheet
    BY <1>2, <2>2, SheetElements
  <2>4. exam' = [exam EXCEPT !.key = sheet] /\ UNCHANGED examExists
    BY <2>1 DEF EditExam
  <2> QED BY <1>3, <2>3, <2>4
<1>7. ASSUME NEW t, RemoveQuestion(t) PROVE Goal
  <2>1. PICK q \in DOMAIN exam.key :
          EditExam(t, [exam EXCEPT !.key = [p \in DOMAIN exam.key \ {q} |-> exam.key[p]]])
    BY <1>7 DEF RemoveQuestion
  <2> DEFINE sheet == [p \in DOMAIN exam.key \ {q} |-> exam.key[p]]
  <2>2. sheet \in [DOMAIN exam.key \ {q} -> Answers]
    BY <1>2
  <2>3. sheet \in Sheet
    BY <1>2, <2>2, SheetElements
  <2>4. exam' = [exam EXCEPT !.key = sheet] /\ UNCHANGED examExists
    BY <2>1 DEF EditExam
  <2> QED BY <1>3, <2>3, <2>4
<1>8. ASSUME NEW t, RemoveExam(t) PROVE Goal
  BY <1>1, <1>8 DEF RemoveExam
<1>9. ASSUME NEW t, Student(t) PROVE Goal
  BY <1>1, <1>9 DEF Student, StartAttempt, CreateAttempt, ResumeAttempt, GetDraft,
     SaveDraft, SubmitAnswers, GetAttempt, GetUserAttempts
<1>10. CASE Environment
  BY <1>1, <1>10, EnvironmentStep DEF db
<1> QED BY <1>4, <1>5, <1>6, <1>7, <1>8, <1>9, <1>10 DEF Next, Teacher

LEMMA ViewType ==
  ASSUME TypeOK, Next
  PROVE  view' \in [Tabs -> View \cup {NoView}]
<1>1. attempt' \in Rows
  BY RowsType
<1>2. \A a \in Attempts : Active(a)' => DraftOf(a)' \in View
  <2> SUFFICES ASSUME NEW a \in Attempts, Active(a)'
               PROVE  DraftOf(a)' \in View
    OBVIOUS
  <2>1. attempt'[a] \in Row
    BY <1>1 DEF Rows, Active, NoRow
  <2> QED BY <2>1 DEF Row, DraftOf, View
<1>3. \A tab \in Tabs : view'[tab] \in View \cup {NoView}
  BY <1>2, ViewStep DEF Shown, TypeOK
<1> QED BY <1>3, ViewStep

LEMMA ReceiptType ==
  ASSUME TypeOK, NEW r \in Request, Finished(r.attempt)
  PROVE  ReceiptFor(r) \in Receipt
<1>1. r.attempt \in Attempts /\ r.answers \in Sheet
  BY DEF Request
<1>2. attempt[r.attempt].score \in Int
  BY <1>1, RowCases DEF Row
<1> QED BY <1>1, <1>2 DEF ReceiptFor, Receipt

LEMMA ServerType ==
  ASSUME TypeInv, Next
  PROVE  /\ now' \in Nat
         /\ pending' \in SUBSET Request
         /\ hooked' \in [Attempts -> Nat]
         /\ acked' \in SUBSET Receipt
<1> DEFINE Goal == /\ now' \in Nat
                   /\ pending' \in SUBSET Request
                   /\ hooked' \in [Attempts -> Nat]
                   /\ acked' \in SUBSET Receipt
<1> USE DEF TypeInv
<1>1. CASE UNCHANGED <<now, pending, hooked, acked>>
  BY <1>1 DEF TypeOK
<1>2. ASSUME NEW t, NEW r \in net, SubmitAnswers(r, t) PROVE Goal
  BY <1>2 DEF TypeOK, SubmitAnswers
<1>3. ASSUME NEW r \in net, ReplaySubmission(r) PROVE Goal
  <2>1. r \in Request /\ Finished(r.attempt)
    BY <1>3 DEF TypeOK, ReplaySubmission
  <2>2. ReceiptFor(r) \in Receipt
    BY <2>1, ReceiptType
  <2> QED BY <1>3, <2>2 DEF TypeOK, ReplaySubmission
<1>4. ASSUME NEW r \in pending, NotifyN8nExamSubmit(r) PROVE Goal
  <2>1. r \in Request /\ Finished(r.attempt) /\ r.attempt \in Attempts
    BY DEF TypeOK, PendingGraded, Request
  <2>2. ReceiptFor(r) \in Receipt
    BY <2>1, ReceiptType
  <2>3. hooked[r.attempt] + 1 \in Nat
    BY <2>1 DEF TypeOK
  <2> QED BY <1>4, <2>2, <2>3 DEF TypeOK, NotifyN8nExamSubmit
<1>5. CASE Tick
  BY <1>5 DEF TypeOK, Tick, server
<1>6. CASE Crash
  BY <1>6 DEF TypeOK, Crash
<1>7. ASSUME NEW t, Student(t), \A r \in net : ~ SubmitAnswers(r, t)
      PROVE  UNCHANGED <<now, pending, hooked, acked>>
  BY <1>7 DEF Student, StartAttempt, CreateAttempt, ResumeAttempt, GetDraft,
     SaveDraft, GetAttempt, GetUserAttempts, server
<1>8. ASSUME NEW t, Teacher(t)
      PROVE  UNCHANGED <<now, pending, hooked, acked>>
  BY <1>8 DEF Teacher, UpdateExam, AddQuestion, UpdateQuestion, RemoveQuestion,
     RemoveExam, EditExam, server
<1>9. ASSUME \/ \E kind \in {"save", "submit"}, tab \in Tabs, sheet \in Sheet :
                   Send(kind, tab, sheet)
             \/ \E r \in net : Lose(r)
      PROVE  UNCHANGED <<now, pending, hooked, acked>>
  BY <1>9 DEF Send, Lose, server
<1> QED
  BY <1>1, <1>2, <1>3, <1>4, <1>5, <1>6, <1>7, <1>8, <1>9 DEF Next, Environment

(* What is pending was so before, or was just submitted and graded. *)
LEMMA PendingStep ==
  ASSUME TypeOK, Next, NEW r \in pending'
  PROVE  \/ r \in pending
         \/ /\ r \in net
            /\ r.attempt \in Attempts
            /\ ~ Finished(r.attempt)
            /\ Finished(r.attempt)'
            /\ attempt'[r.attempt].answers = r.answers
<1>1. ASSUME NEW t \in ClockReads, NEW s \in net, SubmitAnswers(s, t), r \notin pending
      PROVE  /\ s = r
             /\ r.attempt \in Attempts
             /\ ~ Finished(r.attempt)
             /\ Finished(r.attempt)'
             /\ attempt'[r.attempt].answers = r.answers
  <2>1. /\ s = r
        /\ Active(r.attempt)
        /\ attempt' = [attempt EXCEPT ![r.attempt] = Graded(@, r.answers)]
    BY <1>1 DEF SubmitAnswers
  <2>2. r.attempt \in Attempts /\ r.answers \in Sheet
    BY <2>1 DEF TypeOK, Request
  <2>3. attempt[r.attempt] \in Row
    BY <2>1, <2>2, RowCases
  <2>4. attempt'[r.attempt] = Graded(attempt[r.attempt], r.answers)
    BY <2>1, <2>2 DEF TypeOK
  <2>5. /\ attempt'[r.attempt].status \in {"FINISHED", "FAILED"}
        /\ attempt'[r.attempt].answers = r.answers
    BY <2>2, <2>3, <2>4, GradedType
  <2> QED BY <2>1, <2>2, <2>5 DEF Finished, Active
<1>2. ASSUME NEW t, Student(t), \A s \in net : ~ SubmitAnswers(s, t)
      PROVE  r \in pending
  BY <1>2 DEF Student, StartAttempt, CreateAttempt, ResumeAttempt, GetDraft,
     SaveDraft, GetAttempt, GetUserAttempts, server
<1>3. ASSUME NEW t, Teacher(t)
      PROVE  r \in pending
  BY <1>3 DEF Teacher, UpdateExam, AddQuestion, UpdateQuestion, RemoveQuestion,
     RemoveExam, EditExam, server
<1>4. CASE Environment
  BY <1>4 DEF Environment, Tick, Crash, Send, Lose, ReplaySubmission,
     NotifyN8nExamSubmit, server
<1> QED BY <1>1, <1>2, <1>3, <1>4 DEF Next

LEMMA NextTypeInv == TypeInv /\ [Next]_vars => TypeInv'
<1> SUFFICES ASSUME TypeInv, [Next]_vars PROVE TypeInv'
  OBVIOUS
<1>1. TypeOK
  BY DEF TypeInv
<1>2. CASE Next
  <2>1. examExists' \in BOOLEAN /\ exam' \in Content
    BY <1>1, <1>2, ExamType
  <2>2. attempt' \in [Attempts -> Row \cup {NoRow}]
    BY <1>1, <1>2, RowsType DEF Rows
  <2>3. view' \in [Tabs -> View \cup {NoView}]
    BY <1>1, <1>2, ViewType
  <2>4. net' \in SUBSET Request
    BY <1>1, <1>2, NetStep DEF TypeOK
  <2>5. /\ now' \in Nat /\ pending' \in SUBSET Request
        /\ hooked' \in [Attempts -> Nat] /\ acked' \in SUBSET Receipt
    BY <1>2, ServerType
  <2>6. PendingGraded'
    <3> SUFFICES ASSUME NEW r \in pending' PROVE Finished(r.attempt)'
      BY DEF PendingGraded
    <3>1. CASE r \in pending
      <4>1. r.attempt \in Attempts /\ Finished(r.attempt)
        BY <1>1, <3>1 DEF TypeInv, PendingGraded, TypeOK, Request
      <4> QED BY <1>1, <1>2, <4>1, ClosedStays
    <3>2. CASE r \notin pending
      BY <1>1, <1>2, <3>2, PendingStep
    <3> QED BY <3>1, <3>2
  <2> QED BY <2>1, <2>2, <2>3, <2>4, <2>5, <2>6 DEF TypeInv, TypeOK
<1>3. CASE UNCHANGED vars
  BY <1>3 DEF vars, db, client, server, TypeInv, TypeOK, PendingGraded, Finished
<1> QED BY <1>2, <1>3

LEMMA TypeInvHolds == Spec => []TypeInv
<1> QED BY InitTypeInv, NextTypeInv, PTL DEF Spec

(* Type correctness, whatever the clients, the clock and the teacher do. *)
THEOREM TypeCorrect == Spec => []TypeOK
<1>1. TypeInv => TypeOK
  BY DEF TypeInv
<1> QED BY <1>1, TypeInvHolds, PTL

-----------------------------------------------------------------------------
(* One attempt in progress per user, and no more than the limit *)

(* An update never creates a row, changes its owner or snapshot, or        *)
(* reopens it.                                                             *)
LEMMA UpdateKeeps ==
  ASSUME TypeOK, NEW t, Updates(t), NEW a \in Attempts
  PROVE  /\ attempt'[a] = NoRow <=> attempt[a] = NoRow
         /\ attempt[a] # NoRow => /\ attempt'[a].user = attempt[a].user
                                  /\ attempt'[a].snapshot = attempt[a].snapshot
         /\ Active(a)' => Active(a)
<1>1. CASE Kept(a)
  BY <1>1 DEF Kept, Active
<1>2. CASE ClosedAt(a, t)
  <2>1. attempt[a] \in Row /\ attempt'[a] = Finalized(attempt[a])
    BY <1>2, RowCases DEF ClosedAt
  <2> QED BY <2>1, FinalizedType, <1>2 DEF Active, NoRow, Row, ClosedAt
<1>3. ASSUME NEW r \in net, SavedBy(a, r, t)
      PROVE  /\ attempt[a] \in Row /\ attempt'[a] \in Row
             /\ attempt'[a].user = attempt[a].user
             /\ attempt'[a].snapshot = attempt[a].snapshot
             /\ Active(a)
  <2>1. attempt[a] \in Row /\ r.answers \in Sheet
    BY <1>3, RowCases DEF SavedBy, TypeOK, Request
  <2> QED BY <1>3, <2>1, SavedType DEF SavedBy
<1>4. ASSUME NEW r \in net, SubmittedBy(a, r, t)
      PROVE  /\ attempt[a] \in Row /\ attempt'[a] \in Row
             /\ attempt'[a].user = attempt[a].user
             /\ attempt'[a].snapshot = attempt[a].snapshot
             /\ Active(a)
  <2>1. attempt[a] \in Row /\ r.answers \in Sheet
    BY <1>4, RowCases DEF SubmittedBy, TypeOK, Request
  <2> QED BY <1>4, <2>1, GradedType DEF SubmittedBy
<1>5. \A row \in Row : row # NoRow
  BY DEF Row, NoRow
<1> QED BY <1>1, <1>2, <1>3, <1>4, <1>5 DEF Updates

LEMMA UpdateKeepsOf ==
  ASSUME TypeOK, NEW t, Updates(t), NEW u
  PROVE  Of(u)' = Of(u)
  BY UpdateKeeps DEF Of

LEMMA OpenAdds ==
  ASSUME TypeOK, NEW a \in Attempts, NEW tab \in Tabs, NEW t, Opens(a, tab, t)
  PROVE  /\ \A b \in Attempts : b # a => attempt'[b] = attempt[b]
         /\ attempt'[a] = NewRow(Owner[tab], t)
         /\ attempt'[a] # NoRow
         /\ a \notin Of(Owner[tab])
         /\ \A u : Of(u)' = IF u = Owner[tab] THEN Of(u) \cup {a} ELSE Of(u)
<1>1. /\ \A b \in Attempts : b # a => attempt'[b] = attempt[b]
      /\ attempt'[a] = NewRow(Owner[tab], t)
      /\ attempt[a] = NoRow
  BY DEF Opens, TypeOK
<1>2. NewRow(Owner[tab], t) # NoRow /\ NewRow(Owner[tab], t).user = Owner[tab]
  BY DEF NewRow, NoRow
<1>3. \A u, b : b \in Of(u)' <=> /\ b \in Attempts
                                 /\ attempt'[b] # NoRow
                                 /\ attempt'[b].user = u
  BY DEF Of
<1>4. \A u, b : b \in Of(u) <=> /\ b \in Attempts
                                /\ attempt[b] # NoRow
                                /\ attempt[b].user = u
  BY DEF Of
<1>5. ASSUME NEW u
      PROVE  Of(u)' = IF u = Owner[tab] THEN Of(u) \cup {a} ELSE Of(u)
  <2>1. CASE u = Owner[tab]
    BY <1>1, <1>2, <1>3, <1>4, <2>1
  <2>2. CASE u # Owner[tab]
    <3>1. a \notin Of(u) /\ a \notin Of(u)'
      BY <1>1, <1>2, <2>2 DEF Of
    <3>2. \A b \in Attempts : b # a => (b \in Of(u)' <=> b \in Of(u))
      BY <1>1, <1>3, <1>4
    <3>3. Of(u) \subseteq Attempts /\ Of(u)' \subseteq Attempts
      BY DEF Of
    <3>4. Of(u)' = Of(u)
      BY <3>1, <3>2, <3>3
    <3> QED BY <2>2, <3>4
  <2> QED BY <2>1, <2>2
<1> QED BY <1>1, <1>2, <1>4, <1>5

LEMMA NextOneActive == TypeOK /\ OneActivePerUser /\ Next => OneActivePerUser'
<1> SUFFICES ASSUME TypeOK, OneActivePerUser, Next,
                    NEW a \in Attempts, NEW b \in Attempts,
                    Active(a)', Active(b)', attempt'[a].user = attempt'[b].user,
                    a # b
             PROVE  FALSE
  BY DEF OneActivePerUser
<1>1. PICK t \in ClockReads :
         \/ Updates(t)
         \/ \E c \in Attempts, tab \in Tabs : Opens(c, tab, t)
  BY RowsStep
<1>2. CASE Updates(t)
  <2>1. Active(a) /\ Active(b)
    BY <1>2, UpdateKeeps
  <2>2. attempt[a] # NoRow /\ attempt[b] # NoRow
    BY <2>1 DEF Active, NoRow
  <2>3. attempt[a].user = attempt[b].user
    BY <1>2, <2>2, UpdateKeeps
  <2> QED BY <2>1, <2>3 DEF OneActivePerUser
<1>3. ASSUME NEW c \in Attempts, NEW tab \in Tabs, Opens(c, tab, t)
      PROVE  FALSE
  <2>1. ASSUME NEW d \in Attempts, d # c, Active(d)',
               attempt'[d].user = attempt'[c].user
        PROVE  FALSE
    <3>1. attempt'[d] = attempt[d] /\ attempt'[c].user = Owner[tab]
      <4>1. attempt'[d] = attempt[d] /\ attempt'[c] = NewRow(Owner[tab], t)
        BY <1>3, <2>1, OpenAdds
      <4> QED BY <4>1 DEF NewRow
    <3>2. Active(d) /\ attempt[d].user = Owner[tab]
      BY <2>1, <3>1 DEF Active
    <3>3. d \in Of(Owner[tab])
      BY <3>2 DEF Of, Active, NoRow
    <3> QED BY <1>3, <3>2, <3>3 DEF Opens, NoneActive
  <2>2. CASE a # c /\ b # c
    <3>1. attempt'[a] = attempt[a] /\ attempt'[b] = attempt[b]
      BY <1>3, <2>2, OpenAdds
    <3>2. Active(a) /\ Active(b) /\ attempt[a].user = attempt[b].user
      BY <3>1 DEF Active
    <3> QED BY <3>2 DEF OneActivePerUser
  <2> QED BY <2>1, <2>2
<1> QED BY <1>1, <1>2, <1>3

(* No user ever has two attempts at the exam in progress: the check of     *)
(* startAttempt is enough, since nothing else opens or reopens an attempt. *)
THEOREM OneActive == Spec => []OneActivePerUser
<1>1. Init => OneActivePerUser
  BY DEF Init, OneActivePerUser, Active, NoRow
<1>2. TypeOK /\ OneActivePerUser /\ [Next]_vars => OneActivePerUser'
  <2>1. UNCHANGED vars /\ OneActivePerUser => OneActivePerUser'
    BY DEF vars, db, OneActivePerUser, Active
  <2> QED BY <2>1, NextOneActive
<1> QED BY <1>1, <1>2, TypeCorrect, PTL DEF Spec

(* The limit, with the finiteness that makes the count meaningful. *)
LimitInv == \A u \in Users : /\ IsFiniteSet(Of(u))
                             /\ Cardinality(Of(u)) <= MaxAttempts

LEMMA NextLimit == TypeOK /\ LimitInv /\ Next => LimitInv'
<1> SUFFICES ASSUME TypeOK, LimitInv, Next, NEW u \in Users
             PROVE  IsFiniteSet(Of(u)') /\ Cardinality(Of(u)') <= MaxAttempts
  BY DEF LimitInv
<1>1. PICK t \in ClockReads :
         \/ Updates(t)
         \/ \E c \in Attempts, tab \in Tabs : Opens(c, tab, t)
  BY RowsStep
<1>2. IsFiniteSet(Of(u)) /\ Cardinality(Of(u)) <= MaxAttempts
  BY DEF LimitInv
<1>3. CASE Updates(t)
  BY <1>2, <1>3, UpdateKeepsOf
<1>4. ASSUME NEW c \in Attempts, NEW tab \in Tabs, Opens(c, tab, t)
      PROVE  IsFiniteSet(Of(u)') /\ Cardinality(Of(u)') <= MaxAttempts
  <2>1. CASE u # Owner[tab]
    BY <1>2, <1>4, <2>1, OpenAdds
  <2>2. CASE u = Owner[tab]
    <3>1. Of(u)' = Of(u) \cup {c} /\ c \notin Of(u)
      BY <1>4, <2>2, OpenAdds
    <3>2. Cardinality(Of(u)) < MaxAttempts
      BY <1>4, <2>2 DEF Opens, BelowLimit
    <3>3. IsFiniteSet(Of(u)') /\ Cardinality(Of(u)') = Cardinality(Of(u)) + 1
      BY <1>2, <3>1, FS_AddElement
    <3>4. Cardinality(Of(u)) \in Nat
      BY <1>2, FS_CardinalityType
    <3> QED BY <3>2, <3>3, <3>4, BoundAssumption
  <2> QED BY <2>1, <2>2
<1> QED BY <1>1, <1>3, <1>4

(* No interleaving of starts, expiries and submissions exceeds the limit   *)
(* on attempts, although a start reads the count before it inserts.        *)
THEOREM LimitHolds == Spec => []AttemptLimit
<1>1. Init => LimitInv
  <2> SUFFICES ASSUME Init, NEW u \in Users
               PROVE  IsFiniteSet(Of(u)) /\ Cardinality(Of(u)) <= MaxAttempts
    BY DEF LimitInv
  <2>1. Of(u) = {}
    BY DEF Init, Of
  <2> QED BY <2>1, FS_EmptySet, BoundAssumption
<1>2. TypeOK /\ LimitInv /\ [Next]_vars => LimitInv'
  <2>1. UNCHANGED vars /\ LimitInv => LimitInv'
    BY DEF vars, db, LimitInv, Of
  <2> QED BY <2>1, NextLimit
<1>3. LimitInv => AttemptLimit
  BY DEF LimitInv, AttemptLimit
<1> QED BY <1>1, <1>2, <1>3, TypeCorrect, PTL DEF Spec

-----------------------------------------------------------------------------
(* The exam stands still while someone is taking it *)

LEMMA StudentKeepsExam ==
  ASSUME NEW t, Student(t)
  PROVE  UNCHANGED <<examExists, exam>>
  BY DEF Student, StartAttempt, CreateAttempt, ResumeAttempt, GetDraft, SaveDraft,
     SubmitAnswers, GetAttempt, GetUserAttempts

LEMMA NextExamStable ==
  TypeOK /\ ExamStableWhileActive /\ Next => ExamStableWhileActive'
<1> SUFFICES ASSUME TypeOK, ExamStableWhileActive, Next,
                    NEW a \in Attempts, Active(a)'
             PROVE  examExists' /\ attempt'[a].snapshot = exam'
  BY DEF ExamStableWhileActive
<1>1. ASSUME NEW t, Updates(t)
      PROVE  /\ Active(a) /\ examExists /\ attempt[a].snapshot = exam
             /\ attempt'[a].snapshot = attempt[a].snapshot
  <2>1. Active(a)
    BY <1>1, UpdateKeeps
  <2>2. attempt[a] # NoRow
    BY <2>1 DEF Active, NoRow
  <2> QED BY <1>1, <2>1, <2>2, UpdateKeeps DEF ExamStableWhileActive
<1>2. ASSUME NEW t \in ClockReads, Teacher(t)
      PROVE  FALSE
  <2>1. Updates(t) /\ EditableExam(t)
    BY <1>2, TeacherStep
  <2>2. Active(a) /\ Expired(attempt[a], t) /\ attempt' = ExpireIn(Attempts, t)
    BY <1>1, <2>1 DEF EditableExam
  <2>3. attempt'[a] = Finalized(attempt[a])
    BY <2>2, ExpireStep
  <2>4. attempt[a] \in Row
    BY <2>2, RowCases
  <2>5. Finalized(attempt[a]).status \in {"FINISHED", "FAILED"}
    BY <2>4, FinalizedType
  <2> QED BY <2>3, <2>5 DEF Active
<1>3. ASSUME NEW t \in ClockReads, Student(t)
      PROVE  examExists' /\ attempt'[a].snapshot = exam'
  <2>1. UNCHANGED <<examExists, exam>>
    BY <1>3, StudentKeepsExam
  <2>2. CASE Updates(t)
    BY <1>1, <2>1, <2>2
  <2>3. ASSUME NEW c \in Attempts, NEW tab \in Tabs, Opens(c, tab, t)
        PROVE  examExists' /\ attempt'[a].snapshot = exam'
    <3>1. CASE a = c
      <4>1. attempt'[a] = NewRow(Owner[tab], t) /\ examExists
        BY <2>3, <3>1, OpenAdds DEF Opens
      <4> QED BY <2>1, <4>1 DEF NewRow
    <3>2. CASE a # c
      <4>1. attempt'[a] = attempt[a]
        BY <2>3, <3>2, OpenAdds
      <4>2. Active(a)
        BY <4>1 DEF Active
      <4> QED BY <2>1, <4>1, <4>2 DEF ExamStableWhileActive
    <3> QED BY <3>1, <3>2
  <2> QED BY <1>3, <2>2, <2>3, StudentStep
<1>4. CASE Environment
  <2>1. UNCHANGED db /\ Updates(now)
    BY <1>4, EnvironmentStep, KeptStep DEF db
  <2> QED BY <1>1, <2>1 DEF db
<1> QED BY <1>2, <1>3, <1>4 DEF Next

(* What a student in the exam was given is the exam as it stands: the      *)
(* teacher's handlers close what has expired and refuse while anyone is    *)
(* still in, so no edit slips in between.                                  *)
THEOREM ExamStable == Spec => []ExamStableWhileActive
<1>1. Init => ExamStableWhileActive
  BY DEF Init, ExamStableWhileActive, Active, NoRow
<1>2. TypeOK /\ ExamStableWhileActive /\ [Next]_vars => ExamStableWhileActive'
  <2>1. UNCHANGED vars /\ ExamStableWhileActive => ExamStableWhileActive'
    BY DEF vars, db, ExamStableWhileActive, Active
  <2> QED BY <2>1, NextExamStable
<1> QED BY <1>1, <1>2, TypeCorrect, PTL DEF Spec

-----------------------------------------------------------------------------
(* The revision is an optimistic lock on the draft *)

(* Whoever holds revision n of attempt a with this draft holds an old      *)
(* draft, or the one that is saved.                                        *)
Knows(a, n, draft) ==
  /\ attempt[a] # NoRow
  /\ n <= attempt[a].revision
  /\ Active(a) /\ n = attempt[a].revision => draft = attempt[a].draft

KnowsInv ==
  /\ \A tab \in Tabs : view[tab] # NoView =>
       Knows(view[tab].attempt, view[tab].revision, view[tab].answers)
  /\ \A r \in net : Knows(r.attempt, r.revision, r.base)

LEMMA KnowsStays ==
  ASSUME TypeOK, Next, NEW a \in Attempts, NEW n \in Nat, NEW draft, Knows(a, n, draft)
  PROVE  Knows(a, n, draft)'
<1>1. attempt[a] \in Row /\ attempt[a].revision \in Nat
  BY RowCases DEF Knows, Row
<1>2. ASSUME attempt'[a] \in Row, attempt'[a].revision = attempt[a].revision + 1
      PROVE  Knows(a, n, draft)'
  <2>1. n <= attempt'[a].revision /\ n # attempt'[a].revision
    BY <1>1, <1>2 DEF Knows
  <2> QED BY <1>2, <2>1 DEF Knows, Row, NoRow
<1>3. CASE Kept(a)
  BY <1>3 DEF Kept, Knows, Active
<1>4. ASSUME NEW t, ClosedAt(a, t)
      PROVE  Knows(a, n, draft)'
  BY <1>1, <1>2, <1>4, FinalizedType DEF ClosedAt
<1>5. ASSUME NEW t, NEW r \in net, SavedBy(a, r, t)
      PROVE  Knows(a, n, draft)'
  <2>1. r.answers \in Sheet
    BY DEF TypeOK, Request
  <2> QED BY <1>1, <1>2, <1>5, <2>1, SavedType DEF SavedBy
<1>6. ASSUME NEW t, NEW r \in net, SubmittedBy(a, r, t)
      PROVE  Knows(a, n, draft)'
  <2>1. r.answers \in Sheet
    BY DEF TypeOK, Request
  <2> QED BY <1>1, <1>2, <1>6, <2>1, GradedType DEF SubmittedBy
<1>7. ASSUME NEW t, NEW tab \in Tabs, Opens(a, tab, t)
      PROVE  FALSE
  BY <1>7 DEF Opens, Knows
<1> QED BY <1>3, <1>4, <1>5, <1>6, <1>7, RowFate

LEMMA NextKnows == TypeOK /\ KnowsInv /\ Next => KnowsInv'
<1> SUFFICES ASSUME TypeOK, KnowsInv, Next PROVE KnowsInv'
  OBVIOUS
<1>1. ASSUME NEW tab \in Tabs, view'[tab] # NoView
      PROVE  Knows(view[tab].attempt, view[tab].revision, view[tab].answers)'
  <2>1. CASE view'[tab] = view[tab]
    <3>1. view[tab] \in View
      BY <1>1, <2>1 DEF TypeOK
    <3>2. /\ view[tab].attempt \in Attempts
          /\ view[tab].revision \in Nat
          /\ Knows(view[tab].attempt, view[tab].revision, view[tab].answers)
      BY <1>1, <2>1, <3>1 DEF KnowsInv, View
    <3>3. \A a, n, d : a \in Attempts /\ n \in Nat /\ Knows(a, n, d) => Knows(a, n, d)'
      BY KnowsStays
    <3>4. Knows(view[tab].attempt, view[tab].revision, view[tab].answers)
            => /\ attempt'[view[tab].attempt] # NoRow
               /\ view[tab].revision <= attempt'[view[tab].attempt].revision
               /\ attempt'[view[tab].attempt].status = "IN_PROGRESS"
                    /\ view[tab].revision = attempt'[view[tab].attempt].revision
                  => view[tab].answers = attempt'[view[tab].attempt].draft
      BY <3>2, <3>3 DEF Knows, Active
    <3> QED BY <2>1, <3>2, <3>4 DEF Knows, Active
  <2>2. ASSUME NEW a \in Attempts, Active(a)', view'[tab] = DraftOf(a)'
        PROVE  Knows(view[tab].attempt, view[tab].revision, view[tab].answers)'
    <3>1. attempt'[a] \in Row
      BY <2>2, RowsType DEF Rows, Active, NoRow
    <3>2. /\ view'[tab].attempt = a
          /\ view'[tab].revision = attempt'[a].revision
          /\ view'[tab].answers = attempt'[a].draft
      BY <2>2 DEF DraftOf
    <3> QED BY <3>1, <3>2 DEF Knows, Row, NoRow
  <2> QED BY <2>1, <2>2, ViewStep DEF Shown
<1>2. ASSUME NEW r \in net'
      PROVE  Knows(r.attempt, r.revision, r.base)'
  <2>1. r \in Request /\ Knows(r.attempt, r.revision, r.base)
    <3>1. CASE r \in net
      BY <3>1 DEF KnowsInv, TypeOK
    <3>2. CASE r \in Request /\ \E tab \in Tabs : SentBy(r, tab)
      BY <3>2 DEF KnowsInv, SentBy
    <3> QED BY <3>1, <3>2, NetStep
  <2>2. r.attempt \in Attempts /\ r.revision \in Nat
    BY <2>1 DEF Request
  <2> QED BY <2>1, <2>2, KnowsStays
<1> QED BY <1>1, <1>2 DEF KnowsInv

LEMMA KnowsHolds == Spec => []KnowsInv
<1>1. Init => KnowsInv
  BY DEF Init, KnowsInv
<1>2. TypeOK /\ KnowsInv /\ [Next]_vars => KnowsInv'
  <2>1. UNCHANGED vars /\ KnowsInv => KnowsInv'
    BY DEF vars, db, client, KnowsInv, Knows, Active
  <2> QED BY <2>1, NextKnows
<1> QED BY <1>1, <1>2, TypeCorrect, PTL DEF Spec

LEMMA KnowsImplies == KnowsInv => RevisionIdentifiesDraft
  BY DEF KnowsInv, Knows, RevisionIdentifiesDraft, Active

(* A tab or a request with the current revision was based on the draft     *)
(* that is saved: the revision check of saveDraft is an optimistic lock.   *)
THEOREM RevisionLock == Spec => []RevisionIdentifiesDraft
  BY KnowsHolds, KnowsImplies, PTL

(* No draft is overwritten by a tab that had not seen it, whatever order   *)
(* requests of several tabs arrive in and however often they are repeated. *)
THEOREM LostUpdatesExcluded == Spec => NoLostUpdate
<1> DEFINE Seen == \A a \in Attempts :
       (Active(a) /\ Active(a)' /\ attempt'[a].draft # attempt[a].draft)
         => \E r \in net : /\ r.kind = "save" /\ r.attempt = a
                           /\ r.base = attempt[a].draft
                           /\ r.answers = attempt'[a].draft
<1>1. TypeOK /\ KnowsInv /\ [Next]_vars => [Seen]_vars
  <2> SUFFICES ASSUME TypeOK, KnowsInv, Next, NEW a \in Attempts,
                      Active(a), Active(a)', attempt'[a].draft # attempt[a].draft
               PROVE  \E r \in net : /\ r.kind = "save" /\ r.attempt = a
                                     /\ r.base = attempt[a].draft
                                     /\ r.answers = attempt'[a].draft
    OBVIOUS
  <2>1. attempt[a] \in Row
    BY RowCases
  <2>2. \A t : ~ ClosedAt(a, t)
    BY <2>1, FinalizedType DEF ClosedAt, Active
  <2>3. \A t, tab : ~ Opens(a, tab, t)
    BY DEF Opens, Active, NoRow
  <2>4. ASSUME NEW t, NEW r \in net, SubmittedBy(a, r, t) PROVE FALSE
    <3>1. r.answers \in Sheet
      BY DEF TypeOK, Request
    <3> QED BY <2>1, <2>4, <3>1, GradedType DEF SubmittedBy, Active
  <2>5. PICK r \in net, t \in ClockReads : SavedBy(a, r, t)
    BY <2>2, <2>3, <2>4, RowFate DEF Kept
  <2>6. r.kind = "save" /\ r.attempt = a /\ attempt[a].revision = r.revision
    BY <2>5 DEF SavedBy
  <2>7. attempt'[a].draft = r.answers
    BY <2>1, <2>5, SavedType DEF SavedBy, TypeOK, Request
  <2>8. r.base = attempt[a].draft
    BY <2>6 DEF KnowsInv, Knows
  <2> QED BY <2>6, <2>7, <2>8
<1> QED BY <1>1, TypeCorrect, KnowsHolds, PTL DEF Spec, NoLostUpdate

-----------------------------------------------------------------------------
(* The deadline *)

LEMMA ClockBounds ==
  ASSUME TypeOK, NEW t \in ClockReads, NEW row \in Row
  PROVE  /\ now - TxTime <= t /\ t <= now
         /\ t \in Nat /\ now \in Nat /\ TxTime \in Nat /\ Grace \in Nat
         /\ Deadline(row) \in Nat
         /\ Expired(row, t) <=> t > Deadline(row) + Grace
<1>1. row.startedAt \in Nat /\ row.snapshot.duration \in Nat
  BY TimeAssumption DEF Row, Content
<1>2. Deadline(row) \in Nat
  BY <1>1 DEF Deadline
<1>3. now \in Nat /\ t \in 0..now /\ now - t <= TxTime
  BY DEF ClockReads, TypeOK
<1> QED BY <1>2, <1>3, TimeAssumption DEF Expired

(* After the time, the grace and one transaction's length, an attempt can  *)
(* only be graded on what was saved in time.                               *)
THEOREM LateAnswersExcluded == Spec => LateAnswersIgnored
<1> DEFINE Late == \A a \in Attempts :
       (Active(a) /\ now > Deadline(attempt[a]) + Grace + TxTime)
         => attempt'[a] \in {attempt[a], Finalized(attempt[a])}
<1>1. TypeOK /\ [Next]_vars => [Late]_vars
  <2> SUFFICES ASSUME TypeOK, Next, NEW a \in Attempts, Active(a),
                      now > Deadline(attempt[a]) + Grace + TxTime
               PROVE  Kept(a) \/ attempt'[a] = Finalized(attempt[a])
    BY DEF Kept
  <2>1. attempt[a] \in Row
    BY RowCases
  <2>2. \A t \in ClockReads : Expired(attempt[a], t)
    BY <2>1, ClockBounds
  <2>3. \A t, tab : ~ Opens(a, tab, t)
    BY DEF Opens, Active, NoRow
  <2> QED BY <2>2, <2>3, RowFate DEF SavedBy, SubmittedBy, ClosedAt
<1> QED BY <1>1, TypeCorrect, PTL DEF Spec, LateAnswersIgnored

(* Before the grace is over only the student's own submission closes an    *)
(* attempt, whoever reads it or edits the exam.                            *)
THEOREM EarlyClosingExcluded == Spec => NotClosedEarly
<1> DEFINE Early == \A a \in Attempts :
       (Active(a) /\ ~ Active(a)' /\ now <= Deadline(attempt[a]) + Grace)
         => \E r \in net : /\ r.kind = "submit" /\ r.attempt = a
                           /\ r.answers = attempt'[a].answers
<1>1. TypeOK /\ [Next]_vars => [Early]_vars
  <2> SUFFICES ASSUME TypeOK, Next, NEW a \in Attempts, Active(a), ~ Active(a)',
                      now <= Deadline(attempt[a]) + Grace
               PROVE  \E r \in net : /\ r.kind = "submit" /\ r.attempt = a
                                     /\ r.answers = attempt'[a].answers
    OBVIOUS
  <2>1. attempt[a] \in Row
    BY RowCases
  <2>2. \A t \in ClockReads : ~ Expired(attempt[a], t)
    BY <2>1, ClockBounds
  <2>3. \A t, tab : ~ Opens(a, tab, t)
    BY DEF Opens, Active, NoRow
  <2>4. ASSUME NEW t, NEW r \in net, SavedBy(a, r, t) PROVE FALSE
    BY <2>1, <2>4, SavedType DEF SavedBy, Active, TypeOK, Request
  <2>5. PICK r \in net, t \in ClockReads : SubmittedBy(a, r, t)
    BY <2>2, <2>3, <2>4, RowFate DEF Kept, ClosedAt, Active
  <2>6. r.kind = "submit" /\ r.attempt = a /\ attempt'[a] = Graded(attempt[a], r.answers)
    BY <2>5 DEF SubmittedBy
  <2>7. attempt'[a].answers = r.answers
    BY <2>1, <2>6 DEF Graded, Row
  <2> QED BY <2>6, <2>7
<1> QED BY <1>1, TypeCorrect, PTL DEF Spec, NotClosedEarly

-----------------------------------------------------------------------------
(* Results *)

(* Sheets with one digest are graded alike: what the digest forgets (the   *)
(* order, the spelling) does not count.                                    *)
LEMMA DigestDecidesScore ==
  ASSUME NEW s1 \in Sheet, NEW s2 \in Sheet, Digest(s1) = Digest(s2), NEW content
  PROVE  ScoreOf(s1, content) = ScoreOf(s2, content)
<1>1. DOMAIN s1 = DOMAIN Digest(s1) /\ DOMAIN s2 = DOMAIN Digest(s2)
  BY DEF Digest
<1>2. DOMAIN s1 = DOMAIN s2
  BY <1>1
<1>3. \A q \in DOMAIN s1 : Canonical[s1[q]] = Canonical[s2[q]]
  <2> SUFFICES ASSUME NEW q \in DOMAIN s1 PROVE Canonical[s1[q]] = Canonical[s2[q]]
    OBVIOUS
  <2>1. Digest(s1)[q] = Canonical[s1[q]] /\ Digest(s2)[q] = Canonical[s2[q]]
    BY <1>2 DEF Digest
  <2> QED BY <2>1
<1>4. Correct(s1, content) = Correct(s2, content)
  BY <1>2, <1>3 DEF Correct
<1> QED BY <1>4 DEF ScoreOf

(* A closed row holds the digest and the grade of its answers. *)
GradesInv ==
  \A a \in Attempts : Finished(a) =>
     /\ attempt[a].digest = Digest(attempt[a].answers)
     /\ attempt[a].score = ScoreOf(attempt[a].answers, attempt[a].snapshot)

(* What is pending is what its attempt was graded on. *)
PendingInv ==
  \A r \in pending : Finished(r.attempt) /\ attempt[r.attempt].answers = r.answers

LEMMA GradedGrades ==
  ASSUME NEW row \in Row, NEW sheet \in Sheet
  PROVE  /\ Graded(row, sheet).digest = Digest(sheet)
         /\ Graded(row, sheet).score = ScoreOf(sheet, row.snapshot)
         /\ Graded(row, sheet).answers = sheet
         /\ Graded(row, sheet).snapshot = row.snapshot
  BY GradedType DEF Graded, Row

LEMMA NextGrades == TypeOK /\ GradesInv /\ Next => GradesInv'
<1> SUFFICES ASSUME TypeOK, GradesInv, Next, NEW a \in Attempts, Finished(a)'
             PROVE  /\ attempt'[a].digest = Digest(attempt'[a].answers)
                    /\ attempt'[a].score =
                         ScoreOf(attempt'[a].answers, attempt'[a].snapshot)
  BY DEF GradesInv, Digest, ScoreOf, Correct
<1>1. CASE Kept(a)
  BY <1>1 DEF Kept, Finished, GradesInv
<1>2. ASSUME NEW t, ClosedAt(a, t)
      PROVE  \E sheet \in Sheet : attempt[a] \in Row
                                 /\ attempt'[a] = Graded(attempt[a], sheet)
  <2>1. attempt[a] \in Row
    BY <1>2, RowCases DEF ClosedAt
  <2>2. attempt[a].draft \in Sheet
    BY <2>1 DEF Row
  <2> QED BY <1>2, <2>1, <2>2 DEF ClosedAt, Finalized
<1>3. ASSUME NEW t, NEW r \in net, SubmittedBy(a, r, t)
      PROVE  \E sheet \in Sheet : attempt[a] \in Row
                                 /\ attempt'[a] = Graded(attempt[a], sheet)
  BY <1>3, RowCases DEF SubmittedBy, TypeOK, Request
<1>4. ASSUME NEW t, NEW r \in net, SavedBy(a, r, t)
      PROVE  FALSE
  <2>1. attempt[a] \in Row
    BY <1>4, RowCases DEF SavedBy
  <2> QED BY <1>4, <2>1, SavedType DEF SavedBy, Active, Finished, TypeOK, Request
<1>5. ASSUME NEW t, NEW tab \in Tabs, Opens(a, tab, t)
      PROVE  FALSE
  <2>1. attempt'[a] = NewRow(Owner[tab], t)
    BY <1>5, OpenAdds
  <2> QED BY <2>1 DEF NewRow, Finished
<1>6. ASSUME NEW sheet \in Sheet, attempt[a] \in Row, attempt'[a] = Graded(attempt[a], sheet)
      PROVE  /\ attempt'[a].digest = Digest(attempt'[a].answers)
             /\ attempt'[a].score = ScoreOf(attempt'[a].answers, attempt'[a].snapshot)
  BY <1>6, GradedGrades
<1> QED BY <1>1, <1>2, <1>3, <1>4, <1>5, <1>6, RowFate

LEMMA NextPending == TypeOK /\ PendingInv /\ Next => PendingInv'
<1> SUFFICES ASSUME TypeOK, PendingInv, Next, NEW r \in pending'
             PROVE  Finished(r.attempt)' /\ attempt'[r.attempt].answers = r.answers
  BY DEF PendingInv
<1>1. CASE r \in pending
  <2>1. r.attempt \in Attempts /\ Finished(r.attempt)
    BY <1>1 DEF PendingInv, TypeOK, Request
  <2> QED BY <1>1, <2>1, ClosedStays DEF PendingInv, Kept
<1> QED BY <1>1, PendingStep

(* What is newly acknowledged is a replay or was pending. *)
LEMMA AckStep ==
  ASSUME TypeOK, Next, NEW k \in acked'
  PROVE  \/ k \in acked
         \/ /\ UNCHANGED attempt
            /\ \E r \in Request :
                 /\ k = ReceiptFor(r)
                 /\ \/ Finished(r.attempt) /\ attempt[r.attempt].digest = Digest(r.answers)
                    \/ r \in pending
<1>1. ASSUME NEW t, Student(t)
      PROVE  k \in acked
  BY <1>1 DEF Student, StartAttempt, CreateAttempt, ResumeAttempt, GetDraft,
     SaveDraft, SubmitAnswers, GetAttempt, GetUserAttempts, server
<1>2. ASSUME NEW t, Teacher(t)
      PROVE  k \in acked
  BY <1>2 DEF Teacher, UpdateExam, AddQuestion, UpdateQuestion, RemoveQuestion,
     RemoveExam, EditExam, server
<1>3. ASSUME NEW r \in net, ReplaySubmission(r)
      PROVE  \/ k \in acked
             \/ /\ k = ReceiptFor(r) /\ r \in Request /\ Finished(r.attempt)
                /\ attempt[r.attempt].digest = Digest(r.answers)
  BY <1>3 DEF ReplaySubmission, SameSubmission, TypeOK
<1>4. ASSUME NEW r \in pending, NotifyN8nExamSubmit(r)
      PROVE  k \in acked \/ (k = ReceiptFor(r) /\ r \in Request)
  BY <1>4 DEF NotifyN8nExamSubmit, TypeOK
<1>5. CASE Environment
  <2>1. UNCHANGED attempt
    BY <1>5, EnvironmentStep DEF db
  <2> QED BY <1>3, <1>4, <1>5, <2>1 DEF Environment, Tick, Crash, Send, Lose, server
<1> QED BY <1>1, <1>2, <1>5 DEF Next

LEMMA NextAcked ==
  TypeOK /\ GradesInv /\ PendingInv /\ AckedSubmissionCounted /\ Next
    => AckedSubmissionCounted'
<1> SUFFICES ASSUME TypeOK, GradesInv, PendingInv, AckedSubmissionCounted, Next,
                    NEW k \in acked'
             PROVE  /\ Finished(k.attempt)'
                    /\ attempt'[k.attempt].digest = Digest(k.answers)
                    /\ k.score = ScoreOf(k.answers, attempt'[k.attempt].snapshot)
  BY DEF AckedSubmissionCounted, Digest, ScoreOf, Correct
<1>1. CASE k \in acked
  <2>1. k.attempt \in Attempts /\ Finished(k.attempt)
    BY <1>1 DEF AckedSubmissionCounted, TypeOK, Receipt
  <2> QED BY <1>1, <2>1, ClosedStays DEF AckedSubmissionCounted, Kept
<1>2. ASSUME NEW r \in Request, k = ReceiptFor(r), UNCHANGED attempt,
             \/ Finished(r.attempt) /\ attempt[r.attempt].digest = Digest(r.answers)
             \/ r \in pending
      PROVE  /\ Finished(k.attempt)'
             /\ attempt'[k.attempt].digest = Digest(k.answers)
             /\ k.score = ScoreOf(k.answers, attempt'[k.attempt].snapshot)
  <2> DEFINE a == r.attempt
  <2>1. a \in Attempts /\ r.answers \in Sheet
    BY DEF Request
  <2>2. k.attempt = a /\ k.answers = r.answers /\ k.score = attempt[a].score
    BY <1>2 DEF ReceiptFor
  <2>3. Finished(a)
    BY <1>2 DEF PendingInv
  <2>4. attempt[a].answers \in Sheet
    BY <2>1, <2>3, RowCases DEF Row
  <2>5. /\ attempt[a].digest = Digest(attempt[a].answers)
        /\ attempt[a].score = ScoreOf(attempt[a].answers, attempt[a].snapshot)
    BY <2>1, <2>3 DEF GradesInv
  <2>6. Digest(attempt[a].answers) = Digest(r.answers)
    BY <1>2, <2>5 DEF PendingInv
  <2>7. attempt[a].score = ScoreOf(r.answers, attempt[a].snapshot)
    BY <2>1, <2>4, <2>5, <2>6, DigestDecidesScore
  <2> QED BY <1>2, <2>2, <2>3, <2>5, <2>6, <2>7 DEF Finished
<1> QED BY <1>1, <1>2, AckStep

(* Whoever is told a result, at once or on a retry, is told the grade of   *)
(* exactly the answers they sent, and that grade is the one on record.     *)
THEOREM AckedCounted == Spec => []AckedSubmissionCounted
<1> DEFINE ResultInv == GradesInv /\ PendingInv /\ AckedSubmissionCounted
<1>1. Init => ResultInv
  BY DEF Init, GradesInv, PendingInv, AckedSubmissionCounted, Finished, NoRow
<1>2. TypeOK /\ ResultInv /\ [Next]_vars => ResultInv'
  <2>1. ASSUME UNCHANGED vars, ResultInv
        PROVE  GradesInv'
    <3> SUFFICES ASSUME NEW a \in Attempts, Finished(a)'
                 PROVE  /\ attempt'[a].digest = Digest(attempt'[a].answers)
                        /\ attempt'[a].score =
                             ScoreOf(attempt'[a].answers, attempt'[a].snapshot)
      BY DEF GradesInv, Digest, ScoreOf, Correct
    <3>1. attempt' = attempt
      BY <2>1 DEF vars, db
    <3> QED BY <2>1, <3>1 DEF GradesInv, Finished
  <2>2. ASSUME UNCHANGED vars, ResultInv
        PROVE  AckedSubmissionCounted'
    <3> SUFFICES ASSUME NEW k \in acked'
                 PROVE  /\ Finished(k.attempt)'
                        /\ attempt'[k.attempt].digest = Digest(k.answers)
                        /\ k.score = ScoreOf(k.answers, attempt'[k.attempt].snapshot)
      BY DEF AckedSubmissionCounted, Digest, ScoreOf, Correct
    <3>1. attempt' = attempt /\ acked' = acked
      BY <2>2 DEF vars, db, server
    <3> QED BY <2>2, <3>1 DEF AckedSubmissionCounted, Finished
  <2>3. UNCHANGED vars /\ PendingInv => PendingInv'
    BY DEF vars, db, server, PendingInv, Finished
  <2> QED BY <2>1, <2>2, <2>3, NextGrades, NextPending, NextAcked
<1> QED BY <1>1, <1>2, TypeCorrect, PTL DEF Spec

-----------------------------------------------------------------------------
(* The webhook is called at most once *)

(* What a step does to the submissions waiting for their webhook: some are *)
(* gone, one just graded joins them, or one of them is announced.          *)
LEMMA HookStep ==
  ASSUME TypeOK, Next
  PROVE  \/ pending' \subseteq pending /\ UNCHANGED hooked
         \/ \E r \in net : /\ r.attempt \in Attempts
                           /\ Active(r.attempt)
                           /\ pending' = pending \cup {r}
                           /\ UNCHANGED hooked
         \/ \E r \in pending : /\ r.attempt \in Attempts
                               /\ pending' = pending \ {r}
                               /\ hooked' = [hooked EXCEPT ![r.attempt] = @ + 1]
<1> DEFINE Idle  == pending' \subseteq pending /\ UNCHANGED hooked
           Joins(r) == /\ r.attempt \in Attempts
                       /\ Active(r.attempt)
                       /\ pending' = pending \cup {r}
                       /\ UNCHANGED hooked
<1>1. ASSUME NEW t, NEW r \in net, SubmitAnswers(r, t)
      PROVE  Idle \/ Joins(r)
  BY <1>1 DEF SubmitAnswers, TypeOK, Request
<1>2. ASSUME NEW t, Student(t), \A r \in net : ~ SubmitAnswers(r, t)
      PROVE  Idle
  BY <1>2 DEF Student, StartAttempt, CreateAttempt, ResumeAttempt, GetDraft,
     SaveDraft, GetAttempt, GetUserAttempts, server
<1>3. ASSUME NEW t, Teacher(t)
      PROVE  Idle
  BY <1>3 DEF Teacher, UpdateExam, AddQuestion, UpdateQuestion, RemoveQuestion,
     RemoveExam, EditExam, server
<1>4. ASSUME NEW r \in pending, NotifyN8nExamSubmit(r)
      PROVE  /\ r.attempt \in Attempts
             /\ pending' = pending \ {r}
             /\ hooked' = [hooked EXCEPT ![r.attempt] = @ + 1]
  BY <1>4 DEF NotifyN8nExamSubmit, TypeOK, Request
<1>5. ASSUME Environment, \A r \in pending : ~ NotifyN8nExamSubmit(r)
      PROVE  Idle
  BY <1>5 DEF Environment, Tick, Crash, Send, Lose, ReplaySubmission, server
<1> QED BY <1>1, <1>2, <1>3, <1>4, <1>5 DEF Next

(* A submission is pending only once, before its webhook and never after.  *)
HookInv ==
  /\ \A a \in Attempts : /\ hooked[a] \in {0, 1}
                         /\ hooked[a] = 1 => Finished(a)
  /\ \A r \in pending : hooked[r.attempt] = 0
  /\ \A r, s \in pending : r.attempt = s.attempt => r = s

LEMMA NextHook == TypeInv /\ HookInv /\ Next => HookInv'
<1> SUFFICES ASSUME TypeInv, HookInv, Next PROVE HookInv'
  OBVIOUS
<1>1. /\ TypeOK
      /\ \A r \in pending : r.attempt \in Attempts /\ Finished(r.attempt)
  BY DEF TypeInv, PendingGraded, TypeOK, Request
<1>2. \A a \in Attempts : Finished(a) => Finished(a)'
  BY <1>1, ClosedStays
<1>3. CASE pending' \subseteq pending /\ UNCHANGED hooked
  BY <1>1, <1>2, <1>3 DEF HookInv
<1>4. ASSUME NEW r \in net, r.attempt \in Attempts, Active(r.attempt),
             pending' = pending \cup {r}, UNCHANGED hooked
      PROVE  HookInv'
  <2>1. ~ Finished(r.attempt)
    BY <1>4 DEF Active, Finished
  <2>2. hooked[r.attempt] = 0
    BY <1>4, <2>1 DEF HookInv
  <2>3. \A s \in pending : s.attempt # r.attempt
    BY <1>1, <2>1
  <2> QED BY <1>1, <1>2, <1>4, <2>2, <2>3 DEF HookInv
<1>5. ASSUME NEW r \in pending, r.attempt \in Attempts, pending' = pending \ {r},
             hooked' = [hooked EXCEPT ![r.attempt] = @ + 1]
      PROVE  HookInv'
  <2>1. /\ hooked'[r.attempt] = 1
        /\ \A a \in Attempts : a # r.attempt => hooked'[a] = hooked[a]
    BY <1>1, <1>5 DEF HookInv, TypeOK
  <2>2. Finished(r.attempt)'
    BY <1>1, <1>2, <1>5
  <2>3. \A s \in pending' : s \in pending /\ s.attempt # r.attempt
    BY <1>5 DEF HookInv
  <2> QED BY <1>1, <1>2, <2>1, <2>2, <2>3 DEF HookInv
<1> QED BY <1>1, <1>3, <1>4, <1>5, HookStep

LEMMA HookImplies == TypeInv /\ HookInv => WebhookAtMostOnce
<1> SUFFICES ASSUME TypeInv, HookInv, NEW a \in Attempts
             PROVE  /\ hooked[a] + Cardinality({r \in pending : r.attempt = a}) <= 1
                    /\ hooked[a] = 1 => Finished(a)
  BY DEF WebhookAtMostOnce
<1> DEFINE waiting == {r \in pending : r.attempt = a}
<1>1. hooked[a] \in {0, 1} /\ (hooked[a] = 1 => Finished(a))
  BY DEF HookInv
<1>2. CASE waiting = {}
  BY <1>1, <1>2, FS_EmptySet
<1>3. ASSUME NEW r \in waiting
      PROVE  hooked[a] + Cardinality(waiting) <= 1
  <2>1. waiting = {r} /\ hooked[a] = 0
    BY <1>3 DEF HookInv
  <2>2. Cardinality({r}) = 1
    BY FS_Singleton
  <2> QED BY <2>1, <2>2
<1> QED BY <1>1, <1>2, <1>3

(* However often a submission is repeated, its webhook is called at most   *)
(* once, and only about a finished attempt.                                *)
THEOREM WebhookOnce == Spec => []WebhookAtMostOnce
<1>1. Init => HookInv
  BY DEF Init, HookInv
<1>2. TypeInv /\ HookInv /\ [Next]_vars => HookInv'
  <2>1. UNCHANGED vars /\ HookInv => HookInv'
    BY DEF vars, db, server, HookInv, Finished
  <2> QED BY <2>1, NextHook
<1> QED BY <1>1, <1>2, HookImplies, TypeInvHolds, PTL DEF Spec

-----------------------------------------------------------------------------
(* Saved answers refer to the exam *)

(* A closed row has no draft, and a request answers only questions that    *)
(* its attempt was given.                                                  *)
ClosedDraft == \A a \in Attempts : Finished(a) => attempt[a].draft = NoSheet

AskedInv ==
  \A r \in net : /\ attempt[r.attempt] # NoRow
                 /\ DOMAIN r.answers \subseteq DOMAIN attempt[r.attempt].snapshot.key

Answered(a) == DOMAIN attempt[a].answers \cup DOMAIN attempt[a].draft

LEMMA GradedDraft ==
  ASSUME NEW row \in Row, NEW sheet \in Sheet
  PROVE  /\ Graded(row, sheet).draft = NoSheet
         /\ DOMAIN NoSheet = {}
  BY DEF Graded, Row, NoSheet

LEMMA SavedAnswers ==
  ASSUME NEW row \in Row, NEW sheet \in Sheet
  PROVE  Saved(row, sheet).answers = row.answers
  BY DEF Saved, Row

(* A row, its snapshot and its user stay, whatever happens to it.          *)
LEMMA SnapshotStays ==
  ASSUME TypeOK, Next, NEW a \in Attempts, attempt[a] # NoRow
  PROVE  attempt'[a] # NoRow /\ attempt'[a].snapshot = attempt[a].snapshot
<1>1. PICK t \in ClockReads :
         Updates(t) \/ \E b \in Attempts, tab \in Tabs : Opens(b, tab, t)
  BY RowsStep
<1>2. CASE Updates(t)
  BY <1>2, UpdateKeeps
<1>3. ASSUME NEW b \in Attempts, NEW tab \in Tabs, Opens(b, tab, t)
      PROVE  attempt'[a] = attempt[a]
  <2>1. attempt[b] = NoRow
    BY <1>3 DEF Opens
  <2> QED BY <1>3, <2>1, OpenAdds
<1> QED BY <1>1, <1>2, <1>3

LEMMA NextAsked == TypeOK /\ KnowsInv /\ AskedInv /\ Next => AskedInv'
<1> SUFFICES ASSUME TypeOK, KnowsInv, AskedInv, Next, NEW r \in net'
             PROVE  /\ attempt'[r.attempt] # NoRow
                    /\ DOMAIN r.answers \subseteq DOMAIN attempt'[r.attempt].snapshot.key
  BY DEF AskedInv
<1>1. /\ r \in Request
      /\ attempt[r.attempt] # NoRow
      /\ DOMAIN r.answers \subseteq DOMAIN attempt[r.attempt].snapshot.key
  <2>1. CASE r \in net
    BY <2>1 DEF AskedInv, TypeOK
  <2>2. CASE r \in Request /\ \E tab \in Tabs : SentBy(r, tab)
    BY <2>2 DEF SentBy, KnowsInv, Knows
  <2> QED BY <2>1, <2>2, NetStep
<1>2. r.attempt \in Attempts
  BY <1>1 DEF Request
<1> QED BY <1>1, <1>2, SnapshotStays

LEMMA NextClosedDraft == TypeOK /\ ClosedDraft /\ Next => ClosedDraft'
<1> SUFFICES ASSUME TypeOK, ClosedDraft, Next, NEW a \in Attempts, Finished(a)'
             PROVE  attempt'[a].draft = NoSheet
  BY DEF ClosedDraft, NoSheet
<1>1. CASE Kept(a)
  BY <1>1 DEF Kept, Finished, ClosedDraft
<1>2. ASSUME NEW t, ClosedAt(a, t)
      PROVE  attempt'[a].draft = NoSheet
  <2>1. attempt[a] \in Row
    BY <1>2, RowCases DEF ClosedAt
  <2>2. attempt[a].draft \in Sheet
    BY <2>1 DEF Row
  <2> QED BY <1>2, <2>1, <2>2, GradedDraft DEF ClosedAt, Finalized
<1>3. ASSUME NEW t, NEW r \in net, SubmittedBy(a, r, t)
      PROVE  attempt'[a].draft = NoSheet
  BY <1>3, RowCases, GradedDraft DEF SubmittedBy, TypeOK, Request
<1>4. ASSUME NEW t, NEW r \in net, SavedBy(a, r, t)
      PROVE  FALSE
  <2>1. attempt[a] \in Row
    BY <1>4, RowCases DEF SavedBy
  <2> QED BY <1>4, <2>1, SavedType DEF SavedBy, Active, Finished, TypeOK, Request
<1>5. ASSUME NEW t, NEW tab \in Tabs, Opens(a, tab, t)
      PROVE  FALSE
  <2>1. attempt'[a] = NewRow(Owner[tab], t)
    BY <1>5, OpenAdds
  <2> QED BY <2>1 DEF NewRow, Finished
<1> QED BY <1>1, <1>2, <1>3, <1>4, <1>5, RowFate

(* Whatever happens to a row, it answers only questions of the exam as the *)
(* step found it.                                                          *)
LEMMA AnsweredStep ==
  ASSUME TypeOK, ExamStableWhileActive, AskedInv, AnswersReferToExam, Next,
         NEW a \in Attempts, attempt'[a] # NoRow
  PROVE  examExists /\ Answered(a)' \subseteq DOMAIN exam.key
<1>1. ASSUME NEW t, ClosedAt(a, t)
      PROVE  examExists /\ Answered(a)' \subseteq DOMAIN exam.key
  <2>1. attempt[a] \in Row
    BY <1>1, RowCases DEF ClosedAt
  <2>2. attempt[a] # NoRow /\ attempt[a].draft \in Sheet
    BY <2>1 DEF Row, NoRow
  <2>3. attempt'[a].answers = attempt[a].draft /\ DOMAIN attempt'[a].draft = {}
    BY <1>1, <2>1, <2>2, FinalizedType, GradedDraft DEF ClosedAt, Finalized
  <2> QED BY <2>2, <2>3 DEF Answered, AnswersReferToExam
<1>2. ASSUME NEW r \in net, r.attempt = a, Active(a)
      PROVE  /\ attempt[a] \in Row /\ attempt[a] # NoRow /\ r.answers \in Sheet
             /\ examExists
             /\ DOMAIN r.answers \subseteq DOMAIN exam.key
             /\ DOMAIN attempt[a].answers \subseteq DOMAIN exam.key
  <2>1. attempt[a] \in Row /\ r.answers \in Sheet
    BY <1>2, RowCases DEF TypeOK, Request
  <2>2. attempt[a] # NoRow
    BY <1>2 DEF Active, NoRow
  <2>3. examExists /\ attempt[a].snapshot = exam
    BY <1>2 DEF ExamStableWhileActive
  <2>4. DOMAIN r.answers \subseteq DOMAIN exam.key
    BY <1>2, <2>3 DEF AskedInv
  <2> QED BY <2>1, <2>2, <2>3, <2>4 DEF AnswersReferToExam
<1>3. ASSUME NEW t, NEW r \in net, SavedBy(a, r, t)
      PROVE  examExists /\ Answered(a)' \subseteq DOMAIN exam.key
  <2>1. r.attempt = a /\ Active(a) /\ attempt'[a] = Saved(attempt[a], r.answers)
    BY <1>3 DEF SavedBy
  <2>2. attempt'[a].draft = r.answers /\ attempt'[a].answers = attempt[a].answers
    BY <1>2, <2>1, SavedType, SavedAnswers
  <2> QED BY <1>2, <2>1, <2>2 DEF Answered
<1>4. ASSUME NEW t, NEW r \in net, SubmittedBy(a, r, t)
      PROVE  examExists /\ Answered(a)' \subseteq DOMAIN exam.key
  <2>1. r.attempt = a /\ Active(a) /\ attempt'[a] = Graded(attempt[a], r.answers)
    BY <1>4 DEF SubmittedBy
  <2>2. attempt'[a].answers = r.answers /\ DOMAIN attempt'[a].draft = {}
    BY <1>2, <2>1, GradedType, GradedDraft
  <2> QED BY <1>2, <2>1, <2>2 DEF Answered
<1>5. ASSUME NEW t, NEW tab \in Tabs, Opens(a, tab, t)
      PROVE  examExists /\ Answered(a)' \subseteq DOMAIN exam.key
  <2>1. attempt'[a] = NewRow(Owner[tab], t) /\ examExists
    BY <1>5, OpenAdds DEF Opens
  <2>2. DOMAIN attempt'[a].answers = {} /\ DOMAIN attempt'[a].draft = {}
    BY <2>1 DEF NewRow, NoSheet
  <2> QED BY <2>1, <2>2 DEF Answered
<1>6. CASE Kept(a)
  BY <1>6 DEF Kept, Answered, AnswersReferToExam
<1> QED BY <1>1, <1>3, <1>4, <1>5, <1>6, RowFate

(* The exam keeps its questions, unless one, or the exam, is removed.      *)
LEMMA ExamStep ==
  ASSUME TypeOK, Next
  PROVE  \/ /\ UNCHANGED examExists
            /\ DOMAIN exam.key \subseteq DOMAIN exam'.key
         \/ \E t \in ClockReads : RemoveQuestion(t) \/ RemoveExam(t)
<1> DEFINE Goal == /\ UNCHANGED examExists
                   /\ DOMAIN exam.key \subseteq DOMAIN exam'.key
<1>1. exam \in Content /\ exam = [exam EXCEPT !.key = exam.key]
  BY DEF TypeOK, Content
<1>2. ASSUME NEW t, UpdateExam(t) PROVE Goal
  <2>1. PICK p \in PassScores, d \in Durations :
          EditExam(t, [exam EXCEPT !.passScore = p, !.duration = d])
    BY <1>2 DEF UpdateExam
  <2>2. exam' = [exam EXCEPT !.passScore = p, !.duration = d] /\ UNCHANGED examExists
    BY <2>1 DEF EditExam
  <2> QED BY <1>1, <2>2 DEF Content
<1>3. ASSUME NEW t, AddQuestion(t) PROVE Goal
  <2>1. PICK q \in Questions, k \in Answers :
          EditExam(t, [exam EXCEPT !.key =
            [p \in DOMAIN exam.key \cup {q} |-> IF p = q THEN k ELSE exam.key[p]]])
    BY <1>3 DEF AddQuestion
  <2> DEFINE sheet == [p \in DOMAIN exam.key \cup {q} |->
                         IF p = q THEN k ELSE exam.key[p]]
  <2>2. exam' = [exam EXCEPT !.key = sheet] /\ UNCHANGED examExists
    BY <2>1 DEF EditExam
  <2>3. DOMAIN exam.key \subseteq DOMAIN sheet
    OBVIOUS
  <2> HIDE DEF sheet
  <2>4. exam'.key = sheet
    BY <1>1, <2>2 DEF Content
  <2> QED BY <2>2, <2>3, <2>4
<1>4. ASSUME NEW t, UpdateQuestion(t) PROVE Goal
  <2>1. PICK q \in DOMAIN exam.key, k \in Answers :
          EditExam(t, [exam EXCEPT !.key[q] = k])
    BY <1>4 DEF UpdateQuestion
  <2> DEFINE sheet == [exam.key EXCEPT ![q] = k]
  <2>2. exam' = [exam EXCEPT !.key = sheet] /\ UNCHANGED examExists
    BY <2>1 DEF EditExam
  <2>3. DOMAIN exam.key \subseteq DOMAIN sheet
    OBVIOUS
  <2> HIDE DEF sheet
  <2>4. exam'.key = sheet
    BY <1>1, <2>2 DEF Content
  <2> QED BY <2>2, <2>3, <2>4
<1>5. ASSUME NEW t, Student(t) PROVE Goal
  BY <1>5, StudentKeepsExam
<1>6. CASE Environment
  BY <1>6, EnvironmentStep DEF db
<1> QED BY <1>2, <1>3, <1>4, <1>5, <1>6 DEF Next, Teacher

LEMMA NextAnswered ==
  ASSUME TypeOK, ExamStableWhileActive, ClosedDraft, AskedInv,
         AnswersReferToExam, Next
  PROVE  AnswersReferToExam'
<1> SUFFICES ASSUME NEW a \in Attempts, (attempt[a] # NoRow)'
             PROVE  (examExists /\ Answered(a) \subseteq DOMAIN exam.key)'
  BY DEF AnswersReferToExam, Answered
<1> attempt'[a] # NoRow
  BY DEF NoRow
<1>1. examExists /\ Answered(a)' \subseteq DOMAIN exam.key
  BY AnsweredStep
<1>2. ASSUME NEW t \in ClockReads, RemoveQuestion(t)
      PROVE  examExists' /\ Answered(a)' \subseteq DOMAIN exam'.key
  <2>1. PICK q \in DOMAIN exam.key :
          /\ EditExam(t, [exam EXCEPT !.key =
               [p \in DOMAIN exam.key \ {q} |-> exam.key[p]]])
          /\ \A b \in Attempts :
               attempt[b] # NoRow => q \notin DOMAIN (attempt'[b].answers)
    BY <1>2 DEF RemoveQuestion
  <2> DEFINE sheet == [p \in DOMAIN exam.key \ {q} |-> exam.key[p]]
  <2>2. exam' = [exam EXCEPT !.key = sheet] /\ UNCHANGED examExists
    BY <2>1 DEF EditExam
  <2>3. DOMAIN sheet = DOMAIN exam.key \ {q}
    OBVIOUS
  <2> HIDE DEF sheet
  <2>4. exam'.key = sheet
    BY <2>2 DEF TypeOK, Content
  <2>5. Updates(t) /\ EditableExam(t)
    BY <1>2, TeacherStep DEF Teacher
  <2>6. attempt[a] # NoRow
    BY <2>5, UpdateKeeps
  <2>7. Finished(a)'
    <3>1. attempt[a] \in Row
      BY <2>6, RowCases
    <3>2. CASE Active(a)
      <4>1. Expired(attempt[a], t) /\ attempt' = ExpireIn(Attempts, t)
        BY <2>5, <3>2 DEF EditableExam
      <4>2. attempt'[a] = Finalized(attempt[a])
        BY <3>2, <4>1, ExpireStep
      <4> QED BY <3>1, <4>2, FinalizedType DEF Finished
    <3>3. CASE ~ Active(a)
      <4>1. Finished(a)
        BY <3>1, <3>3 DEF Active, Finished, Row
      <4> QED BY <4>1, ClosedStays
    <3> QED BY <3>2, <3>3
  <2>8. attempt'[a].draft = NoSheet
    BY <2>7, NextClosedDraft DEF ClosedDraft
  <2>9. DOMAIN attempt'[a].draft = {}
    BY <2>8 DEF NoSheet
  <2>10. q \notin Answered(a)'
    BY <2>1, <2>6, <2>9 DEF Answered
  <2> QED BY <1>1, <2>2, <2>3, <2>4, <2>10
<1>3. ASSUME NEW t \in ClockReads, RemoveExam(t)
      PROVE  FALSE
  <2>1. Updates(t) /\ attempt[a] = NoRow
    BY <1>3, TeacherStep DEF Teacher, RemoveExam
  <2> QED BY <2>1, UpdateKeeps
<1> QED BY <1>1, <1>2, <1>3, ExamStep

(* Every saved answer, draft or final, refers to a question the exam still *)
(* has: a question goes only when the attempts finalised with it, and all  *)
(* others, leave it unanswered.                                            *)
THEOREM AnswersRefer == Spec => []AnswersReferToExam
<1> DEFINE Inv == ClosedDraft /\ AskedInv /\ AnswersReferToExam
<1>1. Init => Inv
  BY DEF Init, ClosedDraft, AskedInv, AnswersReferToExam, Finished, NoRow
<1>2. TypeOK /\ ExamStableWhileActive /\ KnowsInv /\ Inv /\ [Next]_vars => Inv'
  <2>1. UNCHANGED vars /\ Inv => Inv'
    BY DEF vars, db, client, ClosedDraft, AskedInv, AnswersReferToExam, Finished,
           NoSheet, NoRow
  <2> QED BY <2>1, NextAsked, NextClosedDraft, NextAnswered
<1> QED BY <1>1, <1>2, TypeCorrect, ExamStable, KnowsHolds, PTL DEF Spec

-----------------------------------------------------------------------------
(* The service implements the ledger *)

ledger == [a \in Attempts |-> LedgerEntry(attempt[a])]

LEMMA SameData ==
  /\ Ledger!Sheet = Sheet
  /\ Ledger!Content = Content
  /\ \A S : Ledger!Cardinality(S) = Cardinality(S)
  /\ \A s, c : Ledger!ScoreOf(s, c) = ScoreOf(s, c)
<1>1. Ledger!Sheet = Sheet
  BY DEF Ledger!Sheet, Sheet
<1>2. Ledger!Content = Content
  BY <1>1 DEF Ledger!Content, Content
<1>3. \A s, c : Ledger!Correct(s, c) = Correct(s, c)
  BY DEF Ledger!Correct, Correct
<1>4. \A S : Ledger!Cardinality(S) = Cardinality(S)
  BY DEF Ledger!Cardinality, Cardinality
<1>5. \A s, c : Ledger!ScoreOf(s, c) = ScoreOf(s, c)
  BY <1>3, <1>4 DEF Ledger!ScoreOf, ScoreOf
<1> QED BY <1>1, <1>2, <1>4, <1>5

LEMMA RowIsReal == NoRow \notin Row
  BY DEF Row, NoRow

(* Rows and entries correspond. *)
LEMMA EntryCases ==
  ASSUME NEW row \in Row
  PROVE  /\ LedgerEntry(row) # Ledger!Free
         /\ LedgerEntry(row).user = row.user
         /\ LedgerEntry(row).content = row.snapshot
         /\ LedgerEntry(row).state = "open" <=> row.status = "IN_PROGRESS"
<1>1. row # NoRow
  BY RowIsReal
<1>2. CASE row.status = "IN_PROGRESS"
  <2>1. LedgerEntry(row) = [state |-> "open", user |-> row.user, content |-> row.snapshot]
    BY <1>1, <1>2 DEF LedgerEntry
  <2> QED BY <1>2, <2>1 DEF Ledger!Free
<1>3. CASE row.status # "IN_PROGRESS"
  <2>1. LedgerEntry(row) =
          [state |-> "graded", user |-> row.user, content |-> row.snapshot,
           answers |-> row.answers, score |-> row.score,
           passed |-> row.status = "FINISHED"]
    BY <1>1, <1>3 DEF LedgerEntry
  <2> QED BY <1>3, <2>1 DEF Ledger!Free
<1> QED BY <1>2, <1>3

LEMMA FreeEntry == LedgerEntry(NoRow) = Ledger!Free
  BY DEF LedgerEntry, Ledger!Free

(* Grading a row grades its entry. *)
LEMMA GradedEntry ==
  ASSUME NEW row \in Row, NEW sheet \in Sheet, row.status = "IN_PROGRESS"
  PROVE  LedgerEntry(Graded(row, sheet)) = Ledger!Grade(LedgerEntry(row), sheet)
<1> DEFINE score == ScoreOf(sheet, row.snapshot)
           after == Graded(row, sheet)
<1>1. /\ after \in Row /\ after # NoRow
      /\ after.status # "IN_PROGRESS"
      /\ after.user = row.user
      /\ after.snapshot = row.snapshot
      /\ after.answers = sheet
      /\ after.score = score
  <2>1. after \in Row /\ after.status \in {"FINISHED", "FAILED"}
    BY GradedType
  <2> QED BY <2>1, RowIsReal, GradedType, GradedGrades
<1>2. after.status = IF score >= row.snapshot.passScore THEN "FINISHED" ELSE "FAILED"
  BY DEF Graded, Row
<1>3. (after.status = "FINISHED") = (score >= row.snapshot.passScore)
  BY <1>2
<1>4. LedgerEntry(row).user = row.user /\ LedgerEntry(row).content = row.snapshot
  BY EntryCases
<1>5. Ledger!Grade(LedgerEntry(row), sheet) =
        [state |-> "graded", user |-> row.user, content |-> row.snapshot,
         answers |-> sheet, score |-> score,
         passed |-> score >= row.snapshot.passScore]
  BY <1>4, SameData DEF Ledger!Grade
<1> HIDE DEF score, after
<1>6. LedgerEntry(after) =
        [state |-> "graded", user |-> after.user, content |-> after.snapshot,
         answers |-> after.answers, score |-> after.score,
         passed |-> after.status = "FINISHED"]
  BY <1>1 DEF LedgerEntry
<1>7. LedgerEntry(after) = Ledger!Grade(LedgerEntry(row), sheet)
  BY <1>1, <1>3, <1>5, <1>6
<1> QED BY <1>7 DEF after

LEMMA SavedEntry ==
  ASSUME NEW row \in Row, NEW sheet \in Sheet, row.status = "IN_PROGRESS"
  PROVE  LedgerEntry(Saved(row, sheet)) = LedgerEntry(row)
<1> DEFINE after == Saved(row, sheet)
<1>1. /\ after.status = "IN_PROGRESS"
      /\ after.user = row.user
      /\ after.snapshot = row.snapshot
  BY SavedType
<1>2. after # NoRow /\ row # NoRow
  BY SavedType, RowIsReal
<1> QED BY <1>1, <1>2 DEF LedgerEntry

LEMMA UpdateImplements ==
  ASSUME TypeOK, NEW t, Updates(t)
  PROVE  Ledger!GradeAttempts
<1> SUFFICES ASSUME NEW a \in Attempts
             PROVE  \/ LedgerEntry(attempt'[a]) = LedgerEntry(attempt[a])
                    \/ /\ LedgerEntry(attempt[a]).state = "open"
                       /\ \E sheet \in Sheet :
                            LedgerEntry(attempt'[a]) =
                              Ledger!Grade(LedgerEntry(attempt[a]), sheet)
  BY SameData DEF Ledger!GradeAttempts, LedgerEntry
<1>1. CASE Kept(a)
  BY <1>1 DEF Kept
<1>2. CASE ClosedAt(a, t)
  <2>1. /\ attempt[a] \in Row
        /\ attempt[a].status = "IN_PROGRESS"
        /\ attempt'[a] = Graded(attempt[a], attempt[a].draft)
    BY <1>2, RowCases DEF ClosedAt, Active, Finalized
  <2>2. attempt[a].draft \in Sheet
    BY <2>1 DEF Row
  <2> QED BY <2>1, <2>2, EntryCases, GradedEntry
<1>3. ASSUME NEW r \in net, SubmittedBy(a, r, t)
      PROVE  /\ LedgerEntry(attempt[a]).state = "open"
             /\ \E sheet \in Sheet :
                  LedgerEntry(attempt'[a]) = Ledger!Grade(LedgerEntry(attempt[a]), sheet)
  <2>1. /\ attempt[a] \in Row
        /\ attempt[a].status = "IN_PROGRESS"
        /\ attempt'[a] = Graded(attempt[a], r.answers)
        /\ r.answers \in Sheet
    BY <1>3, RowCases DEF SubmittedBy, Active, TypeOK, Request
  <2> QED BY <2>1, EntryCases, GradedEntry
<1>4. ASSUME NEW r \in net, SavedBy(a, r, t)
      PROVE  LedgerEntry(attempt'[a]) = LedgerEntry(attempt[a])
  <2>1. /\ attempt[a] \in Row
        /\ attempt[a].status = "IN_PROGRESS"
        /\ r.answers \in Sheet
    BY <1>4, RowCases DEF SavedBy, Active, TypeOK, Request
  <2> QED BY <1>4, <2>1, SavedEntry DEF SavedBy
<1> QED BY <1>1, <1>2, <1>3, <1>4 DEF Updates

LEMMA SameOf == ASSUME TypeOK, NEW u PROVE Ledger!Of(u) = Of(u)
<1>1. \A a \in Attempts : attempt[a] # NoRow <=> LedgerEntry(attempt[a]) # Ledger!Free
  BY RowCases, EntryCases, FreeEntry
<1>2. \A a \in Attempts :
        attempt[a] # NoRow => LedgerEntry(attempt[a]).user = attempt[a].user
  BY RowCases, EntryCases
<1> QED BY <1>1, <1>2 DEF Ledger!Of, Of

LEMMA OpenImplements ==
  ASSUME TypeOK, NEW a \in Attempts, NEW tab \in Tabs, NEW t, Opens(a, tab, t)
  PROVE  Ledger!OpenAttempt(Owner[tab], a, exam)
<1> DEFINE u == Owner[tab]
<1>1. /\ ~ \E b \in Of(u) : Active(b)
      /\ Cardinality(Of(u)) < MaxAttempts
      /\ attempt[a] = NoRow
  BY DEF Opens, NoneActive, BelowLimit
<1>2. ledger[a] = Ledger!Free
  BY <1>1, FreeEntry DEF ledger
<1>3. \A b \in Ledger!Of(u) : ledger[b].state # "open"
  <2> SUFFICES ASSUME NEW b \in Of(u) PROVE ledger[b].state # "open"
    BY SameOf
  <2>1. b \in Attempts /\ attempt[b] \in Row /\ ~ Active(b)
    BY <1>1, RowCases DEF Of
  <2> QED BY <2>1, EntryCases DEF ledger, Active
<1>4. Ledger!Cardinality(Ledger!Of(u)) < MaxAttempts
  BY <1>1, SameOf, SameData
<1>5. LedgerEntry(NewRow(u, t)) = Ledger!Open(u, exam)
  BY DEF NewRow, NoRow, LedgerEntry, Ledger!Open
<1>6. ledger' = [ledger EXCEPT ![a] = Ledger!Open(u, exam)]
  <2>1. \A b \in Attempts : LedgerEntry(attempt'[b]) =
          IF b = a THEN Ledger!Open(u, exam) ELSE LedgerEntry(attempt[b])
    BY <1>5, OpenAdds
  <2>2. ledger' = [b \in Attempts |-> LedgerEntry(attempt'[b])]
    BY DEF ledger, LedgerEntry
  <2> QED BY <2>1, <2>2 DEF ledger
<1> QED BY <1>2, <1>3, <1>4, <1>6 DEF Ledger!OpenAttempt, ledger

(* The attempt service, with its clock, drafts, retries, crashes and edits *)
(* of the exam, implements the ledger: one open attempt per user, graded   *)
(* once, against the exam as it was on opening, for ever.                  *)
THEOREM Refinement == Spec => ImplementsLedger
<1>1. Init => Ledger!Init
  BY FreeEntry DEF Init, Ledger!Init
<1>2. TypeOK /\ [Next]_vars => [Ledger!Next]_ledger
  <2>1. UNCHANGED vars => UNCHANGED ledger
    BY DEF vars, db, ledger, LedgerEntry
  <2>2. ASSUME TypeOK, Next
        PROVE  Ledger!Next
    <3>1. PICK t \in ClockReads :
             \/ Updates(t)
             \/ \E a \in Attempts, tab \in Tabs : Opens(a, tab, t)
      BY <2>2, RowsStep
    <3>2. CASE Updates(t)
      BY <2>2, <3>2, UpdateImplements DEF Ledger!Next
    <3>3. ASSUME NEW a \in Attempts, NEW tab \in Tabs, Opens(a, tab, t)
          PROVE  Ledger!Next
      <4>1. Ledger!OpenAttempt(Owner[tab], a, exam)
        BY <2>2, <3>3, OpenImplements
      <4>2. Owner[tab] \in Users /\ exam \in Ledger!Content
        BY <2>2, TabAssumption, SameData DEF TypeOK
      <4> QED BY <4>1, <4>2 DEF Ledger!Next
    <3> QED BY <3>1, <3>2, <3>3
  <2> QED BY <2>1, <2>2
<1> QED BY <1>1, <1>2, TypeCorrect, PTL DEF Spec, ImplementsLedger, Ledger!Spec, ledger
=============================================================================
