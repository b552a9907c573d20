----------------------------- MODULE Certification -----------------------------
(***************************************************************************)
(* How one student gets the certificate of one course: enrolment, exam     *)
(* attempts, review, appeal and the administrator's grants                 *)
(* (backend/src: enrollments, certificates, proctor and admin services).   *)
(* The transactions marked serializable in the code are single actions;    *)
(* the enrolment requests are not transactions and take one action per     *)
(* statement.  A reason is identified with the person who gives it, so a   *)
(* repeated request is one of the same person and decision.  Submission    *)
(* and expiry are one action, recordings are ready or not, learned stands  *)
(* for "every lesson and task is done".  The length of certificates is     *)
(* bounded by nothing but the code.                                        *)
(***************************************************************************)
EXTENDS Naturals, Sequences, FiniteSets

CONSTANTS
  Attempts,      \* ids of the attempts the student may start
  Legacy,        \* attempts rejected before reviews had a history
  People,        \* who may decide: proctors, administrators, the student
  Admins,        \* the administrators among them
  Student,       \* the person examined, who may become a proctor later
  Clients,       \* concurrent enrolment requests of the student
  None

ASSUME PeopleAssumption ==
  /\ Legacy \subseteq Attempts
  /\ Admins \subseteq People
  /\ Student \in People \ Admins
  /\ None \notin People

VARIABLES
  enrolment,     \* the Enrollment row, or None
  certificates,  \* issuedVia of every Certificate row
  attempt,       \* the Attempt rows
  history,       \* reviewer of the INITIAL AttemptReview row, or None
  appeal,        \* the AttemptAppeal rows, or None
  assigned,      \* ExamProctor rows of the exam
  role,          \* the student's role
  learned,       \* lessons and tasks of the course are done
  request        \* what each enrolment request does next

reviewVars == <<attempt, history, appeal>>
vars == <<enrolment, certificates, attempt, history, appeal, assigned, role,
          learned, request>>

NewAttempt == [status |-> "IN_PROGRESS", review |-> "PENDING", by |-> None,
               evidence |-> FALSE]
NotStarted == [NewAttempt EXCEPT !.status = "NONE"]

Init ==
  /\ enrolment = None
  /\ certificates = <<>>
  /\ \E p \in (People \ {Student}) \cup {None} :
       attempt = [a \in Attempts |->
         IF a \in Legacy
           THEN [status |-> "FINISHED", review |-> "REJECTED", by |-> p,
                 evidence |-> FALSE]
           ELSE NotStarted]
  /\ history = [a \in Attempts |-> None]
  /\ appeal = [a \in Attempts |-> None]
  /\ assigned = {}
  /\ role = "STUDENT"
  /\ learned = FALSE
  /\ request = [c \in Clients |-> "idle"]

Enrolled == enrolment # None
AppealOpen(a) == appeal[a] # None /\ appeal[a].state = "OPEN"
Complete(row) == [row EXCEPT !.completed = TRUE]
Access(row) == [row EXCEPT !.access = TRUE]
NewRow == [completed |-> FALSE, access |-> FALSE]

-----------------------------------------------------------------------------
(* Enrolment: reads and writes are separate statements.                    *)

Ask(c, step) ==
  /\ request[c] = "idle"
  /\ role = "STUDENT"
  /\ request' = [request EXCEPT ![c] = step]
  /\ UNCHANGED <<enrolment, certificates, assigned, role, learned, reviewVars>>

Done(c, row) ==
  /\ enrolment' = row
  /\ request' = [request EXCEPT ![c] = "idle"]
  /\ UNCHANGED <<certificates, assigned, role, learned, reviewVars>>

BeginEnroll(c) == ~ Enrolled /\ Ask(c, "create")

\* The unique key refuses a second row.
Enroll(c) ==
  /\ request[c] = "create"
  /\ Done(c, IF Enrolled THEN enrolment ELSE NewRow)

BeginComplete(c) == Enrolled /\ ~ enrolment.completed /\ Ask(c, "look")

FindCertificate(c) ==
  /\ request[c] = "look"
  /\ request' = [request EXCEPT ![c] =
                   IF certificates = <<>> THEN "idle" ELSE "close"]
  /\ UNCHANGED <<enrolment, certificates, assigned, role, learned, reviewVars>>

CompleteEnrollment(c) ==
  /\ request[c] = "close"
  /\ Done(c, IF Enrolled THEN Complete(enrolment) ELSE None)

BeginUnenroll(c) == Enrolled /\ ~ enrolment.completed /\ Ask(c, "delete")

\* The row is deleted by its key, whatever has happened to it since.
Unenroll(c) ==
  /\ request[c] = "delete"
  /\ Done(c, None)

-----------------------------------------------------------------------------
(* Lessons, attempts and recordings.                                       *)

Learn ==
  /\ Enrolled /\ ~ learned
  /\ learned' = TRUE
  /\ UNCHANGED <<enrolment, certificates, assigned, role, request, reviewVars>>

SetAttempt(a, row) ==
  /\ attempt' = [attempt EXCEPT ![a] = row]
  /\ UNCHANGED <<enrolment, certificates, history, appeal, assigned, role,
                 learned, request>>

Admitted == Enrolled /\ (enrolment.access \/ learned)

StartAttempt(a) ==
  /\ attempt[a].status = "NONE"
  /\ role = "STUDENT"
  /\ Admitted
  /\ \A b \in Attempts : attempt[b].status # "IN_PROGRESS"
  /\ SetAttempt(a, NewAttempt)

SubmitAnswers(a, status) ==
  /\ attempt[a].status = "IN_PROGRESS"
  /\ SetAttempt(a, [attempt[a] EXCEPT !.status = status])

\* A session is opened, or the last of both recordings is complete.
Record(a, ready) ==
  /\ attempt[a].status # "NONE"
  /\ attempt[a].evidence # ready
  /\ attempt[a].review = "PENDING" \/ (attempt[a].review = "REJECTED" /\ AppealOpen(a))
  /\ SetAttempt(a, [attempt[a] EXCEPT !.evidence = ready])

-----------------------------------------------------------------------------
(* Issuing a certificate.                                                  *)

\* Mutant: nobody looks for the certificate that exists.
IssueAgain(via) == Append(certificates, via)

Issue(via) ==
  IF certificates = <<>> THEN Append(certificates, via) ELSE certificates

\* What issueForAttempt demands of an approved attempt row.
MayIssue(row) == row.status = "FINISHED" /\ row.evidence

IssueForAttempt(row) ==
  /\ MayIssue(row)
  /\ certificates' = Issue("PROCTORED_EXAM")
  /\ enrolment' = IF Enrolled THEN Complete(enrolment) ELSE None

GrantFullCertificate ==
  /\ role = "STUDENT"
  /\ enrolment' = Access(Complete(NewRow))
  /\ certificates' = Issue("ADMIN_OVERRIDE")
  /\ UNCHANGED <<assigned, role, learned, request, reviewVars>>

GrantExamAccess ==
  /\ role = "STUDENT"
  /\ enrolment' = Access(IF Enrolled THEN enrolment ELSE NewRow)
  /\ UNCHANGED <<certificates, assigned, role, learned, request, reviewVars>>

-----------------------------------------------------------------------------
(* Review and appeal.                                                      *)

Handed(a) == attempt[a].status \in {"FINISHED", "FAILED"}
ProctorAccess(p) ==
  p \in Admins \/ (p \in assigned /\ (p = Student => role = "PROCTOR"))

Reviewed(row, p, decision) == [row EXCEPT !.review = decision, !.by = p]

ReviewAttempt(a, p, decision) ==
  /\ ProctorAccess(p)
  /\ p # Student
  /\ Handed(a)
  /\ attempt[a].review = "PENDING"
  /\ attempt' = [attempt EXCEPT ![a] = Reviewed(@, p, decision)]
  /\ history' = [history EXCEPT ![a] = p]
  /\ IF decision = "APPROVED"
       THEN IssueForAttempt(attempt[a])
       ELSE UNCHANGED <<certificates, enrolment>>
  /\ UNCHANGED <<appeal, assigned, role, learned, request>>

CreateAppeal(a) ==
  /\ appeal[a] = None
  /\ Handed(a)
  /\ attempt[a].review = "REJECTED"
  /\ appeal' = [appeal EXCEPT ![a] = [state |-> "OPEN", by |-> None]]
  /\ UNCHANGED <<enrolment, certificates, attempt, history, assigned, role,
                 learned, request>>

\* Mutant: the history is not consulted.
LastReviewer(a) == attempt[a].by

OriginalReviewer(a) == IF history[a] # None THEN history[a] ELSE attempt[a].by

\* The three refusals and the replay of resolveAppeal, in the code's order.
Answer(a, p, decision) ==
  IF p = Student \/ OriginalReviewer(a) \in {None, p} THEN "forbidden"
  ELSE IF appeal[a] = None THEN "not found"
  ELSE IF AppealOpen(a) THEN "decided"
  ELSE IF appeal[a] = [state |-> decision, by |-> p] THEN "repeated"
  ELSE "conflict"

\* Every other answer changes nothing.
ResolveAppeal(a, p, decision) ==
  /\ ProctorAccess(p)
  /\ Answer(a, p, decision) = "decided"
  /\ Handed(a) /\ attempt[a].review = "REJECTED"
  /\ history' = [history EXCEPT ![a] = OriginalReviewer(a)]
  /\ appeal' = [appeal EXCEPT ![a] = [state |-> decision, by |-> p]]
  /\ IF decision = "OVERTURNED"
       THEN /\ attempt' = [attempt EXCEPT ![a] = Reviewed(@, p, "APPROVED")]
            /\ IssueForAttempt(attempt[a])
       ELSE UNCHANGED <<attempt, certificates, enrolment>>
  /\ UNCHANGED <<assigned, role, learned, request>>

-----------------------------------------------------------------------------
(* Assignments and the student's role.                                     *)

Assign(p) ==
  /\ p \in People \ (Admins \cup assigned)
  /\ p = Student => role = "PROCTOR"
  /\ assigned' = assigned \cup {p}
  /\ UNCHANGED <<enrolment, certificates, role, learned, request, reviewVars>>

Unassign(p) ==
  /\ p \in assigned
  /\ assigned' = assigned \ {p}
  /\ UNCHANGED <<enrolment, certificates, role, learned, request, reviewVars>>

UpdateRole ==
  /\ role' = IF role = "STUDENT" THEN "PROCTOR" ELSE "STUDENT"
  /\ UNCHANGED <<enrolment, certificates, assigned, learned, request, reviewVars>>

-----------------------------------------------------------------------------
EnrolmentStep(c) ==
  \/ BeginEnroll(c) \/ Enroll(c)
  \/ BeginComplete(c) \/ FindCertificate(c) \/ CompleteEnrollment(c)
  \/ BeginUnenroll(c) \/ Unenroll(c)

AttemptStep(a) ==
  \/ StartAttempt(a)
  \/ \E status \in {"FINISHED", "FAILED"} : SubmitAnswers(a, status)
  \/ \E ready \in BOOLEAN : Record(a, ready)
  \/ CreateAppeal(a)

Decision(a, p) ==
  \/ \E d \in {"APPROVED", "REJECTED"} : ReviewAttempt(a, p, d)
  \/ \E d \in {"UPHELD", "OVERTURNED"} : ResolveAppeal(a, p, d)

Next ==
  \/ \E c \in Clients : EnrolmentStep(c)
  \/ \E a \in Attempts : AttemptStep(a)
  \/ \E a \in Attempts, p \in People : Decision(a, p)
  \/ \E p \in People : Assign(p) \/ Unassign(p)
  \/ Learn \/ UpdateRole \/ GrantFullCertificate \/ GrantExamAccess

Spec == Init /\ [][Next]_vars

-----------------------------------------------------------------------------
\* The attempt passed, its recordings are complete, and it was approved by
\* somebody who is neither the student nor the reviewer an appeal overturned.
Earned(a) ==
  /\ attempt[a].review = "APPROVED"
  /\ attempt[a].status = "FINISHED" /\ attempt[a].evidence
  /\ attempt[a].by \in People \ {Student}
  /\ appeal[a] # None => attempt[a].by = appeal[a].by /\ attempt[a].by # history[a]

\* A student never holds two certificates of a course, however review, appeal
\* and grant interleave; a proctored one rests on an earned attempt; and a
\* course is complete only for somebody who holds a certificate.
CertificateIsEarned ==
  /\ Len(certificates) <= 1
  /\ certificates = <<"PROCTORED_EXAM">> => \E a \in Attempts : Earned(a)
  /\ Enrolled /\ enrolment.completed => certificates # <<>>

\* Whoever repeats the appeal decision that stands, because its answer was
\* lost, is given it again, although an overturned appeal has replaced the
\* attempt's reviewer by that very person.
AppealDecisionsAreConfirmed ==
  \A a \in Attempts : appeal[a] # None /\ ~ AppealOpen(a) =>
    Answer(a, appeal[a].by, appeal[a].state) = "repeated"
=============================================================================
