--------------------------- MODULE CertificationProofs ---------------------------
(***************************************************************************)
(* Proofs about Certification: what a certificate rests on, and that the   *)
(* decision of an appeal is given again to whoever repeats it, for any     *)
(* people, attempts and concurrent enrolment requests.                     *)
(*                                                                         *)
(* Both rest on how an attempt's row, its review history and its appeal    *)
(* belong together (CaseInv): an approved row never changes again, an      *)
(* appeal follows a rejection, and a decided appeal has kept the reviewer  *)
(* it was not decided by.                                                  *)
(***************************************************************************)
EXTENDS Certification, SequenceTheorems, TLAPS

AttemptRow == [status : {"NONE", "IN_PROGRESS", "FINISHED", "FAILED"},
               review : {"PENDING", "APPROVED", "REJECTED"},
               by : People \cup {None}, evidence : BOOLEAN]
AppealRow == [state : {"OPEN", "UPHELD", "OVERTURNED"}, by : People \cup {None}]
EnrolmentRow == [completed : BOOLEAN, access : BOOLEAN]
Via == {"PROCTORED_EXAM", "ADMIN_OVERRIDE"}

CertificationTypes ==
  /\ enrolment \in EnrolmentRow \cup {None}
  /\ certificates \in Seq(Via)
  /\ attempt \in [Attempts -> AttemptRow]
  /\ history \in [Attempts -> People \cup {None}]
  /\ appeal \in [Attempts -> AppealRow \cup {None}]
  /\ request \in [Clients -> {"idle", "create", "look", "close", "delete"}]

\* One attempt's row, its history and its appeal.
Case(a) ==
  /\ attempt[a].review = "PENDING" => appeal[a] = None
  /\ appeal[a] # None /\ appeal[a].state # "OPEN" =>
       /\ appeal[a].by \in People \ {Student}
       /\ history[a] \in People \ {appeal[a].by}
  /\ appeal[a] # None /\ appeal[a].state # "OVERTURNED" =>
       attempt[a].review = "REJECTED"
  /\ attempt[a].status \in {"NONE", "IN_PROGRESS"} => attempt[a].review = "PENDING"

CaseInv == \A a \in Attempts : Case(a)

\* Nobody holds, or is about to be marked as having completed, a course
\* without a certificate.
CloseInv ==
  /\ Enrolled /\ enrolment.completed => certificates # <<>>
  /\ \A c \in Clients : request[c] = "close" => certificates # <<>>

EarnedInv ==
  /\ Len(certificates) <= 1
  /\ certificates = <<"PROCTORED_EXAM">> => \E a \in Attempts : Earned(a)

CertInv == CertificationTypes /\ CaseInv /\ CloseInv /\ EarnedInv

-----------------------------------------------------------------------------
(* Issue never adds a second certificate, and takes none away.             *)
LEMMA IssueFacts ==
  ASSUME certificates \in Seq(Via), Len(certificates) <= 1, NEW via \in Via
  PROVE  /\ Issue(via) \in Seq(Via)
         /\ Issue(via) # <<>>
         /\ Len(Issue(via)) = 1
         /\ certificates # <<>> => Issue(via) = certificates
         /\ certificates = <<>> => Issue(via) = <<via>>
  <1>1. CASE certificates = <<>>
    BY <1>1 DEF Issue
  <1>2. CASE certificates # <<>>
    <2>1. Len(certificates) \in Nat /\ Len(certificates) # 0
      BY <1>2, EmptySeq
    <2>2. \A n \in Nat : n <= 1 /\ n # 0 => n = 1
      OBVIOUS
    <2>3. Len(certificates) = 1
      BY <2>1, <2>2
    <2> QED BY <1>2, <2>3 DEF Issue
  <1> QED BY <1>1, <1>2

(* The initial states satisfy the invariant.                               *)
LEMMA InitCert == Init => CertInv
  <1> SUFFICES ASSUME Init PROVE CertInv
    OBVIOUS
  <1>1. CertificationTypes
    <2>1. /\ NotStarted \in AttemptRow
          /\ \A p \in (People \ {Student}) \cup {None} :
               [status |-> "FINISHED", review |-> "REJECTED", by |-> p, evidence |-> FALSE] \in AttemptRow
      BY DEF AttemptRow, NewAttempt, NotStarted
    <2>2. attempt \in [Attempts -> AttemptRow]
      BY <2>1 DEF Init
    <2>3. certificates \in Seq(Via)
      BY DEF Init
    <2> QED BY <2>2, <2>3 DEF Init, CertificationTypes
  <1>2. CaseInv
    BY PeopleAssumption DEF Init, CaseInv, Case, NewAttempt, NotStarted
  <1>3. CloseInv
    BY DEF Init, CloseInv, Enrolled
  <1>4. EarnedInv
    BY DEF Init, EarnedInv
  <1> QED BY <1>1, <1>2, <1>3, <1>4 DEF CertInv

-----------------------------------------------------------------------------
(* Every step keeps the rows well typed.                                   *)
LEMMA TypesKept ==
  ASSUME CertificationTypes, Len(certificates) <= 1, Next
  PROVE  CertificationTypes'
  <1> USE PeopleAssumption
  <1>1. ASSUME NEW c \in Clients, EnrolmentStep(c) PROVE CertificationTypes'
    <2> USE DEF CertificationTypes, reviewVars
    <2>1. /\ NewRow \in EnrolmentRow
          /\ \A row \in EnrolmentRow : Complete(row) \in EnrolmentRow
      BY DEF NewRow, Complete, EnrolmentRow
    <2>2. ASSUME NEW row \in EnrolmentRow \cup {None}, Done(c, row) PROVE CertificationTypes'
      BY <2>2 DEF Done
    <2>3. ASSUME NEW step \in {"create", "look", "delete"}, Ask(c, step)
          PROVE  CertificationTypes'
      BY <2>3 DEF Ask
    <2>4. CASE BeginEnroll(c) \/ BeginComplete(c) \/ BeginUnenroll(c)
      BY <2>3, <2>4 DEF BeginEnroll, BeginComplete, BeginUnenroll
    <2>5. CASE Enroll(c) \/ CompleteEnrollment(c) \/ Unenroll(c)
      BY <2>1, <2>2, <2>5 DEF Enroll, CompleteEnrollment, Unenroll, Enrolled
    <2>6. CASE FindCertificate(c)
      BY <2>6 DEF FindCertificate
    <2> QED BY <1>1, <2>4, <2>5, <2>6 DEF EnrolmentStep
  <1>2. ASSUME NEW a \in Attempts, AttemptStep(a) PROVE CertificationTypes'
    <2>1. ASSUME NEW row \in AttemptRow, SetAttempt(a, row) PROVE CertificationTypes'
      BY <2>1 DEF CertificationTypes, SetAttempt
    <2>2. NewAttempt \in AttemptRow
      BY DEF NewAttempt, AttemptRow
    <2>3. /\ \A s \in {"FINISHED", "FAILED"} : [attempt[a] EXCEPT !.status = s] \in AttemptRow
          /\ \A e \in BOOLEAN : [attempt[a] EXCEPT !.evidence = e] \in AttemptRow
      BY DEF CertificationTypes, AttemptRow
    <2>4. CASE StartAttempt(a)
      BY <2>1, <2>2, <2>4 DEF StartAttempt
    <2>5. CASE \E s \in {"FINISHED", "FAILED"} : SubmitAnswers(a, s)
      BY <2>1, <2>3, <2>5 DEF SubmitAnswers
    <2>6. CASE \E e \in BOOLEAN : Record(a, e)
      BY <2>1, <2>3, <2>6 DEF Record
    <2>7. CASE CreateAppeal(a)
      BY <2>7 DEF CreateAppeal, CertificationTypes, AppealRow
    <2> QED BY <1>2, <2>4, <2>5, <2>6, <2>7 DEF AttemptStep
  <1>3. ASSUME NEW a \in Attempts, NEW p \in People, Decision(a, p)
        PROVE  CertificationTypes'
    <2>0. /\ certificates' \in {certificates, Issue("PROCTORED_EXAM")}
          /\ enrolment' \in {enrolment, Complete(enrolment), None}
          /\ enrolment = None => enrolment' = None
          /\ request' = request
      BY <1>3 DEF Decision, ReviewAttempt, ResolveAppeal, IssueForAttempt, Enrolled
    <2>1. /\ certificates' \in Seq(Via)
          /\ enrolment' \in EnrolmentRow \cup {None}
      BY <2>0, IssueFacts DEF Via, Complete, CertificationTypes, EnrolmentRow
    <2>2. /\ \A d \in {"APPROVED", "REJECTED"} : Reviewed(attempt[a], p, d) \in AttemptRow
          /\ OriginalReviewer(a) \in People \cup {None}
          /\ \A d \in {"UPHELD", "OVERTURNED"} : [state |-> d, by |-> p] \in AppealRow
      BY DEF CertificationTypes, AttemptRow, AppealRow, OriginalReviewer, Reviewed
    <2>3. /\ attempt' \in [Attempts -> AttemptRow]
          /\ history' \in [Attempts -> People \cup {None}]
          /\ appeal' \in [Attempts -> AppealRow \cup {None}]
      <3>1. CASE \E d \in {"APPROVED", "REJECTED"} : ReviewAttempt(a, p, d)
        BY <2>2, <3>1 DEF ReviewAttempt, CertificationTypes
      <3>2. CASE \E d \in {"UPHELD", "OVERTURNED"} : ResolveAppeal(a, p, d)
        BY <2>2, <3>2 DEF ResolveAppeal, CertificationTypes
      <3> QED BY <1>3, <3>1, <3>2 DEF Decision
    <2> QED BY <2>0, <2>1, <2>3 DEF CertificationTypes
  <1>4. CASE \E p \in People : Assign(p) \/ Unassign(p)
    BY <1>4 DEF Assign, Unassign, CertificationTypes, reviewVars
  <1>5. CASE Learn \/ UpdateRole
    BY <1>5 DEF Learn, UpdateRole, CertificationTypes, reviewVars
  <1>6. CASE GrantFullCertificate \/ GrantExamAccess
    BY <1>6, IssueFacts DEF GrantFullCertificate, GrantExamAccess, CertificationTypes, reviewVars,
         Access, Complete, NewRow, EnrolmentRow, Enrolled, Via
  <1> QED BY <1>1, <1>2, <1>3, <1>4, <1>5, <1>6 DEF Next

(* No step tears a row, its history and its appeal apart.                  *)
LEMMA CaseKept ==
  ASSUME CertificationTypes, CaseInv, Next
  PROVE  CaseInv'
  <1> USE PeopleAssumption
  <1>0. ASSUME UNCHANGED reviewVars PROVE CaseInv'
    BY <1>0 DEF reviewVars, CaseInv, Case
  <1>1. ASSUME NEW a \in Attempts, AttemptStep(a) PROVE CaseInv'
    <2> SUFFICES ASSUME NEW b \in Attempts PROVE Case(b)'
      BY DEF CaseInv
    <2> USE DEF CertificationTypes, AttemptRow, AppealRow
    <2>0. Case(b)
      BY DEF CaseInv
    <2>1. CASE StartAttempt(a)
      BY <2>0, <2>1 DEF Case, StartAttempt, SetAttempt, NewAttempt
    <2>2. CASE \E s \in {"FINISHED", "FAILED"} : SubmitAnswers(a, s)
      BY <2>0, <2>2 DEF Case, SubmitAnswers, SetAttempt
    <2>3. CASE \E e \in BOOLEAN : Record(a, e)
      BY <2>0, <2>3 DEF Case, Record, SetAttempt
    <2>4. CASE CreateAppeal(a)
      BY <2>0, <2>4 DEF Case, CreateAppeal
    <2> QED BY <1>1, <2>1, <2>2, <2>3, <2>4 DEF AttemptStep
  <1>2. ASSUME NEW a \in Attempts, NEW p \in People, Decision(a, p) PROVE CaseInv'
    <2> SUFFICES ASSUME NEW b \in Attempts PROVE Case(b)'
      BY DEF CaseInv
    <2> USE DEF CertificationTypes, AttemptRow, AppealRow
    <2>0. Case(b)
      BY DEF CaseInv
    <2>1. CASE \E d \in {"APPROVED", "REJECTED"} : ReviewAttempt(a, p, d)
      BY <2>0, <2>1 DEF Case, ReviewAttempt, Handed, Reviewed
    <2>2. ASSUME NEW d \in {"UPHELD", "OVERTURNED"}, ResolveAppeal(a, p, d) PROVE Case(b)'
      <3>1. p # Student /\ OriginalReviewer(a) \in People \ {p}
        BY <2>2 DEF ResolveAppeal, Answer, OriginalReviewer
      <3>2. /\ history' = [history EXCEPT ![a] = OriginalReviewer(a)]
            /\ appeal' = [appeal EXCEPT ![a] = [state |-> d, by |-> p]]
            /\ attempt[a].review = "REJECTED" /\ attempt[a].status \in {"FINISHED", "FAILED"}
            /\ attempt' = IF d = "OVERTURNED"
                            THEN [attempt EXCEPT ![a] = Reviewed(@, p, "APPROVED")]
                            ELSE attempt
        BY <2>2 DEF ResolveAppeal, Handed
      <3> QED BY <2>0, <3>1, <3>2 DEF Case, Reviewed
    <2> QED BY <1>2, <2>1, <2>2 DEF Decision
  <1>3. ASSUME NEW c \in Clients, EnrolmentStep(c) PROVE UNCHANGED reviewVars
    BY <1>3 DEF EnrolmentStep, BeginEnroll, Enroll, BeginComplete, FindCertificate,
         CompleteEnrollment, BeginUnenroll, Unenroll, Ask, Done, reviewVars
  <1>4. ASSUME \/ \E p \in People : Assign(p) \/ Unassign(p)
               \/ Learn \/ UpdateRole \/ GrantFullCertificate \/ GrantExamAccess
        PROVE  UNCHANGED reviewVars
    BY <1>4 DEF Assign, Unassign, Learn, UpdateRole, GrantFullCertificate, GrantExamAccess, reviewVars
  <1> QED BY <1>0, <1>1, <1>2, <1>3, <1>4 DEF Next

-----------------------------------------------------------------------------
(* What a step can do to the certificates: nothing, or issue one.          *)
LEMMA CertificateStep ==
  ASSUME CertificationTypes, Len(certificates) <= 1, Next
  PROVE  /\ certificates # <<>> => certificates' = certificates
         /\ Len(certificates') <= 1
  <1>1. certificates' \in {certificates, Issue("PROCTORED_EXAM"), Issue("ADMIN_OVERRIDE")}
    BY DEF Next, EnrolmentStep, AttemptStep, Decision, BeginEnroll, Enroll, BeginComplete,
         FindCertificate, CompleteEnrollment, BeginUnenroll, Unenroll, Ask, Done, StartAttempt,
         SubmitAnswers, Record, SetAttempt, CreateAppeal, ReviewAttempt, ResolveAppeal,
         IssueForAttempt, Assign, Unassign, Learn, UpdateRole, GrantFullCertificate,
         GrantExamAccess
  <1>2. certificates \in Seq(Via) /\ {"PROCTORED_EXAM", "ADMIN_OVERRIDE"} \subseteq Via
    BY DEF CertificationTypes, Via
  <1>3. \A via \in Via : /\ certificates # <<>> => Issue(via) = certificates
                        /\ Len(Issue(via)) = 1
    BY <1>2, IssueFacts
  <1> QED BY <1>1, <1>2, <1>3

(* A course is marked complete only beside a certificate, and those stay.  *)
LEMMA CloseKept ==
  ASSUME CertificationTypes, Len(certificates) <= 1, CloseInv, Next
  PROVE  CloseInv'
  <1> USE DEF CloseInv, CertificationTypes
  <1>0. certificates # <<>> => certificates' # <<>>
    BY CertificateStep
  <1>1. ASSUME NEW c \in Clients, EnrolmentStep(c) PROVE CloseInv'
    <2>1. CASE BeginEnroll(c) \/ BeginComplete(c) \/ BeginUnenroll(c)
      BY <1>0, <2>1 DEF BeginEnroll, BeginComplete, BeginUnenroll, Ask, Enrolled
    <2>2. CASE Enroll(c) \/ Unenroll(c)
      BY <1>0, <2>2 DEF Enroll, Unenroll, Done, NewRow, Enrolled
    <2>3. CASE CompleteEnrollment(c)
      BY <1>0, <2>3 DEF CompleteEnrollment, Done, Complete, Enrolled
    <2>4. CASE FindCertificate(c)
      BY <1>0, <2>4 DEF FindCertificate, Enrolled
    <2> QED BY <1>1, <2>1, <2>2, <2>3, <2>4 DEF EnrolmentStep
  <1>2. ASSUME NEW a \in Attempts, AttemptStep(a) PROVE CloseInv'
    BY <1>0, <1>2 DEF AttemptStep, StartAttempt, SubmitAnswers, Record, SetAttempt, CreateAppeal,
         Enrolled
  <1>3. ASSUME NEW a \in Attempts, NEW p \in People, Decision(a, p) PROVE CloseInv'
    <2>1. /\ request' = request
          /\ \/ UNCHANGED <<certificates, enrolment>>
             \/ certificates' = Issue("PROCTORED_EXAM")
      BY <1>3 DEF Decision, ReviewAttempt, ResolveAppeal, IssueForAttempt
    <2>2. certificates' = Issue("PROCTORED_EXAM") => certificates' # <<>>
      BY IssueFacts DEF Via
    <2> QED BY <1>0, <2>1, <2>2 DEF Enrolled
  <1>4. CASE \/ \E p \in People : Assign(p) \/ Unassign(p)
             \/ Learn \/ UpdateRole
    BY <1>4 DEF Assign, Unassign, Learn, UpdateRole, Enrolled
  <1>5. CASE GrantFullCertificate
    <2>1. certificates' # <<>>
      BY <1>5, IssueFacts DEF GrantFullCertificate, Via
    <2> QED BY <1>5, <2>1 DEF GrantFullCertificate
  <1>6. CASE GrantExamAccess
    BY <1>6 DEF GrantExamAccess, Access, NewRow, Enrolled, EnrolmentRow
  <1> QED BY <1>1, <1>2, <1>3, <1>4, <1>5, <1>6 DEF Next

(* An approved row, its history and its appeal never change again.         *)
LEMMA ApprovalStands ==
  ASSUME CertificationTypes, CaseInv, Next, NEW a \in Attempts, attempt[a].review = "APPROVED"
  PROVE  attempt'[a] = attempt[a] /\ history'[a] = history[a] /\ appeal'[a] = appeal[a]
  <1> USE DEF CertificationTypes
  <1>0. attempt[a].status \notin {"NONE", "IN_PROGRESS"} /\ (appeal[a] # None => appeal[a].state = "OVERTURNED")
    BY DEF CaseInv, Case
  <1>1. ASSUME NEW b \in Attempts, AttemptStep(b)
        PROVE  attempt'[a] = attempt[a] /\ history'[a] = history[a] /\ appeal'[a] = appeal[a]
    <2>1. CASE StartAttempt(b)
      BY <1>0, <2>1 DEF StartAttempt, SetAttempt
    <2>2. CASE \E s \in {"FINISHED", "FAILED"} : SubmitAnswers(b, s)
      BY <1>0, <2>2 DEF SubmitAnswers, SetAttempt, Case
    <2>3. CASE \E e \in BOOLEAN : Record(b, e)
      BY <2>3 DEF Record, SetAttempt
    <2>4. CASE CreateAppeal(b)
      BY <2>4 DEF CreateAppeal
    <2> QED BY <1>1, <2>1, <2>2, <2>3, <2>4 DEF AttemptStep
  <1>2. ASSUME NEW b \in Attempts, NEW p \in People, Decision(b, p)
        PROVE  attempt'[a] = attempt[a] /\ history'[a] = history[a] /\ appeal'[a] = appeal[a]
    <2>1. b # a
      BY <1>2 DEF Decision, ReviewAttempt, ResolveAppeal
    <2> QED BY <1>2, <2>1 DEF Decision, ReviewAttempt, ResolveAppeal
  <1>3. ASSUME NEW c \in Clients, EnrolmentStep(c) PROVE UNCHANGED reviewVars
    BY <1>3 DEF EnrolmentStep, BeginEnroll, Enroll, BeginComplete, FindCertificate,
         CompleteEnrollment, BeginUnenroll, Unenroll, Ask, Done, reviewVars
  <1>4. ASSUME \/ \E p \in People : Assign(p) \/ Unassign(p)
               \/ Learn \/ UpdateRole \/ GrantFullCertificate \/ GrantExamAccess
        PROVE  UNCHANGED reviewVars
    BY <1>4 DEF Assign, Unassign, Learn, UpdateRole, GrantFullCertificate, GrantExamAccess, reviewVars
  <1> QED BY <1>1, <1>2, <1>3, <1>4 DEF Next, reviewVars

(* A proctored certificate is issued for an attempt that has earned it.    *)
LEMMA EarnedKept ==
  ASSUME CertInv, Next
  PROVE  EarnedInv'
  <1> USE DEF CertInv
  <1>1. certificates # <<>> => certificates' = certificates
    BY CertificateStep DEF EarnedInv
  <1>2. Len(certificates') <= 1
    BY CertificateStep DEF EarnedInv
  <1>3. ASSUME NEW a \in Attempts, Earned(a) PROVE Earned(a)'
    BY <1>3, ApprovalStands DEF Earned
  <1>4. CASE certificates # <<>>
    BY <1>1, <1>2, <1>3, <1>4 DEF EarnedInv
  <1>5. CASE certificates = <<>> /\ certificates' = <<"PROCTORED_EXAM">>
    <2>1. PICK a \in Attempts, p \in People :
            \/ ReviewAttempt(a, p, "APPROVED")
            \/ ResolveAppeal(a, p, "OVERTURNED")
      <3>1. Issue("ADMIN_OVERRIDE") = <<"ADMIN_OVERRIDE">>
        BY <1>5 DEF Issue
      <3>2. /\ certificates' # certificates
            /\ certificates' # Issue("ADMIN_OVERRIDE")
        BY <1>5, <3>1
      <3> QED
        BY <3>2 DEF Next, EnrolmentStep, AttemptStep, Decision, BeginEnroll, Enroll, BeginComplete,
             FindCertificate, CompleteEnrollment, BeginUnenroll, Unenroll, Ask, Done, StartAttempt,
             SubmitAnswers, Record, SetAttempt, CreateAppeal, ReviewAttempt, ResolveAppeal,
             Assign, Unassign, Learn, UpdateRole, GrantFullCertificate, GrantExamAccess
    <2>2. Earned(a)'
      <3> USE DEF CertificationTypes, AttemptRow, Earned, IssueForAttempt, MayIssue
      <3>1. CASE ReviewAttempt(a, p, "APPROVED")
        BY <3>1 DEF ReviewAttempt, Reviewed, CaseInv, Case
      <3>2. CASE ResolveAppeal(a, p, "OVERTURNED")
        <4>1. p # Student /\ OriginalReviewer(a) # p
          BY <3>2 DEF ResolveAppeal, Answer
        <4> QED BY <3>2, <4>1 DEF ResolveAppeal, Reviewed
      <3> QED BY <2>1, <3>1, <3>2
    <2> QED BY <1>2, <2>2 DEF EarnedInv
  <1>6. CASE certificates = <<>> /\ certificates' # <<"PROCTORED_EXAM">>
    BY <1>2, <1>6 DEF EarnedInv
  <1> QED BY <1>4, <1>5, <1>6

(* The invariant holds in every reachable state.                           *)
LEMMA CertInvariant == Spec => []CertInv
  <1>1. CertInv /\ [Next]_vars => CertInv'
    <2> SUFFICES ASSUME CertInv, [Next]_vars PROVE CertInv'
      OBVIOUS
    <2>1. CASE Next
      BY <2>1, TypesKept, CaseKept, CloseKept, EarnedKept DEF CertInv, EarnedInv
    <2>2. CASE UNCHANGED vars
      BY <2>2 DEF vars, CertInv, CertificationTypes, CaseInv, Case, CloseInv, Enrolled, EarnedInv,
           Earned
    <2> QED BY <2>1, <2>2
  <1> QED BY InitCert, <1>1, PTL DEF Spec

-----------------------------------------------------------------------------
(* CertificateIsEarned: never two certificates of a course, none of an     *)
(* exam that was not passed, recorded and approved by somebody entitled    *)
(* to, and no completed course without one, whoever enrols, leaves,        *)
(* reviews, appeals, decides and grants at the same time.                  *)
THEOREM CertificatesEarned == Spec => []CertificateIsEarned
  <1>1. CertInv => CertificateIsEarned
    BY DEF CertInv, EarnedInv, CloseInv, CertificateIsEarned
  <1> QED BY <1>1, CertInvariant, PTL

(* AppealDecisionsAreConfirmed: the decision of an appeal is given again   *)
(* to whoever repeats the request, because the reviewer it overturned is   *)
(* looked up in the history and not in the attempt (resolveAppeal).        *)
THEOREM AppealsConfirmed == Spec => []AppealDecisionsAreConfirmed
  <1>1. CertInv => AppealDecisionsAreConfirmed
    <2> SUFFICES ASSUME CertInv, NEW a \in Attempts, appeal[a] # None, ~ AppealOpen(a)
                 PROVE  Answer(a, appeal[a].by, appeal[a].state) = "repeated"
      BY DEF AppealDecisionsAreConfirmed
    <2>1. /\ appeal[a] = [state |-> appeal[a].state, by |-> appeal[a].by]
          /\ appeal[a].state # "OPEN"
      BY DEF CertInv, CertificationTypes, AppealRow, AppealOpen
    <2>2. appeal[a].by # Student /\ history[a] \in People \ {appeal[a].by}
      BY <2>1 DEF CertInv, CaseInv, Case
    <2>3. OriginalReviewer(a) = history[a]
      BY <2>2, PeopleAssumption DEF OriginalReviewer
    <2>4. OriginalReviewer(a) \notin {None, appeal[a].by}
      BY <2>2, <2>3, PeopleAssumption
    <2> QED BY <2>1, <2>2, <2>4 DEF Answer, AppealOpen
  <1> QED BY <1>1, CertInvariant, PTL
=============================================================================
