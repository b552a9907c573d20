\* Two tabs of one student save drafts of one attempt while the teacher edits the exam.
SPECIFICATION Spec
CONSTANTS
  u1 = u1  u2 = u2  t1 = t1  t2 = t2  a1 = a1  a2 = a2  a3 = a3
  q1 = q1  yes = yes  Yes = Yes
  Canonical <- MCCanonical
  Users = {u1}
  Tabs = {t1, t2}
  Owner <- MCOwnerOne
  Attempts = {a1}
  Questions = {q1}
  Answers = {yes}
  PassScores = {50}
  Durations = {1}
  MaxAttempts = 1
  Grace = 0
  TxTime = 0
  MaxTime = 2
  MaxRevision = 2
  MaxRequests = 2
SYMMETRY TabSymmetry
INVARIANTS RevisionIdentifiesDraft AnswersReferToExam
PROPERTIES NoLostUpdate ImplementsLedger
CHECK_DEADLOCK FALSE
