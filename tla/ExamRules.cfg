\* Two students start again and again while the teacher edits the exam.
SPECIFICATION Spec
CONSTANTS
  u1 = u1  u2 = u2  t1 = t1  t2 = t2  a1 = a1  a2 = a2  a3 = a3
  q1 = q1  yes = yes  Yes = Yes
  Canonical <- MCCanonical
  Users = {u1, u2}
  Tabs = {t1, t2}
  Owner <- MCOwnerTwo
  Attempts = {a1, a2, a3}
  Questions = {q1}
  Answers = {yes}
  PassScores = {50}
  Durations = {1}
  MaxAttempts = 2
  Grace = 0
  TxTime = 0
  MaxTime = 2
  MaxRevision = 0
  MaxRequests = 1
SYMMETRY RulesSymmetry
INVARIANTS OneActivePerUser ExamStableWhileActive
CHECK_DEADLOCK FALSE
