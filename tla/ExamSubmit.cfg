\* One student drafts and submits against the deadline; requests are repeated, the process dies.
SPECIFICATION Spec
CONSTANTS
  u1 = u1  u2 = u2  t1 = t1  t2 = t2  a1 = a1  a2 = a2  a3 = a3
  q1 = q1  yes = yes  Yes = Yes
  Canonical <- MCCanonical
  Users = {u1}
  Tabs = {t1}
  Owner <- MCOwnerOne
  Attempts = {a1}
  Questions = {q1}
  Answers = {yes, Yes}
  PassScores = {50}
  Durations = {1}
  MaxAttempts = 1
  Grace = 1
  TxTime = 1
  MaxTime = 4
  MaxRevision = 1
  MaxRequests = 2
INVARIANTS AckedSubmissionCounted WebhookAtMostOnce
PROPERTIES LateAnswersIgnored NotClosedEarly
CHECK_DEADLOCK FALSE
