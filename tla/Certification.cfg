\* A new and a legacy attempt are decided, appealed and decided again by three people.
SPECIFICATION Spec
CONSTANTS
  a1 = a1  a2 = a2  p1 = p1  p2 = p2  admin = admin  student = student  c1 = c1
  None = None
  Attempts = {a1, a2}
  Legacy = {a2}
  People = {p1, p2, admin, student}
  Admins = {admin}
  Student = student
  Clients = {c1}
SYMMETRY ProctorSymmetry
INVARIANTS CertificateIsEarned AppealDecisionsAreConfirmed
CHECK_DEADLOCK FALSE
