\* A proctor watches an attempt while access, connection and server come and go.
SPECIFICATION Spec
CONSTANTS
  p1 = p1
  None = None
  Proctors = {p1}
  Deductions = {1, 2}
  FullTrust = 3
  MaxEvents = 3
  ShownEvents = 2
  MaxWire = 2
INVARIANTS FeedIsComplete RevokedHearNothing
CHECK_DEADLOCK FALSE
