\* Two tabs of one student record, leave, crash, recover and start over.
SPECIFICATION Spec
CONSTANTS
  t1 = t1  t2 = t2  s1 = s1  s2 = s2
  None = None
  Tabs = {t1, t2}
  Sessions = {s1, s2}
  MaxBlobs = 2
  MaxRuns = 1
  MaxLate = 2
SYMMETRY RecorderSymmetry
INVARIANTS PersistedChunksSurvive UninterruptedIsWhole
CHECK_DEADLOCK FALSE
