\* The server dies while it assembles, the page is left meanwhile and recovered.
SPECIFICATION Spec
CONSTANTS
  t1 = t1  t2 = t2  s1 = s1  s2 = s2
  None = None
  Tabs = {t1, t2}
  Sessions = {s1, s2}
  MaxBlobs = 2
  MaxRuns = 1
  MaxLate = 1
SYMMETRY RecorderSymmetry
INVARIANTS CrashedAssemblyIsReclaimed
CHECK_DEADLOCK FALSE
