\* Two completions race for one session of two chunks while a review decides.
SPECIFICATION UploadSpec
CONSTANTS
  v1 = v1  v2 = v2  camera = camera  x = x  y = y
  o1 = o1  o2 = o2  k1 = k1  k2 = k2
  p1 = p1  p2 = p2  f1 = f1  f2 = f2
  NoToken = NoToken  NoData = NoData
  Kind <- MCKindOne  Size <- MCSize
  Uploads = {v1}
  Kinds = {camera}
  Chunks = 2
  Data = {x, y}
  Flags = {FALSE, TRUE}
  Objects = {o1, o2}
  Tokens = {k1, k2}
  Putters = {p1}
  Finishers = {f1, f2}
  SessionLimit = 1
  ByteLimit = 3
  Window = 1
  Lease = 1
  ExamEnd = 0
  MaxTime = 1
SYMMETRY RequestSymmetry
INVARIANTS OneEvidencePerUpload AcksHonoured
PROPERTIES ClosedReviewFreezesEvidence ClosedSessionsStay ImplementsVault
CHECK_DEADLOCK FALSE
