\* Chunk requests, a completion, a review and an appeal meet on two sessions of one quota.
SPECIFICATION UploadSpec
CONSTANTS
  v1 = v1  v2 = v2  camera = camera  x = x  y = y
  o1 = o1  o2 = o2  k1 = k1  k2 = k2
  p1 = p1  p2 = p2  f1 = f1  f2 = f2
  NoToken = NoToken  NoData = NoData
  Kind <- MCKindOne  Size <- MCSize
  Uploads = {v1, v2}
  Kinds = {camera}
  Chunks = 1
  Data = {x, y}
  Flags = {FALSE}
  Objects = {o1, o2}
  Tokens = {k1}
  Putters = {p1, p2}
  Finishers = {f1}
  SessionLimit = 2
  ByteLimit = 2
  Window = 1
  Lease = 1
  ExamEnd = 0
  MaxTime = 2
SYMMETRY RequestSymmetry
INVARIANTS ReferencedChunksStored AcksHonoured QuotaHolds ApprovedIsSettled AppealExtendsSessions
CHECK_DEADLOCK FALSE
