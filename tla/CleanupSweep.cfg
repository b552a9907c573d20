\* The operator repeats the cleanup command: whatever nobody needs goes.
SPECIFICATION FairCleanupSpec
CONSTANTS
  v1 = v1  camera = camera  x = x  o1 = o1  k1 = k1  p1 = p1  f1 = f1
  NoToken = NoToken  NoData = NoData
  Kind <- MCKindOne  Size <- MCSize
  Uploads = {v1}
  Kinds = {camera}
  Chunks = 1
  Data = {x}
  Flags = {FALSE}
  Objects = {o1}
  Tokens = {k1}
  Putters = {p1}
  Finishers = {f1}
  SessionLimit = 1
  ByteLimit = 2
  Window = 1
  Lease = 1
  ExamEnd = 0
  MaxTime = 2
INVARIANTS EvidenceIntact ReferencedChunksStored
PROPERTIES OverdueSessionsClose OrphansRemoved FinalsBecomeEvidenceOrGo
CHECK_DEADLOCK FALSE
