\* One recording, two runs of the retention command and the backup.
SPECIFICATION FairBackupSpec
CONSTANTS
  f1 = f1
  w1 = w1
  w2 = w2
  NoOne = NoOne
  Backup = Backup
  Files <- OneFile
  Workers <- TwoWorkers
INVARIANTS
  TombstonesTellTheTruth
  VerifiedBackupIsComplete
PROPERTIES
  ProtectedEvidenceKept
  StartedDeletionsFinish
CHECK_DEADLOCK FALSE
