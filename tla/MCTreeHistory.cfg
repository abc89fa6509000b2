SPECIFICATION HSpec
CONSTANTS
  t1 = t1
  t2 = t2
  v0 = v0
  NULL = NULL
  Trees = {t1, t2}
  Keys = {2, 3}
  LongKeys = {3}
  Rows = {1, 2, 3}
  Buckets = {0, 1}
  Bucket <- MCBucket
  Values <- MCValues
  Loaded = {3}
  LoadedRow <- MCLoadedRow
  LoadedValue <- MCLoadedValue
  MaxBranch = 2
  Creates <- ManyBranches
  ReadKeys <- MCReadKeys
  WriteKeys <- MCWriteKeys
  WriteValues <- OwnValue
  ReadModes <- ExplorerModes
  CommitModes <- ExplorerRetries
INVARIANTS NoDuplicateKey CertifiedCommit NobodyStuck
CHECK_DEADLOCK FALSE
