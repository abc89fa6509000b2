SPECIFICATION FairHSpec
CONSTANTS
  p = p
  t = t
  v0 = v0
  NULL = NULL
  Keys = {1,2,3}
  LongKeys = {}
  Rows = {1,2,3,4}
  Buckets = {0}
  Bucket <- MCBucket
  Values <- MCValues
  Loaded = {1,2}
  LoadedRow <- MCLoadedRow
  LoadedValue <- MCLoadedValue
  Txns = {p}
  GetKeys <- PlainGets
  PutKeys <- PlainPuts
  PutValues <- PlainValue
  MaxInserts = 1
  Trees = {t}
  MaxBranch = 1
  Creates <- OneBranch
  ReadKeys <- TreeReads
  WriteKeys <- TreeWrites
  WriteValues <- TreeValue
  ReadModes <- EitherWay
  CommitModes <- Retrying
PROPERTIES MixedSpec BothReturn
CHECK_DEADLOCK FALSE
