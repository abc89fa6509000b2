SPECIFICATION JSpec
CONSTANTS
  t1 = t1
  t2 = t2
  t3 = t3
  v0 = v0
  NULL = NULL
  Txns = {t1, t2, t3}
  Keys = {1, 2}
  Rows = {1, 2, 3}
  Buckets = {0}
  Bucket <- MCBucket
  Values <- MCValues
  Loaded = {1}
  LoadedRow <- MCLoadedRow
  LoadedValue <- MCLoadedValue
  GetKeys <- MCGetKeys
  PutKeys <- MCPutKeys
  PutValues <- OwnValue
  LongKeys = {}
  MaxInserts = 1
INVARIANT Serializable
CHECK_DEADLOCK FALSE
