SPECIFICATION Spec
CONSTANTS
  p1 = p1
  t1 = t1
  k1 = k1
  k2 = k2
  x = x
  y = y
  Plain <- PlainOne
  Trees <- TreeOne
  Keys <- TwoKeys
  Values <- TwoValues
  None = None
  Error = Error
  MaxBranch = 2
INVARIANTS ReadsArePublished StoreIsReplay
PROPERTY BranchIsolation
CHECK_DEADLOCK FALSE
