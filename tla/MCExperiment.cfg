CONSTANTS
  a = a
  b = b
  None = None
  Requests <- AllRequests
SPECIFICATION FairSpec
INVARIANTS
  TasksLoaded JobsContained WrittenIsComplete EstimatesExact
PROPERTIES ExperimentEnds
CHECK_DEADLOCK FALSE
