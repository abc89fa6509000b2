SPECIFICATION Spec
CONSTANTS
  Entries <- BothEntries
  ToolModes <- AllModes
  MaxRounds = 3
  MaxCalls = 2
  Turns = 2
  BadRequests = TRUE
INVARIANTS CallsAnswered TraceSound KnowsResults
CHECK_DEADLOCK FALSE
