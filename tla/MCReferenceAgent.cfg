SPECIFICATION FairSpec
CONSTANTS
  Modes <- BothModes
  Candidates <- ThreeStores
  Policies <- BothPolicies
  MaxAttempts = 2
  Profiles <- BothProfiles
  KeyFirst <- PresentOrAbsent
  Faults <- FaultyOrNot
  MaxOthers = 3
  MaxWins = 6
INVARIANTS AbortsCharged SubmitMeansStored UntilSuccess NothingLeftOpen
PROPERTIES TaskReturns
CHECK_DEADLOCK FALSE
