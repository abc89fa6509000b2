CONSTANTS
  Tasks <- AllTasks
  TopKs <- KsZeroToThree
  Faults <- Both
SPECIFICATION Spec
INVARIANTS CandidatesWellChosen WinnerConfirmed WinnerOrderFree
CHECK_DEADLOCK FALSE
