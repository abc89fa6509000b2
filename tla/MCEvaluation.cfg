CONSTANTS
  Templates <- AllTemplates
  Args <- OtherArgs
  RawAnswers <- OtherAnswers
  Faults = TRUE
  MaxSubmits = 2
SPECIFICATION EvaluationSpec
INVARIANTS VerbatimScored SubmittedNeverRaises RewardNeedsStore
CHECK_DEADLOCK FALSE
