SPECIFICATION FairSpec
CONSTANTS
  Stacks <- AllStacks
  Cancelers = {"Cancel", "context"}
  Panics = TRUE
  MaxAttempts = 5
INVARIANTS RetriesBounded ErrorHasCause OneSideWins CanceledFromAbove SuccessAllIsSuccess SuccessIsCached
PROPERTIES NoRetryOnceCanceled Terminates
