SPECIFICATION Spec
CONSTANTS
  Stacks <- RetryOnly
  Cancelers = {"Cancel"}
  Panics = FALSE
  MaxAttempts = 3
INVARIANTS CancelGivesErrExecutionCanceled
