SPECIFICATION Spec
CONSTANTS
  Programs <- AllUses
  MaxRun = 2
  MaxLate = 1
  MaxElapsed = 40
  MaxAttempts = 5
  Precision = 3
  FractionBits = 2
INVARIANTS OneLateAttempt BackoffIsExponential   AttemptsAsConfigured
