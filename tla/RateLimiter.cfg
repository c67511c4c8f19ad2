SPECIFICATION Spec
CONSTANTS
  Configs <- Limiters
  Requests = {1, 3}
  MaxWaits <- SomeWaits
  Exec = {e1, e2}
  MaxTime = 6
  MaxAhead = 2
INVARIANTS AverageRateHolds NeverBunches
