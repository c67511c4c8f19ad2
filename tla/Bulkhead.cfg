SPECIFICATION BulkheadFairSpec
CONSTANTS
  Users = {e1, e2, e3, e4}
  MaxConcurrency = 2
  MaxPanics = 1
INVARIANT PermitsAccounted
PROPERTIES ImplementsSemaphore WaitEnds
