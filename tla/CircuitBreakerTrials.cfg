SPECIFICATION OwnSpec
CONSTANTS
  Configs <- TwoTrials
  Exec = {e1, e2, e3}
  BucketCount = 2
  MaxTime = 3
  MaxPanics = 0
  MaxTimed = 4
INVARIANT TrialsWithinCapacity
