SPECIFICATION HSpec
CONSTANTS
  Configs <- AllConfigs
  Exec = {e1, e2}
  BucketCount = 2
  MaxTime = 4
  MaxPanics = 1
  MaxTimed = 4
  MaxTally = 4
SYMMETRY Symmetry
INVARIANTS PermitsAddUp HalfOpenDecides ClosedBelowThreshold NoCarryOver
PROPERTY OpenPeriodHolds
