SPECIFICATION FairSpec
CONSTANTS
  Configs <- CountConfigs
  Exec = {e1, e2, e3}
  BucketCount = 2
  MaxTime = 4
  MaxPanics = 0
  MaxTimed = 4
PROPERTIES HalfOpenResolves OpenEnds
