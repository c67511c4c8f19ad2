SPECIFICATION RingSpec
CONSTANT Size = 6
INVARIANT TotalsMatchRing
PROPERTY ImplementsSlidingWindow
