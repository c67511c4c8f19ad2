SPECIFICATION SlicesSpec
CONSTANTS
  SliceCount = 3
  Period = 6
  MaxClock = 14
  MaxEvents = 4
INVARIANT SummaryIsWindow
