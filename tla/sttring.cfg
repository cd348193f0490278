SPECIFICATION FairRingSpec
CONSTANTS
  Factories = 2
  Capacity = 2
  MaxFrames = 5
INVARIANTS RingHoldsNewest OnlyLongOutagesEvict
CHECK_DEADLOCK FALSE
PROPERTIES SendReturns IsFrameLine
