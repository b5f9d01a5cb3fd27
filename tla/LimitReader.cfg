SPECIFICATION LimFairSpec
CONSTANTS
  MaxInt = 7
  Sizes <- mc_Sizes
  Limits <- mc_Limits
  BufSizes <- mc_BufSizes
INVARIANTS
  LimitHolds
PROPERTIES
  CopyEnds
