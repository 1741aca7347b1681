SPECIFICATION FairSpec
CONSTANTS
  Walkers = {w1, w2}
  MaxSegments = 3
  InitSizes <- TwoSegments
  Capacity = 2
INVARIANTS
  IInv
  DiesOnlyOf
  ListingAvailable
PROPERTIES
  PassComplete
  MemInitEnds
