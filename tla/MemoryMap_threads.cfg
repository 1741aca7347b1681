SPECIFICATION FairSpec
CONSTANTS
  Threads = {t1, t2}
  NoThread = none
  HeapMax = 1
  MmapMin = 3
  MmapMax = 6
  AddrSpace = 10
  Sizes = {0, 2}
  PlaceMin = 1
  InitBrk = 1
  InitBlocks <- TwoAdjacentBlocks
  Ops = {"malloc", "mmap", "free", "munmap", "realloc"}
  MayFail = {"malloc", "mmap", "munmap", "realloc"}
  PartialUnmap = TRUE
  AnyUnmap = TRUE
  MaxCalls = 3
  MaxBlocks = 2
INVARIANTS
  IInv
  SegmentsLive
  LongBlocksPlaced
  PlacementFailsOnlyWithoutBlock
PROPERTIES
  CallsReturn
