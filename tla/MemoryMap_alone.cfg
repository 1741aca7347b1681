SPECIFICATION FairSpec
CONSTANTS
  Threads = {t1}
  NoThread = none
  HeapMax = 2
  MmapMin = 4
  MmapMax = 8
  AddrSpace = 10
  Sizes = {1, 2}
  PlaceMin = 1
  InitBrk = 1
  InitBlocks <- NoBlocks
  Ops = {"malloc", "posix_memalign", "mmap", "free", "realloc", "munmap", "unsupported"}
  MayFail = {}
  PartialUnmap = FALSE
  AnyUnmap = FALSE
  MaxCalls = 5
  MaxBlocks = 2
INVARIANTS
  NewRegionsOutsideHeap
PROPERTIES
  RemovesOwnSegmentOnly
  ImplementsRegionList
