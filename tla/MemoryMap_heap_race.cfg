SPECIFICATION Spec
CONSTANTS
  Threads = {t1, t2}
  NoThread = none
  HeapMax = 2
  MmapMin = 4
  MmapMax = 8
  AddrSpace = 10
  Sizes = {1}
  PlaceMin = 1
  InitBrk = 1
  InitBlocks <- NoBlocks
  Ops = {"malloc"}
  MayFail = {}
  PartialUnmap = FALSE
  AnyUnmap = FALSE
  MaxCalls = 3
  MaxBlocks = 2
INVARIANTS
  NewRegionsOutsideHeap
