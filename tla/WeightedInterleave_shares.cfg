SPECIFICATION Spec
CONSTANTS
  N = 3
  Nodes <- ThreeNodes
  Tables <- ThreeNodeTables
  Segments <- SmallSegments
  Whole = 1000
  Pages <- SmallPages
  PageSize = 8
  PlaceMin = 12
  FloatError = 1
  Parts = 6
INVARIANTS
  IInv
  UnboundOnlyForLack
  NothingElseBound
  SharesFollowWeights
CHECK_DEADLOCK FALSE
