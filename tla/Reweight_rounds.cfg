SPECIFICATION Spec
CONSTANTS
  MaxNodes = {2, 3}
  Files <- SomeFiles
  Workers = {1, 2, 3}
  Ratios <- SomeRatios
  Counts = {0, 7, 40}
  ChunkPages = 3
  NumNodes = 4
INVARIANTS
  TypeOK
  RefusedOnlyForHalves
  WorkersGainTheShift
  AscendingUntilOvertaken
  NodesGetTheirShare
CHECK_DEADLOCK FALSE
