SPECIFICATION FairSpec
CONSTANTS
  Loader = loader
  ModeThreads = {m1, m2}
  Lines = 2
  MaxDepth = 6
  MaxStarts = 2
INVARIANTS
  TypeOK
  OneMapUnlessAutostart
  NoHalfBuiltMap
  StackExhaustedOnlyByScan
PROPERTIES
  StartupEnds
