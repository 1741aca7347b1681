SPECIFICATION FairSpec
CONSTANTS
  NodeCounts = {2, 3, 4, 5, 6, 7, 8, 9, 10, 11, 12, 13, 14, 15, 16, 17, 18, 19, 20, 21, 22, 23, 24}
  SegmentPages = 20
  Rates = {1000, 1001, 1002}
  NumPolls = 3
  NumPollOutliers = 1
CHECK_DEADLOCK FALSE
INVARIANTS
  TypeOK
  SamplesJudgeThePlacement
  GivesUpOnlyWhenWorse
  RatioAcceptedUnlessTooSmall
PROPERTIES
  PlacementsNest
  SearchEnds
