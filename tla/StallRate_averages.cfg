SPECIFICATION FairSpec
CONSTANTS
  Readers = {r1}
  App = app
  StopsAtEnd = TRUE
  PollChoices = {2, 3}
  TrimChoices = {1}
  Rates = {1, 2}
  MaxAverages = 2
INVARIANTS
  KeptWithinGood
PROPERTIES
  AverageEnds
