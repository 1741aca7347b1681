SPECIFICATION Spec
CONSTANTS
  Readers = {r1, r2}
  App = app
  StopsAtEnd = FALSE
  PollChoices = {1}
  TrimChoices = {0}
  Rates = {1}
  MaxAverages = 2
INVARIANTS
  IInv
  OneReading
  SamplesWhole
PROPERTIES
  FailsOnlyWithoutCounters
