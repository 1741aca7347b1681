SPECIFICATION Spec
CONSTANTS
  Readers = {r1, r2}
  App = app
  StopsAtEnd = FALSE
  PollChoices = {2}
  TrimChoices = {1}
  Rates = {1, 2}
  MaxAverages = 2
INVARIANTS
  StoppedForTheRead
