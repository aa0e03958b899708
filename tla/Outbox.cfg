SPECIFICATION FairSpec
CONSTANTS
  None = None
  c1 = c1
  c2 = c2
  c3 = c3
  Commands = {c1, c2, c3}
  Prices = {10}
  Stocks = {0}
  Deltas = {1}
  BatchSize = 2
  ReadMax = 1
  MaxFaults = 1
  MaxCrashes = 1
INVARIANT TypeOK
INVARIANT ReplayIsSafe
INVARIANT ReadYourWrites
PROPERTY ImplementsReadModel
PROPERTY CatchesUp
PROPERTY StopTakesEffect
CHECK_DEADLOCK FALSE
