SPECIFICATION FairSpec
CONSTANTS
  None = None
  c1 = c1
  c2 = c2
  Commands = {c1, c2}
  Prices = {10}
  Stocks = {1}
  Deltas <- MCDeltas
  BatchSize = 1
  ReadMax = 9
  MaxFaults = 1
  MaxCrashes = 0
PROPERTY FailedBatchIsRetried
CHECK_DEADLOCK FALSE
