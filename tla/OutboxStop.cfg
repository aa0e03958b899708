SPECIFICATION FairSpec
CONSTANTS
  None = None
  c1 = c1
  Commands = {c1}
  Prices = {10}
  Stocks = {1}
  Deltas <- MCDeltas
  BatchSize = 1
  ReadMax = 9
  MaxFaults = 1
  MaxCrashes = 0
PROPERTY StopAlwaysStops
CHECK_DEADLOCK FALSE
