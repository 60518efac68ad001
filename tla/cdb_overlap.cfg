SPECIFICATION FairSpec
CONSTANTS
  Messages = {1, 2, 3}
  Broken = {3}
  MaxDate = 2
  MaxLate = 0
  MaxSkew = 1
  Lookback = 3
  BatchSize = 2
  Runs = {"ticker", "http"}
  Tickers = {"ticker"}
  MaxFailures = 1
  NoRow = NoRow
  NoDate = NoDate
INVARIANTS
  NoMessageSkipped
  NoWaitCycle
PROPERTIES
  EveryMessageArrives
