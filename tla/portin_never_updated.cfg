SPECIFICATION FairSpec
CONSTANTS
  Orders = {1}
  States = {0}
  Cancellable = {1}
  MaxDate = 2
  MaxLate = 1
  NoDate = NoDate
  NoRow = NoRow
  Kind <- MCKind
  Numbers <- MCNumbers
  Lookback = 2
  BatchSize = 2
  Schemas <- ReadableHistory
  Runs = {"ticker"}
  Tickers = {"ticker"}
  Overlap = FALSE
  MaxFailures = 0
PROPERTIES
  EveryOrderArrives
