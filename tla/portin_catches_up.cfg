SPECIFICATION FairSpec
CONSTANTS
  Orders = {1, 2}
  States = {0}
  Cancellable = {}
  MaxDate = 4
  MaxLate = 1
  NoDate = NoDate
  NoRow = NoRow
  Kind <- MCKind
  Numbers <- MCNumbers
  Lookback = 2
  BatchSize = 2
  Schemas <- ReadableHistory
  Runs = {"ticker"}
  Tickers = {"ticker"}
  Overlap = FALSE
  MaxFailures = 1
PROPERTIES
  CatchesUp
