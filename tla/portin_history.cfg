SPECIFICATION Spec
CONSTANTS
  Orders = {1, 2}
  States = {0}
  Cancellable = {}
  MaxDate = 5
  MaxLate = 0
  NoDate = NoDate
  NoRow = NoRow
  Kind <- MCKind
  Numbers <- MCNumbers
  Lookback = 2
  BatchSize = 5
  Schemas <- ReadableHistory
  Runs = {"ticker"}
  Tickers = {"ticker"}
  Overlap = FALSE
  MaxFailures = 0
INVARIANTS
  NoVersionSkipped
