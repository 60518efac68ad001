SPECIFICATION Spec
CONSTANTS
  Orders = {1, 2, 3, 4}
  States = {0}
  Cancellable = {1}
  MaxDate = 2
  MaxLate = 1
  NoDate = NoDate
  NoRow = NoRow
  Kind <- MCMixedKind
  Numbers <- MCNumbers
  Lookback = 2
  BatchSize = 4
  Schemas <- AnySchema
  Runs = {"ticker"}
  Tickers = {"ticker"}
  Overlap = FALSE
  MaxFailures = 1
INVARIANTS
  RowsComeFromSource
  NumbersArriveWithRequest
  NothingWithoutHistory
