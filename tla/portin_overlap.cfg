SPECIFICATION Spec
CONSTANTS
  Orders = {1, 2}
  States = {0, 4}
  Cancellable = {}
  MaxDate = 3
  MaxLate = 1
  NoDate = NoDate
  NoRow = NoRow
  Kind <- MCKind
  Numbers <- MCNumbers
  Lookback = 2
  BatchSize = 2
  Schemas <- ReadableHistory
  Runs = {ticker, http}
  Tickers = {ticker}
  Overlap = TRUE
  MaxFailures = 0
SYMMETRY RunSymmetry
INVARIANTS
  RowsComeFromSource
  HistoryIntervalsExact
  NumbersArriveWithRequest
