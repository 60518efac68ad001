SPECIFICATION Spec
CONSTANTS
  Orders = {1, 2}
  States = {0}
  Cancellable = {}
  MaxDate = 5
  MaxLate = 1
  NoDate = NoDate
  NoRow = NoRow
  Kind <- MCKind
  Numbers <- MCNumbers
  Lookback = 2
  BatchSize = 1
  Schemas <- ReadableHistory
  Runs = {ticker, http}
  Tickers = {ticker}
  Overlap = FALSE
  MaxFailures = 0
SYMMETRY RunSymmetry
INVARIANTS
  TypeOK
  NoChangeSkipped
  HistoryIntervalsExact
PROPERTIES
  MartNeverRegresses
