CONSTANTS
  A = A
  B = B
  Tickers = {A, B}
  Granularities = {"1d", "1y"}
  Intervals = {"15m", "30m", "1d"}
  recMap <- MCRecMap
  Defaults <- MCDefaults
  NoTicker = NoTicker
  MaxRequests = 5
  MaxOps = 2
  MaxResyncs = 1
SPECIFICATION Spec
INVARIANTS ShownIsSelected WatchlistCovered
CHECK_DEADLOCK FALSE
