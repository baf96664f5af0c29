CONSTANTS
  Granularities = {"1d", "1y"}
  Intervals = {1, 2}
  DailyIntervals = {2}
  Prices = {1, 3}
  Answers <- MCAnswers
  Window <- MCWindow
  Day = 3
  Year = 100
  Cap = 3
  LiveSpan = 4
  LiveFill = 2
  HistorySpan = 3
  HistoryFill = 1
  MaxTime = 5
  MaxEvents = 3
  Symbol = "A"
  Base <- MCBase
  Open = 1
  Close = 1
  Fast = 1
  Slow = 3
  Signal = 2
  MaPeriod = 2
  RsiPeriod = 3
  Trades <- MCTrades
  MaxStored = 2
SPECIFICATION Spec
INVARIANTS BarsWellFormed LastPricesAgree DetailsComplete IndicatorsExact MarkersConserve HeadlineConsistent
CHECK_DEADLOCK FALSE
