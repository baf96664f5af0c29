SPECIFICATION LabFairSpec
CONSTANTS
    Strategies = {"trend", "rl"}
    Periods = {"3y", "5y"}
    Symbols = {"AAPL", "MSFT"}
    Presets <- MCPresets
    DefaultConfig <- MCDefaultConfig
    TradeCounts <- MCTradeCounts
    PageSize = 2
    MaxRuns = 3
    MaxEdits = 2
INVARIANT PageInRange
PROPERTIES ResultsAdvance RunReturns
CHECK_DEADLOCK FALSE
