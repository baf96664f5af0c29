SPECIFICATION RecorderFairSpec
CONSTANTS
    MaxRecords = 5
    Bars = {1, 2, 4}
    Capacity = 2
    batchSize = 2
    MaxFlushFailures = 1
    MaxSignals = 2
INVARIANTS StoredOnce ShutdownLosesLittle
PROPERTY RecorderProceeds
CHECK_DEADLOCK FALSE
