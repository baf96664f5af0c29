SPECIFICATION FairSpec
CONSTANTS
    Procs = {p1, p2, p3}
    OrderIds = {o1}
    Quantities = {4}
    Deltas = {1, 2}
    ConcurrentRetries = FALSE
    MaxWalFailures = 0
    MaxCrashes = 1
    NoRef = NoRef
    NoProc = NoProc
PROPERTIES ImplementsOrderLifecycle CallsComplete
CHECK_DEADLOCK FALSE
