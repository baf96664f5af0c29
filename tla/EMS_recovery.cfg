SPECIFICATION Spec
CONSTANTS
    Procs = {p1, p2, p3, p4}
    OrderIds = {o1}
    Quantities = {4}
    Deltas = {1, 2}
    ConcurrentRetries = FALSE
    MaxWalFailures = 1
    MaxCrashes = 1
    NoRef = NoRef
    NoProc = NoProc
SYMMETRY Symmetry
INVARIANTS AnswersKept ReplayExact AckedLogged
PROPERTY LifecycleStep
CHECK_DEADLOCK FALSE
