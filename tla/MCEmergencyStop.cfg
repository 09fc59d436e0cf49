SPECIFICATION Spec
CONSTANTS
    s1 = s1
    Symbols = {s1}
    Orders = {o1, o2}
    SymbolOf <- MCSymbolOf
    MaxRuns = 2
    MaxStarts = 2
    MaxCrashes = 1
INVARIANTS
    CancelLogTrue
    PendingSellNotRepeated
    AuditIsPrefix
PROPERTY
    OkMeansStopped
CHECK_DEADLOCK FALSE
