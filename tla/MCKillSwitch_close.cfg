SPECIFICATION FairSpec
CONSTANTS
    b1 = b1
    s1 = s1
    s2 = s2
    Orders = {o1, b1}
    Oco = {}
    Bare = {b1}
    Symbols = {s1, s2}
    SymbolOf <- MCSymbolOf
    Listed = {s1}
    MaxRuns = 2
    MaxCrashes = 1
    MaxFlips = 1
CHECK_DEADLOCK FALSE
PROPERTY
    RunEnds
    ClosedLeavesNoneLive
    ClosedLeavesNoneOpen
    OwnCloseSold
INVARIANT
    SellsAfterCancels
