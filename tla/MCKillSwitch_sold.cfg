SPECIFICATION FairSpec
CONSTANTS
    b1 = b1
    s1 = s1
    s2 = s2
    Orders = {o1, o2}
    Oco = {}
    Bare = {}
    Symbols = {s1}
    SymbolOf <- MCSymbolOf
    Listed = {s1}
    MaxRuns = 2
    MaxCrashes = 1
    MaxFlips = 0
CHECK_DEADLOCK FALSE
PROPERTY ClosedMeansSold
