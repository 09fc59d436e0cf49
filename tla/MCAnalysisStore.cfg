SPECIFICATION FairSpec
CONSTANTS
    Symbols = {s1}
    Agents = {a1}
    NTables = 2
    Payloads = {p1, p2}
    MinBar <- MCMinBar
    pa_worker_concurrency = 1
    MaxBar = 4
    MaxCalls = 1
    MaxFaults = 1
INVARIANTS
    OpenIsNewest
    IntervalsCover
    MarkedBarIsStored
PROPERTIES
    CurrentMovesForward
    PassesComplete
CHECK_DEADLOCK FALSE
