SPECIFICATION FairSpec
CONSTANTS
    Symbols = {s1}
    Handlers = {h1}
    PATasks = {p1}
    Workers = {w1}
    Limits = {2}
    kline_catchup_bars = 2
    kline_backfill_bars = 2
    max_weight = 1
    MaxBar = 3
    MaxFaults = 1
INVARIANTS
    NoForgottenRequest
PROPERTIES
    RequestsEnd
    CatchesUp
CHECK_DEADLOCK FALSE
