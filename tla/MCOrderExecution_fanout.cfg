SPECIFICATION FairSpec
CONSTANTS
    k1 = k1
    k2 = k2
    Accounts = {a1, a2}
    Keys = {k2}
    OcoKeys = {k2}
    Tasks = {t1, t2}
    NoTask = NoTask
    Notional <- MCNotional
    Cap = 2
    Overrides = 0
    MaxCrashes = 0
    MaxFlips = 0
PROPERTY
    RequestsFinish
