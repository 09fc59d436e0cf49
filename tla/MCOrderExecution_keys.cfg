SPECIFICATION Spec
CONSTANTS
    k1 = k1
    k2 = k2
    Accounts = {a1}
    Keys = {k1, k2}
    OcoKeys = {k2}
    Tasks = {t1, t2}
    NoTask = NoTask
    Notional <- MCNotional
    Cap = 2
    Overrides = 1
    MaxCrashes = 1
    MaxFlips = 1
SYMMETRY TaskSymmetry
INVARIANTS
    NoBlindResubmission
    LiveOrderTracked
    FinalRowAgrees
    CapRespected
    KeyFreeAtInsert
PROPERTY
    KeyIsOneAttempt
    FinalRowsStay
    StartupFindsOrphans
