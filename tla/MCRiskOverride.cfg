SPECIFICATION Spec
CONSTANTS
    r1 = r1
    s1 = s1
    s2 = s2
    Requests = {r1, r2}
    Overrides = {k1, k2}
    Symbols = {s1, s2}
    Patches <- MCPatches
    SymbolOf <- MCSymbolOf
    Need <- MCNeed
    MaxVersion = 3
    MaxTime = 1
    MaxCrashes = 1
SYMMETRY OverrideSymmetry
INVARIANTS
    ReservedIsCurrent
    VersionNamesPolicy
    OverBudgetJustified
PROPERTY
    SpentStays
CHECK_DEADLOCK FALSE
