SPECIFICATION Spec
CONSTANTS
    Alerts = {a1}
    Windows = {w1, w2}
    Cooldown <- MCCooldown
    Evaluators = {e1, e2}
    Approvers = {t1, t2}
    stale_after_seconds = 1
    MaxTime = 3
    MaxCrashes = 1
SYMMETRY MCSymmetry
INVARIANTS
    ExecutedOnce
    PendingAgrees
    ExecutingOwned
    CooldownKept
PROPERTY
    DecisionsStay
CHECK_DEADLOCK FALSE
