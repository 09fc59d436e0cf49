SPECIFICATION Spec
CONSTANTS
    Accounts = {a1, a2}
    Requests = {r1}
    MaxFaults = 2
SYMMETRY AccountSymmetry
CHECK_DEADLOCK FALSE
INVARIANTS
    CredentialsPresent
    SecretsSwept
    LiveOrderReachable
