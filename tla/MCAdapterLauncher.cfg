SPECIFICATION AdapterSpec
CONSTANTS
    Daemons = {d1, d2, d3}
    Nobody = Nobody
    Adapters = {c1, c2}
    lock_probe_retries = 1
    max_retries = 2
    SlowWriter = TRUE
    MaxCrashes = 1
    MaxStops = 1
PROPERTY
    SecondDaemonStops
    ServerOwnsLock
CHECK_DEADLOCK FALSE
