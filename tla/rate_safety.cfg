SPECIFICATION PathSpec
CONSTANTS
    Ips = {ip1}
    Threads = {t1, t2}
    Rate = 2
    Cost = 3
    Burst = 2
    MaxTime = 5
INVARIANTS
    PathTypeOK
    BoundedByReadings
    RetryAfterSuffices
    PublicNeedsKey
    NeverTurnedAway
CHECK_DEADLOCK FALSE
