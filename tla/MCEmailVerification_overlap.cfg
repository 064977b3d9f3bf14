SPECIFICATION FairSpec
CONSTANTS
    Requests = {r1, r2, r3}
    Codes = {c1, c2, c3}
    RowIds = {k1, k2, k3}
    MaxAttempts = 1
    TTL = 1
    Interval = 1
    MaxTime = 2
    PoolSize = 2
    MaxInFlight = 2
    NULL = NULL
INVARIANTS
    EmailIInv
    OnlyIssuedCodesInTime
PROPERTY
    EveryCallIsAnswered
