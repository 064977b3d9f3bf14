SPECIFICATION Spec
CONSTANTS
    Requests = {r1, r2, r3}
    Codes = {c1}
    RowIds = {k1, k2}
    MaxAttempts = 1
    TTL = 1
    Interval = 2
    MaxTime = 1
    PoolSize = 4
    MaxInFlight = 2
    NULL = NULL
SYMMETRY Symmetry
INVARIANT AttemptsBounded
