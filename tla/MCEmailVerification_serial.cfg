SPECIFICATION Spec
CONSTANTS
    Requests = {r1, r2, r3, r4, r5}
    Codes = {c1, c2, c3}
    RowIds = {k1, k2}
    MaxAttempts = 2
    TTL = 1
    Interval = 2
    MaxTime = 4
    PoolSize = 2
    MaxInFlight = 1
    NULL = NULL
SYMMETRY Symmetry
INVARIANTS
    AttemptsBounded
    CodeUsedOnce
    OldCodeIsRefused
PROPERTIES
    ResendInterval
    ImplementsOneTimeCode
