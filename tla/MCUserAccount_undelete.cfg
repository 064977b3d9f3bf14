SPECIFICATION Spec
CONSTANTS
    Requests = {r1, r2}
    Emails = {a, b, c}
    Anonymous = Anonymous
    MaxAttempts = 2
    Lockout = 1
    MaxTime = 2
    MaxInFlight = 2
    NULL = NULL
SYMMETRY Symmetry
PROPERTY DeletionIsFinal
