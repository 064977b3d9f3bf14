SPECIFICATION Spec
CONSTANTS
    Ids = {1, 2, 3, 4}
    Emails = {1, 2, 3, 4}
    Times = {1, 2}
    Limits = {1, 2, 3}
    MaxLimit = 2
    MaxChanges = 1
    NULL = NULL
INVARIANTS
    ListIInv
    UntouchedListedOnce
    ListingIsOrdered
