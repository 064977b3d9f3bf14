SPECIFICATION AccessSpec
CONSTANTS
    Requests = {r1, r2, r3}
    RoleIds = {ro1, ro2}
    PermIds = {p1}
    GrantIds = {g1, g2}
    Names = {a, b}
    Actions = {x, y}
    MaxInFlight = 3
    MaxRestarts = 1
    MayFail = TRUE
    NULL = NULL
SYMMETRY Symmetry
INVARIANTS
    AccessIInv
    NothingNewAlone
    NothingMissingAlone
    DecisionsFollowTablesAlone
    OnlyOfferedActions
PROPERTIES
    RemovedStaysRemovedAlone
    RemovalDeletesNoGrantAlone
