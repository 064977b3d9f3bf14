SPECIFICATION Spec
CONSTANTS
    Requests = {r1, r2}
    RoleIds = {ro1, ro2}
    PermIds = {p1}
    GrantIds = {g1, g2}
    Names = {a, b}
    Actions = {x, y}
    MaxInFlight = 2
    MaxRestarts = 0
    MayFail = FALSE
    NULL = NULL
SYMMETRY Symmetry
INVARIANT DecisionsFollowTables
