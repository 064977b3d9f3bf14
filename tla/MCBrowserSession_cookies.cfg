SPECIFICATION BrowserSpec
CONSTANTS
    Requests = {r1, r2, r3, r4}
    Jtis = {j1, j2, j3, j4}
    Users = {u1}
    MaxVersion = 1
    NULL = NULL
SYMMETRY Symmetry
INVARIANTS
    BrowserIInv
    AlarmNeedsUnseenAnswer
    LogoutEndsFamily
    CookieWorksAlone
