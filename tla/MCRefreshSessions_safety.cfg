SPECIFICATION Spec
CONSTANTS
    Requests = {r1, r2, r3, r4, r5}
    Jtis = {j1, j2, j3, j4}
    Users = {u1, u2}
    MaxVersion = 1
    NULL = NULL
SYMMETRY Symmetry
INVARIANTS
    IInv
    AtMostOneLivePerFamily
    OneWinnerPerToken
    AlarmKillsFamilyUnlessRaced
    AlarmNeedsASecondUse
    SomeoneCanMove
PROPERTIES
    DeadFamilyStaysDead
    ImplementsRotatingTokens
