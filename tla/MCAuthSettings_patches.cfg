SPECIFICATION FairSpec
CONSTANTS
    Requests = {r1, r2, r3}
    Keys = {1, 2}
    Values = {a}
    Fallbacks = {d}
    NULL = NULL
    OMIT = OMIT
INVARIANTS
    LaterPatchDecides
    AnswerShowsPatch
PROPERTY
    EveryPatchIsAnswered
