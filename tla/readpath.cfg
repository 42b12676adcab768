CONSTANTS
    Requests = {r1, r2}
    NoToken = noToken
    Spoilt = spoilt
    Foreign = foreign
    None = None
    EdgeTTL = 1
    NamesTTL = 1
    UsersTTL = 1
    Flight = 1
    Mixes <- MCMixes
    MaxLag = 6
    MaxRotations = 2
SPECIFICATION Spec
SYMMETRY Symmetric
INVARIANTS RotationIsSurvived AnswersAreRecent
CHECK_DEADLOCK FALSE
