CONSTANTS
    p = p
    Players = {p}
    Ratings = {1, 2, 3}
    Account0 <- MCUnrated
    Rebasable = {}
    MaxGames = 2
SPECIFICATION Spec
PROPERTY NoLatePeak
