CONSTANTS
    p = p
    Players = {p}
    Ratings = {1, 2, 3}
    Account0 <- MCRated
    Rebasable = {p}
    MaxGames = 2
SPECIFICATION Spec
INVARIANTS LogFollowsLive PeakIsTrue CurrentIsTrue
PROPERTIES CloseMovesNoPeak TableSettles
