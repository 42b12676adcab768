CONSTANTS
    old = old
    new = new
    guest = guest
    Players = {old, new}
    Placeholders = {guest}
    Name <- MCName
    Teams = {1, 2}
    TeamOf <- MCTeamOf
    Ratings = {1, 2, 3}
    Account0 <- MCAccount0
    Live0 <- MCLive0
    Recorders = {0, 3}
    Modes = {"peak_rating", "current_rating"}
    Start = 1
    End = 4
    Day = 3
    Horizon = 5
    MaxGames <- MCMaxGames
SPECIFICATION Spec
INVARIANTS ChartEndsAtTable EveryOrderIsCharted NoPeakBeforeItIsEarned
PROPERTIES PastIsSettled
CHECK_DEADLOCK FALSE
