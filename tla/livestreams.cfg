CONSTANTS
    row = row
    tournament = tournament
    twitch = twitch
    handle = handle
    Rows = {row}
    Tournaments = {tournament}
    TournamentOf <- MCTournamentOf
    Twitch = {twitch}
    YouTube = {handle}
    Handles = {handle}
    Titles = {chess, age}
    Off = off
    Links0 <- MCLinks0
    MaxEdits = 1
    MaxFailures = 2
SPECIFICATION AirSpec
INVARIANT AirTypeOK
PROPERTIES OutageClearsNothing FollowsTheAir
CHECK_DEADLOCK FALSE
