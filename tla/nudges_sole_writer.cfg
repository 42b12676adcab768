CONSTANTS
    standings = standings
    live = live
    player_stats = player_stats
    live_matches = live_matches
    a = a
    Nowhere = Nowhere
    Events = {standings, live}
    Tasks = {player_stats, live_matches}
    Tournaments = {a}
    Instances = {i1}
    Clients = {c1}
    QueueMax = 1
    MaxStamp = 3
    EventOf <- MCEventOf
    ScopesOf <- MCScopesOf
    Watch <- MCWatch
SPECIFICATION FairSpec
INVARIANT NoSilentStaleness
PROPERTIES RowNeverGoesBack StaleViewerIsServed KeepsThePromise
CHECK_DEADLOCK FALSE
