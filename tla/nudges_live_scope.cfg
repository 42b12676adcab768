CONSTANTS
    live = live
    twitch_live = twitch_live
    live_matches = live_matches
    a = a
    b = b
    Nowhere = Nowhere
    Events = {live}
    Tasks = {twitch_live, live_matches}
    Tournaments = {a, b}
    Instances = {i1}
    Clients = {c1}
    QueueMax = 2
    MaxStamp = 2
    EventOf <- MCEventOf
    ScopesOf <- MCScopesOf
    Watch <- MCWatch
SPECIFICATION SerialSpec
INVARIANTS NoSilentStaleness
CHECK_DEADLOCK FALSE
