CONSTANTS
    Profiles = {1, 2, 3}
    Entrants = {1, 2}
    Plays <- MCPlays
    Start = 2
    End = 5
    Unknown <- MCUnknown
    Limit = 2
    MinGames = 2
    None = None
SPECIFICATION Spec
INVARIANTS RunsAreLongest CardSpansItsValue ViewsAgree
CHECK_DEADLOCK FALSE
