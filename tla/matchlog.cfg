CONSTANTS
    type1 = type1
    type2 = type2
    board1 = board1
    board2 = board2
    Matches = {m}
    Tracked = {a, b}
    Matchtypes = {type1, type2}
    Leaderboards = {board1, board2}
    Floor <- MCFloor
    Payloads <- MCPayloads
    Null = Null
    MaxFaults = 1
SPECIFICATION LogSpec
PROPERTIES TagLostOnlyByRestart ResultsSettle MatchesSettle
