CONSTANTS
    duel = duel
    solo = solo
    ann = ann
    bob = bob
    cup = cup
    league = league
    Matches = {duel, solo}
    Profiles = {ann, bob}
    Tournaments = {cup, league}
    Members <- MCMembers
    Game0 <- MCGame0
    Roster0 <- MCRoster0
    Editable <- MCEditable
    MaxEdits = 1
    MaxFailures = 1
SPECIFICATION FairSpec
PROPERTIES CompletedIsFinal LiveNudgeCovers RecentNudgeCovers GameIsRecorded LinksAreDropped
CHECK_DEADLOCK FALSE
