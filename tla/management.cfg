CONSTANTS
    cup = cup
    open = open
    cup0 = cup0
    p1 = p1
    p2 = p2
    t0 = t0
    ann = ann
    bob = bob
    prof = prof
    alt = alt
    None = None
    Requests = {r1, r2, r3}
    Rows0 = {cup0, p1, p2, t0}
    Slugs = {cup, open}
    Users = {ann, bob}
    Creators = {ann}
    Profiles = {prof, alt}
    Dates = {1, 2}
    Ops <- MCOps
    MaxRoster = 2
    MaxOwned = 1
    Tournaments0 <- MCTournaments0
    Owners0 <- MCOwners0
    Players0 <- MCPlayers0
    Teams0 <- MCTeams0
    Members0 <- MCMembers0
SYMMETRY MCSymmetry
SPECIFICATION Spec
INVARIANTS NoOrphans OneCaptain ProfileOnce RosterBounded
PROPERTIES LastOwnerGuard OnlyStaleReads
CHECK_DEADLOCK FALSE
