SPECIFICATION Spec
CONSTANTS
    NumHoles = 1
    TeamA = TeamA
    TeamB = TeamB
    NoTeam = NoTeam
    c1 = c1
    c2 = c2
    m1 = m1
    m2 = m2
    p1 = p1
    p2 = p2
    p3 = p3
    Players = {p1, p2, p3}
    Matches = {m1}
    Clients = {c1}
    TeeSets = {white}
    PlayersPerSide = {1}
    MaxTeeTime = 0
    OpensBefore = 0
    ClosesAfter = 0
    Draft <- MCDraft
    Submissions <- MCSubmissions
    Lineups <- MCLineups
    Format <- MCFormat
    CutOffAt = {"placing", "removed", "undrafted"}
    Keep = Keep
    Unborn = Unborn
    Deleted = Deleted
    NoResult = NoResult
    NoMatch = NoMatch
    NoPlace = NoPlace
    NoPlayer = NoPlayer
INVARIANT
    RoleNeverStale
