SPECIFICATION Spec
CONSTANTS
    NumHoles = 1
    TeamA = TeamA
    TeamB = TeamB
    NoTeam = NoTeam
    c1 = c1
    c2 = c2
    p1 = p1
    p2 = p2
    p3 = p3
    p4 = p4
    p5 = p5
    Clients = {c1, c2}
    Players = {p1, p2, p3, p4, p5}
    Matches = {m1}
    TeeSets = {white, blue}
    PlayersPerSide = {1, 2}
    MaxTeeTime = 1
    MaxNow = 1
    OpensBefore = 0
    ClosesAfter = 0
    Draft <- MCDraft
    Submissions <- MCSubmissions
    Lineups <- MCLineups
    Keep = Keep
    Unborn = Unborn
    Deleted = Deleted
    NoResult = NoResult
    NoClient = NoClient
    NoRequest = NoRequest
    NoRow = NoRow
SYMMETRY ClientSymmetry
INVARIANTS
    ScoredMatchIsWhole
PROPERTIES
    ScoredMatchIsFrozen
    ImplementsBook
