SPECIFICATION Spec
CONSTANTS
    NumHoles = 3
    TeamA = TeamA
    TeamB = TeamB
    NoTeam = NoTeam
    c1 = c1
    c2 = c2
    p1 = p1
    p2 = p2
    Clients = {c1, c2}
    Players = {p1, p2}
    Matches = {m1}
    TeeSets = {white}
    PlayersPerSide = {1}
    MaxTeeTime = 0
    MaxNow = 0
    OpensBefore = 0
    ClosesAfter = 0
    Draft <- MCDraft
    Submissions <- MCSubmissions
    Lineups <- MCLineups
    Keep = Keep
    Unborn = Unborn
    Deleted = Deleted
    NoResult = NoResult
    NoClient = NoClient
    NoRequest = NoRequest
    NoRow = NoRow
SYMMETRY ClientSymmetry
INVARIANTS
    TypeOK
    ResultInSync
PROPERTIES
    FinishedTakesNoNewHole
    ImplementsBook
