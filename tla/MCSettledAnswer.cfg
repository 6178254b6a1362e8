SPECIFICATION ViewSpec
CONSTANTS
    NumHoles = 2
    TeamA = TeamA
    TeamB = TeamB
    NoTeam = NoTeam
    m1 = m1
    m2 = m2
    p1 = p1
    p2 = p2
    Players = {p1, p2}
    Matches = {m1, m2}
    TeeSets = {white}
    PlayersPerSide = {1}
    MaxTeeTime = 0
    OpensBefore = 0
    ClosesAfter = 0
    Draft <- MCDraft
    Submissions <- MCSubmissions
    Lineups <- MCLineups
    Keep = Keep
    Unborn = Unborn
    Deleted = Deleted
    NoResult = NoResult
SYMMETRY MatchSymmetry
INVARIANT
    SettledAnswerIsSettled
