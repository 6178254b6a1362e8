SPECIFICATION Spec
CONSTANTS
    NumHoles = 3
    TeamA = TeamA
    TeamB = TeamB
    NoTeam = NoTeam
    m1 = m1
    m2 = m2
    p1 = p1
    p2 = p2
    p3 = p3
    p4 = p4
    Players = {p1, p2, p3, p4}
    Matches = {m1, m2}
    TeeSets = {white}
    PlayersPerSide = {1, 2}
    MaxTeeTime = 0
    OpensBefore = 0
    ClosesAfter = 0
    Draft <- MCDraft
    Submissions <- MCSubmissions
    Lineups <- MCLineups
    Keep = Keep
    Unborn = Unborn
    Deleted = Deleted
    NoResult = NoResult
SYMMETRY MatchSymmetry
INVARIANTS
    CupGoesToMoreWins
    PointsAddUp
    PhaseFollowsTheCards
    RecordsAgreeWithStandings
    VerdictsAgree
    SplitsAddUp
    PairsMirror
    MarginsMirror
CHECK_DEADLOCK FALSE
