SPECIFICATION Spec
CONSTANTS
    NumHoles = 5
    TeamA = TeamA
    TeamB = TeamB
    NoTeam = NoTeam
    MaxStrokes = 2
    Balls <- MCBalls
    BallTeam <- MCBallTeam
    BallHoles <- MCBallHoles
INVARIANTS
    FinishedIffSettled
    MarginIsAScoreline
    HoleWinnersAddUp
PROPERTY
    LateEntryKeepsWinner
    PartnerCanOnlyHelp
