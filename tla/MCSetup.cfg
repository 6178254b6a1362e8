SPECIFICATION FairSpec
CONSTANTS
    c1 = c1
    c2 = c2
    ann = ann
    ANN = ANN
    bob = bob
    Clients = {c1, c2}
    NumHoles = 2
    Courses = {"links"}
    Colors = {"white"}
    Emails = {ann, ANN, bob}
    Folded <- MCFolded
    CupNames = {"one", "two"}
    Files <- MCFiles
    HoleLists <- MCHoleLists
    Players = {1, 2, 3}
    Cups = {1, 2}
    NoPlayer = NoPlayer
    NoCup = NoCup
    NoAddress = NoAddress
    NoFile = NoFile
    NoPair = NoPair
INVARIANTS
    TypeOK
    CupsAreWhole
    MatchesHaveHoles
    SetUpOnce
PROPERTIES
    SeedRecognises
    EveryRequestEnds
