SPECIFICATION FairSpec
CONSTANTS
    home = home
    away = away
    Clients = {c1, c2}
    Conns = {k1}
    Tenants = {home, away}
    PublicTenant = home
    NoTenant = NoTenant
    NoToken = NoToken
    BadToken = BadToken
    Nobody = Nobody
    NoRequest = NoRequest
    NoAnswer = NoAnswer
    Requests <- MCRequests
INVARIANTS
    TypeOK
    NoRequestCutShort
    AnswersTellTheTruth
    EdgeKeepsOnlyPublicAnswers
PROPERTIES
    EveryRequestAnswered
    ShutdownEnds
CHECK_DEADLOCK FALSE
