----------------------------- MODULE MCService -----------------------------
(* Two clients over one connection, two tenants of which one is public: a    *)
(* read of either kind with and without a token, a write of one, two and     *)
(* three transactions, and a request for each check that turns one away.     *)
EXTENDS Service

CONSTANTS home, away

Sends(route, token) == [route |-> route, token |-> token, viaEdge |-> TRUE, wellFormed |-> TRUE]

Organizer == [tenant |-> home, scopes |-> Scopes]
Scorer == [tenant |-> away, scopes |-> {ScoresWrite}]
Spectator == [tenant |-> away, scopes |-> {}]

MCRequests ==
    {Sends("getTournament", NoToken), Sends("getTournament", Spectator),
     Sends("getTournament", BadToken), Sends("getMatchScores", NoToken),
     Sends("setLineup", Organizer),
     Sends("listMatchFormats", NoToken), Sends("submitScore", Scorer),
     Sends("resetMatch", Scorer), Sends("undraftPlayer", Organizer),
     [Sends("createPlayer", Organizer) EXCEPT !.wellFormed = FALSE],
     [Sends("listPlayers", NoToken) EXCEPT !.viaEdge = FALSE],
     [Sends("handleHealth", NoToken) EXCEPT !.viaEdge = FALSE]}
=============================================================================
