------------------------------- MODULE Routes -------------------------------
(***************************************************************************)
(* The HTTP surface in its three layers.  A handler (internal/api/rest)    *)
(* parses its path and its body, calls one service method and answers with *)
(* its result or its error; a service method (internal/golf) runs one      *)
(* transaction of the repository after another; and each of those          *)
(* (internal/db/postgres) returns its rows or an error of a known few.     *)
(*                                                                         *)
(* The errors are the sentinels of golf/errors.go.  An error is the chain  *)
(* of sentinels it wraps, the most specific first.                         *)
(***************************************************************************)
EXTENDS Integers, Sequences, SequencesExt

NotFounds ==
    {"ErrCourseNotFound", "ErrMatchNotFound", "ErrPlayerNotFound", "ErrTeamMemberNotFound",
     "ErrTeamNotFound", "ErrTournamentNotFound", "ErrTournamentPlayerNotFound"}
Conflicts ==
    {"ErrScoredMatchDelete", "ErrScoredMatchLineup", "ErrScoredMatchSetup",
     "ErrAssignedPlayerUndraft", "ErrLineupSize"}

Wraps(e) ==
    IF e \in NotFounds THEN <<e, "ErrNotFound">>
    ELSE IF e \in Conflicts THEN <<e, "ErrConflict">> ELSE <<e>>

\* An error no sentinel stands for: the database's, a cancelled request's.
Unmapped == <<>>

-----------------------------------------------------------------------------
(* The repository: what each transaction may fail with.                    *)

Codes == {"no rows", "unique", "foreign key", "too long", "other"}

MapReadErr(code, missing) == IF code = "no rows" THEN Wraps(missing) ELSE Unmapped

MapWriteErr(code) ==
    CASE code = "unique" -> Wraps("ErrConflict")
      [] code \in {"foreign key", "too long"} -> Wraps("ErrInvalidInput")
      [] OTHER -> Unmapped

MapDeleteErr(code, blocked) ==
    IF code = "foreign key" THEN Wraps(blocked) ELSE MapWriteErr(code)

Plain == {Unmapped}
Missing(e) == {MapReadErr(code, e) : code \in Codes}
Refused(refusals) == {Wraps(e) : e \in refusals}
Written == {MapWriteErr(code) : code \in Codes}
InUse(e) == {MapDeleteErr(code, e) : code \in Codes}

\* write: it changes rows; settles: its service may have its answer after it.
Reads(fails) == [write |-> FALSE, settles |-> FALSE, fails |-> fails]
Changes(fails) == [write |-> TRUE, settles |-> FALSE, fails |-> fails]
Settles(step) == [step EXCEPT !.settles = TRUE]

\* The service looks at what a transaction returned, and may refuse.
Checked(step, refusals) == [step EXCEPT !.fails = @ \cup Refused(refusals)]

PlayersDB ==
    [GetPlayer |-> Reads(Plain \cup Refused({"ErrPlayerNotFound"})),
     ListPlayers |-> Reads(Plain),
     ListPlayerTournaments |-> Reads(Plain),
     PlayerStatsRows |-> Reads(Plain),
     CreatePlayer |-> Changes(Written),
     UpdatePlayer |-> Changes(Missing("ErrPlayerNotFound") \cup Written)]

CoursesDB ==
    [GetCourse |-> Reads(Missing("ErrCourseNotFound")),
     ListCourses |-> Reads(Plain), CreateCourse |-> Changes(Written)]

TeeColorsDB == [ListTeeColors |-> Reads(Plain), CreateTeeColor |-> Changes(Written)]

TeeSetsDB ==
    [ListHolesByTeeSet |-> Reads(Plain), ListTeeSetsByCourse |-> Reads(Plain),
     CreateTeeSet |-> Changes(Written)]

\* The one query that sets no tenant, and opens no transaction.
MatchFormatsDB == [ListMatchFormats |-> Reads(Plain)]

Locks == Missing("ErrMatchNotFound")

MatchesDB ==
    [GetMatch |-> Reads(Missing("ErrMatchNotFound")),
     ListMatchesByTournament |-> Reads(Plain), ListMatchDetailsByTournament |-> Reads(Plain),
     CreateMatch |-> Changes(Written),
     UpdateMatch |-> Changes(Locks \cup Refused({"ErrScoredMatchSetup"}) \cup Written),
     DeleteMatch |-> Changes(Locks \cup Refused({"ErrScoredMatchDelete"}) \cup Written)]

ParticipantsDB ==
    [ListMatchParticipants |-> Reads(Plain),
     ListParticipantsWithPlayersByTournament |-> Reads(Plain),
     SetMatchLineup |->
        Changes(Locks \cup Refused({"ErrScoredMatchLineup", "ErrLineupSize"}) \cup Written)]

ScoresDB ==
    [ListScoresByMatch |-> Reads(Plain), ListScoresByTournament |-> Reads(Plain),
     SaveScoresAndRecompute |-> Changes(Locks \cup Written),
     ResetMatch |-> Changes(Locks \cup Written)]

ResultsDB ==
    [GetMatchResult |-> Reads(Plain),
     ListMatchOutcomes |-> Reads(Plain), ListAllMatchOutcomes |-> Reads(Plain),
     ListTournamentPlayerRecords |-> Reads(Plain),
     ListAllTournamentStandings |-> Reads(Plain), ListCupData |-> Reads(Plain)]

TournamentsDB ==
    [GetTournament |-> Reads(Missing("ErrTournamentNotFound")),
     ListTournaments |-> Reads(Plain), CreateTournamentWithTeams |-> Changes(Written)]

TournamentPlayersDB ==
    [ListTournamentPlayers |-> Reads(Plain), ListTournamentPlayersByTeam |-> Reads(Plain),
     CreateTournamentPlayer |-> Changes(Written),
     UpdateTournamentPlayer |-> Changes(Missing("ErrTournamentPlayerNotFound"))]

TeamsDB ==
    [GetTeam |-> Reads(Missing("ErrTeamNotFound")), ListTeamsByTournament |-> Reads(Plain),
     SetTeamCaptain |-> Changes(Missing("ErrTeamNotFound") \cup Written),
     ClearCaptainForPlayer |-> Changes(Plain),
     ClearCaptain |-> Changes(Plain \cup Refused({"ErrTeamNotFound"}))]

TeamMembersDB ==
    [CreateTeamMember |-> Changes(Written),
     DeleteTeamMember |->
        Changes(InUse("ErrAssignedPlayerUndraft") \cup Refused({"ErrTeamMemberNotFound"}))]

-----------------------------------------------------------------------------
(* The services: the transactions of each method, in order.                *)

FormatService == [ListFormats |-> <<MatchFormatsDB.ListMatchFormats>>]

PlayerService ==
    [CreatePlayer |-> <<PlayersDB.CreatePlayer>>,
     UpdatePlayer |-> <<PlayersDB.UpdatePlayer>>,
     GetPlayer |-> <<PlayersDB.GetPlayer, ResultsDB.ListCupData>>,
     ListPlayers |-> <<PlayersDB.ListPlayers, ResultsDB.ListCupData>>,
     ListPlayerTournaments |->
        <<PlayersDB.ListPlayerTournaments, ResultsDB.ListAllTournamentStandings>>,
     PlayerStats |-> <<PlayersDB.PlayerStatsRows>>]

CourseService ==
    [CreateTeeColor |-> <<TeeColorsDB.CreateTeeColor>>,
     ListTeeColors |-> <<TeeColorsDB.ListTeeColors>>,
     CreateCourse |-> <<CoursesDB.CreateCourse>>,
     GetCourse |-> <<CoursesDB.GetCourse>>,
     CreateTeeSet |-> <<CoursesDB.GetCourse, TeeSetsDB.CreateTeeSet>>,
     ListCourseTeeSets |-> <<TeeSetsDB.ListTeeSetsByCourse>>,
     ListCourses |-> <<CoursesDB.ListCourses>>]

\* The scoring window is checked on the match read first, the sides on the
\* participants, and a finished match by the guard the last transaction runs.
MatchService ==
    [CreateMatch |-> <<MatchesDB.CreateMatch>>,
     UpdateMatch |-> <<MatchesDB.UpdateMatch>>,
     ListMatches |-> <<MatchesDB.ListMatchesByTournament>>,
     SetLineup |-> <<ParticipantsDB.SetMatchLineup>>,
     ListParticipants |-> <<ParticipantsDB.ListMatchParticipants>>,
     SubmitHoleScores |->
        <<Checked(MatchesDB.GetMatch, {"ErrConflict"}),
          Checked(ParticipantsDB.ListMatchParticipants, {"ErrInvalidInput"}),
          Checked(ScoresDB.SaveScoresAndRecompute, {"ErrConflict"})>>,
     CalculateMatchScores |->
        <<Settles(ParticipantsDB.ListMatchParticipants), ScoresDB.ListScoresByMatch>>,
     ListMatchHoles |-> <<MatchesDB.GetMatch, TeeSetsDB.ListHolesByTeeSet>>,
     DeleteMatch |-> <<MatchesDB.DeleteMatch>>,
     ResetMatch |-> <<ScoresDB.ResetMatch>>,
     ListResults |->
        <<MatchesDB.ListMatchDetailsByTournament,
          ParticipantsDB.ListParticipantsWithPlayersByTournament,
          ScoresDB.ListScoresByTournament, ResultsDB.ListMatchOutcomes>>,
     MatchStatus |-> <<ResultsDB.GetMatchResult>>]

TournamentService ==
    [CreateTournament |-> <<TournamentsDB.CreateTournamentWithTeams>>,
     GetOutcome |-> <<Settles(ResultsDB.ListMatchOutcomes), TeamsDB.ListTeamsByTournament>>,
     GetTeamsData |-> <<TeamsDB.ListTeamsByTournament, ResultsDB.ListMatchOutcomes>>,
     GetTournament |-> <<TournamentsDB.GetTournament, ResultsDB.ListMatchOutcomes>>,
     ListTournaments |-> <<TournamentsDB.ListTournaments, ResultsDB.ListAllMatchOutcomes>>]

RosterService ==
    [EnterPlayer |-> <<TournamentPlayersDB.CreateTournamentPlayer>>,
     UpdatePlayer |-> <<TournamentPlayersDB.UpdateTournamentPlayer>>,
     ListPlayers |->
        <<TournamentPlayersDB.ListTournamentPlayers, ResultsDB.ListTournamentPlayerRecords,
          ResultsDB.ListCupData>>,
     DraftPlayer |-> <<TeamsDB.GetTeam, TeamMembersDB.CreateTeamMember>>,
     UndraftPlayer |-> <<TeamMembersDB.DeleteTeamMember, TeamsDB.ClearCaptainForPlayer>>,
     ListTeamMembers |-> <<TournamentPlayersDB.ListTournamentPlayersByTeam>>]

TeamService ==
    [SetCaptain |-> <<TeamsDB.SetTeamCaptain>>, ClearCaptain |-> <<TeamsDB.ClearCaptain>>]

-----------------------------------------------------------------------------
(* The handlers: who may call each, the service method it calls, the       *)
(* status of its success, and whether it picks its cache tier from the     *)
(* phase of a cup.                                                         *)

TournamentsWrite == "tournaments:write"
PlayersWrite == "players:write"
ScoresWrite == "scores:write"
CoursesWrite == "courses:write"
Scopes == {TournamentsWrite, PlayersWrite, ScoresWrite, CoursesWrite}
NoScope == "none"

\* probe: the health check, served past the proxy's secret; open: no tenant;
\* public: a token's tenant or the public one; scoped: a token with the scope.
Route(access, scope, steps, ok, phased) ==
    [access |-> access, scope |-> scope, steps |-> steps, ok |-> ok, phased |-> phased]

Public(steps) == Route("public", NoScope, steps, 200, FALSE)
Phased(steps) == Route("public", NoScope, steps, 200, TRUE)
Scoped(scope, steps, ok) == Route("scoped", scope, steps, ok, FALSE)

Health == [handleHealth |-> Route("probe", NoScope, <<Reads(Plain)>>, 200, FALSE)]

FormatRoutes ==
    [listMatchFormats |-> Route("open", NoScope, FormatService.ListFormats, 200, FALSE)]

PlayerRoutes ==
    [listPlayers |-> Public(PlayerService.ListPlayers),
     createPlayer |-> Scoped(PlayersWrite, PlayerService.CreatePlayer, 201),
     updatePlayer |-> Scoped(PlayersWrite, PlayerService.UpdatePlayer, 200),
     getPlayer |-> Public(PlayerService.GetPlayer),
     getPlayerStats |-> Public(PlayerService.PlayerStats),
     listPlayerTournaments |-> Public(PlayerService.ListPlayerTournaments)]

CourseRoutes ==
    [listTeeColors |-> Public(CourseService.ListTeeColors),
     createTeeColor |-> Scoped(CoursesWrite, CourseService.CreateTeeColor, 201),
     listCourses |-> Public(CourseService.ListCourses),
     createCourse |-> Scoped(CoursesWrite, CourseService.CreateCourse, 201),
     getCourse |-> Public(CourseService.GetCourse),
     listCourseTeeSets |-> Public(CourseService.ListCourseTeeSets),
     addTeeSet |-> Scoped(CoursesWrite, CourseService.CreateTeeSet, 201)]

MatchSetupRoutes ==
    [listMatches |-> Public(MatchService.ListMatches),
     createMatch |-> Scoped(TournamentsWrite, MatchService.CreateMatch, 201),
     updateMatch |-> Scoped(TournamentsWrite, MatchService.UpdateMatch, 200)]

MatchRoutes ==
    [listResults |-> Phased(MatchService.ListResults),
     getMatchHoles |-> Public(MatchService.ListMatchHoles),
     listParticipants |-> Public(MatchService.ListParticipants),
     setLineup |-> Scoped(TournamentsWrite, MatchService.SetLineup, 204),
     getMatchScores |-> Public(MatchService.CalculateMatchScores),
     submitScore |-> Scoped(ScoresWrite, MatchService.SubmitHoleScores, 200),
     deleteMatch |-> Scoped(TournamentsWrite, MatchService.DeleteMatch, 204),
     resetMatch |-> Scoped(TournamentsWrite, MatchService.ResetMatch, 204),
     getMatchStatus |-> Public(MatchService.MatchStatus)]

TournamentRoutes ==
    [listTournaments |-> Public(TournamentService.ListTournaments),
     createTournament |-> Scoped(TournamentsWrite, TournamentService.CreateTournament, 201),
     getTournament |-> Phased(TournamentService.GetTournament),
     getTournamentTeams |-> Phased(TournamentService.GetTeamsData),
     getTournamentWinner |-> Public(TournamentService.GetOutcome),
     getTournamentStatus |-> Public(TournamentService.GetOutcome)]

RosterRoutes ==
    [listTournamentPlayers |-> Public(RosterService.ListPlayers),
     enterPlayer |-> Scoped(TournamentsWrite, RosterService.EnterPlayer, 201),
     updateTournamentPlayer |-> Scoped(TournamentsWrite, RosterService.UpdatePlayer, 200),
     draftPlayer |-> Scoped(TournamentsWrite, RosterService.DraftPlayer, 201),
     undraftPlayer |-> Scoped(TournamentsWrite, RosterService.UndraftPlayer, 204),
     listTeamMembers |-> Public(RosterService.ListTeamMembers)]

TeamRoutes ==
    [setCaptain |-> Scoped(TournamentsWrite, TeamService.SetCaptain, 204),
     clearCaptain |-> Scoped(TournamentsWrite, TeamService.ClearCaptain, 204)]

Patterns ==
    {Health, FormatRoutes, PlayerRoutes, CourseRoutes, MatchSetupRoutes, MatchRoutes,
     TournamentRoutes, RosterRoutes, TeamRoutes}

\* One handler for each: no two of these name the same.
Mux ==
    [handler \in UNION {DOMAIN t : t \in Patterns} |->
        (CHOOSE t \in Patterns : handler \in DOMAIN t)[handler]]

-----------------------------------------------------------------------------
\* Bug: ErrConflict stands after the rows not found, ahead of those that wrap it.
Answers_ConflictAhead ==
    <<"ErrCourseNotFound", "ErrMatchNotFound", "ErrPlayerNotFound", "ErrTeamMemberNotFound",
      "ErrTeamNotFound", "ErrTournamentNotFound", "ErrTournamentPlayerNotFound",
      "ErrConflict",
      "ErrScoredMatchDelete", "ErrScoredMatchLineup", "ErrScoredMatchSetup",
      "ErrAssignedPlayerUndraft", "ErrLineupSize", "ErrNotFound", "ErrInvalidInput">>

\* domainAnswers, ordered: the first sentinel an error wraps answers for it.
Answers ==
    <<"ErrCourseNotFound", "ErrMatchNotFound", "ErrPlayerNotFound", "ErrTeamMemberNotFound",
      "ErrTeamNotFound", "ErrTournamentNotFound", "ErrTournamentPlayerNotFound",
      "ErrScoredMatchDelete", "ErrScoredMatchLineup", "ErrScoredMatchSetup",
      "ErrAssignedPlayerUndraft", "ErrLineupSize",
      "ErrNotFound", "ErrInvalidInput", "ErrConflict">>

StatusOf(e) ==
    IF e \in NotFounds \cup {"ErrNotFound"} THEN 404
    ELSE IF e = "ErrInvalidInput" THEN 400 ELSE 409

ServerFault == "server fault"
NoBody == "no body"

\* What an answer says of how the request went.
Sentences == ToSet(Answers) \cup {"ok", "refused", ServerFault, NoBody}

\* What an answer can have been written for.
Errors == {Wraps(e) : e \in ToSet(Answers)} \cup {Unmapped}

\* respondDomainError: the status and the sentence an error is answered with;
\* respondError is handed the error beside them.
DomainAnswer(chain) ==
    LET i == SelectInSeq(Answers, LAMBDA e : e \in ToSet(chain))
    IN IF i = 0 THEN [status |-> 500, says |-> ServerFault, error |-> chain]
       ELSE [status |-> StatusOf(Answers[i]), says |-> Answers[i], error |-> chain]
=============================================================================
