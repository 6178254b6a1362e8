---------------------------- MODULE ServiceProofs ----------------------------
(***************************************************************************)
(* For any number of clients, connections, tenants and requests: a drain   *)
(* that ends in time cuts no request short, what the edge may keep was     *)
(* made for anybody to see, no goroutine holds more than the connection of *)
(* its transaction, and an answer tells the truth about its writes.        *)
(*                                                                         *)
(* What the edge keeps is not inductive: an answer is written from rows    *)
(* touched in earlier transactions.  IInv adds that a connection in use is *)
(* set to the tenant of its user's request and that a request has touched  *)
(* no other tenant's rows; the two files that ask who is anonymous then    *)
(* meet in AnswerForAll.                                                   *)
(*                                                                         *)
(* What an answer says of its writes rests on the routes: MuxKinds says    *)
(* that no handler writes after a read that may settle it, and that after  *)
(* a first write none fails with an error the caller is to blame for.      *)
(* MostSpecific says what the order of domainAnswers is for.               *)
(***************************************************************************)
EXTENDS Service, FiniteSetTheorems, NaturalsInduction, WellFoundedInduction, TLAPS

-----------------------------------------------------------------------------
(* The routes: what every transaction may fail with, and in which order a  *)
(* handler reads, writes and answers.                                      *)

\* The chains a transaction may fail with, and those of a step that answers 4xx:
\* the bare ErrNotFound is never one.
Sentinels == NotFounds \cup Conflicts \cup {"ErrInvalidInput", "ErrConflict"}
Chains == Refused(Sentinels) \cup {Unmapped}

ReadSteps == [write : {FALSE}, settles : {FALSE}, fails : SUBSET Chains]
WriteSteps == [write : {TRUE}, settles : {FALSE}, fails : SUBSET Chains]
EarlySteps == [write : {FALSE}, settles : {TRUE}, fails : SUBSET Chains]
DBSteps == ReadSteps \cup WriteSteps \cup EarlySteps

\* Nothing is written after an answer may have been settled, and once a write
\* has committed only an error nobody is to blame for can follow.
StepsInOrder(steps) ==
    \A i, j \in DOMAIN steps : i < j =>
        /\ steps[j].write => ~steps[i].settles
        /\ steps[i].write => steps[j].fails = {Unmapped}

Methods == {steps \in Seq(DBSteps) : steps # <<>> /\ StepsInOrder(steps)}

GoodRoutes ==
    [access : {"probe", "open", "public", "scoped"}, scope : Scopes \cup {NoScope},
     steps : Methods, ok : {200, 201, 204}, phased : BOOLEAN]

\* What each kind of error mapping gives is one of the chains.
LEMMA FailureChains ==
    /\ Plain \in SUBSET Chains /\ Written \in SUBSET Chains
    /\ \A e \in Sentinels : Missing(e) \in SUBSET Chains /\ InUse(e) \in SUBSET Chains
    /\ \A refusals \in SUBSET Sentinels : Refused(refusals) \in SUBSET Chains
<1>1. "ErrConflict" \in Sentinels /\ "ErrInvalidInput" \in Sentinels
  BY DEF Sentinels
<1>2. \A e \in Sentinels : Wraps(e) \in Chains
  BY DEF Chains, Refused
<1>3. Unmapped \in Chains
  BY DEF Chains
<1>4. \A refusals \in SUBSET Sentinels : Refused(refusals) \in SUBSET Chains
  BY <1>2 DEF Refused
<1>5. Plain \in SUBSET Chains
  BY <1>3 DEF Plain
<1>6. \A code : MapWriteErr(code) \in Chains
  BY <1>1, <1>2, <1>3 DEF MapWriteErr
<1>7. Written \in SUBSET Chains
  BY <1>6 DEF Written
<1>8. \A e \in Sentinels : Missing(e) \in SUBSET Chains /\ InUse(e) \in SUBSET Chains
  BY <1>2, <1>3, <1>6 DEF Missing, InUse, MapReadErr, MapDeleteErr
<1> QED
  BY <1>4, <1>5, <1>7, <1>8

LEMMA StepKinds ==
    ASSUME NEW fails \in SUBSET Chains
    PROVE  Reads(fails) \in ReadSteps /\ Changes(fails) \in WriteSteps
  BY DEF Reads, Changes, ReadSteps, WriteSteps

LEMMA CheckedKinds ==
    ASSUME NEW step, NEW refusals \in SUBSET Sentinels
    PROVE  /\ step \in ReadSteps => Checked(step, refusals) \in ReadSteps
           /\ step \in WriteSteps => Checked(step, refusals) \in WriteSteps
           /\ step \in ReadSteps => Settles(step) \in EarlySteps
  BY FailureChains DEF Checked, Settles, ReadSteps, WriteSteps, EarlySteps

\* The transactions of the repository.
LEMMA PlayersKinds ==
    /\ PlayersDB.GetPlayer \in ReadSteps /\ PlayersDB.ListPlayers \in ReadSteps
    /\ PlayersDB.ListPlayerTournaments \in ReadSteps /\ PlayersDB.PlayerStatsRows \in ReadSteps
    /\ PlayersDB.CreatePlayer \in WriteSteps /\ PlayersDB.UpdatePlayer \in WriteSteps
<1>1. "ErrPlayerNotFound" \in Sentinels
  BY DEF Sentinels, NotFounds
<1> QED
  BY <1>1, FailureChains, StepKinds DEF PlayersDB

LEMMA CoursesKinds ==
    /\ CoursesDB.GetCourse \in ReadSteps /\ CoursesDB.ListCourses \in ReadSteps
    /\ CoursesDB.CreateCourse \in WriteSteps
    /\ TeeColorsDB.ListTeeColors \in ReadSteps /\ TeeColorsDB.CreateTeeColor \in WriteSteps
    /\ TeeSetsDB.ListHolesByTeeSet \in ReadSteps /\ TeeSetsDB.ListTeeSetsByCourse \in ReadSteps
    /\ TeeSetsDB.CreateTeeSet \in WriteSteps
    /\ MatchFormatsDB.ListMatchFormats \in ReadSteps
<1>1. "ErrCourseNotFound" \in Sentinels
  BY DEF Sentinels, NotFounds
<1> QED
  BY <1>1, FailureChains, StepKinds DEF CoursesDB, TeeColorsDB, TeeSetsDB, MatchFormatsDB

LEMMA MatchesKinds ==
    /\ MatchesDB.GetMatch \in ReadSteps /\ MatchesDB.ListMatchesByTournament \in ReadSteps
    /\ MatchesDB.ListMatchDetailsByTournament \in ReadSteps
    /\ MatchesDB.CreateMatch \in WriteSteps /\ MatchesDB.UpdateMatch \in WriteSteps
    /\ MatchesDB.DeleteMatch \in WriteSteps
<1>1. {"ErrMatchNotFound", "ErrScoredMatchSetup", "ErrScoredMatchDelete"} \subseteq Sentinels
  BY DEF Sentinels, NotFounds, Conflicts
<1> QED
  BY <1>1, FailureChains, StepKinds DEF MatchesDB, Locks

LEMMA ParticipantsKinds ==
    /\ ParticipantsDB.ListMatchParticipants \in ReadSteps
    /\ ParticipantsDB.ListParticipantsWithPlayersByTournament \in ReadSteps
    /\ ParticipantsDB.SetMatchLineup \in WriteSteps
<1>1. {"ErrMatchNotFound", "ErrScoredMatchLineup", "ErrLineupSize"} \subseteq Sentinels
  BY DEF Sentinels, NotFounds, Conflicts
<1> QED
  BY <1>1, FailureChains, StepKinds DEF ParticipantsDB, Locks

LEMMA ScoresKinds ==
    /\ ScoresDB.ListScoresByMatch \in ReadSteps /\ ScoresDB.ListScoresByTournament \in ReadSteps
    /\ ScoresDB.SaveScoresAndRecompute \in WriteSteps /\ ScoresDB.ResetMatch \in WriteSteps
    /\ ResultsDB.GetMatchResult \in ReadSteps /\ ResultsDB.ListMatchOutcomes \in ReadSteps
    /\ ResultsDB.ListAllMatchOutcomes \in ReadSteps
    /\ ResultsDB.ListTournamentPlayerRecords \in ReadSteps
    /\ ResultsDB.ListAllTournamentStandings \in ReadSteps /\ ResultsDB.ListCupData \in ReadSteps
<1>1. "ErrMatchNotFound" \in Sentinels
  BY DEF Sentinels, NotFounds
<1> QED
  BY <1>1, FailureChains, StepKinds DEF ScoresDB, ResultsDB, Locks

LEMMA TournamentsKinds ==
    /\ TournamentsDB.GetTournament \in ReadSteps /\ TournamentsDB.ListTournaments \in ReadSteps
    /\ TournamentsDB.CreateTournamentWithTeams \in WriteSteps
    /\ TournamentPlayersDB.ListTournamentPlayers \in ReadSteps
    /\ TournamentPlayersDB.ListTournamentPlayersByTeam \in ReadSteps
    /\ TournamentPlayersDB.CreateTournamentPlayer \in WriteSteps
    /\ TournamentPlayersDB.UpdateTournamentPlayer \in WriteSteps
<1>1. {"ErrTournamentNotFound", "ErrTournamentPlayerNotFound"} \subseteq Sentinels
  BY DEF Sentinels, NotFounds
<1> QED
  BY <1>1, FailureChains, StepKinds DEF TournamentsDB, TournamentPlayersDB

LEMMA TeamsKinds ==
    /\ TeamsDB.GetTeam \in ReadSteps /\ TeamsDB.ListTeamsByTournament \in ReadSteps
    /\ TeamsDB.SetTeamCaptain \in WriteSteps /\ TeamsDB.ClearCaptain \in WriteSteps
    /\ TeamsDB.ClearCaptainForPlayer \in WriteSteps
    /\ TeamsDB.ClearCaptainForPlayer.fails = {Unmapped}
    /\ TeamMembersDB.CreateTeamMember \in WriteSteps
    /\ TeamMembersDB.DeleteTeamMember \in WriteSteps
<1>1. {"ErrTeamNotFound", "ErrAssignedPlayerUndraft", "ErrTeamMemberNotFound"} \subseteq Sentinels
  BY DEF Sentinels, NotFounds, Conflicts
<1>2. Changes(Plain).fails = {Unmapped}
  BY DEF Changes, Plain
<1> QED
  BY <1>1, <1>2, FailureChains, StepKinds DEF TeamsDB, TeamMembersDB

\* The shapes a service method comes in: one transaction, reads and then
\* anything, a read that may settle it and then a read, an undraft's two.
LEMMA OneStep ==
    ASSUME NEW s \in DBSteps
    PROVE  <<s>> \in Methods
<1> DEFINE steps == <<s>>
<1>1. steps \in Seq(DBSteps) /\ Len(steps) = 1
  OBVIOUS
<1>2. \A i, j \in DOMAIN steps : ~(i < j)
  OBVIOUS
<1> QED
  BY <1>1, <1>2 DEF Methods, StepsInOrder

LEMMA TwoSteps ==
    ASSUME NEW s \in DBSteps, NEW t \in DBSteps,
           t.write => ~s.settles, s.write => t.fails = {Unmapped}
    PROVE  <<s, t>> \in Methods
<1> DEFINE steps == <<s, t>>
<1>1. steps \in Seq(DBSteps) /\ steps # <<>> /\ DOMAIN steps = {1, 2}
  OBVIOUS
<1>2. \A i, j \in DOMAIN steps : i < j => steps[i] = s /\ steps[j] = t
  OBVIOUS
<1> QED
  BY <1>1, <1>2 DEF Methods, StepsInOrder

LEMMA ReadsThenAny ==
    ASSUME NEW s \in ReadSteps, NEW t \in ReadSteps, NEW u \in DBSteps, NEW v \in ReadSteps
    PROVE  <<s, u>> \in Methods /\ <<s, t, u>> \in Methods /\ <<s, t, v, u>> \in Methods
<1>1. ReadSteps \in SUBSET DBSteps
  BY DEF DBSteps
<1>2. \A x \in ReadSteps : ~x.write /\ ~x.settles
  BY DEF ReadSteps
<1>3. <<s, u>> \in Methods
  BY <1>1, <1>2, TwoSteps
<1>4. <<s, t, u>> \in Methods
  <2> DEFINE steps == <<s, t, u>>
  <2>1. steps \in Seq(DBSteps) /\ steps # <<>> /\ DOMAIN steps = 1..3
    BY <1>1
  <2>2. \A i, j \in DOMAIN steps : i < j => steps[i] \in ReadSteps
    OBVIOUS
  <2> HIDE DEF steps
  <2> QED
    BY <2>1, <2>2, <1>2 DEF Methods, StepsInOrder, steps
<1>5. <<s, t, v, u>> \in Methods
  <2> DEFINE steps == <<s, t, v, u>>
  <2>1. steps \in Seq(DBSteps) /\ steps # <<>> /\ DOMAIN steps = 1..4
    BY <1>1
  <2>2. \A i, j \in DOMAIN steps : i < j => steps[i] \in ReadSteps
    OBVIOUS
  <2> HIDE DEF steps
  <2> QED
    BY <2>1, <2>2, <1>2 DEF Methods, StepsInOrder, steps
<1> QED
  BY <1>3, <1>4, <1>5

\* The services' methods.
LEMMA PlayerMethods ==
    /\ PlayerService.CreatePlayer \in Methods /\ PlayerService.UpdatePlayer \in Methods
    /\ PlayerService.GetPlayer \in Methods /\ PlayerService.ListPlayers \in Methods
    /\ PlayerService.ListPlayerTournaments \in Methods
    /\ PlayerService.PlayerStats \in Methods
<1> USE PlayersKinds, ScoresKinds DEF DBSteps
<1>1. PlayerService.CreatePlayer \in Methods
  BY OneStep DEF PlayerService
<1>2. PlayerService.UpdatePlayer \in Methods
  BY OneStep DEF PlayerService
<1>3. PlayerService.GetPlayer \in Methods
  BY ReadsThenAny DEF PlayerService
<1>4. PlayerService.ListPlayers \in Methods
  BY ReadsThenAny DEF PlayerService
<1>5. PlayerService.ListPlayerTournaments \in Methods
  BY ReadsThenAny DEF PlayerService
<1>6. PlayerService.PlayerStats \in Methods
  BY OneStep DEF PlayerService
<1> QED
  BY <1>1, <1>2, <1>3, <1>4, <1>5, <1>6

LEMMA CourseMethods ==
    /\ CourseService.CreateTeeColor \in Methods /\ CourseService.ListTeeColors \in Methods
    /\ CourseService.CreateCourse \in Methods /\ CourseService.GetCourse \in Methods
    /\ CourseService.CreateTeeSet \in Methods /\ CourseService.ListCourseTeeSets \in Methods
    /\ CourseService.ListCourses \in Methods /\ FormatService.ListFormats \in Methods
<1> USE CoursesKinds DEF DBSteps
<1>1. CourseService.CreateTeeSet \in Methods
  BY ReadsThenAny DEF CourseService
<1>2. /\ CourseService.CreateTeeColor \in Methods /\ CourseService.ListTeeColors \in Methods
      /\ CourseService.CreateCourse \in Methods /\ CourseService.GetCourse \in Methods
  BY OneStep DEF CourseService
<1>3. /\ CourseService.ListCourseTeeSets \in Methods
      /\ CourseService.ListCourses \in Methods /\ FormatService.ListFormats \in Methods
  BY OneStep DEF CourseService, FormatService
<1> QED
  BY <1>1, <1>2, <1>3

LEMMA MatchMethods ==
    /\ MatchService.CreateMatch \in Methods /\ MatchService.UpdateMatch \in Methods
    /\ MatchService.ListMatches \in Methods /\ MatchService.SetLineup \in Methods
    /\ MatchService.ListParticipants \in Methods /\ MatchService.SubmitHoleScores \in Methods
    /\ MatchService.CalculateMatchScores \in Methods
    /\ MatchService.ListMatchHoles \in Methods /\ MatchService.DeleteMatch \in Methods
    /\ MatchService.ResetMatch \in Methods /\ MatchService.ListResults \in Methods
    /\ MatchService.MatchStatus \in Methods
<1> USE MatchesKinds, ParticipantsKinds, ScoresKinds DEF DBSteps
<1>1. /\ MatchService.CreateMatch \in Methods /\ MatchService.UpdateMatch \in Methods
      /\ MatchService.ListMatches \in Methods /\ MatchService.SetLineup \in Methods
  BY OneStep DEF MatchService
<1>2. /\ MatchService.ListParticipants \in Methods /\ MatchService.DeleteMatch \in Methods
      /\ MatchService.ResetMatch \in Methods /\ MatchService.MatchStatus \in Methods
  BY OneStep DEF MatchService
<1>3. MatchService.SubmitHoleScores \in Methods
  <2>1. {"ErrConflict"} \in SUBSET Sentinels /\ {"ErrInvalidInput"} \in SUBSET Sentinels
    BY DEF Sentinels
  <2>2. /\ Checked(MatchesDB.GetMatch, {"ErrConflict"}) \in ReadSteps
        /\ Checked(ParticipantsDB.ListMatchParticipants, {"ErrInvalidInput"}) \in ReadSteps
        /\ Checked(ScoresDB.SaveScoresAndRecompute, {"ErrConflict"}) \in WriteSteps
    BY <2>1, CheckedKinds
  <2> QED
    BY <2>2, ReadsThenAny DEF MatchService
<1>4. MatchService.CalculateMatchScores \in Methods
  <2>1. Settles(ParticipantsDB.ListMatchParticipants) \in EarlySteps
    BY CheckedKinds
  <2>2. /\ ~ScoresDB.ListScoresByMatch.write
        /\ ~Settles(ParticipantsDB.ListMatchParticipants).write
    BY <2>1 DEF ReadSteps, EarlySteps
  <2> QED
    BY <2>1, <2>2, TwoSteps DEF MatchService
<1>5. MatchService.ListMatchHoles \in Methods
  BY CoursesKinds, ReadsThenAny DEF MatchService
<1>6. MatchService.ListResults \in Methods
  BY ReadsThenAny DEF MatchService
<1> QED
  BY <1>1, <1>2, <1>3, <1>4, <1>5, <1>6

LEMMA TournamentMethods ==
    /\ TournamentService.CreateTournament \in Methods /\ TournamentService.GetOutcome \in Methods
    /\ TournamentService.GetTeamsData \in Methods /\ TournamentService.GetTournament \in Methods
    /\ TournamentService.ListTournaments \in Methods
<1> USE TournamentsKinds, TeamsKinds, ScoresKinds DEF DBSteps
<1>1. TournamentService.CreateTournament \in Methods
  BY OneStep DEF TournamentService
<1>2. TournamentService.GetOutcome \in Methods
  <2>1. Settles(ResultsDB.ListMatchOutcomes) \in EarlySteps
    BY CheckedKinds
  <2>2. ~TeamsDB.ListTeamsByTournament.write /\ ~Settles(ResultsDB.ListMatchOutcomes).write
    BY <2>1 DEF ReadSteps, EarlySteps
  <2> QED
    BY <2>1, <2>2, TwoSteps DEF TournamentService
<1>3. TournamentService.GetTeamsData \in Methods
  BY ReadsThenAny DEF TournamentService
<1>4. TournamentService.GetTournament \in Methods
  BY ReadsThenAny DEF TournamentService
<1>5. TournamentService.ListTournaments \in Methods
  BY ReadsThenAny DEF TournamentService
<1> QED
  BY <1>1, <1>2, <1>3, <1>4, <1>5

\* The one method that writes twice is the undraft's, and its second write is
\* refused for no reason of its own.
LEMMA RosterMethods ==
    /\ RosterService.EnterPlayer \in Methods /\ RosterService.UpdatePlayer \in Methods
    /\ RosterService.ListPlayers \in Methods /\ RosterService.DraftPlayer \in Methods
    /\ RosterService.UndraftPlayer \in Methods /\ RosterService.ListTeamMembers \in Methods
    /\ TeamService.SetCaptain \in Methods /\ TeamService.ClearCaptain \in Methods
<1> USE TournamentsKinds, TeamsKinds, ScoresKinds DEF DBSteps
<1>1. /\ RosterService.EnterPlayer \in Methods /\ RosterService.UpdatePlayer \in Methods
      /\ RosterService.ListTeamMembers \in Methods
  BY OneStep DEF RosterService
<1>2. TeamService.SetCaptain \in Methods /\ TeamService.ClearCaptain \in Methods
  BY OneStep DEF TeamService
<1>3. RosterService.ListPlayers \in Methods
  BY ReadsThenAny DEF RosterService
<1>4. RosterService.DraftPlayer \in Methods
  BY ReadsThenAny DEF RosterService
<1>5. RosterService.UndraftPlayer \in Methods
  <2>1. ~TeamMembersDB.DeleteTeamMember.settles
    BY DEF WriteSteps
  <2> QED
    BY <2>1, TwoSteps DEF RosterService
<1> QED
  BY <1>1, <1>2, <1>3, <1>4, <1>5

-----------------------------------------------------------------------------
LEMMA PublicKind ==
    ASSUME NEW steps \in Methods
    PROVE  Public(steps) \in GoodRoutes /\ Phased(steps) \in GoodRoutes
  BY DEF Public, Phased, Route, GoodRoutes

LEMMA ScopedKind ==
    ASSUME NEW steps \in Methods, NEW scope \in Scopes, NEW ok \in {200, 201, 204}
    PROVE  Scoped(scope, steps, ok) \in GoodRoutes
  BY DEF Scoped, Route, GoodRoutes

LEMMA OpenKind ==
    ASSUME NEW steps \in Methods
    PROVE  /\ Route("probe", NoScope, steps, 200, FALSE) \in GoodRoutes
           /\ Route("open", NoScope, steps, 200, FALSE) \in GoodRoutes
  BY DEF Route, GoodRoutes

\* The table of each file of handlers, read off its methods.
LEMMA TableKinds ==
    \A t \in Patterns : \A handler \in DOMAIN t : t[handler] \in GoodRoutes
<1> DEFINE Good(t) == \A handler \in DOMAIN t : t[handler] \in GoodRoutes
<1>1. Good(Health) /\ Good(FormatRoutes)
  <2>1. <<Reads(Plain)>> \in Methods
    BY FailureChains, StepKinds, OneStep DEF DBSteps
  <2>2. Route("probe", NoScope, <<Reads(Plain)>>, 200, FALSE) \in GoodRoutes
    BY <2>1, OpenKind
  <2>3. Route("open", NoScope, FormatService.ListFormats, 200, FALSE) \in GoodRoutes
    BY CourseMethods, OpenKind
  <2>4. DOMAIN Health = {"handleHealth"} /\ Health.handleHealth \in GoodRoutes
    BY <2>2 DEF Health
  <2>5. /\ DOMAIN FormatRoutes = {"listMatchFormats"}
        /\ FormatRoutes.listMatchFormats \in GoodRoutes
    BY <2>3 DEF FormatRoutes
  <2> QED
    BY <2>4, <2>5
<1>2. Good(PlayerRoutes)
  <2>1. /\ Public(PlayerService.ListPlayers) \in GoodRoutes
        /\ Scoped(PlayersWrite, PlayerService.CreatePlayer, 201) \in GoodRoutes
        /\ Scoped(PlayersWrite, PlayerService.UpdatePlayer, 200) \in GoodRoutes
        /\ Public(PlayerService.GetPlayer) \in GoodRoutes
        /\ Public(PlayerService.PlayerStats) \in GoodRoutes
        /\ Public(PlayerService.ListPlayerTournaments) \in GoodRoutes
    BY PlayerMethods, PublicKind, ScopedKind DEF Scopes
  <2> QED
    BY <2>1 DEF PlayerRoutes
<1>3. Good(CourseRoutes)
  <2>1. /\ Public(CourseService.ListTeeColors) \in GoodRoutes
        /\ Scoped(CoursesWrite, CourseService.CreateTeeColor, 201) \in GoodRoutes
        /\ Public(CourseService.ListCourses) \in GoodRoutes
        /\ Scoped(CoursesWrite, CourseService.CreateCourse, 201) \in GoodRoutes
        /\ Public(CourseService.GetCourse) \in GoodRoutes
        /\ Public(CourseService.ListCourseTeeSets) \in GoodRoutes
        /\ Scoped(CoursesWrite, CourseService.CreateTeeSet, 201) \in GoodRoutes
    BY CourseMethods, PublicKind, ScopedKind DEF Scopes
  <2> QED
    BY <2>1 DEF CourseRoutes
<1>4. Good(MatchSetupRoutes)
  <2>1. /\ Public(MatchService.ListMatches) \in GoodRoutes
        /\ Scoped(TournamentsWrite, MatchService.CreateMatch, 201) \in GoodRoutes
        /\ Scoped(TournamentsWrite, MatchService.UpdateMatch, 200) \in GoodRoutes
    BY MatchMethods, PublicKind, ScopedKind DEF Scopes
  <2> QED
    BY <2>1 DEF MatchSetupRoutes
<1>5. Good(MatchRoutes)
  <2>1. /\ Phased(MatchService.ListResults) \in GoodRoutes
        /\ Public(MatchService.ListMatchHoles) \in GoodRoutes
        /\ Public(MatchService.ListParticipants) \in GoodRoutes
        /\ Scoped(TournamentsWrite, MatchService.SetLineup, 204) \in GoodRoutes
        /\ Public(MatchService.CalculateMatchScores) \in GoodRoutes
        /\ Scoped(ScoresWrite, MatchService.SubmitHoleScores, 200) \in GoodRoutes
        /\ Scoped(TournamentsWrite, MatchService.DeleteMatch, 204) \in GoodRoutes
        /\ Scoped(TournamentsWrite, MatchService.ResetMatch, 204) \in GoodRoutes
        /\ Public(MatchService.MatchStatus) \in GoodRoutes
    BY MatchMethods, PublicKind, ScopedKind DEF Scopes
  <2> QED
    BY <2>1 DEF MatchRoutes
<1>6. Good(TournamentRoutes)
  <2>1. /\ Public(TournamentService.ListTournaments) \in GoodRoutes
        /\ Scoped(TournamentsWrite, TournamentService.CreateTournament, 201) \in GoodRoutes
        /\ Phased(TournamentService.GetTournament) \in GoodRoutes
        /\ Phased(TournamentService.GetTeamsData) \in GoodRoutes
        /\ Public(TournamentService.GetOutcome) \in GoodRoutes
        /\ Public(TournamentService.GetOutcome) \in GoodRoutes
    BY TournamentMethods, PublicKind, ScopedKind DEF Scopes
  <2> QED
    BY <2>1 DEF TournamentRoutes
<1>7. Good(RosterRoutes)
  <2>1. /\ Public(RosterService.ListPlayers) \in GoodRoutes
        /\ Scoped(TournamentsWrite, RosterService.EnterPlayer, 201) \in GoodRoutes
        /\ Scoped(TournamentsWrite, RosterService.UpdatePlayer, 200) \in GoodRoutes
        /\ Scoped(TournamentsWrite, RosterService.DraftPlayer, 201) \in GoodRoutes
        /\ Scoped(TournamentsWrite, RosterService.UndraftPlayer, 204) \in GoodRoutes
        /\ Public(RosterService.ListTeamMembers) \in GoodRoutes
    BY RosterMethods, PublicKind, ScopedKind DEF Scopes
  <2> QED
    BY <2>1 DEF RosterRoutes
<1>8. Good(TeamRoutes)
  <2>1. /\ Scoped(TournamentsWrite, TeamService.SetCaptain, 204) \in GoodRoutes
        /\ Scoped(TournamentsWrite, TeamService.ClearCaptain, 204) \in GoodRoutes
    BY RosterMethods, PublicKind, ScopedKind DEF Scopes
  <2> QED
    BY <2>1 DEF TeamRoutes
<1> QED
  BY <1>1, <1>2, <1>3, <1>4, <1>5, <1>6, <1>7, <1>8 DEF Patterns

\* Every handler the mux finds keeps that order.
LEMMA MuxKinds ==
    ASSUME NEW handler \in DOMAIN Mux
    PROVE  Mux[handler] \in GoodRoutes
<1>1. handler \in UNION {DOMAIN t : t \in Patterns}
  BY DEF Mux
<1>2. PICK t \in Patterns : t = CHOOSE u \in Patterns : handler \in DOMAIN u
  BY <1>1
<1>3. handler \in DOMAIN t
  BY <1>1, <1>2
<1>4. Mux[handler] = t[handler]
  BY <1>1, <1>2 DEF Mux
<1> QED
  BY <1>3, <1>4, TableKinds

-----------------------------------------------------------------------------
\* The place of a sentinel in domainAnswers.
LEMMA AnswersAre ==
    /\ Len(Answers) = 15
    /\ \A i \in 1..15 : Answers[i] \in Sentinels \cup {"ErrNotFound"}
    /\ \A i \in 1..15 : Answers[i] \in {"ErrNotFound", "ErrConflict"} => i >= 13
    /\ \A e \in NotFounds \cup Conflicts : \E i \in 1..12 : Answers[i] = e
    /\ \A e \in Sentinels : \E i \in 1..15 : Answers[i] = e
<1>1. Len(Answers) = 15
  BY DEF Answers
<1>2. \A i \in 1..15 : Answers[i] \in Sentinels \cup {"ErrNotFound"}
  BY DEF Answers, Sentinels, NotFounds, Conflicts
<1>3. \A i \in 1..15 : Answers[i] \in {"ErrNotFound", "ErrConflict"} => i >= 13
  BY DEF Answers
<1>4. \A e \in NotFounds \cup Conflicts : \E i \in 1..12 : Answers[i] = e
  <2>1. \A e \in NotFounds : \E i \in 1..12 : Answers[i] = e
    BY DEF Answers, NotFounds
  <2>2. \A e \in Conflicts : \E i \in 1..12 : Answers[i] = e
    BY DEF Answers, Conflicts
  <2> QED
    BY <2>1, <2>2
<1>5. Answers[14] = "ErrInvalidInput" /\ Answers[15] = "ErrConflict"
  BY DEF Answers
<1>6. \A e \in Sentinels : \E i \in 1..15 : Answers[i] = e
  BY <1>4, <1>5 DEF Sentinels
<1> QED
  BY <1>1, <1>2, <1>3, <1>4, <1>6

\* The chain of a sentinel: itself first, and after it at most the generic one
\* that it wraps.
LEMMA WrapsAre ==
    ASSUME NEW e \in Sentinels
    PROVE  /\ Wraps(e) # Unmapped /\ Head(Wraps(e)) = e /\ e \in ToSet(Wraps(e))
           /\ \A x \in ToSet(Wraps(e)) :
                 x = e \/ (x \in {"ErrNotFound", "ErrConflict"} /\ e \in NotFounds \cup Conflicts)
<1>1. CASE e \in NotFounds
  BY <1>1 DEF Wraps, Unmapped, ToSet
<1>2. CASE e \notin NotFounds /\ e \in Conflicts
  BY <1>2 DEF Wraps, Unmapped, ToSet
<1>3. CASE e \notin NotFounds \cup Conflicts
  BY <1>3 DEF Wraps, Unmapped, ToSet
<1> QED
  BY <1>1, <1>2, <1>3

\* What a transaction may fail with is what an answer may be written for.
LEMMA ChainsAreErrors == Chains \subseteq Errors
<1>1. \A e \in Sentinels : e \in ToSet(Answers)
  <2> SUFFICES ASSUME NEW e \in Sentinels PROVE e \in ToSet(Answers)
    OBVIOUS
  <2>1. PICK i \in 1..15 : Answers[i] = e
    BY AnswersAre
  <2>2. i \in DOMAIN Answers
    BY DEF Answers
  <2> QED
    BY <2>1, <2>2 DEF ToSet
<1> QED
  BY <1>1 DEF Chains, Refused, Errors

\* A nonempty set of indices has a first.
LEMMA FirstOf ==
    ASSUME NEW I \in SUBSET Nat, I # {}
    PROVE  /\ Min(I) \in I
           /\ \A i \in I : Min(I) <= i
<1> DEFINE Less == OpToRel(<, Nat)
<1>1. Less = {ss \in Nat \X Nat : ss[1] < ss[2]}
  BY DEF OpToRel
<1>2. IsWellFoundedOn(Less, Nat)
  BY NatLessThanWellFounded
<1> HIDE DEF Less
<1>3. PICK x \in I : \A y \in I : <<y, x>> \notin Less
  BY <1>2, WFMin
<1>4. \A y \in I : x <= y
  <2> SUFFICES ASSUME NEW y \in I, y < x PROVE FALSE
    OBVIOUS
  <2>1. <<y, x>> \in Less
    BY <1>1
  <2> QED
    BY <2>1, <1>3
<1> QED
  BY <1>3, <1>4 DEF Min

\* respondDomainError answers with the first sentinel of the table the error
\* wraps, if there is one.
LEMMA AnswerOf ==
    ASSUME NEW chain
    PROVE  \/ /\ \A j \in 1..15 : Answers[j] \notin ToSet(chain)
              /\ DomainAnswer(chain).status = 500 /\ DomainAnswer(chain).says = ServerFault
           \/ \E k \in 1..15 :
              /\ Answers[k] \in ToSet(chain)
              /\ \A j \in 1..15 : Answers[j] \in ToSet(chain) => k <= j
              /\ DomainAnswer(chain).status = StatusOf(Answers[k])
              /\ DomainAnswer(chain).says = Answers[k]
<1> DEFINE I == {j \in 1..Len(Answers) : Answers[j] \in ToSet(chain)}
           i == IF I # {} THEN Min(I) ELSE 0
           a == IF i = 0 THEN [status |-> 500, says |-> ServerFault, error |-> chain]
                ELSE [status |-> StatusOf(Answers[i]), says |-> Answers[i], error |-> chain]
<1>1. DomainAnswer(chain) = a
  BY DEF DomainAnswer, SelectInSeq
<1>2. I \in SUBSET Nat /\ \A j \in 1..15 : j \in I <=> Answers[j] \in ToSet(chain)
  BY AnswersAre
<1>3. CASE I = {}
  <2>1. i = 0
    BY <1>3
  <2>2. \A j \in 1..15 : Answers[j] \notin ToSet(chain)
    BY <1>2, <1>3
  <2> HIDE DEF i
  <2> QED
    BY <1>1, <2>1, <2>2
<1>4. CASE I # {}
  <2>1. \A j \in I : j \in 1..15
    BY AnswersAre
  <2> HIDE DEF I
  <2>2. Min(I) \in I /\ \A j \in I : Min(I) <= j
    BY <1>2, <1>4, FirstOf
  <2>3. PICK k \in I : k = Min(I)
    BY <2>2
  <2>4. i = k /\ k \in 1..15 /\ k # 0
    BY <2>1, <2>3, <1>4
  <2> HIDE DEF i
  <2>5. /\ DomainAnswer(chain).status = StatusOf(Answers[k])
        /\ DomainAnswer(chain).says = Answers[k]
    BY <1>1, <2>4
  <2> QED
    BY <1>2, <2>2, <2>3, <2>4, <2>5
<1> QED
  BY <1>3, <1>4

\* Whatever an error wraps, its answer is one of four statuses and a sentence.
LEMMA AnyAnswer ==
    ASSUME NEW chain
    PROVE  /\ DomainAnswer(chain).status \in {500, 404, 400, 409}
           /\ DomainAnswer(chain).says \in Sentences \ {"ok", "refused"}
           /\ DomainAnswer(chain).error = chain
<1>1. ASSUME DomainAnswer(chain).status = 500, DomainAnswer(chain).says = ServerFault
      PROVE  /\ DomainAnswer(chain).status \in {500, 404, 400, 409}
             /\ DomainAnswer(chain).says \in Sentences \ {"ok", "refused"}
  BY <1>1 DEF ServerFault, Sentences
<1>2. ASSUME NEW k \in 1..15, DomainAnswer(chain).status = StatusOf(Answers[k]),
             DomainAnswer(chain).says = Answers[k]
      PROVE  /\ DomainAnswer(chain).status \in {500, 404, 400, 409}
             /\ DomainAnswer(chain).says \in Sentences \ {"ok", "refused"}
  <2>1. StatusOf(Answers[k]) \in {404, 400, 409}
    BY DEF StatusOf
  <2>2. k \in DOMAIN Answers
    BY DEF Answers
  <2>3. Answers[k] \in Sentences
    BY <2>2 DEF Sentences, ToSet
  <2>4. Answers[k] \notin {"ok", "refused"}
    BY AnswersAre DEF Sentinels, NotFounds, Conflicts
  <2> QED
    BY <1>2, <2>1, <2>3, <2>4
<1>3. DomainAnswer(chain).error = chain
  BY DEF DomainAnswer
<1> QED
  BY <1>1, <1>2, <1>3, AnswerOf

\* An error that wraps a sentinel is answered with its most specific one: the
\* table lists each ahead of the generic one it wraps.
LEMMA MostSpecific ==
    ASSUME NEW e \in Sentinels
    PROVE  DomainAnswer(Wraps(e)).says = e
<1>1. PICK j \in 1..15 : Answers[j] = e
  BY AnswersAre
<1>2. PICK k \in 1..15 :
        /\ Answers[k] \in ToSet(Wraps(e)) /\ DomainAnswer(Wraps(e)).says = Answers[k]
        /\ \A i \in 1..15 : Answers[i] \in ToSet(Wraps(e)) => k <= i
  BY <1>1, WrapsAre, AnswerOf
<1>3. Answers[k] = e
  <2> SUFFICES ASSUME Answers[k] # e PROVE FALSE
    OBVIOUS
  <2>1. Answers[k] \in {"ErrNotFound", "ErrConflict"} /\ e \in NotFounds \cup Conflicts
    BY <1>2, WrapsAre
  <2>2. k >= 13
    BY <2>1, AnswersAre
  <2>3. PICK i \in 1..12 : Answers[i] = e
    BY <2>1, AnswersAre
  <2>4. k <= i
    BY <1>2, <2>3, WrapsAre
  <2> QED
    BY <2>2, <2>4
<1> QED
  BY <1>2, <1>3

\* Its answer is the most specific sentence, and a 4xx only when there is one.
LEMMA DomainAnswers ==
    ASSUME NEW chain \in Chains
    PROVE  /\ chain # Unmapped => DomainAnswer(chain).says = Head(chain)
           /\ chain = Unmapped => DomainAnswer(chain).status = 500
<1>1. ASSUME chain # Unmapped PROVE DomainAnswer(chain).says = Head(chain)
  <2>1. PICK e \in Sentinels : chain = Wraps(e)
    BY <1>1 DEF Chains, Refused
  <2> QED
    BY <2>1, WrapsAre, MostSpecific
<1>2. chain = Unmapped => DomainAnswer(chain).status = 500
  BY AnswerOf DEF Unmapped, ToSet
<1> QED
  BY <1>1, <1>2

-----------------------------------------------------------------------------
(* The inductive invariants. *)

Domains ==
    /\ DOMAIN conn = Conns
    /\ DOMAIN pc = Clients /\ DOMAIN req = Clients
    /\ DOMAIN seen = Clients /\ DOMAIN answer = Clients

\* A connection in use is its user's, in a transaction for her request's tenant.
ConnectionSet ==
    \A k \in Conns : conn[k].by \in Clients =>
        pc[conn[k].by] = "querying" /\ conn[k].tenant = TenantOf(req[conn[k].by])

\* Only her request's tenant's rows have been touched, and none between requests.
SeenOwn ==
    \A c \in Clients :
        /\ \A t \in seen[c] : t = TenantOf(req[c])
        /\ pc[c] = "idle" => seen[c] = {}

\* An answer the edge may keep is a success, to an anonymous read.
AnswerForAll ==
    \A c \in Clients : pc[c] = "replying" /\ answer[c].cache = "public" =>
        /\ answer[c].says = "ok"
        /\ RouteOf(c).access \in {"open", "public"} /\ MarkedAnonymous(req[c])
        /\ RouteOf(c).phased => answer[c].stage # "live"

IInv == Domains /\ ConnectionSet /\ SeenOwn /\ AnswerForAll

Replies ==
    [status : Nat, says : Sentences, error : Errors,
     cache : {"absent", "no-store", "public"}, stage : Stages]

\* A request on its way is one the mux has dispatched, and at work it has passed
\* every check.
RequestKnown ==
    \A c \in Clients :
        /\ req[c] = NoRequest <=> pc[c] = "idle"
        /\ pc[c] # "idle" => \E q \in Requests : req[c] = Dispatched(q)
        /\ pc[c] \in {"waiting", "querying"} => Barrier(req[c]) = Admitted

Shapes ==
    /\ server \in {"serving", "draining", "closing", "exited"} /\ late \in BOOLEAN
    /\ stage \in [Tenants -> Stages]
    /\ \A k \in Conns :
          /\ conn[k].by \in Clients \cup {Nobody}
          /\ conn[k].tenant \in Tenants \cup {NoTenant}
          /\ conn[k].by = Nobody => conn[k] = Free
    /\ pc \in [Clients -> {"idle", "waiting", "querying", "replying", "lost"}]
    /\ \A c \in Clients :
          /\ seen[c] \subseteq Tenants \cup {NoTenant}
          /\ pc[c] = "replying" => answer[c] \in Replies

\* Inside a transaction there is one connection.
OneConnection ==
    \A c \in Clients : pc[c] = "querying" => \E k \in Conns : Held(c) = {k}

\* A goroutine at work has a transaction to go.
StepsLeft ==
    /\ done \in [Clients -> Nat]
    /\ \A c \in Clients :
          /\ pc[c] = "idle" => done[c] = 0
          /\ pc[c] \in {"waiting", "querying"} => done[c] < Len(RouteOf(c).steps)

ServiceInv == IInv /\ RequestKnown /\ Shapes /\ OneConnection /\ StepsLeft

TruthInv == ServiceInv /\ AnswersTellTheTruth

-----------------------------------------------------------------------------
(***************************************************************************)
(* Server.Shutdown drains before it closes the pool: unless the ten        *)
(* seconds ran out, no request is on the way when the pool closes or when  *)
(* the process ends.                                                       *)
(***************************************************************************)
THEOREM DrainCutsNothingShort == Spec => []NoRequestCutShort
<1> DEFINE Inv == DOMAIN pc = Clients /\ NoRequestCutShort
<1>1. Init => Inv
  BY DEF Init, NoRequestCutShort
<1>2. Inv /\ [Next]_vars => Inv'
  <2> SUFFICES ASSUME Inv, [Next]_vars PROVE Inv'
    OBVIOUS
  <2> USE DEF NoRequestCutShort
  <2>1. ASSUME NEW c \in Clients, NEW q, Arrive(c, q) PROVE Inv'
    BY <2>1 DEF Arrive
  <2>2. ASSUME NEW c \in Clients, Acquire(c) PROVE Inv'
    BY <2>2 DEF Acquire, PoolOpen
  <2>3. ASSUME NEW c \in Clients, NoConnection(c) PROVE Inv'
    BY <2>3 DEF NoConnection, Respond, Finish
  <2>4. ASSUME NEW c \in Clients, CommitStep(c) PROVE Inv'
    BY <2>4 DEF CommitStep
  <2>5. ASSUME NEW c \in Clients, Succeed(c) PROVE Inv'
    BY <2>5 DEF Succeed, Respond, Finish
  <2>6. ASSUME NEW c \in Clients, Fail(c) PROVE Inv'
    BY <2>6 DEF Fail, Respond, Finish
  <2>7. ASSUME NEW c \in Clients, Panic(c) PROVE Inv'
    BY <2>7 DEF Panic, Finish
  <2>8. ASSUME NEW c \in Clients, Reply(c) PROVE Inv'
    BY <2>8 DEF Reply
  <2>9. CASE Signal \/ Drained \/ DrainTimesOut
    BY <2>9 DEF Signal, Drained, DrainTimesOut, request
  <2>10. CASE Exit
    BY <2>10 DEF Exit
  <2>11. CASE UNCHANGED vars
    BY <2>11 DEF vars
  <2> QED
    BY <2>1, <2>2, <2>3, <2>4, <2>5, <2>6, <2>7, <2>8, <2>9, <2>10, <2>11 DEF Next
<1> QED
  BY <1>1, <1>2, PTL DEF Spec

-----------------------------------------------------------------------------
(* What the handlers answer, and what of it may be kept.                   *)

\* Nothing respondDomainError answers with is a success.
LEMMA FailureIsNoSuccess ==
    ASSUME NEW chain
    PROVE  DomainAnswer(chain).status \notin 200..299
<1>1. DomainAnswer(chain).status \in {500, 404, 400, 409}
  BY AnyAnswer
<1> QED
  BY <1>1

\* cacheWriter.decide marks public only a success, to an anonymous read, and
\* not of a cup its handler knows to be live.
LEMMA PublicMeans ==
    ASSUME NEW q, NEW status, NEW s, CacheControl(q, status, s) = "public"
    PROVE  /\ status \in 200..299
           /\ q.route.access \in {"open", "public"} /\ MarkedAnonymous(q)
           /\ q.route.phased => s # "live"
  BY DEF CacheControl, MaxAge

\* Nobody a check turns away gets an answer that may be kept.
LEMMA BarrierIsNoSuccess ==
    ASSUME NEW q, Barrier(q) # Admitted
    PROVE  Barrier(q) \notin 200..299
  BY DEF Barrier, Admitted

\* A goroutine that has its answer leaves its connection and no other.
LEMMA FinishStep ==
    ASSUME IInv, NEW c \in Clients, NEW a, Finish(c, a),
           DOMAIN seen' = Clients,
           \A d \in Clients : d # c => seen'[d] = seen[d],
           seen'[c] \subseteq {TenantOf(req[c])},
           a.cache = "public" =>
              /\ a.says = "ok"
              /\ RouteOf(c).access \in {"open", "public"} /\ MarkedAnonymous(req[c])
              /\ RouteOf(c).phased => a.stage # "live"
    PROVE  IInv'
<1> USE DEF IInv, Finish
<1>1. Domains'
  BY DEF Domains
<1>2. ConnectionSet'
  BY ServiceAssumption DEF Domains, ConnectionSet, Free, TenantOf, Anonymous
<1>3. SeenOwn'
  BY DEF Domains, SeenOwn, TenantOf, Anonymous
<1>4. AnswerForAll'
  BY DEF Domains, AnswerForAll, RouteOf, MarkedAnonymous
<1> QED
  BY <1>1, <1>2, <1>3, <1>4

\* The same of an answer that passed the wrapper: what it may mark public is a
\* success, to an anonymous read.
LEMMA RespondStep ==
    ASSUME IInv, NEW c \in Clients, NEW status, NEW says, NEW error, NEW s,
           req' = req, Respond(c, status, says, error, s),
           status \in 200..299 => says = "ok",
           DOMAIN seen' = Clients,
           \A d \in Clients : d # c => seen'[d] = seen[d],
           seen'[c] \subseteq {TenantOf(req[c])}
    PROVE  IInv'
<1> DEFINE a == Says(status, says, error, CacheControl(req[c], status, s), s)
<1>1. Finish(c, a)
  BY DEF Respond
<1>2. a.cache = CacheControl(req[c], status, s) /\ a.says = says /\ a.stage = s
  BY DEF Says
<1> HIDE DEF a
<1>3. a.cache = "public" =>
         /\ a.says = "ok"
         /\ RouteOf(c).access \in {"open", "public"} /\ MarkedAnonymous(req[c])
         /\ RouteOf(c).phased => a.stage # "live"
  <2> SUFFICES ASSUME a.cache = "public"
               PROVE  /\ a.says = "ok"
                      /\ RouteOf(c).access \in {"open", "public"} /\ MarkedAnonymous(req[c])
                      /\ RouteOf(c).phased => a.stage # "live"
    OBVIOUS
  <2>1. CacheControl(req[c], status, s) = "public"
    BY <1>2
  <2>2. /\ status \in 200..299
        /\ req[c].route.access \in {"open", "public"} /\ MarkedAnonymous(req[c])
        /\ req[c].route.phased => s # "live"
    BY <2>1, PublicMeans
  <2> QED
    BY <1>2, <2>2 DEF RouteOf
<1> QED
  BY <1>1, <1>3, FinishStep

-----------------------------------------------------------------------------
\* A request arrives at a goroutine that holds nothing and has touched nothing;
\* what turns it away is no success.
LEMMA ArriveStep ==
    ASSUME IInv, NEW c \in Clients, NEW q, Arrive(c, q)
    PROVE  IInv'
<1> USE DEF IInv, Arrive
<1>1. Domains'
  BY DEF Domains
<1>2. ConnectionSet'
  BY DEF Domains, ConnectionSet, TenantOf, Anonymous
<1>3. SeenOwn'
  BY DEF Domains, SeenOwn, TenantOf, Anonymous
<1>4. pc'[c] = "replying" => answer'[c].cache # "public"
  <2> DEFINE b == Barrier(q)
  <2> SUFFICES ASSUME pc'[c] = "replying" PROVE answer'[c].cache # "public"
    OBVIOUS
  <2>1. b # Admitted
    BY DEF Domains
  <2>2. answer'[c].cache =
           IF ~q.viaEdge THEN "absent" ELSE CacheControl(q, b, "upcoming")
    BY <2>1 DEF Domains, Says
  <2>3. b \notin 200..299
    BY <2>1, BarrierIsNoSuccess
  <2> QED
    BY <2>2, <2>3, PublicMeans
<1>5. AnswerForAll'
  BY <1>4 DEF Domains, AnswerForAll, RouteOf, MarkedAnonymous
<1> QED
  BY <1>1, <1>2, <1>3, <1>5

\* A connection is set to the tenant of the request that takes it.
LEMMA AcquireStep ==
    ASSUME IInv, NEW c \in Clients, Acquire(c)
    PROVE  IInv'
<1> USE DEF IInv, Acquire
<1>1. Domains'
  BY DEF Domains
<1>2. ConnectionSet'
  <2>1. PICK k \in Conns : conn' = [conn EXCEPT ![k] = [by |-> c, tenant |-> TenantOf(req[c])]]
    BY DEF Domains
  <2> SUFFICES ASSUME NEW j \in Conns, conn'[j].by \in Clients
               PROVE  /\ pc'[conn'[j].by] = "querying"
                      /\ conn'[j].tenant = TenantOf(req[conn'[j].by])
    BY DEF ConnectionSet, TenantOf, Anonymous
  <2>2. CASE j = k
    BY <2>1, <2>2 DEF Domains
  <2>3. CASE j # k
    BY <2>1, <2>3 DEF Domains, ConnectionSet
  <2> QED
    BY <2>2, <2>3
<1>3. SeenOwn' /\ AnswerForAll'
  BY DEF Domains, SeenOwn, AnswerForAll, RouteOf, TenantOf, Anonymous, MarkedAnonymous
<1> QED
  BY <1>1, <1>2, <1>3

\* What a transaction touches is its connection's tenant's.
LEMMA TouchedOwn ==
    ASSUME IInv, NEW c \in Clients, pc[c] = "querying"
    PROVE  Touched(c) \subseteq {TenantOf(req[c])}
  BY DEF IInv, ConnectionSet, SeenOwn, Touched, Held

\* A transaction that is not the last leaves its connection to the others.
LEMMA CommitKeeps ==
    ASSUME IInv, NEW c \in Clients, CommitStep(c)
    PROVE  IInv'
<1> USE DEF IInv, CommitStep
<1>1. Domains'
  BY DEF Domains
<1>2. ConnectionSet'
  BY ServiceAssumption DEF Domains, ConnectionSet, Free, TenantOf, Anonymous
<1>3. SeenOwn'
  BY TouchedOwn DEF Domains, SeenOwn, TenantOf, Anonymous
<1>4. AnswerForAll'
  BY DEF Domains, AnswerForAll, RouteOf, MarkedAnonymous
<1> QED
  BY <1>1, <1>2, <1>3, <1>4

\* The answers of a handler, whichever it is.
LEMMA HandlerAnswers ==
    ASSUME IInv, NEW c \in Clients,
           NoConnection(c) \/ Succeed(c) \/ Fail(c) \/ Panic(c)
    PROVE  IInv'
<1>1. CASE NoConnection(c)
  <2> DEFINE st == IF RouteOf(c).access = "probe" THEN 503 ELSE 500
  <2>1. st \notin 200..299
    OBVIOUS
  <2>2. Respond(c, st, ServerFault, Unmapped, "upcoming") /\ req' = req /\ seen' = seen
    BY <1>1 DEF NoConnection
  <2> HIDE DEF st
  <2> QED
    BY <2>1, <2>2, RespondStep DEF IInv, Domains, SeenOwn
<1>2. CASE Succeed(c)
  <2>1. /\ Respond(c, RouteOf(c).ok, "ok", Unmapped, StageSeen(c)) /\ req' = req
        /\ seen' = [seen EXCEPT ![c] = Touched(c)]
    BY <1>2 DEF Succeed
  <2>2. Touched(c) \subseteq {TenantOf(req[c])}
    BY <1>2, TouchedOwn DEF Succeed
  <2> QED
    BY <2>1, <2>2, RespondStep DEF IInv, Domains
<1>3. CASE Fail(c)
  <2>1. PICK chain \in StepOf(c).fails :
          LET a == IF RouteOf(c).access = "probe" THEN Unreachable ELSE DomainAnswer(chain)
          IN Respond(c, a.status, a.says, a.error, "upcoming")
    BY <1>3 DEF Fail
  <2> DEFINE a == IF RouteOf(c).access = "probe" THEN Unreachable ELSE DomainAnswer(chain)
  <2>2. a.status \notin 200..299
    BY FailureIsNoSuccess DEF Unreachable
  <2>3. Respond(c, a.status, a.says, a.error, "upcoming") /\ req' = req /\ seen' = seen
    BY <1>3, <2>1 DEF Fail
  <2> HIDE DEF a
  <2> QED
    BY <2>2, <2>3, RespondStep DEF IInv, Domains, SeenOwn
<1>4. CASE Panic(c)
  <2> DEFINE a == Says(500, NoBody, Unmapped, "absent", "upcoming")
  <2>1. Finish(c, a) /\ seen' = seen
    BY <1>4 DEF Panic
  <2>2. a.cache # "public"
    BY DEF Says
  <2> HIDE DEF a
  <2> QED
    BY <2>1, <2>2, FinishStep DEF IInv, Domains, SeenOwn
<1> QED
  BY <1>1, <1>2, <1>3, <1>4

\* An answer goes out: its goroutine held no connection and forgets the rest.
LEMMA ReplyStep ==
    ASSUME IInv, NEW c \in Clients, Reply(c)
    PROVE  IInv'
<1> USE DEF IInv, Reply
<1>1. Domains'
  BY DEF Domains
<1>2. ConnectionSet'
  BY DEF Domains, ConnectionSet, TenantOf, Anonymous
<1>3. SeenOwn' /\ AnswerForAll'
  BY DEF Domains, SeenOwn, AnswerForAll, RouteOf, TenantOf, Anonymous, MarkedAnonymous
<1> QED
  BY <1>1, <1>2, <1>3

\* Shutdown touches no goroutine, and ends with every connection back.
LEMMA ShutdownStep ==
    ASSUME IInv, Signal \/ Drained \/ DrainTimesOut \/ Exit \/ UNCHANGED vars
    PROVE  IInv'
<1>1. CASE Exit
  BY <1>1, ServiceAssumption
     DEF Exit, IInv, Domains, ConnectionSet, SeenOwn, AnswerForAll, RouteOf, TenantOf, Anonymous, MarkedAnonymous
<1>2. CASE Signal \/ Drained \/ DrainTimesOut \/ UNCHANGED vars
  BY <1>2 DEF Signal, Drained, DrainTimesOut, request, vars,
     IInv, Domains, ConnectionSet, SeenOwn, AnswerForAll, RouteOf, TenantOf, Anonymous, MarkedAnonymous
<1> QED
  BY <1>1, <1>2

LEMMA InitKept == Init => IInv
  BY ServiceAssumption DEF Init, IInv, Domains, ConnectionSet, SeenOwn, AnswerForAll, Free

LEMMA StepKeeps == IInv /\ [Next]_vars => IInv'
  BY ArriveStep, AcquireStep, CommitKeeps, HandlerAnswers, ReplyStep, ShutdownStep DEF Next

(***************************************************************************)
(* What cacheWriter.decide lets the edge keep is a success, made of the    *)
(* public tenant's rows or of no tenant's, and not of a cup being played   *)
(* (cache.go and middleware.go ask separately who is anonymous).           *)
(***************************************************************************)
THEOREM EdgeServesThePublic == Spec => []EdgeKeepsOnlyPublicAnswers
<1>1. IInv => EdgeKeepsOnlyPublicAnswers
  <2> SUFFICES ASSUME IInv, NEW c \in Clients, pc[c] = "replying", answer[c].cache = "public"
               PROVE  /\ answer[c].says = "ok"
                      /\ seen[c] \subseteq {PublicTenant, NoTenant}
                      /\ RouteOf(c).phased => answer[c].stage # "live"
    BY DEF EdgeKeepsOnlyPublicAnswers
  <2>1. TenantOf(req[c]) \in {PublicTenant, NoTenant}
    BY DEF IInv, AnswerForAll, TenantOf, RouteOf, Anonymous, MarkedAnonymous
  <2> QED
    BY <2>1 DEF IInv, AnswerForAll, SeenOwn
<1> QED
  BY <1>1, InitKept, StepKeeps, PTL DEF Spec

-----------------------------------------------------------------------------
(* What a goroutine knows of its request. *)

\* The mux changes a request's route and nothing else.
LEMMA DispatchedIs ==
    ASSUME NEW q \in Requests
    PROVE  /\ Dispatched(q).route \in GoodRoutes
           /\ Dispatched(q).token \in Tokens \cup {NoToken, BadToken}
           /\ Dispatched(q) # NoRequest
<1>1. q \in [route : DOMAIN Mux, token : Tokens \cup {NoToken, BadToken},
             viaEdge : BOOLEAN, wellFormed : BOOLEAN]
  BY ServiceAssumption
<1>2. Dispatched(q).route = Mux[q.route] /\ Dispatched(q).token = q.token
  BY <1>1 DEF Dispatched
<1> QED
  BY <1>1, <1>2, MuxKinds, ServiceAssumption

\* A request that has passed the checks has a tenant, or needs none.
LEMMA AdmittedTenant ==
    ASSUME NEW q \in Requests, Barrier(Dispatched(q)) = Admitted
    PROVE  TenantOf(Dispatched(q)) \in Tenants \cup {NoTenant}
<1> DEFINE d == Dispatched(q)
<1>1. d.route.access \in {"probe", "open", "public", "scoped"}
  BY DispatchedIs DEF GoodRoutes
<1>2. d.token \in Tokens \cup {NoToken, BadToken}
  BY DispatchedIs
<1> HIDE DEF d
<1>3. ASSUME Barrier(d) = Admitted
      PROVE  TenantOf(d) \in Tenants \cup {NoTenant}
  <2>1. ~Unauthenticated(d)
    BY <1>3 DEF Barrier, Admitted
  <2>2. CASE d.route.access \in {"probe", "open"}
    BY <2>2 DEF TenantOf
  <2>3. CASE d.route.access = "public"
    <3>1. d.token # BadToken
      BY <2>1, <2>3, ServiceAssumption DEF Unauthenticated, Anonymous
    <3>2. d.token \in Tokens => d.token.tenant \in Tenants
      BY DEF Tokens
    <3> QED
      BY <2>3, <3>1, <3>2, <1>2, ServiceAssumption DEF TenantOf, Anonymous
  <2>4. CASE d.route.access = "scoped"
    <3>1. d.token \in Tokens
      BY <2>1, <2>4, <1>2 DEF Unauthenticated
    <3>2. d.token.tenant \in Tenants
      BY <3>1 DEF Tokens
    <3> QED
      BY <2>4, <3>1, <3>2, ServiceAssumption DEF TenantOf, Anonymous
  <2> QED
    BY <1>1, <2>2, <2>3, <2>4
<1> QED
  BY <1>3 DEF d

LEMMA AtWork ==
    ASSUME RequestKnown, NEW c \in Clients, pc[c] \in {"waiting", "querying"}
    PROVE  /\ RouteOf(c) \in GoodRoutes
           /\ TenantOf(req[c]) \in Tenants \cup {NoTenant}
           /\ req[c] # NoRequest
<1>1. PICK q \in Requests : req[c] = Dispatched(q)
  BY DEF RequestKnown
<1> QED
  BY <1>1, DispatchedIs, AdmittedTenant DEF RequestKnown, RouteOf

\* The steps of a goroutine at work, and where it is in them.
LEMMA StepsAre ==
    ASSUME ServiceInv, NEW c \in Clients, pc[c] \in {"waiting", "querying"}
    PROVE  /\ RouteOf(c).steps \in Seq(DBSteps) /\ StepsInOrder(RouteOf(c).steps)
           /\ done[c] \in Nat /\ done[c] < Len(RouteOf(c).steps)
           /\ DOMAIN RouteOf(c).steps = 1..Len(RouteOf(c).steps)
           /\ Len(RouteOf(c).steps) \in Nat
           /\ StepOf(c) \in DBSteps /\ StepOf(c).fails \subseteq Chains
<1>1. RouteOf(c) \in GoodRoutes
  BY AtWork DEF ServiceInv
<1>2. RouteOf(c).steps \in Seq(DBSteps) /\ StepsInOrder(RouteOf(c).steps)
  BY <1>1 DEF GoodRoutes, Methods
<1>3. done[c] \in Nat /\ done[c] < Len(RouteOf(c).steps)
  BY DEF ServiceInv, StepsLeft
<1>4. StepOf(c) \in DBSteps
  BY <1>2, <1>3 DEF StepOf
<1>5. StepOf(c).fails \subseteq Chains
  BY <1>4 DEF DBSteps, ReadSteps, WriteSteps, EarlySteps
<1> QED
  BY <1>2, <1>3, <1>4, <1>5

LEMMA SaysType ==
    ASSUME NEW status \in Nat, NEW says \in Sentences, NEW error \in Errors,
           NEW s \in Stages, NEW cache \in {"absent", "no-store", "public"}
    PROVE  Says(status, says, error, cache, s) \in Replies
  BY DEF Says, Replies

LEMMA CacheType ==
    ASSUME NEW q, NEW status, NEW s
    PROVE  CacheControl(q, status, s) \in {"absent", "no-store", "public"}
  BY DEF CacheControl

\* What a goroutine leaves behind with its answer.
LEMMA FinishShapes ==
    ASSUME ServiceInv, NEW c \in Clients, pc[c] \in {"waiting", "querying"},
           NEW a \in Replies, Finish(c, a),
           server' = server, late' = late, stage' \in [Tenants -> Stages],
           DOMAIN seen' = Clients, \A d \in Clients \ {c} : seen'[d] = seen[d],
           done' \in [Clients -> Nat], \A d \in Clients \ {c} : done'[d] = done[d],
           seen'[c] \subseteq Tenants \cup {NoTenant}
    PROVE  RequestKnown' /\ Shapes' /\ OneConnection' /\ StepsLeft'
<1> USE DEF ServiceInv, IInv, Domains, Finish
<1>1. RequestKnown'
  BY AtWork DEF RequestKnown, Barrier, Unauthenticated, Anonymous, Unscoped
<1>2. Shapes'
  BY DEF Shapes, Free
<1>3. OneConnection'
  <2> SUFFICES ASSUME NEW d \in Clients, pc'[d] = "querying"
               PROVE  \E k \in Conns : Held(d)' = {k}
    BY DEF OneConnection
  <2>1. d # c /\ pc[d] = "querying"
    BY DEF Shapes
  <2>2. Held(d)' = Held(d)
    BY <2>1, ServiceAssumption DEF Held, Free
  <2> QED
    BY <2>1, <2>2 DEF OneConnection
<1>4. StepsLeft'
  BY DEF StepsLeft, RouteOf
<1> QED
  BY <1>1, <1>2, <1>3, <1>4

-----------------------------------------------------------------------------
(* Shapes and connections, step by step. *)

LEMMA ArriveShapes ==
    ASSUME ServiceInv, NEW c \in Clients, NEW q \in Requests, Arrive(c, Dispatched(q))
    PROVE  RequestKnown' /\ Shapes' /\ OneConnection' /\ StepsLeft'
<1> DEFINE d == Dispatched(q)
<1> USE DEF ServiceInv, IInv, Domains, Arrive
<1>1. /\ pc[c] = "idle" /\ req' = [req EXCEPT ![c] = d] /\ d # NoRequest
      /\ done' = done /\ done[c] = 0 /\ d.route \in GoodRoutes
  BY DispatchedIs DEF StepsLeft
<1>2. \/ Barrier(d) = Admitted /\ pc' = [pc EXCEPT ![c] = "waiting"] /\ answer' = answer
      \/ /\ Barrier(d) \in {401, 403, 400} /\ pc' = [pc EXCEPT ![c] = "replying"]
         /\ answer'[c] \in Replies
         /\ \A e \in Clients \ {c} : answer'[e] = answer[e]
  <2>1. CASE Barrier(d) = Admitted /\ pc' = [pc EXCEPT ![c] = "waiting"]
    BY <2>1 DEF Admitted
  <2>2. CASE Barrier(d) # Admitted
    <3> DEFINE b == Barrier(d)
               ca == IF ~d.viaEdge THEN "absent" ELSE CacheControl(d, b, "upcoming")
    <3>1. b \in {401, 403, 400}
      BY <2>2 DEF Barrier, Admitted
    <3>2. /\ pc' = [pc EXCEPT ![c] = "replying"]
          /\ answer' = [answer EXCEPT ![c] = Says(b, "refused", Unmapped, ca, "upcoming")]
      BY <2>2
    <3>3. ca \in {"absent", "no-store", "public"}
      BY CacheType
    <3> HIDE DEF b, ca
    <3>4. Says(b, "refused", Unmapped, ca, "upcoming") \in Replies
      BY <3>1, <3>3, SaysType DEF Sentences, Errors, Stages
    <3> QED
      BY <3>1, <3>2, <3>4 DEF b
  <2> QED
    BY <2>1, <2>2
<1> HIDE DEF d
<1>3. RequestKnown'
  BY <1>1, <1>2 DEF RequestKnown, d, Barrier, Unauthenticated, Anonymous, Unscoped
<1>4. Shapes'
  BY <1>1, <1>2 DEF Shapes
<1>5. OneConnection'
  BY <1>1, <1>2 DEF OneConnection, Held
<1>6. StepsLeft'
  <2>1. \A e \in Clients \ {c} : RouteOf(e)' = RouteOf(e) /\ pc'[e] = pc[e]
    BY <1>1, <1>2 DEF RouteOf
  <2>2. RouteOf(c)' = d.route
    BY <1>1 DEF RouteOf
  <2>3. d.route.steps \in Seq(DBSteps) /\ d.route.steps # <<>>
    BY <1>1 DEF GoodRoutes, Methods
  <2>4. 0 < Len(d.route.steps)
    BY <2>3
  <2> QED
    BY <1>1, <1>2, <2>1, <2>2, <2>4 DEF StepsLeft
<1> QED
  BY <1>3, <1>4, <1>5, <1>6

LEMMA AcquireShapes ==
    ASSUME ServiceInv, NEW c \in Clients, Acquire(c)
    PROVE  RequestKnown' /\ Shapes' /\ OneConnection' /\ StepsLeft'
<1> DEFINE mine == [by |-> c, tenant |-> TenantOf(req[c])]
<1> USE DEF ServiceInv, IInv, Domains, Acquire
<1>1. PICK k \in Conns : conn[k].by = Nobody /\ conn' = [conn EXCEPT ![k] = mine]
  OBVIOUS
<1>2. /\ mine.by = c /\ mine.tenant \in Tenants \cup {NoTenant}
      /\ c # Nobody
  BY AtWork, ServiceAssumption
<1> HIDE DEF mine
<1>3. RequestKnown'
  BY DEF RequestKnown, Barrier, Unauthenticated, Anonymous, Unscoped
<1>4. Shapes'
  BY <1>1, <1>2 DEF Shapes
<1>5. OneConnection'
  <2> SUFFICES ASSUME NEW d \in Clients, pc'[d] = "querying"
               PROVE  \E j \in Conns : Held(d)' = {j}
    BY DEF OneConnection
  <2>1. CASE d = c
    <3>1. \A j \in Conns : conn[j].by # c
      BY DEF ConnectionSet
    <3>2. Held(c)' = {k}
      BY <1>1, <1>2, <3>1 DEF Held
    <3> QED
      BY <2>1, <3>2
  <2>2. CASE d # c
    <3>1. Held(d)' = Held(d)
      BY <1>1, <1>2, <2>2, ServiceAssumption DEF Held
    <3> QED
      BY <2>2, <3>1 DEF OneConnection
  <2> QED
    BY <2>1, <2>2
<1>6. StepsLeft'
  BY DEF StepsLeft, RouteOf
<1> QED
  BY <1>3, <1>4, <1>5, <1>6

\* The stage a cup is left at, and the stage an answer sees, are stages.
LEMMA StagesType ==
    ASSUME ServiceInv, NEW c \in Clients, pc[c] = "querying"
    PROVE  /\ \A s \in StageAfter(c) : s \in [Tenants -> Stages]
           /\ StageSeen(c) \in Stages
           /\ Touched(c) \subseteq Tenants \cup {NoTenant}
<1>1. stage \in [Tenants -> Stages]
  BY DEF ServiceInv, Shapes
<1>2. \A s \in StageAfter(c) : s \in [Tenants -> Stages]
  BY <1>1 DEF StageAfter
<1>3. TenantOf(req[c]) \in Tenants \cup {NoTenant}
  BY AtWork DEF ServiceInv
<1>4. StageSeen(c) \in Stages
  BY <1>1, <1>3 DEF StageSeen, Stages
<1>5. Touched(c) \subseteq Tenants \cup {NoTenant}
  BY DEF Touched, Held, ServiceInv, Shapes
<1> QED
  BY <1>2, <1>4, <1>5

LEMMA CommitShapes ==
    ASSUME ServiceInv, NEW c \in Clients, CommitStep(c)
    PROVE  RequestKnown' /\ Shapes' /\ OneConnection' /\ StepsLeft'
<1> USE DEF ServiceInv, IInv, Domains, CommitStep
<1>1. RequestKnown'
  BY DEF RequestKnown, Barrier, Unauthenticated, Anonymous, Unscoped
<1>2. /\ stage' \in [Tenants -> Stages]
      /\ Touched(c) \subseteq Tenants \cup {NoTenant}
  BY StagesType
<1>3. Shapes'
  BY <1>2 DEF Shapes, Free
<1>4. OneConnection'
  <2> SUFFICES ASSUME NEW d \in Clients, pc'[d] = "querying"
               PROVE  \E k \in Conns : Held(d)' = {k}
    BY DEF OneConnection
  <2>1. d # c /\ pc[d] = "querying"
    BY DEF Shapes
  <2>2. Held(d)' = Held(d)
    BY <2>1, ServiceAssumption DEF Held, Free
  <2> QED
    BY <2>1, <2>2 DEF OneConnection
<1>5. StepsLeft'
  <2>1. /\ done' = [done EXCEPT ![c] = @ + 1] /\ done[c] + 1 # Len(RouteOf(c).steps)
        /\ done \in [Clients -> Nat]
    BY DEF LastStep, StepsLeft
  <2>2. done' \in [Clients -> Nat] /\ done'[c] < Len(RouteOf(c).steps)
    BY <2>1, StepsAre
  <2> QED
    BY <2>1, <2>2 DEF StepsLeft, RouteOf
<1> QED
  BY <1>1, <1>3, <1>4, <1>5

\* Whatever ends a handler, its answer is one.
LEMMA EndShapes ==
    ASSUME ServiceInv, NEW c \in Clients,
           NoConnection(c) \/ Succeed(c) \/ Fail(c) \/ Panic(c)
    PROVE  RequestKnown' /\ Shapes' /\ OneConnection' /\ StepsLeft'
<1>1. /\ DOMAIN seen = Clients /\ seen[c] \subseteq Tenants \cup {NoTenant}
      /\ stage \in [Tenants -> Stages] /\ done \in [Clients -> Nat]
  BY DEF ServiceInv, IInv, Domains, Shapes, StepsLeft
<1>2. CASE NoConnection(c)
  <2> DEFINE st == IF RouteOf(c).access = "probe" THEN 503 ELSE 500
             a == Says(st, ServerFault, Unmapped, CacheControl(req[c], st, "upcoming"), "upcoming")
  <2>1. st \in Nat
    OBVIOUS
  <2>2. Finish(c, a)
    BY <1>2 DEF NoConnection, Respond
  <2> HIDE DEF st
  <2>3. a \in Replies
    BY <2>1, CacheType, SaysType DEF Sentences, Errors, Stages
  <2> HIDE DEF a
  <2> QED
    BY <1>1, <1>2, <2>2, <2>3, FinishShapes DEF NoConnection
<1>3. CASE Succeed(c)
  <2> DEFINE ok == RouteOf(c).ok
             a == Says(ok, "ok", Unmapped, CacheControl(req[c], ok, StageSeen(c)), StageSeen(c))
  <2>1. pc[c] = "querying" /\ ok \in Nat
    BY <1>3, AtWork DEF Succeed, ServiceInv, GoodRoutes
  <2>2. Finish(c, a)
    BY <1>3 DEF Succeed, Respond
  <2> HIDE DEF ok
  <2>3. a \in Replies
    BY <2>1, StagesType, CacheType, SaysType DEF Sentences, Errors
  <2> HIDE DEF a
  <2>4. /\ stage' \in [Tenants -> Stages] /\ seen' = [seen EXCEPT ![c] = Touched(c)]
        /\ server' = server /\ late' = late /\ done' = [done EXCEPT ![c] = @ + 1]
    BY <1>3, <2>1, StagesType DEF Succeed
  <2>5. Touched(c) \subseteq Tenants \cup {NoTenant}
    BY <2>1, StagesType
  <2> QED
    BY <1>1, <2>1, <2>2, <2>3, <2>4, <2>5, FinishShapes
<1>4. CASE Fail(c)
  <2>1. pc[c] = "querying" /\ UNCHANGED <<server, late, stage, done, seen, req>>
    BY <1>4 DEF Fail
  <2>2. PICK a \in Replies : Finish(c, a)
    <3>1. PICK chain \in StepOf(c).fails :
            LET a == IF RouteOf(c).access = "probe" THEN Unreachable ELSE DomainAnswer(chain)
            IN Respond(c, a.status, a.says, a.error, "upcoming")
      BY <1>4 DEF Fail
    <3> DEFINE a == IF RouteOf(c).access = "probe" THEN Unreachable ELSE DomainAnswer(chain)
               r == Says(a.status, a.says, a.error, CacheControl(req[c], a.status, "upcoming"),
                     "upcoming")
    <3>2. a.status \in Nat /\ a.says \in Sentences /\ a.error \in Errors
      <4>1. a.status \in {503, 500, 404, 400, 409}
        BY AnyAnswer DEF Unreachable
      <4>2. a.says \in Sentences
        BY AnyAnswer DEF Sentences, Unreachable
      <4>3. chain \in Errors /\ Unmapped \in Errors
        BY <2>1, <3>1, StepsAre, ChainsAreErrors DEF Chains
      <4>4. a.error \in Errors
        BY <4>3, AnyAnswer DEF Unreachable
      <4> QED
        BY <4>1, <4>2, <4>4
    <3>3. Finish(c, r)
      BY <2>1, <3>1 DEF Respond
    <3> HIDE DEF a
    <3>4. r \in Replies
      BY <3>2, CacheType, SaysType DEF Stages
    <3> QED
      BY <3>3, <3>4
  <2> QED
    BY <1>1, <2>1, <2>2, FinishShapes
<1>5. CASE Panic(c)
  <2> DEFINE a == Says(500, NoBody, Unmapped, "absent", "upcoming")
  <2>1. a \in Replies
    BY SaysType DEF Sentences, Errors, Stages
  <2>2. Finish(c, a)
    BY <1>5 DEF Panic
  <2> HIDE DEF a
  <2> QED
    BY <1>1, <1>5, <2>1, <2>2, FinishShapes DEF Panic
<1> QED
  BY <1>2, <1>3, <1>4, <1>5

LEMMA ReplyShapes ==
    ASSUME ServiceInv, NEW c \in Clients, Reply(c)
    PROVE  RequestKnown' /\ Shapes' /\ OneConnection' /\ StepsLeft'
<1> USE DEF ServiceInv, IInv, Domains, Reply
<1>1. RequestKnown'
  BY DEF RequestKnown, Barrier, Unauthenticated, Anonymous, Unscoped
<1>2. Shapes'
  BY DEF Shapes
<1>3. OneConnection'
  BY DEF OneConnection, Held
<1>4. StepsLeft'
  BY DEF StepsLeft, RouteOf
<1> QED
  BY <1>1, <1>2, <1>3, <1>4

\* A shutdown moves no request; the exit finds every connection back.
LEMMA ShutdownShapes ==
    ASSUME ServiceInv, Signal \/ Drained \/ DrainTimesOut \/ Exit \/ UNCHANGED vars
    PROVE  RequestKnown' /\ Shapes' /\ OneConnection' /\ StepsLeft'
<1>1. CASE Exit
  <2> USE <1>1 DEF Exit, ServiceInv, IInv, Domains
  <2>1. RequestKnown'
    BY DEF RequestKnown, Barrier, Unauthenticated, Anonymous, Unscoped
  <2>2. Shapes'
    BY DEF Shapes
  <2>3. OneConnection'
    BY DEF OneConnection
  <2>4. StepsLeft'
    BY DEF StepsLeft, RouteOf
  <2> QED
    BY <2>1, <2>2, <2>3, <2>4
<1>2. CASE Signal \/ Drained \/ DrainTimesOut \/ UNCHANGED vars
  <2>1. UNCHANGED <<stage, conn, pc, req, done, seen, answer>>
    BY <1>2 DEF Signal, Drained, DrainTimesOut, request, vars
  <2>2. RequestKnown' /\ OneConnection'
    BY <2>1 DEF ServiceInv, RequestKnown, OneConnection, Held, Barrier, Unauthenticated, Anonymous, Unscoped
  <2>3. Shapes'
    BY <1>2, <2>1 DEF ServiceInv, Shapes, Signal, Drained, DrainTimesOut, request, vars
  <2>4. StepsLeft'
    BY <2>1 DEF ServiceInv, StepsLeft, RouteOf
  <2> QED
    BY <2>2, <2>3, <2>4
<1> QED
  BY <1>1, <1>2

LEMMA ServiceInit == Init => ServiceInv
<1> SUFFICES ASSUME Init PROVE ServiceInv
  OBVIOUS
<1>1. IInv
  BY InitKept
<1>2. RequestKnown /\ OneConnection /\ StepsLeft
  BY DEF Init, RequestKnown, OneConnection, StepsLeft
<1>3. Shapes
  BY ServiceAssumption DEF Init, Shapes, Stages, Free
<1> QED
  BY <1>1, <1>2, <1>3 DEF ServiceInv

LEMMA ServiceStep == ServiceInv /\ [Next]_vars => ServiceInv'
<1> SUFFICES ASSUME ServiceInv, [Next]_vars PROVE ServiceInv'
  OBVIOUS
<1>1. IInv'
  BY StepKeeps DEF ServiceInv
<1>2. RequestKnown' /\ Shapes' /\ OneConnection' /\ StepsLeft'
  BY ArriveShapes, AcquireShapes, CommitShapes, EndShapes, ReplyShapes, ShutdownShapes DEF Next
<1> QED
  BY <1>1, <1>2 DEF ServiceInv

(***************************************************************************)
(* Every variable keeps its shape; above all, for a pool of any size, a    *)
(* goroutine holds one connection inside a transaction and none outside    *)
(* one (withTenant), and whoever replies has an answer (recovered panics   *)
(* too).                                                                   *)
(***************************************************************************)
THEOREM ServiceTypeCorrect == Spec => []TypeOK
<1>1. ServiceInv => TypeOK
  <2> SUFFICES ASSUME ServiceInv PROVE TypeOK
    OBVIOUS
  <2>1. ASSUME NEW c \in Clients
        PROVE  Cardinality(Held(c)) = IF pc[c] = "querying" THEN 1 ELSE 0
    <3>1. CASE pc[c] = "querying"
      BY <3>1, FS_Singleton DEF ServiceInv, OneConnection
    <3>2. CASE pc[c] # "querying"
      <4>1. Held(c) = {}
        BY <3>2 DEF ServiceInv, IInv, ConnectionSet, Held
      <4> QED
        BY <3>2, <4>1, FS_EmptySet
    <3> QED
      BY <3>1, <3>2
  <2>2. \A c \in Clients : pc[c] = "replying" => answer[c] # NoAnswer
    BY ServiceAssumption DEF ServiceInv, Shapes, Replies
  <2> QED
    BY <2>1, <2>2 DEF ServiceInv, Shapes, RequestKnown, TypeOK
<1> QED
  BY <1>1, ServiceInit, ServiceStep, PTL DEF Spec

-----------------------------------------------------------------------------
(* What answers say of the writes. *)

\* What an answer to a goroutine says is true once n transactions have committed.
TrueOf(c, a, n) ==
    /\ a.says = "ok" =>
          \A i \in DOMAIN RouteOf(c).steps : RouteOf(c).steps[i].write => i <= n
    /\ a.status \in 400..499 => \A i \in 1..n : ~RouteOf(c).steps[i].write
    /\ a.error # Unmapped => a.says = Head(a.error)

LEMMA TruthIs ==
    AnswersTellTheTruth <=>
        \A c \in Clients : pc[c] = "replying" => TrueOf(c, answer[c], done[c])
  BY DEF AnswersTellTheTruth, TrueOf, WritesDone

\* A goroutine that ends keeps the answers true, if its own is.
LEMMA FinishTruth ==
    ASSUME TruthInv, NEW c \in Clients, NEW a, Finish(c, a),
           done' \in [Clients -> Nat], \A d \in Clients \ {c} : done'[d] = done[d],
           TrueOf(c, a, done'[c])
    PROVE  AnswersTellTheTruth'
<1> USE DEF TruthInv, ServiceInv, IInv, Domains, Finish
<1>1. ASSUME NEW d \in Clients, pc'[d] = "replying"
      PROVE  TrueOf(d, answer'[d], done'[d])
  <2>1. CASE d = c
    BY <2>1
  <2>2. CASE d # c
    <3>1. pc[d] = "replying" /\ answer'[d] = answer[d] /\ done'[d] = done[d]
      BY <1>1, <2>2
    <3>2. TrueOf(d, answer[d], done[d])
      BY <3>1, TruthIs
    <3> QED
      BY <3>1, <3>2
  <2> QED
    BY <2>1, <2>2
<1> QED
  BY <1>1 DEF AnswersTellTheTruth, TrueOf, WritesDone, RouteOf

LEMMA ArriveTruth ==
    ASSUME TruthInv, NEW c \in Clients, NEW q \in Requests, Arrive(c, Dispatched(q))
    PROVE  AnswersTellTheTruth'
<1> USE DEF TruthInv, ServiceInv, IInv, Domains
<1>1. done' = done /\ done[c] = 0
  BY DEF Arrive, StepsLeft
<1>2. pc'[c] = "replying" => answer'[c].says = "refused" /\ answer'[c].error = Unmapped
  BY DEF Arrive, Says
<1>3. \A e \in Clients \ {c} :
         pc'[e] = pc[e] /\ answer'[e] = answer[e] /\ RouteOf(e)' = RouteOf(e)
  BY DEF Arrive, RouteOf
<1>4. ASSUME NEW e \in Clients, pc'[e] = "replying"
      PROVE  /\ answer'[e].says = "ok" =>
                    \A i \in DOMAIN RouteOf(e)'.steps :
                        RouteOf(e)'.steps[i].write => i <= done'[e]
             /\ answer'[e].status \in 400..499 =>
                    {i \in 1..done'[e] : RouteOf(e)'.steps[i].write} = {}
             /\ answer'[e].error # Unmapped => answer'[e].says = Head(answer'[e].error)
  <2>1. CASE e = c
    BY <1>1, <1>2, <1>4, <2>1
  <2>2. CASE e # c
    BY <1>1, <1>3, <1>4, <2>2 DEF AnswersTellTheTruth, WritesDone
  <2> QED
    BY <2>1, <2>2
<1> QED
  BY <1>4 DEF AnswersTellTheTruth, WritesDone

\* A transaction begins, or commits with others to come.
LEMMA WorkTruth ==
    ASSUME TruthInv, NEW c \in Clients, Acquire(c) \/ CommitStep(c)
    PROVE  AnswersTellTheTruth'
<1> USE DEF TruthInv, ServiceInv, IInv, Domains
<1>1. /\ req' = req /\ answer' = answer /\ pc'[c] \in {"waiting", "querying"}
      /\ \A e \in Clients \ {c} : pc'[e] = pc[e] /\ done'[e] = done[e]
  BY DEF Acquire, CommitStep, StepsLeft
<1> QED
  BY <1>1 DEF AnswersTellTheTruth, WritesDone, RouteOf

\* A success comes after the last write, whether it is the last step or settles.
LEMMA SuccessIsTrue ==
    ASSUME TruthInv, NEW c \in Clients, Succeed(c)
    PROVE  AnswersTellTheTruth'
<1> DEFINE steps == RouteOf(c).steps
           ok == RouteOf(c).ok
           a == Says(ok, "ok", Unmapped, CacheControl(req[c], ok, StageSeen(c)), StageSeen(c))
<1>1. /\ pc[c] = "querying" /\ done' = [done EXCEPT ![c] = @ + 1] /\ Finish(c, a)
      /\ done[c] + 1 = Len(steps) \/ steps[done[c] + 1].settles
  BY DEF Succeed, Respond, LastStep, StepOf
<1>2. done \in [Clients -> Nat]
  BY DEF TruthInv, ServiceInv, StepsLeft
<1>3. ok \in {200, 201, 204}
  BY <1>1, AtWork DEF TruthInv, ServiceInv, GoodRoutes
<1>4. a.status = ok /\ a.says = "ok" /\ a.error = Unmapped
  BY DEF Says
<1> HIDE DEF a, ok
<1>5. \A i \in DOMAIN steps : steps[i].write => i <= done[c] + 1
  <2> SUFFICES ASSUME NEW i \in DOMAIN steps, steps[i].write, ~(i <= done[c] + 1)
               PROVE  FALSE
    OBVIOUS
  <2>1. /\ StepsInOrder(steps) /\ done[c] \in Nat /\ done[c] < Len(steps)
        /\ DOMAIN steps = 1..Len(steps) /\ Len(steps) \in Nat
    BY <1>1, StepsAre DEF TruthInv
  <2> HIDE DEF steps
  <2>2. steps[done[c] + 1].settles
    BY <1>1, <2>1
  <2> QED
    BY <2>1, <2>2 DEF StepsInOrder
<1>6. TrueOf(c, a, done'[c])
  BY <1>1, <1>2, <1>3, <1>4, <1>5 DEF TrueOf
<1> QED
  BY <1>1, <1>2, <1>6, FinishTruth

\* A failure after a write is nobody's fault but the server's.
LEMMA FailureIsTrue ==
    ASSUME TruthInv, NEW c \in Clients, Fail(c)
    PROVE  AnswersTellTheTruth'
<1>1. pc[c] = "querying" /\ req' = req /\ done' = done
  BY DEF Fail
<1>2. PICK chain \in StepOf(c).fails :
        LET a == IF RouteOf(c).access = "probe" THEN Unreachable ELSE DomainAnswer(chain)
        IN Respond(c, a.status, a.says, a.error, "upcoming")
  BY DEF Fail
<1> DEFINE steps == RouteOf(c).steps
           a == IF RouteOf(c).access = "probe" THEN Unreachable ELSE DomainAnswer(chain)
           r == Says(a.status, a.says, a.error, CacheControl(req[c], a.status, "upcoming"),
                     "upcoming")
<1>3. Finish(c, r)
  BY <1>1, <1>2 DEF Respond
<1>4. r.status = a.status /\ r.says = a.says /\ r.error = a.error
  BY DEF Says
<1> HIDE DEF r
<1>5. chain \in Chains
  BY <1>1, StepsAre DEF TruthInv
<1>6. a.says # "ok" /\ (a.error # Unmapped => a.says = Head(a.error))
  <2>1. CASE RouteOf(c).access = "probe"
    <3>1. a.says = ServerFault /\ a.error = Unmapped
      BY <2>1 DEF Unreachable
    <3> QED
      BY <3>1 DEF ServerFault
  <2>2. CASE RouteOf(c).access # "probe"
    <3>1. a.says = DomainAnswer(chain).says /\ a.error = chain
      BY <2>2, AnyAnswer
    <3>2. a.says # "ok"
      BY <3>1, AnyAnswer
    <3> HIDE DEF a
    <3> QED
      BY <3>1, <3>2, <1>5, DomainAnswers
  <2> QED
    BY <2>1, <2>2
<1>7. a.status \in 400..499 => chain # Unmapped
  BY <1>5, DomainAnswers DEF Unreachable
<1>8. ASSUME chain # Unmapped, NEW i \in 1..done[c] PROVE ~steps[i].write
  <2>1. /\ StepsInOrder(steps) /\ done[c] \in Nat /\ done[c] < Len(steps)
        /\ DOMAIN steps = 1..Len(steps) /\ Len(steps) \in Nat
    BY <1>1, StepsAre DEF TruthInv
  <2>2. chain \in steps[done[c] + 1].fails
    BY DEF StepOf
  <2> HIDE DEF steps
  <2>3. i \in DOMAIN steps /\ done[c] + 1 \in DOMAIN steps /\ i < done[c] + 1
    BY <2>1
  <2> QED
    BY <1>8, <2>1, <2>2, <2>3 DEF StepsInOrder
<1> HIDE DEF a
<1>9. TrueOf(c, r, done'[c])
  BY <1>1, <1>4, <1>6, <1>7, <1>8 DEF TrueOf
<1>10. done \in [Clients -> Nat]
  BY DEF TruthInv, ServiceInv, StepsLeft
<1> QED
  BY <1>1, <1>3, <1>9, <1>10, FinishTruth

\* No connection, or a panic: the server's fault too.
LEMMA FaultIsTrue ==
    ASSUME TruthInv, NEW c \in Clients, NoConnection(c) \/ Panic(c)
    PROVE  AnswersTellTheTruth'
<1>1. /\ done' \in [Clients -> Nat]
      /\ \A d \in Clients \ {c} : done'[d] = done[d]
  BY DEF NoConnection, Panic, TruthInv, ServiceInv, StepsLeft
<1>2. CASE NoConnection(c)
  <2> DEFINE st == IF RouteOf(c).access = "probe" THEN 503 ELSE 500
             a == Says(st, ServerFault, Unmapped, CacheControl(req[c], st, "upcoming"), "upcoming")
  <2>1. Finish(c, a)
    BY <1>2 DEF NoConnection, Respond
  <2>2. a.status \in {503, 500} /\ a.says = ServerFault /\ a.error = Unmapped
    BY DEF Says
  <2> HIDE DEF a
  <2>3. a.status \notin 400..499
    BY <2>2
  <2>4. a.says # "ok"
    BY <2>2, Zenon DEF ServerFault
  <2>5. TrueOf(c, a, done'[c])
    BY <2>2, <2>3, <2>4 DEF TrueOf
  <2> QED
    BY <1>1, <2>1, <2>5, FinishTruth
<1>3. CASE Panic(c)
  <2> DEFINE a == Says(500, NoBody, Unmapped, "absent", "upcoming")
  <2>1. Finish(c, a)
    BY <1>3 DEF Panic
  <2>2. a.status = 500 /\ a.says = NoBody /\ a.error = Unmapped
    BY DEF Says
  <2> HIDE DEF a
  <2>3. a.status \notin 400..499
    BY <2>2
  <2>4. a.says # "ok"
    BY <2>2, Zenon DEF NoBody
  <2>5. TrueOf(c, a, done'[c])
    BY <2>2, <2>3, <2>4 DEF TrueOf
  <2> QED
    BY <1>1, <2>1, <2>5, FinishTruth
<1> QED
  BY <1>2, <1>3

LEMMA QuietTruth ==
    ASSUME TruthInv,
           \/ \E c \in Clients : Reply(c)
           \/ Signal \/ Drained \/ DrainTimesOut \/ Exit \/ UNCHANGED vars
    PROVE  AnswersTellTheTruth'
<1> USE DEF TruthInv, ServiceInv, IInv, Domains
<1>1. ASSUME NEW c \in Clients, Reply(c) PROVE AnswersTellTheTruth'
  BY <1>1 DEF Reply, AnswersTellTheTruth, RouteOf, WritesDone
<1>2. CASE Exit
  BY <1>2 DEF Exit, AnswersTellTheTruth, RouteOf, WritesDone
<1>3. CASE Signal \/ Drained \/ DrainTimesOut \/ UNCHANGED vars
  <2>1. UNCHANGED <<pc, req, done, answer>>
    BY <1>3 DEF Signal, Drained, DrainTimesOut, request, vars
  <2> QED
    BY <2>1 DEF AnswersTellTheTruth, RouteOf, WritesDone
<1> QED
  BY <1>1, <1>2, <1>3

(***************************************************************************)
(* Whatever the route, a success says its every write has committed and a  *)
(* 4xx that none has, so that the caller may correct and repeat it; and    *)
(* the sentence is that of the most specific sentinel its error wraps: the *)
(* order of domainAnswers puts each ahead of the generic one it wraps.     *)
(***************************************************************************)
THEOREM AnswersAreTrue == Spec => []AnswersTellTheTruth
<1>1. Init => TruthInv
  BY ServiceInit DEF Init, TruthInv, AnswersTellTheTruth
<1>2. TruthInv /\ [Next]_vars => TruthInv'
  <2> SUFFICES ASSUME TruthInv, [Next]_vars PROVE TruthInv'
    OBVIOUS
  <2>1. ServiceInv'
    BY ServiceStep DEF TruthInv
  <2>2. AnswersTellTheTruth'
    BY ArriveTruth, WorkTruth, SuccessIsTrue, FailureIsTrue, FaultIsTrue, QuietTruth DEF Next
  <2> QED
    BY <2>1, <2>2 DEF TruthInv
<1>3. TruthInv => AnswersTellTheTruth
  BY DEF TruthInv
<1> QED
  BY <1>1, <1>2, <1>3, PTL DEF Spec
=============================================================================
