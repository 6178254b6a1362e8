-------------------------------- MODULE Cup --------------------------------
(***************************************************************************)
(* One tournament: its matches move as MatchBook says, and everything the  *)
(* program publishes about the cup is derived from the stored results on   *)
(* each read.  The properties ask whether these derivations agree with one *)
(* another and with match play's own account of the scores.                *)
(***************************************************************************)
EXTENDS MatchBook, Standings

\* ListMatchOutcomes: every match of the tournament, scored or not.
Outcomes == [m \in {k \in Matches : Live(k)} |-> Outcome(result[m], NoResult)]

\* ListTournamentPlayerRecords, one column of one player: her participations with
\* that verdict, each judged by the side she took in that match.
RecordCount(p, verdict) ==
    Cardinality({m \in Matches : \E e \in lineup[m] :
                    e.player = p /\ PlayerOutcome(Outcomes[m], e.team) = verdict})

PlayerPoints(p) == PointsFor(RecordCount(p, "won"), RecordCount(p, "tied"))

-----------------------------------------------------------------------------
\* The two orders the teams may be listed in: ListAllTeams has no ORDER BY.
Orders == {<<TeamA, TeamB>>, <<TeamB, TeamA>>}

WonBy(t) == {m \in Matches : Live(m) /\ LET r == ComputeStoredResult(scores[m])
                                        IN  r.finished /\ r.leader = t}

Over(m) == ComputeStoredResult(scores[m]).finished

(***************************************************************************)
(* The cup goes to the side that has won more matches, once every match is *)
(* over and never before, in whichever order the teams are listed: the one *)
(* pass over the points agrees with counting wins on the score cards.      *)
(***************************************************************************)
CupGoesToMoreWins ==
    LET live == {m \in Matches : Live(m)}
        over == live # {} /\ \A m \in live : Over(m)
        lead == Cardinality(WonBy(TeamA)) - Cardinality(WonBy(TeamB))
    IN  \A teamIDs \in Orders :
            ComputeTournamentOutcome(Outcomes, teamIDs) =
                [finished |-> over, winner |-> IF over THEN Leader(lead) ELSE NoTeam]

(***************************************************************************)
(* Points are neither lost nor made: the two sides share one point for     *)
(* each match that is over (ComputeTeamPoints).                            *)
(***************************************************************************)
PointsAddUp ==
    LET points == ComputeTeamPoints(Outcomes)
    IN  points[TeamA] + points[TeamB] = 2 * Cardinality({m \in Matches : Live(m) /\ Over(m)})

(***************************************************************************)
(* The phase every endpoint publishes is the score cards': upcoming while  *)
(* nothing is recorded, finished when every match is over.  A stored row   *)
(* left behind by a reset would show a cup live that nobody has begun.     *)
(***************************************************************************)
PhaseFollowsTheCards ==
    LET live  == {m \in Matches : Live(m)}
        phase == ComputePhase(Outcomes)
    IN  /\ phase = "upcoming" <=> \A m \in live : scores[m] = {}
        /\ phase = "finished" <=> live # {} /\ \A m \in live : Over(m)

(***************************************************************************)
(* "Every stat that talks about points has to agree with the standings the *)
(* leaderboard shows" (PointsFor): the points of a side's players add up   *)
(* to its match points, each match counted once for each of its players.   *)
(* A lineup that could change size or side under a result would break it.  *)
(***************************************************************************)
MatchPoints(m, t) == ComputeTeamPoints([k \in {m} |-> Outcomes[k]])[t]

RecordsAgreeWithStandings ==
    \A t \in Teams :
        MapThenSumSet(PlayerPoints, {p \in Players : Draft[p] = t})
          = MapThenSumSet(LAMBDA m : match[m].perSide * MatchPoints(m, t),
                          {m \in Matches : Live(m)})

(***************************************************************************)
(* The two places that judge a player's cup agree: the history page says   *)
(* won exactly for the players the cups-won count names, on a listing of   *)
(* the teams in any order (ComputeCupsWon, TournamentResultFor).           *)
(***************************************************************************)
VerdictsAgree ==
    \A o1, o2 \in Orders, p \in Players :
        p \in CupWinners(Outcomes, o1, Draft)
          <=> TournamentResultFor(Outcomes, o2, Draft[p]) = "won"
=============================================================================
