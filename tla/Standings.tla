----------------------------- MODULE Standings -----------------------------
(***************************************************************************)
(* What the program derives from match_results: a tournament's points, its *)
(* phase and its winner (internal/golf/standings.go), and every player's   *)
(* record (the view player_match_outcomes and the queries over it).        *)
(*                                                                         *)
(* The outcomes of a tournament are a function from its matches to what    *)
(* ListMatchOutcomes says of each.  Points are counted in halves.          *)
(***************************************************************************)
EXTENDS MatchPlay, Sequences, SequencesExt

\* One row of ListMatchOutcomes, from the match's stored result if it has one.
Outcome(stored, absent) ==
    [started |-> stored # absent,
     finished |-> stored # absent /\ stored.finished,
     winner |-> IF stored = absent THEN NoTeam ELSE stored.leader]

FinishedIn(outcomes) == {m \in DOMAIN outcomes : outcomes[m].finished}

\* Bug: a halved match counts for nobody.
ComputeTeamPoints_NoHalves(outcomes) ==
    [t \in Teams |-> 2 * Cardinality({m \in FinishedIn(outcomes) : outcomes[m].winner = t})]

\* A win is a point, a half is half a point to each side.
ComputeTeamPoints(outcomes) ==
    [t \in Teams |->
        2 * Cardinality({m \in FinishedIn(outcomes) : outcomes[m].winner = t})
          + Cardinality({m \in FinishedIn(outcomes) : outcomes[m].winner = NoTeam})]

\* Bug: a tournament with no match is complete.
IsTournamentComplete_Vacuous(outcomes) == FinishedIn(outcomes) = DOMAIN outcomes

IsTournamentComplete(outcomes) ==
    DOMAIN outcomes # {} /\ FinishedIn(outcomes) = DOMAIN outcomes

ComputePhase(outcomes) ==
    CASE IsTournamentComplete(outcomes) -> "finished"
      [] ~IsTournamentComplete(outcomes)
           /\ \E m \in DOMAIN outcomes : outcomes[m].started -> "live"
      [] OTHER -> "upcoming"

(***************************************************************************)
(* ComputeTournamentOutcome: one pass over the teams, in the order they    *)
(* are listed, for the best points and the runner-up's.                    *)
(***************************************************************************)
\* Bug: the runner-up's points are not kept when the lead changes hands.
Contend_Forgets(points, best, t) ==
    IF best.leader = NoTeam \/ points[t] > best.points
    THEN [leader |-> t, points |-> points[t], runnerUp |-> 0]
    ELSE best

Contend(points, best, t) ==
    IF best.leader = NoTeam \/ points[t] > best.points
    THEN [leader |-> t, points |-> points[t], runnerUp |-> best.points]
    ELSE [best EXCEPT !.runnerUp = Max({@, points[t]})]

ComputeTournamentOutcome(outcomes, teamIDs) ==
    LET points == ComputeTeamPoints(outcomes)
        field  == FoldLeft(LAMBDA best, t : Contend(points, best, t),
                           [leader |-> NoTeam, points |-> 0, runnerUp |-> 0], teamIDs)
    IN  IF ~IsTournamentComplete(outcomes) THEN [finished |-> FALSE, winner |-> NoTeam]
        ELSE [finished |-> TRUE,
              winner |-> IF field.points = field.runnerUp THEN NoTeam ELSE field.leader]

\* ComputeCupsWon, one tournament's share: the players of the side that won it.
CupWinners(outcomes, teamIDs, draft) ==
    LET cup == ComputeTournamentOutcome(outcomes, teamIDs)
    IN  {p \in DOMAIN draft : cup.winner # NoTeam /\ draft[p] = cup.winner}

\* TournamentResultFor: the verdict on one tournament for a side, or for nobody's.
TournamentResultFor(outcomes, teamIDs, team) ==
    LET cup == ComputeTournamentOutcome(outcomes, teamIDs)
    IN  CASE ~cup.finished -> "in_progress"
          [] cup.finished /\ cup.winner = NoTeam -> "tied"
          [] cup.finished /\ cup.winner # NoTeam /\ cup.winner = team -> "won"
          [] OTHER -> "lost"

(***************************************************************************)
(* player_match_outcomes: how a participant fared in a match whose stored  *)
(* result is final; nothing while it is live.                              *)
(***************************************************************************)
\* Bug: leader <> team with a missing NULL check.
PlayerOutcome_NullLost(outcome, team) ==
    CASE ~outcome.finished -> "none"
      [] outcome.finished /\ outcome.winner = team -> "won"
      [] OTHER -> "lost"

PlayerOutcome(outcome, team) ==
    CASE ~outcome.finished -> "none"
      [] outcome.finished /\ outcome.winner = team -> "won"
      [] outcome.finished /\ outcome.winner = NoTeam -> "tied"
      [] OTHER -> "lost"

\* PointsFor, in halves.
PointsFor(wins, ties) == 2 * wins + ties
=============================================================================
