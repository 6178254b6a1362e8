----------------------------- MODULE ScoreCard -----------------------------
(***************************************************************************)
(* One match's card, scored a row at a time in any order: what the guard   *)
(* and the engine of SubmitHoleScores say of every card the program can    *)
(* hold, with no concurrency (MatchWrites has that).  The engine is        *)
(* compared with match play's own definition: a match is over exactly when *)
(* no way of playing the rest of it changes who wins.                      *)
(***************************************************************************)
EXTENDS MatchPlay

CONSTANTS
    Balls,          \* who a row is for: a team, or a player of one
    BallTeam,       \* the side each ball is played for
    BallHoles,      \* bound on the holes each ball has a score entered for
    MaxStrokes      \* bound on strokes; the code only asks for at least 1

ASSUME ScoreCardAssumption ==
    /\ BallTeam \in [Balls -> Teams]
    /\ BallHoles \in [Balls -> SUBSET Holes]
    /\ MaxStrokes \in Nat \ {0}

VARIABLES
    rows,           \* the match's score rows, at most one for a hole and ball
    result          \* its stored outcome

vars == <<rows, result>>

Init == rows = {} /\ result = UnplayedResult

\* The ON CONFLICT upsert of one row: correct the ball's strokes or insert them.
Upsert(h, b, n) ==
    {r \in rows : ~(r.hole = h /\ r.ball = b)}
      \cup {[hole |-> h, ball |-> b, team |-> BallTeam[b], strokes |-> n]}

\* SubmitHoleScores, one entry: refused when it would add a hole to a finished
\* match, and the outcome recomputed from the rows it leaves.
Submit(h, b, n) ==
    /\ result.finished => HoleIsScored(rows, h)
    /\ LET after == Upsert(h, b, n)
       IN  rows' = after /\ result' = ComputeStoredResult(after)

ResetMatch == rows' = {} /\ result' = UnplayedResult

Next ==
    \/ \E b \in Balls : \E h \in BallHoles[b], n \in 1..MaxStrokes : Submit(h, b, n)
    \/ ResetMatch

Spec == Init /\ [][Next]_vars

-----------------------------------------------------------------------------
(* The reference: winners of all NumHoles holes, extending those in play.   *)

Completions ==
    LET played == HolesPlayed(rows)
    IN  {[h \in Holes |-> IF h \in DOMAIN played THEN played[h] ELSE c[h]] :
            c \in [Holes \ DOMAIN played -> Teams \cup {NoTeam}]}

HolesWon(c, t) == Cardinality({h \in DOMAIN c : c[h] = t})

Winner(c) == Leader(HolesWon(c, TeamA) - HolesWon(c, TeamB))

(***************************************************************************)
(* ComputeMatchProgress closes a match out exactly when it is over: the    *)
(* stored result is finished if and only if every way of playing the holes *)
(* not yet in play has the same winner, and then names that winner.  Holds *)
(* however the holes were entered, gaps and one-sided holes included.      *)
(***************************************************************************)
FinishedIffSettled ==
    LET winners == {Winner(c) : c \in Completions}
    IN  IF result.finished THEN winners = {result.leader}
        ELSE Cardinality(winners) > 1

(***************************************************************************)
(* A finished match reads as a golf score: won by one or two more than the *)
(* holes left ("3&2", "1 up"), or halved with none left.  It fails if the  *)
(* walk runs past the hole that decided the match.                         *)
(***************************************************************************)
MarginIsAScoreline ==
    result.finished =>
        \/ result.lead - result.holesRemaining \in {1, 2}
        \/ result.lead = 0 /\ result.holesRemaining = 0

(***************************************************************************)
(* The two halves of the results page agree: the hole winners it lists add *)
(* up to the lead of the outcome beside them, over as many holes as that   *)
(* outcome says were played.                                               *)
(***************************************************************************)
HoleWinnersAddUp ==
    LET w == HoleWinners(rows)
    IN  /\ Cardinality(DOMAIN w) = NumHoles - result.holesRemaining
        /\ result.lead = Abs(HolesWon(w, TeamA) - HolesWon(w, TeamB))
        /\ result.leader = Winner(w)

(***************************************************************************)
(* A late entry cannot change who won.  The guard lets a finished match    *)
(* take the missing side of a hole already half entered; unless the step   *)
(* corrects a hole in play, the match stays finished with the same winner, *)
(* though its margin may move.                                             *)
(***************************************************************************)
LateEntryKeepsWinner ==
    [][ /\ result.finished
        /\ rows' # {}
        /\ \A h \in HolesInPlay(rows) : HoleWinner(rows', h) = HoleWinner(rows, h)
        => result'.finished /\ result'.leader = result.leader ]_vars

(***************************************************************************)
(* Best ball: a partner's score can only help.  Adding a ball's first      *)
(* score to a hole in play never takes the hole, or a half of it, away     *)
(* from the side the ball is played for.                                   *)
(***************************************************************************)
HasBall(card, h, b) == \E r \in card : r.hole = h /\ r.ball = b

PartnerCanOnlyHelp ==
    [][ \A r \in rows' \ rows :
          LET h == r.hole
          IN  h \in HolesInPlay(rows) /\ ~HasBall(rows, h, r.ball) =>
                /\ HoleWinner(rows, h) = r.team => HoleWinner(rows', h) = r.team
                /\ HoleWinner(rows', h) \in {r.team, NoTeam, HoleWinner(rows, h)} ]_vars
=============================================================================
