----------------------------- MODULE MatchPlay -----------------------------
(***************************************************************************)
(* The match-play engine: how a match's score rows become its hole-by-hole *)
(* progression and the one-line outcome the rest of the program stores and *)
(* reads.  Pure; translated from internal/golf/scoring.go.                 *)
(*                                                                         *)
(* A score row is a record with at least the fields hole, team and         *)
(* strokes.  The two sides are constants: a tournament has exactly two     *)
(* teams and a match is one against the other.                             *)
(***************************************************************************)
EXTENDS Integers, FiniteSets, FiniteSetsExt

CONSTANTS
    NumHoles,       \* 18 in the code
    TeamA, TeamB,   \* the sides, in the order the caller passes them
    NoTeam          \* a nil leader: all square, or a halved hole

ASSUME MatchPlayAssumption ==
    /\ NumHoles \in Nat \ {0}
    /\ TeamA # TeamB
    /\ NoTeam \notin {TeamA, TeamB}

Teams == {TeamA, TeamB}
Holes == 1..NumHoles

(***************************************************************************)
(* teamScoresByHole: a team's strokes on a hole are the fewest any of its  *)
(* rows records there, whichever player or team the row is for.  The       *)
(* per-player breakdown the code keeps for display is left out.            *)
(***************************************************************************)
HolesScoredBy(rows, t) == {r.hole : r \in {q \in rows : q.team = t}}

\* Bug: the worst ball counts.
TeamStrokes_Worst(rows, t, h) ==
    Max({r.strokes : r \in {q \in rows : q.team = t /\ q.hole = h}})

TeamStrokes(rows, t, h) ==
    Min({r.strokes : r \in {q \in rows : q.team = t /\ q.hole = h}})

\* Only holes both sides scored contribute.
HolesInPlay(rows) == HolesScoredBy(rows, TeamA) \cap HolesScoredBy(rows, TeamB)

\* Who won each hole in play: lower gross, or nobody when it is halved.
HoleWinner(rows, h) ==
    LET a == TeamStrokes(rows, TeamA, h)
        b == TeamStrokes(rows, TeamB, h)
    IN  CASE a < b -> TeamA
          [] b < a -> TeamB
          [] OTHER -> NoTeam

HolesPlayed(rows) == [h \in HolesInPlay(rows) |-> HoleWinner(rows, h)]

(***************************************************************************)
(* The running state of the walk over the holes in play, in order: played  *)
(* is a function from those holes to their winners, and the state at hole  *)
(* h counts the ones up to it.                                             *)
(***************************************************************************)
Counted(played, h) == {g \in DOMAIN played : g <= h}

SignedLead(played, h) ==
    Cardinality({g \in Counted(played, h) : played[g] = TeamA})
      - Cardinality({g \in Counted(played, h) : played[g] = TeamB})

Abs(n) == IF n < 0 THEN -n ELSE n

\* The side a lead relative to TeamA belongs to.
Leader(signed) ==
    CASE signed > 0 -> TeamA
      [] signed < 0 -> TeamB
      [] OTHER -> NoTeam

\* Bugs the close-out rule could have: closing a match that is only dormie, and
\* never closing one early.
Decided_Dormie(lead, n) == lead >= NumHoles - n
Decided_Never(lead, n) == n = NumHoles

\* After n holes in play: the lead exceeds the holes left, or none are left.
Decided(lead, n) == lead > NumHoles - n \/ n = NumHoles

DecidedAt(played, h) ==
    Decided(Abs(SignedLead(played, h)), Cardinality(Counted(played, h)))

(***************************************************************************)
(* ComputeMatchProgress: one entry for each hole in play, in hole order,   *)
(* ending with the hole that decided the match.                            *)
(***************************************************************************)
ComputeMatchProgress(rows) ==
    LET played == HolesPlayed(rows)
        shown  == {h \in DOMAIN played :
                      \A g \in DOMAIN played : g < h => ~DecidedAt(played, g)}
    IN  [h \in shown |->
            [winner |-> played[h],
             leader |-> Leader(SignedLead(played, h)),
             lead |-> Abs(SignedLead(played, h)),
             holesRemaining |-> NumHoles - Cardinality(Counted(played, h)),
             decided |-> DecidedAt(played, h)]]

\* The outcome of a match nobody has scored.
UnplayedResult ==
    [finished |-> FALSE, leader |-> NoTeam, lead |-> 0, holesRemaining |-> NumHoles]

\* storedResultFrom: the state at the last hole of the progression.
ComputeStoredResult(rows) ==
    LET progress == ComputeMatchProgress(rows)
        last     == progress[Max(DOMAIN progress)]
    IN  IF DOMAIN progress = {} THEN UnplayedResult
        ELSE [finished |-> last.decided, leader |-> last.leader,
              lead |-> last.lead, holesRemaining |-> last.holesRemaining]

\* MatchState.HoleWinners: the winner of each hole of the progression.  The bug
\* it could have: no entry for a halved hole.
HoleWinners_NoHalves(rows) ==
    LET progress == ComputeMatchProgress(rows)
    IN  [h \in {g \in DOMAIN progress : progress[g].winner # NoTeam} |-> progress[h].winner]

HoleWinners(rows) ==
    LET progress == ComputeMatchProgress(rows)
    IN  [h \in DOMAIN progress |-> progress[h].winner]

\* holeIsScored: the hole already carries any score, of either side.
HoleIsScored(rows, h) == \E r \in rows : r.hole = h

Results ==
    [finished : BOOLEAN, leader : Teams \cup {NoTeam},
     lead : 0..NumHoles, holesRemaining : 0..NumHoles]
=============================================================================
