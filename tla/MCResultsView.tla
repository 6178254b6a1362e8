--------------------------- MODULE MCResultsView ---------------------------
(* Two singles matches of two holes, each hole won by one side or scored     *)
(* by one side alone: the fewest with a cup live, one match over, the other  *)
(* not, and a write to either match between any two reads.                   *)
EXTENDS ResultsView

CONSTANTS m1, m2, p1, p2

Score(t, n) == [who |-> t, team |-> t, strokes |-> n]
Place(p, t) == [player |-> p, team |-> t]

MCSubmissions ==
    {{Score(TeamA, 1), Score(TeamB, 2)}, {Score(TeamA, 1)}}
MCDraft == [p \in {p1, p2} |-> IF p = p1 THEN TeamA ELSE TeamB]
MCLineups == {{Place(p1, TeamA), Place(p2, TeamB)}}

MatchSymmetry == Permutations({m1, m2})
=============================================================================
