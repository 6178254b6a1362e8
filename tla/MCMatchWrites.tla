--------------------------- MODULE MCMatchWrites ---------------------------
(* One-ball sides over three holes: the fewest with a match that finishes    *)
(* with a hole to spare.                                                     *)
EXTENDS MatchWrites, TLC

CONSTANTS c1, c2, p1, p2

Score(t, n) == [who |-> t, team |-> t, strokes |-> n]

\* TeamA wins the hole; either side alone, new to the hole or a correction of it.
MCSubmissions ==
    {{Score(TeamA, 1), Score(TeamB, 2)}, {Score(TeamA, 2)}, {Score(TeamB, 1)}}

MCDraft == (p1 :> TeamA) @@ (p2 :> TeamB)
Singles == {[player |-> p1, team |-> TeamA], [player |-> p2, team |-> TeamB]}
OneShort == {[player |-> p1, team |-> TeamA]}
MCLineups == {Singles, OneShort}

ClientSymmetry == Permutations({c1, c2})
=============================================================================
