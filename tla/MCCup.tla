------------------------------- MODULE MCCup -------------------------------
(* Two three-hole matches, singles or pairs, each won by either side, halved *)
(* or left unfinished: three holes, so that a match closes out early and a   *)
(* margin is not always one; two matches, so that a cup is won by a single   *)
(* match, by a win and a half, or tied on wins.                              *)
EXTENDS Careers

CONSTANTS m1, m2, p1, p2, p3, p4

Score(t, n) == [who |-> t, team |-> t, strokes |-> n]
Place(p, t) == [player |-> p, team |-> t]

MCSubmissions == {{Score(TeamA, s[1]), Score(TeamB, s[2])} : s \in {<<1, 1>>, <<1, 2>>, <<2, 1>>}}
        \cup {{Score(TeamA, 1)}}

MCDraft == [p \in {p1, p2, p3, p4} |-> IF p \in {p1, p3} THEN TeamA ELSE TeamB]

MCLineups ==
    {{Place(p1, TeamA), Place(p2, TeamB)},
     {Place(p1, TeamA), Place(p3, TeamA), Place(p2, TeamB), Place(p4, TeamB)}}

MatchSymmetry == Permutations(Matches)
=============================================================================
