-------------------------- MODULE MCMatchPlayers --------------------------
(* Per-player scores: lineups that substitute one player, a fourball's four, *)
(* one naming a player drafted onto no side; scores for players who may have *)
(* left the lineup, for a player under the other side's name, and a team     *)
(* score beside them; two tee sets, two formats, and a clock that can close  *)
(* the window between a request's checks and its write.                      *)
EXTENDS MatchWrites, TLC

CONSTANTS c1, c2, p1, p2, p3, p4, p5

Score(who, t, n) == [who |-> who, team |-> t, strokes |-> n]
Place(p, t) == [player |-> p, team |-> t]

MCSubmissions ==
    {{Score(p1, TeamA, 1), Score(p2, TeamB, 2)}, {Score(p3, TeamA, 2)},
     {Score(p1, TeamB, 1)}, {Score(TeamB, TeamB, 1)}}

MCDraft == (p1 :> TeamA) @@ (p2 :> TeamB) @@ (p3 :> TeamA) @@ (p4 :> TeamB)
             @@ (p5 :> NoTeam)

MCLineups ==
    {{Place(p1, TeamA), Place(p2, TeamB)},
     {Place(p3, TeamA), Place(p2, TeamB)},
     {Place(p1, TeamA), Place(p3, TeamA), Place(p2, TeamB), Place(p4, TeamB)},
     {Place(p5, TeamA), Place(p2, TeamB)}}

ClientSymmetry == Permutations({c1, c2})
=============================================================================
