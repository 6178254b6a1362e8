------------------------------ MODULE MCRoster ------------------------------
(* Two singles matches of a side of two and a side of one, a player on both  *)
(* sheets and one on neither side yet, and two requests: the fewest for a    *)
(* lineup to replace a player an undraft is removing, and for an undraft to  *)
(* meet one match that keeps her and one that is dropping her.               *)
EXTENDS Roster, TLC

CONSTANTS c1, c2, m1, m2, p1, p2, p3

MCDraft == p1 :> TeamA @@ p2 :> TeamB @@ p3 :> NoTeam

MCLineups ==
    {{Place(p1, TeamA), Place(p2, TeamB)}, {Place(p3, TeamA), Place(p2, TeamB)}}

MCFormat == [m \in Matches |-> 1]

MCSubmissions == {}
=============================================================================
