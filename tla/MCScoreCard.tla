---------------------------- MODULE MCScoreCard ----------------------------
(* A match over five holes: one ball a side, and on the first hole a second  *)
(* ball for team A, which may come in at any time, after the match is over   *)
(* too.  Five is the least number with a "3&2" in it, and lets a match be    *)
(* decided with holes left, end dormie and halved, and be entered with gaps. *)
EXTENDS ScoreCard

MCBalls == {"a1", "a2", "b"}
MCBallTeam == [x \in MCBalls |-> IF x = "b" THEN TeamB ELSE TeamA]
MCBallHoles == [x \in MCBalls |-> IF x = "a2" THEN {1} ELSE Holes]
=============================================================================
