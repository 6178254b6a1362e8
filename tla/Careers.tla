------------------------------ MODULE Careers ------------------------------
(***************************************************************************)
(* A player's career as the stats page reads it (queries/players.sql,      *)
(* PlayerStats): her matches counted whole, by format, by partner, by      *)
(* opponent and by how they ended, each an aggregate of its own over       *)
(* player_match_outcomes.  The properties ask whether the aggregates, of   *)
(* one player and of different players, tell one story.                    *)
(***************************************************************************)
EXTENDS Cup

SidesTaken(p, m) == {e.team : e \in {d \in lineup[m] : d.player = p}}

\* player_match_outcomes: her participations in matches with a stored result.
Judged(p) == {m \in Matches : SidesTaken(p, m) # {} /\ result[m] # NoResult}

\* The matches of some set that went one way for her.
Ended(p, matches, verdict) ==
    {m \in matches : \E t \in SidesTaken(p, m) : PlayerOutcome(Outcomes[m], t) = verdict}

Record(p, matches) ==
    [wins |-> Cardinality(Ended(p, matches, "won")),
     losses |-> Cardinality(Ended(p, matches, "lost")),
     ties |-> Cardinality(Ended(p, matches, "tied"))]

PlayerRecord(p) == Record(p, Judged(p))

\* A format is told by its players per side.
PlayerRecordByFormat(p) ==
    [f \in {match[m].perSide : m \in Judged(p)} |->
        Record(p, {m \in Judged(p) : match[m].perSide = f})]

\* Who else was in a match, on her side of it or across it.
Mates(p, m) == (UNION {OnSide(lineup[m], t) : t \in SidesTaken(p, m)}) \ {p}
Opponents(p, m) == UNION {OnSide(lineup[m], t) : t \in Teams \ SidesTaken(p, m)}

\* with gives the players a match counts her with.
PairRecords(p, with) ==
    [q \in UNION {with[m] : m \in Judged(p)} |->
        LET together == {m \in Judged(p) : q \in with[m]}
        IN  [matches |-> Cardinality(together), record |-> Record(p, together)]]

PlayerRecordByTeammate(p) == PairRecords(p, [m \in Judged(p) |-> Mates(p, m)])

\* Bug: the join across the match does not compare the sides.
PlayerRecordByOpponent_Anybody(p) ==
    PairRecords(p, [m \in Judged(p) |-> {e.player : e \in lineup[m]}])

PlayerRecordByOpponent(p) == PairRecords(p, [m \in Judged(p) |-> Opponents(p, m)])

\* Bug: a match closed out with one hole left is in neither bucket.
PlayerRecordByCloseness_Gap(p) ==
    LET over(matches) == {m \in matches : result[m].finished}
    IN  [lastHole |-> Record(p, {m \in over(Judged(p)) : result[m].holesRemaining = 0}),
         early    |-> Record(p, {m \in over(Judged(p)) : result[m].holesRemaining > 1})]

PlayerRecordByCloseness(p) ==
    LET over(matches) == {m \in matches : result[m].finished}
    IN  [lastHole |-> Record(p, {m \in over(Judged(p)) : result[m].holesRemaining = 0}),
         early    |-> Record(p, {m \in over(Judged(p)) : result[m].holesRemaining > 0})]

\* ORDER BY lead DESC, holes_remaining DESC: "9 & 8 is a bigger beating than 9 & 7".
Margin(m) == [lead |-> result[m].lead, holesRemaining |-> result[m].holesRemaining]

Heavier(x, y) ==
    \/ x.lead > y.lead
    \/ x.lead = y.lead /\ x.holesRemaining >= y.holesRemaining

Heaviest(margins) == {x \in margins : \A y \in margins : Heavier(x, y)}

\* Bug: the defeats keep the ascending order, and the LIMIT takes the lightest.
PlayerMarginExtremes_Ascending(p) ==
    LET losses == {Margin(m) : m \in Ended(p, Judged(p), "lost")}
    IN  [bestWin |-> Heaviest({Margin(m) : m \in Ended(p, Judged(p), "won")}),
         heaviestLoss |-> {x \in losses : \A y \in losses : Heavier(y, x)}]

\* At most one of each: the empty set when she has never won, or never lost.
PlayerMarginExtremes(p) ==
    [bestWin |-> Heaviest({Margin(m) : m \in Ended(p, Judged(p), "won")}),
     heaviestLoss |-> Heaviest({Margin(m) : m \in Ended(p, Judged(p), "lost")})]

\* PlayerStats: the career's points, summed from the format split.
CareerPoints(p) ==
    LET split == PlayerRecordByFormat(p)
    IN  MapThenSumSet(LAMBDA f : PointsFor(split[f].wins, split[f].ties), DOMAIN split)

-----------------------------------------------------------------------------
Total(records) ==
    [wins |-> MapThenSumSet(LAMBDA i : records[i].wins, DOMAIN records),
     losses |-> MapThenSumSet(LAMBDA i : records[i].losses, DOMAIN records),
     ties |-> MapThenSumSet(LAMBDA i : records[i].ties, DOMAIN records)]

(***************************************************************************)
(* The page agrees with itself: the splits by format and by closeness each *)
(* add up to the career record the player list shows, the points are the   *)
(* ones her cups gave her, and a halved match is always one that went to   *)
(* the last hole, "the only bucket a halved match can land in"             *)
(* (PlayerRecordByCloseness).  A match over that fits no bucket, or fits   *)
(* two, breaks it.                                                         *)
(***************************************************************************)
SplitsAddUp ==
    \A p \in Players :
        LET closeness == PlayerRecordByCloseness(p)
        IN  /\ Total(PlayerRecordByFormat(p)) = PlayerRecord(p)
            /\ Total(closeness) = PlayerRecord(p)
            /\ closeness.early.ties = 0
            /\ CareerPoints(p) = PlayerPoints(p)

(***************************************************************************)
(* Two players' pages agree about each other: partners share one record of *)
(* their matches together, and one player's wins over an opponent are the  *)
(* opponent's losses to her (PlayerRecordByTeammate,                       *)
(* PlayerRecordByOpponent).                                                *)
(***************************************************************************)
Mirrored(r) == [wins |-> r.losses, losses |-> r.wins, ties |-> r.ties]

PairsMirror ==
    \A p, q \in Players :
        LET mates(x) == PlayerRecordByTeammate(x)
            faced(x) == PlayerRecordByOpponent(x)
        IN  /\ q \in DOMAIN mates(p) =>
                  p \in DOMAIN mates(q) /\ mates(q)[p] = mates(p)[q]
            /\ q \in DOMAIN faced(p) =>
                  /\ p \in DOMAIN faced(q)
                  /\ faced(q)[p].matches = faced(p)[q].matches
                  /\ faced(q)[p].record = Mirrored(faced(p)[q].record)

(***************************************************************************)
(* The heaviest defeat on anybody's page is no lighter than a win an       *)
(* opponent shows, and the other way about: the best win of all is the     *)
(* heaviest defeat of all (PlayerMarginExtremes).                          *)
(***************************************************************************)
MarginsMirror ==
    \A p \in Players :
        LET page == PlayerMarginExtremes(p)
        IN  /\ \A won \in page.bestWin :
                  \E q \in DOMAIN PlayerRecordByOpponent(p) :
                      \E lost \in PlayerMarginExtremes(q).heaviestLoss : Heavier(lost, won)
            /\ \A lost \in page.heaviestLoss :
                  \E q \in DOMAIN PlayerRecordByOpponent(p) :
                      \E won \in PlayerMarginExtremes(q).bestWin : Heavier(won, lost)
=============================================================================
