----------------------------- MODULE MatchData -----------------------------
(***************************************************************************)
(* The rows the match endpoints read and write, and the pure rules they    *)
(* apply to them: the tables matches, match_participants, scores and       *)
(* match_results of migrations/001_init.up.sql with the constraints of 003 *)
(* to 005, and the domain rules of internal/golf/match.go.                 *)
(***************************************************************************)
EXTENDS MatchPlay

CONSTANTS
    Matches,        \* match ids ever created; a uuid is never used twice
    TeeSets,        \* configured (course, tee colour) pairs, each with its holes
    Players,
    Draft,          \* team_members: the side each player is drafted onto, if any
    PlayersPerSide, \* players_per_side of the match formats
    MaxTeeTime,     \* bound on tee times
    OpensBefore, ClosesAfter,   \* the scoring window: 2 and 12 hours
    Submissions,    \* the score sets clients send for a hole
    Lineups,        \* the lineups clients send
    Keep,           \* a nil field of an update: leave the column alone
    Unborn, Deleted,            \* a match not created yet, or gone
    NoResult                    \* no row in match_results

ASSUME MatchDataAssumption ==
    /\ Draft \in [Players -> Teams \cup {NoTeam}]
    /\ Players \cap Teams = {}
    /\ IsFiniteSet(Players)
    /\ PlayersPerSide \subseteq Nat \ {0}
    /\ {MaxTeeTime, OpensBefore, ClosesAfter} \subseteq Nat
    /\ NoResult \notin Results

Times == 0..MaxTeeTime
Competitors == Teams \cup Players

MatchRows == [tee : TeeSets, teeTime : Times, perSide : PlayersPerSide]

\* UpdateMatchRequest.Validate: at least one field.
Updates == {u \in [tee : TeeSets \cup {Keep}, teeTime : Times \cup {Keep}] :
               u.tee # Keep \/ u.teeTime # Keep}

ASSUME KeepAssumption == Keep \notin TeeSets \cup Times

ASSUME AbsentMatchAssumption == Unborn # Deleted /\ {Unborn, Deleted} \cap MatchRows = {}

Participants == [player : Players, team : Teams]

\* One competitor's strokes in a request.  A nil player is a team's own score.
ScoreEntries == {e \in [who : Competitors, team : Teams, strokes : Nat \ {0}] :
                    e.who \in Teams => e.team = e.who}

ScoreRows == [hole : Holes, who : Competitors, team : Teams,
              tee : TeeSets, strokes : Nat \ {0}]

\* ScoreSubmission.Validate: at least one score, and one a competitor.
ValidSubmission(entries) ==
    /\ entries # {}
    /\ entries \subseteq ScoreEntries
    /\ \A d, e \in entries : d.who = e.who => d = e

\* SetLineupRequest.Validate: somebody, and nobody twice.
ValidLineup(entries) ==
    /\ entries # {}
    /\ entries \subseteq Participants
    /\ \A p, q \in entries : p.player = q.player => p = q

ASSUME RequestsAssumption ==
    /\ \A entries \in Submissions : ValidSubmission(entries)
    /\ \A entries \in Lineups : ValidLineup(entries)

(* ------------------------------ the match ------------------------------ *)

\* scoringOpen: within the window around the tee time, both ends included.
ScoringOpen(now, teeTime) ==
    now >= teeTime - OpensBefore /\ now <= teeTime + ClosesAfter

\* ChangesSetup: the update names another tee set than the match's.
ChangesSetup(update, row) == update.tee \notin {Keep, row.tee}

\* Bug: a field the request leaves out is written all the same.
Updated_NoCoalesce(row, update) ==
    [row EXCEPT !.tee = update.tee, !.teeTime = update.teeTime]

\* The UPDATE's COALESCE of every column.
Updated(row, update) ==
    [row EXCEPT !.tee = IF update.tee = Keep THEN @ ELSE update.tee,
                !.teeTime = IF update.teeTime = Keep THEN @ ELSE update.teeTime]

(* ------------------------------ the lineup ----------------------------- *)

SidesOf(lineup) == {p.team : p \in lineup}

OnSide(lineup, t) == {p.player : p \in {q \in lineup : q.team = t}}

\* LineupFits: two sides, each holding exactly what the format takes.
LineupFits(lineup, perSide) ==
    /\ Cardinality(SidesOf(lineup)) = 2
    /\ \A t \in SidesOf(lineup) : Cardinality(OnSide(lineup, t)) = perSide

\* fk__match_participants__team_id_player_id__team_members.
AllDrafted(lineup) == \A p \in lineup : Draft[p.player] = p.team

\* matchTeams: the participants make two sides.
TwoSides(lineup) == Cardinality(SidesOf(lineup)) = 2

(* ------------------------------ the scores ----------------------------- *)

\* A row and an entry meet in one of the two partial unique indexes.
SameKey(r, hole, e) == r.hole = hole /\ r.who = e.who

Corrects(rows, hole, e) == \E r \in rows : SameKey(r, hole, e)

\* The row an entry leaves.  A conflict updates the strokes alone, so a row keeps
\* the team and the tee set it was first written with.
WrittenRow(rows, hole, e, tee) ==
    IF Corrects(rows, hole, e)
    THEN [(CHOOSE r \in rows : SameKey(r, hole, e)) EXCEPT !.strokes = e.strokes]
    ELSE [hole |-> hole, who |-> e.who, team |-> e.team, tee |-> tee,
          strokes |-> e.strokes]

\* upsertScore for every entry of a hole.
UpsertScores(rows, hole, entries, tee) ==
    {r \in rows : \A e \in entries : ~SameKey(r, hole, e)}
      \cup {WrittenRow(rows, hole, e, tee) : e \in entries}

\* Bug: no composite keys on scores, or rows checked against a stale match.
ScoreKeysHold_Unchecked(rows, hole, entries, tee, row, lineup) == TRUE

\* The foreign keys of an inserted row: its tee set is the match's, and its
\* player is in the match.  A corrected row is not checked again.
ScoreKeysHold(rows, hole, entries, tee, row, lineup) ==
    \A e \in entries :
        \/ Corrects(rows, hole, e)
        \/ /\ tee = row.tee
           /\ e.who \in Players => e.who \in {p.player : p \in lineup}

\* Bug: a finished match takes any hole.
GuardAllows_Always(rows, hole) == TRUE

\* The guard SubmitHoleScores hands to the repository: a finished match takes
\* corrections of the holes it holds and no new hole.
GuardAllows(rows, hole) ==
    ComputeStoredResult(rows).finished => HoleIsScored(rows, hole)

\* What match_results must say of a match with these scores.
ResultOf(rows) == IF rows = {} THEN NoResult ELSE ComputeStoredResult(rows)
=============================================================================
