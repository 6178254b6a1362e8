----------------------------- MODULE MatchBook -----------------------------
(***************************************************************************)
(* What the match endpoints promise: every write to a match is one atomic  *)
(* step on the committed tables, taken on what they hold at that moment.   *)
(* A scored match keeps its setup and lineup and cannot be deleted, a      *)
(* finished one takes no new hole, and match_results is always the outcome *)
(* of the scores.  MatchWrites shows the handlers, which read and decide   *)
(* and write in several steps, implement this.                             *)
(***************************************************************************)
EXTENDS MatchData

VARIABLES
    match,          \* matches: a row, Unborn or Deleted
    lineup,         \* match_participants
    scores,         \* scores
    result          \* match_results

tables == <<match, lineup, scores, result>>

Live(m) == match[m] \notin {Unborn, Deleted}

Init ==
    /\ match = [m \in Matches |-> Unborn]
    /\ lineup = [m \in Matches |-> {}]
    /\ scores = [m \in Matches |-> {}]
    /\ result = [m \in Matches |-> NoResult]

Create(m, row) ==
    /\ match[m] = Unborn
    /\ match' = [match EXCEPT ![m] = row]
    /\ UNCHANGED <<lineup, scores, result>>

\* The setup moves only while nothing is scored; the tee time always may.
Update(m, u) ==
    /\ Live(m)
    /\ ChangesSetup(u, match[m]) => scores[m] = {}
    /\ match' = [match EXCEPT ![m] = Updated(@, u)]
    /\ UNCHANGED <<lineup, scores, result>>

Delete(m) ==
    /\ Live(m)
    /\ scores[m] = {}
    /\ match' = [match EXCEPT ![m] = Deleted]
    /\ lineup' = [lineup EXCEPT ![m] = {}]
    /\ UNCHANGED <<scores, result>>

SetLineup(m, entries) ==
    /\ Live(m)
    /\ scores[m] = {}
    /\ LineupFits(entries, match[m].perSide)
    /\ AllDrafted(entries)
    /\ lineup' = [lineup EXCEPT ![m] = entries]
    /\ UNCHANGED <<match, scores, result>>

\* Bug: the result is recomputed from the scores read before the upserts.
RecordHole_Stale(m, hole, entries) ==
    /\ Live(m)
    /\ LineupFits(lineup[m], match[m].perSide)
    /\ GuardAllows(scores[m], hole)
    /\ scores' = [scores EXCEPT ![m] = UpsertScores(@, hole, entries, match[m].tee)]
    /\ result' = [result EXCEPT ![m] = ComputeStoredResult(scores[m])]
    /\ UNCHANGED <<match, lineup>>

\* Bug: a match is scored before its lineup is set.
RecordHole_AnyLineup(m, hole, entries) ==
    /\ Live(m)
    /\ GuardAllows(scores[m], hole)
    /\ LET after == UpsertScores(scores[m], hole, entries, match[m].tee)
       IN  /\ scores' = [scores EXCEPT ![m] = after]
           /\ result' = [result EXCEPT ![m] = ComputeStoredResult(after)]
    /\ UNCHANGED <<match, lineup>>

RecordHole(m, hole, entries) ==
    /\ Live(m)
    /\ LineupFits(lineup[m], match[m].perSide)
    /\ GuardAllows(scores[m], hole)
    /\ LET after == UpsertScores(scores[m], hole, entries, match[m].tee)
       IN  /\ scores' = [scores EXCEPT ![m] = after]
           /\ result' = [result EXCEPT ![m] = ComputeStoredResult(after)]
    /\ UNCHANGED <<match, lineup>>

\* Bug: the result row is zeroed rather than deleted.
Reset_Zeroed(m) ==
    /\ Live(m)
    /\ scores' = [scores EXCEPT ![m] = {}]
    /\ result' = [result EXCEPT ![m] = UnplayedResult]
    /\ UNCHANGED <<match, lineup>>

Reset(m) ==
    /\ Live(m)
    /\ scores' = [scores EXCEPT ![m] = {}]
    /\ result' = [result EXCEPT ![m] = NoResult]
    /\ UNCHANGED <<match, lineup>>

Next ==
    \E m \in Matches :
        \/ \E row \in MatchRows : Create(m, row)
        \/ \E u \in Updates : Update(m, u)
        \/ Delete(m)
        \/ \E entries \in Lineups : SetLineup(m, entries)
        \/ \E hole \in Holes, entries \in Submissions : RecordHole(m, hole, entries)
        \/ Reset(m)

Spec == Init /\ [][Next]_tables
=============================================================================
