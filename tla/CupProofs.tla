----------------------------- MODULE CupProofs -----------------------------
(***************************************************************************)
(* What the program publishes of a cup and of its players' careers, for    *)
(* any matches, holes, players and lineups.  Every page is an aggregate of *)
(* its own over the stored outcomes; they agree because those outcomes are *)
(* the score cards' (OutcomesAre) and because a lineup fits its match and  *)
(* the draft for as long as it is there (BookInv).                         *)
(***************************************************************************)
EXTENDS Careers, MatchPlayProofs

-----------------------------------------------------------------------------
(* The inductive invariant of the book. *)

LiveMatches == {m \in Matches : Live(m)}

BookType ==
    /\ match \in [Matches -> MatchRows \cup {Unborn, Deleted}]
    /\ lineup \in [Matches -> SUBSET Participants]
    /\ scores \in [Matches -> SUBSET ScoreRows]
    /\ result = [m \in Matches |-> ResultOf(scores[m])]
    /\ IsFiniteSet(LiveMatches)

\* A match's lineup is none, or a whole and drafted one of a match that is there.
LineupStands ==
    \A m \in Matches : lineup[m] # {} =>
        /\ Live(m)
        /\ lineup[m] \in Lineups
        /\ LineupFits(lineup[m], match[m].perSide)
        /\ AllDrafted(lineup[m])

ScoresNeedLineup == \A m \in Matches : scores[m] # {} => lineup[m] # {}

BookInv == BookType /\ LineupStands /\ ScoresNeedLineup

LEMMA BookUpsert ==
    ASSUME NEW rows \in SUBSET ScoreRows, NEW hole \in Holes,
           NEW entries \in Submissions, NEW tee \in TeeSets
    PROVE  /\ UpsertScores(rows, hole, entries, tee) \in SUBSET ScoreRows
           /\ UpsertScores(rows, hole, entries, tee) # {}
<1>1. entries # {} /\ entries \in SUBSET ScoreEntries
  BY RequestsAssumption DEF ValidSubmission
<1>2. ASSUME NEW e \in entries
      PROVE  WrittenRow(rows, hole, e, tee) \in ScoreRows
  <2>1. e \in [who : Competitors, team : Teams, strokes : Nat \ {0}]
    BY <1>1 DEF ScoreEntries
  <2>2. CASE Corrects(rows, hole, e)
    <3> DEFINE old == CHOOSE r \in rows : SameKey(r, hole, e)
    <3>1. old \in ScoreRows
      BY <2>2 DEF Corrects
    <3>2. WrittenRow(rows, hole, e, tee) = [old EXCEPT !.strokes = e.strokes]
      BY <2>2 DEF WrittenRow
    <3> HIDE DEF old
    <3> QED
      BY <2>1, <3>1, <3>2 DEF ScoreRows
  <2>3. CASE ~Corrects(rows, hole, e)
    BY <2>1, <2>3 DEF WrittenRow, ScoreRows
  <2> QED
    BY <2>2, <2>3
<1> QED
  BY <1>1, <1>2 DEF UpsertScores

LEMMA BookUpdated ==
    ASSUME NEW row \in MatchRows, NEW u \in Updates
    PROVE  Updated(row, u) \in MatchRows /\ Updated(row, u).perSide = row.perSide
  BY DEF Updated, Updates, MatchRows

LEMMA InitBook == Init => BookInv
<1> SUFFICES ASSUME Init PROVE BookInv
  OBVIOUS
<1>1. LiveMatches = {}
  BY DEF Init, LiveMatches, Live
<1> QED
  BY <1>1, FS_EmptySet DEF Init, BookInv, BookType, LineupStands, ScoresNeedLineup, ResultOf

LEMMA NextBook == BookInv /\ [Next]_tables => BookInv'
<1> SUFFICES ASSUME BookInv, [Next]_tables PROVE BookInv'
  OBVIOUS
<1> USE DEF BookInv
<1>1. CASE UNCHANGED tables
  BY <1>1 DEF tables, BookType, LineupStands, ScoresNeedLineup, LiveMatches, Live
<1>2. ASSUME NEW m \in Matches, NEW row \in MatchRows, Create(m, row) PROVE BookInv'
  <2>1. LiveMatches' = LiveMatches \cup {m}
    BY <1>2, AbsentMatchAssumption DEF Create, LiveMatches, Live, BookType
  <2>2. IsFiniteSet(LiveMatches')
    BY <2>1, FS_AddElement DEF BookType
  <2>3. BookType'
    BY <1>2, <2>2 DEF Create, BookType
  <2>4. LineupStands' /\ ScoresNeedLineup'
    BY <1>2 DEF Create, LineupStands, ScoresNeedLineup, Live, BookType
  <2> QED
    BY <2>3, <2>4
<1>3. ASSUME NEW m \in Matches, NEW u \in Updates, Update(m, u) PROVE BookInv'
  <2>1. match[m] \in MatchRows
    BY <1>3 DEF Update, Live, BookType
  <2>2. /\ match'[m] \in MatchRows /\ match'[m].perSide = match[m].perSide
        /\ \A k \in Matches \ {m} : match'[k] = match[k]
        /\ match' \in [Matches -> MatchRows \cup {Unborn, Deleted}]
    BY <1>3, <2>1, BookUpdated DEF Update, BookType
  <2>3. \A k \in Matches : Live(k)' <=> Live(k)
    BY <2>1, <2>2, AbsentMatchAssumption DEF Live
  <2>4. LiveMatches' = LiveMatches
    BY <2>3 DEF LiveMatches
  <2>5. BookType'
    BY <1>3, <2>2, <2>4 DEF Update, BookType
  <2>6. LineupStands' /\ ScoresNeedLineup'
    BY <1>3, <2>2, <2>3 DEF Update, LineupStands, ScoresNeedLineup
  <2> QED
    BY <2>5, <2>6
<1>4. ASSUME NEW m \in Matches, Delete(m) PROVE BookInv'
  <2>1. LiveMatches' \in SUBSET LiveMatches
    BY <1>4 DEF Delete, LiveMatches, Live, BookType
  <2>2. IsFiniteSet(LiveMatches')
    BY <2>1, FS_Subset DEF BookType
  <2>3. BookType'
    BY <1>4, <2>2 DEF Delete, BookType
  <2>4. LineupStands' /\ ScoresNeedLineup'
    BY <1>4 DEF Delete, LineupStands, ScoresNeedLineup, Live, BookType
  <2> QED
    BY <2>3, <2>4
<1>5. ASSUME NEW m \in Matches, NEW entries \in Lineups, SetLineup(m, entries) PROVE BookInv'
  <2>1. entries \in SUBSET Participants /\ entries # {}
    BY RequestsAssumption DEF ValidLineup
  <2>2. BookType'
    BY <1>5, <2>1 DEF SetLineup, BookType, LiveMatches, Live
  <2>3. LineupStands' /\ ScoresNeedLineup'
    BY <1>5, <2>1 DEF SetLineup, LineupStands, ScoresNeedLineup, Live, BookType
  <2> QED
    BY <2>2, <2>3
<1>6. ASSUME NEW m \in Matches, NEW hole \in Holes, NEW entries \in Submissions,
             RecordHole(m, hole, entries)
      PROVE  BookInv'
  <2> DEFINE after == UpsertScores(scores[m], hole, entries, match[m].tee)
  <2>1. match[m].tee \in TeeSets
    BY <1>6 DEF RecordHole, Live, BookType, MatchRows
  <2>2. after \in SUBSET ScoreRows /\ after # {}
    BY <2>1, BookUpsert DEF BookType
  <2>3. /\ scores' = [scores EXCEPT ![m] = after]
        /\ result' = [result EXCEPT ![m] = ComputeStoredResult(after)]
        /\ UNCHANGED <<match, lineup>>
    BY <1>6 DEF RecordHole
  <2>4. lineup[m] # {}
    <3>1. Cardinality(SidesOf(lineup[m])) = 2
      BY <1>6 DEF RecordHole, LineupFits
    <3>2. lineup[m] = {} => SidesOf(lineup[m]) = {}
      BY DEF SidesOf
    <3> QED
      BY <3>1, <3>2, FS_EmptySet
  <2> HIDE DEF after
  <2>5. BookType'
    BY <2>2, <2>3 DEF BookType, ResultOf, LiveMatches, Live
  <2>6. LineupStands' /\ ScoresNeedLineup'
    BY <2>3, <2>4 DEF LineupStands, ScoresNeedLineup, Live, BookType
  <2> QED
    BY <2>5, <2>6
<1>7. ASSUME NEW m \in Matches, Reset(m) PROVE BookInv'
  <2>1. BookType'
    BY <1>7 DEF Reset, BookType, ResultOf, LiveMatches, Live
  <2>2. LineupStands' /\ ScoresNeedLineup'
    BY <1>7 DEF Reset, LineupStands, ScoresNeedLineup, Live, BookType
  <2> QED
    BY <2>1, <2>2
<1> QED
  BY <1>1, <1>2, <1>3, <1>4, <1>5, <1>6, <1>7 DEF Next

LEMMA BookInvariant == Spec => []BookInv
  BY InitBook, NextBook, PTL DEF Spec

-----------------------------------------------------------------------------
(* The outcomes the aggregates read are the score cards'. *)

CardOf(m) == ComputeStoredResult(scores[m])

LEMMA CardType ==
    ASSUME BookInv, NEW m \in Matches
    PROVE  /\ CardOf(m) \in Results
           /\ scores[m] = {} => CardOf(m) = UnplayedResult
           /\ result[m] = NoResult <=> scores[m] = {}
           /\ result[m] # NoResult => result[m] = CardOf(m)
<1>1. OnTheCard(scores[m])
  BY DEF BookInv, BookType, ScoreRows, OnTheCard
<1>2. CardOf(m) \in Results
  BY <1>1, StoredResultType DEF CardOf
<1>3. scores[m] = {} => CardOf(m) = UnplayedResult
  <2>1. HolesInPlay({}) = {}
    BY DEF HolesInPlay, HolesScoredBy
  <2> QED
    BY <2>1, NothingInPlay DEF CardOf
<1> QED
  BY <1>2, <1>3, MatchDataAssumption DEF BookInv, BookType, ResultOf, CardOf

LEMMA OutcomeIs ==
    ASSUME NEW r
    PROVE  /\ Outcome(r, NoResult).started <=> r # NoResult
           /\ Outcome(r, NoResult).finished = (r # NoResult /\ r.finished)
           /\ Outcome(r, NoResult).winner = IF r = NoResult THEN NoTeam ELSE r.leader
<1>1. Outcome(r, NoResult).started = (r # NoResult)
  BY DEF Outcome
<1>2. Outcome(r, NoResult).finished = (r # NoResult /\ r.finished)
  BY DEF Outcome
<1>3. Outcome(r, NoResult).winner = IF r = NoResult THEN NoTeam ELSE r.leader
  BY DEF Outcome
<1> QED
  BY <1>1, <1>2, <1>3, Zenon

LEMMA OutcomesAre ==
    ASSUME BookInv
    PROVE  /\ DOMAIN Outcomes = LiveMatches
           /\ \A m \in LiveMatches :
                 /\ Outcomes[m].started <=> scores[m] # {}
                 /\ Outcomes[m].finished = Over(m) /\ Over(m) = CardOf(m).finished
                 /\ Over(m) \in BOOLEAN
                 /\ Outcomes[m].winner = CardOf(m).leader
                 /\ CardOf(m).leader \in Teams \cup {NoTeam}
                 /\ Over(m) => scores[m] # {}
<1>1. Outcomes = [m \in LiveMatches |-> Outcome(result[m], NoResult)]
  BY DEF Outcomes, LiveMatches
<1>2. ASSUME NEW m \in LiveMatches
      PROVE  /\ Outcomes[m].started <=> scores[m] # {}
             /\ Outcomes[m].finished = Over(m) /\ Over(m) = CardOf(m).finished
             /\ Over(m) \in BOOLEAN
             /\ Outcomes[m].winner = CardOf(m).leader
             /\ CardOf(m).leader \in Teams \cup {NoTeam}
             /\ Over(m) => scores[m] # {}
  <2>1. m \in Matches
    BY DEF LiveMatches
  <2>2. /\ CardOf(m).finished \in BOOLEAN /\ CardOf(m).leader \in Teams \cup {NoTeam}
        /\ scores[m] = {} => CardOf(m).finished = FALSE /\ CardOf(m).leader = NoTeam
        /\ Over(m) = CardOf(m).finished
    BY <2>1, CardType DEF Results, UnplayedResult, Over, CardOf
  <2>3. /\ result[m] = NoResult <=> scores[m] = {}
        /\ result[m] # NoResult => result[m] = CardOf(m)
    BY <2>1, CardType
  <2>4. /\ Outcomes[m].started <=> result[m] # NoResult
        /\ Outcomes[m].finished = (result[m] # NoResult /\ result[m].finished)
        /\ Outcomes[m].winner = IF result[m] = NoResult THEN NoTeam ELSE result[m].leader
    <3>1. Outcomes[m] = Outcome(result[m], NoResult)
      BY <1>1
    <3> QED
      BY <3>1, OutcomeIs
  <2>5. CASE result[m] = NoResult
    <3>1. ~Outcomes[m].started /\ Outcomes[m].winner = NoTeam
      BY <2>4, <2>5
    <3>2. Outcomes[m].finished = FALSE
      BY <2>4, <2>5, Zenon
    <3>3. scores[m] = {} /\ CardOf(m).finished = FALSE /\ CardOf(m).leader = NoTeam
      BY <2>2, <2>3, <2>5
    <3> QED
      BY <2>2, <3>1, <3>2, <3>3
  <2>6. CASE result[m] # NoResult
    <3>1. scores[m] # {} /\ result[m] = CardOf(m)
      BY <2>3, <2>6
    <3>2. Outcomes[m].finished = CardOf(m).finished
      <4>1. Outcomes[m].finished = (result[m] # NoResult /\ result[m].finished)
        BY <2>4
      <4>2. CardOf(m).finished \in BOOLEAN
        BY <2>2
      <4> QED
        BY <2>6, <3>1, <4>1, <4>2
    <3>3. Outcomes[m].started /\ Outcomes[m].winner = CardOf(m).leader
      BY <2>4, <2>6, <3>1
    <3> QED
      BY <2>2, <3>1, <3>2, <3>3
  <2> QED
    BY <2>5, <2>6
<1> QED
  BY <1>1, <1>2

-----------------------------------------------------------------------------
(* The standings. *)

LEMMA CompleteWhenOver ==
    ASSUME BookInv
    PROVE  /\ FinishedIn(Outcomes) = {m \in LiveMatches : Over(m)}
           /\ IsTournamentComplete(Outcomes) <=> LiveMatches # {} /\ \A m \in LiveMatches : Over(m)
<1>1. FinishedIn(Outcomes) = {m \in LiveMatches : Over(m)}
  BY OutcomesAre DEF FinishedIn
<1>2. DOMAIN Outcomes = LiveMatches
  BY OutcomesAre
<1> QED
  BY <1>1, <1>2 DEF IsTournamentComplete

LEMMA PhaseOfTheCards == BookInv => PhaseFollowsTheCards
<1> SUFFICES ASSUME BookInv PROVE PhaseFollowsTheCards
  OBVIOUS
<1> DEFINE complete == IsTournamentComplete(Outcomes)
           begun == \E m \in LiveMatches : scores[m] # {}
<1>1. complete <=> LiveMatches # {} /\ \A m \in LiveMatches : Over(m)
  BY CompleteWhenOver
<1>2. (\E m \in DOMAIN Outcomes : Outcomes[m].started) <=> begun
  BY OutcomesAre
<1>3. complete => begun
  BY <1>1, OutcomesAre
<1>4. ComputePhase(Outcomes) = IF complete THEN "finished" ELSE IF begun THEN "live" ELSE "upcoming"
  <2>1. CASE complete
    BY <2>1 DEF ComputePhase
  <2>2. CASE ~complete /\ begun
    BY <1>2, <2>2 DEF ComputePhase
  <2>3. CASE ~complete /\ ~begun
    BY <1>2, <2>3 DEF ComputePhase
  <2> QED
    BY <2>1, <2>2, <2>3
<1>5. LiveMatches = {m \in Matches : Live(m)}
  BY DEF LiveMatches
<1> HIDE DEF complete
<1> QED
  BY <1>1, <1>3, <1>4, <1>5 DEF PhaseFollowsTheCards

(***************************************************************************)
(* The phase every endpoint publishes is the score cards', whatever has    *)
(* been created, reset and deleted.                                        *)
(***************************************************************************)
THEOREM PhaseIsTheCards == Spec => []PhaseFollowsTheCards
  BY BookInvariant, PhaseOfTheCards, PTL

\* Who won the matches that are over, and the points they gave.
LEMMA PointsAre ==
    ASSUME BookInv
    PROVE  LET a == Cardinality(WonBy(TeamA))
               b == Cardinality(WonBy(TeamB))
               halved == {m \in LiveMatches : Over(m) /\ CardOf(m).leader = NoTeam}
               h == Cardinality(halved)
           IN  /\ a \in Nat /\ b \in Nat /\ h \in Nat
               /\ Cardinality({m \in LiveMatches : Over(m)}) = a + b + h
               /\ ComputeTeamPoints(Outcomes)[TeamA] = 2 * a + h
               /\ ComputeTeamPoints(Outcomes)[TeamB] = 2 * b + h
<1> DEFINE over == {m \in LiveMatches : Over(m)}
           halved == {m \in LiveMatches : Over(m) /\ CardOf(m).leader = NoTeam}
           A == WonBy(TeamA)
           B == WonBy(TeamB)
<1>1. \A t : WonBy(t) = {m \in LiveMatches : Over(m) /\ CardOf(m).leader = t}
  BY DEF WonBy, LiveMatches, Over, CardOf
<1>2. /\ A \in SUBSET over /\ B \in SUBSET over /\ halved \in SUBSET over
      /\ over = (A \cup B) \cup halved
      /\ A \cap B = {} /\ (A \cup B) \cap halved = {}
  BY <1>1, OutcomesAre, MatchPlayAssumption DEF Teams
<1>3. \A t \in Teams : ComputeTeamPoints(Outcomes)[t] = 2 * Cardinality(WonBy(t)) + Cardinality(halved)
  <2>1. FinishedIn(Outcomes) = over
    BY CompleteWhenOver
  <2>2. \A t : {m \in over : Outcomes[m].winner = t} = WonBy(t)
    BY <1>1, OutcomesAre
  <2>3. {m \in over : Outcomes[m].winner = NoTeam} = halved
    BY OutcomesAre
  <2> HIDE DEF over, halved
  <2> QED
    BY <2>1, <2>2, <2>3 DEF ComputeTeamPoints
<1>4. IsFiniteSet(over)
  <2>1. over \in SUBSET LiveMatches
    OBVIOUS
  <2> QED
    BY <2>1, FS_Subset DEF BookInv, BookType
<1> HIDE DEF over, halved, A, B
<1>5. IsFiniteSet(A) /\ IsFiniteSet(B) /\ IsFiniteSet(halved)
  BY <1>2, <1>4, FS_Subset
<1>6. Cardinality(A) \in Nat /\ Cardinality(B) \in Nat /\ Cardinality(halved) \in Nat
  BY <1>5, FS_CardinalityType
<1>7. IsFiniteSet(A \cup B) /\ Cardinality(A \cup B) = Cardinality(A) + Cardinality(B)
  <2>1. /\ IsFiniteSet(A \cup B)
        /\ Cardinality(A \cup B) = Cardinality(A) + Cardinality(B) - Cardinality(A \cap B)
    BY <1>5, FS_Union
  <2>2. Cardinality(A \cap B) = 0
    BY <1>2, FS_EmptySet
  <2> QED
    BY <1>6, <2>1, <2>2
<1>8. Cardinality(over) = Cardinality(A) + Cardinality(B) + Cardinality(halved)
  <2>1. Cardinality(over) = Cardinality(A \cup B) + Cardinality(halved)
                              - Cardinality((A \cup B) \cap halved)
    BY <1>2, <1>5, <1>7, FS_Union
  <2>2. Cardinality((A \cup B) \cap halved) = 0
    BY <1>2, FS_EmptySet
  <2> QED
    BY <1>6, <1>7, <2>1, <2>2
<1> QED
  BY <1>3, <1>6, <1>8 DEF Teams, A, B, over, halved

LEMMA PointsOfTheCards == BookInv => PointsAddUp
<1> SUFFICES ASSUME BookInv PROVE PointsAddUp
  OBVIOUS
<1>1. {m \in Matches : Live(m) /\ Over(m)} = {m \in LiveMatches : Over(m)}
  BY DEF LiveMatches
<1> DEFINE points == ComputeTeamPoints(Outcomes)
           over == {m \in LiveMatches : Over(m)}
<1>2. PICK a, b, h \in Nat : /\ points[TeamA] = 2 * a + h /\ points[TeamB] = 2 * b + h
                             /\ Cardinality(over) = a + b + h
  BY PointsAre
<1> HIDE DEF points, over
<1>3. points[TeamA] + points[TeamB] = 2 * Cardinality(over)
  BY <1>2
<1> QED
  BY <1>1, <1>3 DEF PointsAddUp, points, over

(***************************************************************************)
(* Two sides share one point a match: ComputeTeamPoints neither loses nor  *)
(* makes one, for any number of matches.                                   *)
(***************************************************************************)
THEOREM PointsAreShared == Spec => []PointsAddUp
  BY BookInvariant, PointsOfTheCards, PTL

-----------------------------------------------------------------------------
(* The cup. *)

\* The pass over the teams, in the order they are listed.
Field(points, seq) ==
    FoldLeft(LAMBDA best, t : Contend(points, best, t),
             [leader |-> NoTeam, points |-> 0, runnerUp |-> 0], seq)

\* Over two teams, unrolled: the fold is a function on the sets of places, and
\* there is one.
LEMMA TwoContend ==
    ASSUME NEW points, NEW seq, NEW t1, NEW t2, seq = <<t1, t2>>
    PROVE  LET base == [leader |-> NoTeam, points |-> 0, runnerUp |-> 0]
           IN  Field(points, seq) = Contend(points, Contend(points, base, t1), t2)
<1> DEFINE base == [leader |-> NoTeam, points |-> 0, runnerUp |-> 0]
           After(g) == [s \in SUBSET DOMAIN seq |->
                           IF s = {} THEN base
                           ELSE Contend(points, g[s \ {Max(s)}], seq[Max(s)])]
           it == CHOOSE g : g = After(g)
<1>1. Field(points, seq) = it[DOMAIN seq]
  BY DEF Field, FoldLeft, MapThenFoldSet
<1> HIDE DEF base
<1>2. DOMAIN seq = {1, 2} /\ seq[1] = t1 /\ seq[2] = t2
  OBVIOUS
<1>3. Max({1}) = 1 /\ Max({2}) = 2 /\ Max({1, 2}) = 2
  BY DEF Max
<1> DEFINE one == Contend(points, base, t1)
           f == [s \in SUBSET DOMAIN seq |->
                   IF s = {} THEN base
                   ELSE IF s = {1} THEN one
                   ELSE IF s = {2} THEN Contend(points, base, t2)
                   ELSE Contend(points, one, t2)]
<1>4. f = After(f)
  <2> SUFFICES ASSUME NEW s \in SUBSET DOMAIN seq PROVE f[s] = After(f)[s]
    OBVIOUS
  <2>1. s \in {{}, {1}, {2}, {1, 2}}
    BY <1>2
  <2>2. {1} \ {1} = {} /\ {2} \ {2} = {} /\ {1, 2} \ {2} = {1}
    OBVIOUS
  <2> QED
    BY <1>2, <1>3, <2>1, <2>2
<1> HIDE DEF f
<1>5. it = After(it)
  BY <1>4
<1> HIDE DEF it
<1>6. ASSUME NEW s \in SUBSET {1, 2}
      PROVE  it[s] = IF s = {} THEN base ELSE Contend(points, it[s \ {Max(s)}], seq[Max(s)])
  <2>1. After(it)[s] = IF s = {} THEN base ELSE Contend(points, it[s \ {Max(s)}], seq[Max(s)])
    BY <1>2
  <2> HIDE DEF After
  <2> QED
    BY <1>5, <2>1
<1> HIDE DEF After
<1>7. it[{}] = base
  BY <1>6
<1>8. it[{1}] = Contend(points, base, t1)
  <2>1. {1} \ {1} = {} /\ {1} \in SUBSET {1, 2} /\ {1} # {}
    OBVIOUS
  <2>2. it[{1}] = Contend(points, it[{1} \ {1}], seq[1])
    BY <1>3, <1>6, <2>1
  <2> QED
    BY <1>2, <1>7, <2>1, <2>2
<1>9. it[{1, 2}] = Contend(points, it[{1}], t2)
  <2>1. {1, 2} \ {2} = {1} /\ {1, 2} # {}
    OBVIOUS
  <2>2. it[{1, 2}] = Contend(points, it[{1, 2} \ {2}], seq[2])
    BY <1>3, <1>6, <2>1
  <2> QED
    BY <1>2, <2>1, <2>2
<1> QED
  BY <1>1, <1>2, <1>8, <1>9 DEF base

\* What the pass ends with, whichever team is listed first.
LEMMA FieldOfTwo ==
    ASSUME NEW points, NEW t1 \in Teams, NEW t2 \in Teams,
           points[t1] \in Nat, points[t2] \in Nat
    PROVE  LET base  == [leader |-> NoTeam, points |-> 0, runnerUp |-> 0]
               field == Contend(points, Contend(points, base, t1), t2)
           IN  (IF field.points = field.runnerUp THEN NoTeam ELSE field.leader)
                 = IF points[t1] = points[t2] THEN NoTeam
                   ELSE IF points[t1] > points[t2] THEN t1 ELSE t2
<1> DEFINE base == [leader |-> NoTeam, points |-> 0, runnerUp |-> 0]
           one == Contend(points, base, t1)
           field == Contend(points, one, t2)
<1>1. one = [leader |-> t1, points |-> points[t1], runnerUp |-> 0]
  BY DEF Contend
<1>2. one.leader # NoTeam
  BY <1>1, MatchPlayAssumption DEF Teams
<1>3. Max({0, points[t2]}) = points[t2]
  BY DEF Max
<1>4. field = IF points[t2] > points[t1]
              THEN [leader |-> t2, points |-> points[t2], runnerUp |-> points[t1]]
              ELSE [leader |-> t1, points |-> points[t1], runnerUp |-> points[t2]]
  BY <1>1, <1>2, <1>3 DEF Contend
<1> HIDE DEF field
<1>5. (IF field.points = field.runnerUp THEN NoTeam ELSE field.leader)
        = IF points[t1] = points[t2] THEN NoTeam
          ELSE IF points[t1] > points[t2] THEN t1 ELSE t2
  <2>1. CASE points[t2] > points[t1]
    <3>1. field.leader = t2 /\ field.points = points[t2] /\ field.runnerUp = points[t1]
      BY <1>4, <2>1
    <3> QED
      BY <2>1, <3>1
  <2>2. CASE ~(points[t2] > points[t1])
    <3>1. field.leader = t1 /\ field.points = points[t1] /\ field.runnerUp = points[t2]
      BY <1>4, <2>2
    <3> QED
      BY <2>2, <3>1
  <2> QED
    BY <2>1, <2>2
<1> QED
  BY <1>5 DEF field

LEMMA CupOfTheCards == BookInv => CupGoesToMoreWins
<1> SUFFICES ASSUME BookInv, NEW teamIDs \in Orders
             PROVE  LET over == LiveMatches # {} /\ \A m \in LiveMatches : Over(m)
                        lead == Cardinality(WonBy(TeamA)) - Cardinality(WonBy(TeamB))
                    IN  ComputeTournamentOutcome(Outcomes, teamIDs) =
                          [finished |-> over, winner |-> IF over THEN Leader(lead) ELSE NoTeam]
  BY DEF CupGoesToMoreWins, LiveMatches
<1> DEFINE over == LiveMatches # {} /\ \A m \in LiveMatches : Over(m)
           lead == Cardinality(WonBy(TeamA)) - Cardinality(WonBy(TeamB))
           points == ComputeTeamPoints(Outcomes)
           base == [leader |-> NoTeam, points |-> 0, runnerUp |-> 0]
           field == Field(points, teamIDs)
           winner == IF field.points = field.runnerUp THEN NoTeam ELSE field.leader
<1>1. IsTournamentComplete(Outcomes) <=> over
  BY CompleteWhenOver
<1>2. ComputeTournamentOutcome(Outcomes, teamIDs) =
        IF ~IsTournamentComplete(Outcomes) THEN [finished |-> FALSE, winner |-> NoTeam]
        ELSE [finished |-> TRUE, winner |-> winner]
  BY DEF ComputeTournamentOutcome, Field, FoldLeft, MapThenFoldSet
<1>3. PICK a, b, h \in Nat : /\ points[TeamA] = 2 * a + h /\ points[TeamB] = 2 * b + h
                             /\ lead = a - b
  BY PointsAre
<1>4. winner = Leader(lead)
  <2> HIDE DEF points, lead
  <2>1. points[TeamA] \in Nat /\ points[TeamB] \in Nat
    BY <1>3
  <2>2. CASE teamIDs = <<TeamA, TeamB>>
    <3>1. field = Contend(points, Contend(points, base, TeamA), TeamB)
      BY <2>2, TwoContend
    <3> HIDE DEF field
    <3>2. winner = IF points[TeamA] = points[TeamB] THEN NoTeam
                   ELSE IF points[TeamA] > points[TeamB] THEN TeamA ELSE TeamB
      BY <2>1, <3>1, FieldOfTwo DEF Teams
    <3> HIDE DEF winner
    <3> QED
      BY <1>3, <3>2 DEF Leader
  <2>3. CASE teamIDs = <<TeamB, TeamA>>
    <3>1. field = Contend(points, Contend(points, base, TeamB), TeamA)
      BY <2>3, TwoContend
    <3> HIDE DEF field
    <3>2. winner = IF points[TeamB] = points[TeamA] THEN NoTeam
                   ELSE IF points[TeamB] > points[TeamA] THEN TeamB ELSE TeamA
      BY <2>1, <3>1, FieldOfTwo DEF Teams
    <3> HIDE DEF winner
    <3> QED
      BY <1>3, <3>2 DEF Leader
  <2> QED
    BY <2>2, <2>3 DEF Orders
<1> HIDE DEF winner, lead
<1>5. ComputeTournamentOutcome(Outcomes, teamIDs) =
        [finished |-> over, winner |-> IF over THEN Leader(lead) ELSE NoTeam]
  <2>1. CASE over
    <3>1. ComputeTournamentOutcome(Outcomes, teamIDs)
            = [finished |-> TRUE, winner |-> Leader(lead)]
      BY <1>1, <1>2, <1>4, <2>1
    <3>2. over = TRUE
      BY <2>1
    <3> HIDE DEF over
    <3> QED
      BY <3>1, <3>2
  <2>2. CASE ~over
    <3>1. ComputeTournamentOutcome(Outcomes, teamIDs) = [finished |-> FALSE, winner |-> NoTeam]
      BY <1>1, <1>2, <2>2
    <3>2. over = FALSE
      BY <2>2
    <3> HIDE DEF over
    <3> QED
      BY <3>1, <3>2
  <2> QED
    BY <2>1, <2>2
<1> QED
  BY <1>5 DEF lead

(***************************************************************************)
(* The cup goes to the side with more matches won on the cards, once every *)
(* match is over, in whichever order the teams are listed.                 *)
(***************************************************************************)
THEOREM CupGoesToTheWinners == Spec => []CupGoesToMoreWins
  BY BookInvariant, CupOfTheCards, PTL

LEMMA VerdictsOfTheCards ==
    ASSUME CupGoesToMoreWins
    PROVE  VerdictsAgree
<1> SUFFICES ASSUME NEW o1 \in Orders, NEW o2 \in Orders, NEW p \in Players
             PROVE  p \in CupWinners(Outcomes, o1, Draft)
                      <=> TournamentResultFor(Outcomes, o2, Draft[p]) = "won"
  BY DEF VerdictsAgree
<1> DEFINE cup == ComputeTournamentOutcome(Outcomes, o2)
<1>1. ComputeTournamentOutcome(Outcomes, o1) = cup
  BY DEF CupGoesToMoreWins
<1>2. cup.winner # NoTeam => cup.finished
  <2>1. PICK over, lead : cup = [finished |-> over, winner |-> IF over THEN Leader(lead) ELSE NoTeam]
    BY DEF CupGoesToMoreWins
  <2> HIDE DEF cup
  <2> QED
    BY <2>1
<1>3. TournamentResultFor(Outcomes, o2, Draft[p]) = "won"
        <=> cup.finished /\ cup.winner # NoTeam /\ cup.winner = Draft[p]
  <2>1. CASE ~cup.finished
    BY <2>1 DEF TournamentResultFor
  <2>2. CASE cup.finished /\ cup.winner = NoTeam
    BY <2>2 DEF TournamentResultFor
  <2>3. CASE cup.finished /\ cup.winner # NoTeam /\ cup.winner = Draft[p]
    BY <2>3 DEF TournamentResultFor
  <2>4. CASE cup.finished /\ cup.winner # NoTeam /\ cup.winner # Draft[p]
    BY <2>4 DEF TournamentResultFor
  <2> QED
    BY <2>1, <2>2, <2>3, <2>4
<1>4. p \in CupWinners(Outcomes, o1, Draft) <=> cup.winner # NoTeam /\ Draft[p] = cup.winner
  BY <1>1, MatchDataAssumption DEF CupWinners
<1> HIDE DEF cup
<1> QED
  BY <1>2, <1>3, <1>4

(***************************************************************************)
(* The history page and the cups-won count agree about every player.       *)
(***************************************************************************)
THEOREM HistoryAgreesWithCupsWon == Spec => []VerdictsAgree
  BY CupGoesToTheWinners, VerdictsOfTheCards, PTL

-----------------------------------------------------------------------------
(* Who played in a match, and how it went for her. *)

InMatch(p, m) == \E e \in lineup[m] : e.player = p

\* A player takes one side of a match, the one she is drafted onto.
LEMMA Places ==
    ASSUME BookInv, NEW m \in Matches
    PROVE  \A p : /\ SidesTaken(p, m) = IF InMatch(p, m) THEN {Draft[p]} ELSE {}
                  /\ InMatch(p, m) => /\ p \in Players /\ Draft[p] \in Teams
                                     /\ m \in LiveMatches
                  /\ \A t : p \in OnSide(lineup[m], t) <=> InMatch(p, m) /\ Draft[p] = t
<1>1. ASSUME NEW e \in lineup[m]
      PROVE  e.player \in Players /\ e.team \in Teams /\ Draft[e.player] = e.team
  BY DEF BookInv, BookType, LineupStands, AllDrafted, Participants
<1>2. lineup[m] # {} => m \in LiveMatches
  BY DEF BookInv, LineupStands, LiveMatches
<1> SUFFICES ASSUME NEW p
             PROVE  /\ SidesTaken(p, m) = IF InMatch(p, m) THEN {Draft[p]} ELSE {}
                    /\ InMatch(p, m) => /\ p \in Players /\ Draft[p] \in Teams
                                       /\ m \in LiveMatches
                    /\ \A t : p \in OnSide(lineup[m], t) <=> InMatch(p, m) /\ Draft[p] = t
  OBVIOUS
<1>3. SidesTaken(p, m) = IF InMatch(p, m) THEN {Draft[p]} ELSE {}
  BY <1>1 DEF SidesTaken, InMatch
<1>4. \A t : p \in OnSide(lineup[m], t) <=> InMatch(p, m) /\ Draft[p] = t
  BY <1>1 DEF OnSide, InMatch
<1> QED
  BY <1>1, <1>2, <1>3, <1>4 DEF InMatch

\* Both sides of a match with a lineup are taken.
LEMMA BothSides ==
    ASSUME BookInv, NEW m \in Matches, lineup[m] # {}, NEW t \in Teams
    PROVE  \E q : InMatch(q, m) /\ Draft[q] = t
<1>1. SidesOf(lineup[m]) \in SUBSET Teams /\ Cardinality(SidesOf(lineup[m])) = 2
  BY DEF BookInv, BookType, LineupStands, LineupFits, SidesOf, Participants
<1>2. t \in SidesOf(lineup[m])
  <2> SUFFICES ASSUME t \notin SidesOf(lineup[m]) PROVE FALSE
    OBVIOUS
  <2>1. PICK u \in Teams : SidesOf(lineup[m]) \in SUBSET {u}
    BY <1>1 DEF Teams
  <2>2. IsFiniteSet({u}) /\ Cardinality({u}) = 1
    BY FS_Singleton
  <2>3. Cardinality(SidesOf(lineup[m])) <= 1
    BY <2>1, <2>2, FS_Subset
  <2> QED
    BY <1>1, <2>3
<1>3. PICK e \in lineup[m] : e.team = t
  BY <1>2 DEF SidesOf
<1> QED
  BY <1>3 DEF InMatch, BookInv, LineupStands, AllDrafted

LEMMA JudgedAre ==
    ASSUME BookInv
    PROVE  \A p : Judged(p) = {m \in LiveMatches : InMatch(p, m) /\ scores[m] # {}}
  BY Places, CardType DEF Judged, LiveMatches

\* Who else was in it, on her side and across it.
LEMMA Company ==
    ASSUME BookInv, NEW p, NEW m \in Judged(p)
    PROVE  \A q : /\ q \in Mates(p, m) <=> InMatch(q, m) /\ Draft[q] = Draft[p] /\ q # p
                  /\ q \in Opponents(p, m) <=> InMatch(q, m) /\ Draft[q] # Draft[p]
<1>1. m \in Matches /\ InMatch(p, m)
  BY JudgedAre DEF LiveMatches
<1>2. SidesTaken(p, m) = {Draft[p]}
  BY <1>1, Places
<1>3. \A q : q \in Mates(p, m) <=> q \in OnSide(lineup[m], Draft[p]) /\ q # p
  <2>1. Mates(p, m) = (UNION {OnSide(lineup[m], t) : t \in {Draft[p]}}) \ {p}
    BY <1>2 DEF Mates
  <2>2. UNION {OnSide(lineup[m], t) : t \in {Draft[p]}} = OnSide(lineup[m], Draft[p])
    OBVIOUS
  <2> QED
    BY <2>1, <2>2
<1>4. \A q : q \in Opponents(p, m) <=> \E t \in Teams : t # Draft[p] /\ q \in OnSide(lineup[m], t)
  <2>1. Opponents(p, m) = UNION {OnSide(lineup[m], t) : t \in Teams \ {Draft[p]}}
    BY <1>2 DEF Opponents
  <2> QED
    BY <2>1
<1>5. \A q, t : q \in OnSide(lineup[m], t) <=> InMatch(q, m) /\ Draft[q] = t
  BY <1>1, Places
<1>6. \A q : InMatch(q, m) => Draft[q] \in Teams
  BY <1>1, Places
<1> QED
  BY <1>3, <1>4, <1>5, <1>6

LEMMA VerdictIs ==
    ASSUME BookInv, NEW m \in LiveMatches, NEW t \in Teams
    PROVE  LET verdict == PlayerOutcome(Outcomes[m], t)
           IN  /\ verdict = "won" <=> Over(m) /\ CardOf(m).leader = t
               /\ verdict = "tied" <=> Over(m) /\ CardOf(m).leader = NoTeam
               /\ verdict = "lost" <=> Over(m) /\ CardOf(m).leader \in Teams \ {t}
<1>1. /\ Outcomes[m].finished = Over(m) /\ Outcomes[m].winner = CardOf(m).leader
      /\ CardOf(m).leader \in Teams \cup {NoTeam} /\ t # NoTeam /\ NoTeam \notin Teams
  BY OutcomesAre, MatchPlayAssumption DEF Teams
<1>2. CASE ~Over(m)
  BY <1>1, <1>2 DEF PlayerOutcome
<1>3. CASE Over(m) /\ CardOf(m).leader = t
  BY <1>1, <1>3 DEF PlayerOutcome
<1>4. CASE Over(m) /\ CardOf(m).leader = NoTeam
  BY <1>1, <1>4 DEF PlayerOutcome
<1>5. CASE Over(m) /\ CardOf(m).leader \in Teams \ {t}
  BY <1>1, <1>5 DEF PlayerOutcome
<1> QED
  BY <1>1, <1>2, <1>3, <1>4, <1>5

\* How some of her matches ended, by the side she is drafted onto.
LEMMA EndedAre ==
    ASSUME BookInv, NEW p, NEW S \in SUBSET Judged(p)
    PROVE  /\ Ended(p, S, "won") = {m \in S : Over(m) /\ CardOf(m).leader = Draft[p]}
           /\ Ended(p, S, "tied") = {m \in S : Over(m) /\ CardOf(m).leader = NoTeam}
           /\ Ended(p, S, "lost") = {m \in S : Over(m) /\ CardOf(m).leader \in Teams \ {Draft[p]}}
<1>1. \A m \in S : m \in LiveMatches /\ m \in Matches /\ InMatch(p, m)
  BY JudgedAre DEF LiveMatches
<1>2. \A m \in S : SidesTaken(p, m) = {Draft[p]} /\ Draft[p] \in Teams
  BY <1>1, Places
<1>3. \A v : Ended(p, S, v) = {m \in S : PlayerOutcome(Outcomes[m], Draft[p]) = v}
  BY <1>2 DEF Ended
<1> QED
  BY <1>1, <1>2, <1>3, VerdictIs

-----------------------------------------------------------------------------
(* Two players' pages. *)

LEMMA PairsOfTheCards == BookInv => PairsMirror
<1> SUFFICES ASSUME BookInv, NEW p \in Players, NEW q \in Players
             PROVE  LET mates(x) == PlayerRecordByTeammate(x)
                        faced(x) == PlayerRecordByOpponent(x)
                    IN  /\ q \in DOMAIN mates(p) =>
                              p \in DOMAIN mates(q) /\ mates(q)[p] = mates(p)[q]
                        /\ q \in DOMAIN faced(p) =>
                              /\ p \in DOMAIN faced(q)
                              /\ faced(q)[p].matches = faced(p)[q].matches
                              /\ faced(q)[p].record = Mirrored(faced(p)[q].record)
  BY DEF PairsMirror
<1> DEFINE Shared(x, y) == {m \in Judged(x) : y \in Mates(x, m)}
           Faced(x, y) == {m \in Judged(x) : y \in Opponents(x, m)}
<1>1. \A x, y : /\ y \in DOMAIN PlayerRecordByTeammate(x) <=> Shared(x, y) # {}
                /\ Shared(x, y) # {} =>
                      PlayerRecordByTeammate(x)[y]
                        = [matches |-> Cardinality(Shared(x, y)), record |-> Record(x, Shared(x, y))]
  BY DEF PlayerRecordByTeammate, PairRecords
<1>2. \A x, y : /\ y \in DOMAIN PlayerRecordByOpponent(x) <=> Faced(x, y) # {}
                /\ Faced(x, y) # {} =>
                      PlayerRecordByOpponent(x)[y]
                        = [matches |-> Cardinality(Faced(x, y)), record |-> Record(x, Faced(x, y))]
  BY DEF PlayerRecordByOpponent, PairRecords
<1>3. \A x, y : Shared(x, y) = {m \in LiveMatches : /\ InMatch(x, m) /\ InMatch(y, m)
                                                    /\ scores[m] # {} /\ x # y
                                                    /\ Draft[x] = Draft[y]}
  BY JudgedAre, Company
<1>4. \A x, y : Faced(x, y) = {m \in LiveMatches : /\ InMatch(x, m) /\ InMatch(y, m)
                                                   /\ scores[m] # {} /\ Draft[x] # Draft[y]}
  BY JudgedAre, Company
<1>5. \A x, y : Shared(x, y) \in SUBSET Judged(x) /\ Faced(x, y) \in SUBSET Judged(x)
  OBVIOUS
<1> HIDE DEF Shared, Faced
<1>6. ASSUME Shared(p, q) # {}
      PROVE  Shared(q, p) = Shared(p, q) /\ Record(q, Shared(q, p)) = Record(p, Shared(p, q))
  <2>1. Shared(q, p) = Shared(p, q) /\ Draft[p] = Draft[q]
    BY <1>3, <1>6
  <2>2. Shared(p, q) \in SUBSET Judged(p) /\ Shared(p, q) \in SUBSET Judged(q)
    BY <1>5, <2>1
  <2>3. /\ Ended(q, Shared(p, q), "won") = Ended(p, Shared(p, q), "won")
        /\ Ended(q, Shared(p, q), "lost") = Ended(p, Shared(p, q), "lost")
        /\ Ended(q, Shared(p, q), "tied") = Ended(p, Shared(p, q), "tied")
    <3> DEFINE S == Shared(p, q)
               t == Draft[p]
    <3>1. /\ Ended(p, S, "won") = {m \in S : Over(m) /\ CardOf(m).leader = t}
          /\ Ended(p, S, "tied") = {m \in S : Over(m) /\ CardOf(m).leader = NoTeam}
          /\ Ended(p, S, "lost") = {m \in S : Over(m) /\ CardOf(m).leader \in Teams \ {t}}
      BY <2>2, EndedAre
    <3>2. /\ Ended(q, S, "won") = {m \in S : Over(m) /\ CardOf(m).leader = Draft[q]}
          /\ Ended(q, S, "tied") = {m \in S : Over(m) /\ CardOf(m).leader = NoTeam}
          /\ Ended(q, S, "lost") = {m \in S : Over(m) /\ CardOf(m).leader \in Teams \ {Draft[q]}}
      BY <2>2, EndedAre
    <3>3. Draft[q] = t
      BY <2>1
    <3> HIDE DEF S, t
    <3> QED
      BY <3>1, <3>2, <3>3 DEF S
  <2> QED
    BY <2>1, <2>3 DEF Record
<1>7. ASSUME Faced(p, q) # {}
      PROVE  /\ Faced(q, p) = Faced(p, q)
             /\ Record(q, Faced(q, p)) = Mirrored(Record(p, Faced(p, q)))
  <2>1. /\ Faced(q, p) = Faced(p, q) /\ Draft[p] # Draft[q]
        /\ Draft[p] \in Teams /\ Draft[q] \in Teams
    BY <1>4, <1>7, Places DEF LiveMatches
  <2>2. Teams \ {Draft[p]} = {Draft[q]} /\ Teams \ {Draft[q]} = {Draft[p]}
    BY <2>1 DEF Teams
  <2>3. Faced(p, q) \in SUBSET Judged(p) /\ Faced(p, q) \in SUBSET Judged(q)
    BY <1>5, <2>1
  <2>4. /\ Ended(q, Faced(p, q), "won") = Ended(p, Faced(p, q), "lost")
        /\ Ended(q, Faced(p, q), "lost") = Ended(p, Faced(p, q), "won")
        /\ Ended(q, Faced(p, q), "tied") = Ended(p, Faced(p, q), "tied")
    <3>1. /\ \A x : x \in Teams \ {Draft[p]} <=> x = Draft[q]
          /\ \A x : x \in Teams \ {Draft[q]} <=> x = Draft[p]
      BY <2>2
    <3>2. /\ Ended(p, Faced(p, q), "won") = {m \in Faced(p, q) : Over(m) /\ CardOf(m).leader = Draft[p]}
          /\ Ended(p, Faced(p, q), "tied") = {m \in Faced(p, q) : Over(m) /\ CardOf(m).leader = NoTeam}
          /\ Ended(p, Faced(p, q), "lost") = {m \in Faced(p, q) : Over(m) /\ CardOf(m).leader = Draft[q]}
      BY <2>3, <3>1, EndedAre
    <3>3. /\ Ended(q, Faced(p, q), "won") = {m \in Faced(p, q) : Over(m) /\ CardOf(m).leader = Draft[q]}
          /\ Ended(q, Faced(p, q), "tied") = {m \in Faced(p, q) : Over(m) /\ CardOf(m).leader = NoTeam}
          /\ Ended(q, Faced(p, q), "lost") = {m \in Faced(p, q) : Over(m) /\ CardOf(m).leader = Draft[p]}
      BY <2>3, <3>1, EndedAre
    <3> QED
      BY <3>2, <3>3
  <2> QED
    BY <2>1, <2>4 DEF Record, Mirrored
<1>8. q \in DOMAIN PlayerRecordByTeammate(p) =>
          /\ p \in DOMAIN PlayerRecordByTeammate(q)
          /\ PlayerRecordByTeammate(q)[p] = PlayerRecordByTeammate(p)[q]
  BY <1>1, <1>6
<1>9. q \in DOMAIN PlayerRecordByOpponent(p) =>
          /\ p \in DOMAIN PlayerRecordByOpponent(q)
          /\ PlayerRecordByOpponent(q)[p].matches = PlayerRecordByOpponent(p)[q].matches
          /\ PlayerRecordByOpponent(q)[p].record = Mirrored(PlayerRecordByOpponent(p)[q].record)
  <2> SUFFICES ASSUME Faced(p, q) # {}
               PROVE  /\ p \in DOMAIN PlayerRecordByOpponent(q)
                      /\ PlayerRecordByOpponent(q)[p].matches = PlayerRecordByOpponent(p)[q].matches
                      /\ PlayerRecordByOpponent(q)[p].record = Mirrored(PlayerRecordByOpponent(p)[q].record)
    BY <1>2
  <2>1. /\ PlayerRecordByOpponent(p)[q]
              = [matches |-> Cardinality(Faced(p, q)), record |-> Record(p, Faced(p, q))]
        /\ PlayerRecordByOpponent(q)[p]
              = [matches |-> Cardinality(Faced(p, q)), record |-> Mirrored(Record(p, Faced(p, q)))]
        /\ p \in DOMAIN PlayerRecordByOpponent(q)
    BY <1>2, <1>7
  <2> QED
    BY <2>1
<1> QED
  BY <1>8, <1>9

(***************************************************************************)
(* Partners share one record of their matches together, and one player's   *)
(* wins over an opponent are the opponent's losses to her, on any number   *)
(* of pages.                                                               *)
(***************************************************************************)
THEOREM PagesMirror == Spec => []PairsMirror
  BY BookInvariant, PairsOfTheCards, PTL

\* Some margin is the heaviest.
LEMMA HeaviestExists ==
    ASSUME NEW S \in SUBSET [lead : 0..NumHoles, holesRemaining : 0..NumHoles], S # {}
    PROVE  Heaviest(S) # {}
<1> DEFINE leads == {x.lead : x \in S}
           top == {x \in S : x.lead = Max(leads)}
           left == {x.holesRemaining : x \in top}
<1>1. NumHoles \in Nat
  BY HolesAreFinite
<1>2. Max(leads) \in leads /\ \A n \in leads : n <= Max(leads)
  <2>1. leads \in SUBSET (0..NumHoles) /\ leads # {}
    OBVIOUS
  <2> HIDE DEF leads
  <2> QED
    BY <1>1, <2>1, GreatestExists
<1>3. Max(left) \in left /\ \A n \in left : n <= Max(left)
  <2>1. left \in SUBSET (0..NumHoles) /\ left # {}
    BY <1>2
  <2> HIDE DEF left
  <2> QED
    BY <1>1, <2>1, GreatestExists
<1>4. PICK x \in top : x.holesRemaining = Max(left)
  BY <1>3
<1>5. \A y \in S : y.lead <= x.lead /\ (y.lead = x.lead => y.holesRemaining <= x.holesRemaining)
  <2> SUFFICES ASSUME NEW y \in S
               PROVE  y.lead <= x.lead /\ (y.lead = x.lead => y.holesRemaining <= x.holesRemaining)
    OBVIOUS
  <2>1. y.lead \in leads /\ x.lead = Max(leads)
    BY <1>4
  <2>2. y.lead = x.lead => y.holesRemaining \in left
    BY <2>1
  <2> HIDE DEF leads, left
  <2> QED
    BY <1>2, <1>3, <1>4, <2>1, <2>2
<1>6. \A y \in S : Heavier(x, y)
  <2> SUFFICES ASSUME NEW y \in S PROVE Heavier(x, y)
    OBVIOUS
  <2>1. /\ x.lead \in Nat /\ y.lead \in Nat
        /\ x.holesRemaining \in Nat /\ y.holesRemaining \in Nat
    BY <1>1, <1>4
  <2> QED
    BY <1>5, <2>1 DEF Heavier
<1> QED
  BY <1>4, <1>6 DEF Heaviest

\* A win has somebody's defeat across it, and a defeat somebody's win.
LEMMA Across ==
    ASSUME BookInv, NEW p, NEW v \in {"won", "lost"}, NEW m \in Ended(p, Judged(p), v)
    PROVE  \E q \in DOMAIN PlayerRecordByOpponent(p) :
              m \in Ended(q, Judged(q), IF v = "won" THEN "lost" ELSE "won")
<1>1. /\ m \in Judged(p) /\ m \in Matches /\ m \in LiveMatches /\ lineup[m] # {}
      /\ InMatch(p, m) /\ scores[m] # {}
  BY JudgedAre DEF Ended, LiveMatches, InMatch
<1>2. Draft[p] \in Teams
  BY <1>1, Places
<1>3. PICK t \in Teams : Teams \ {Draft[p]} = {t} /\ Teams \ {t} = {Draft[p]} /\ t # Draft[p]
  BY <1>2, MatchPlayAssumption DEF Teams
<1>4. PICK q : InMatch(q, m) /\ Draft[q] = t
  BY <1>1, BothSides
<1>5. q \in Opponents(p, m) /\ m \in Judged(q)
  BY <1>1, <1>3, <1>4, Company, JudgedAre
<1>6. q \in DOMAIN PlayerRecordByOpponent(p)
  BY <1>1, <1>5 DEF PlayerRecordByOpponent, PairRecords
<1>7. m \in Ended(q, Judged(q), IF v = "won" THEN "lost" ELSE "won")
  <2>1. /\ v = "won" => Over(m) /\ CardOf(m).leader = Draft[p]
        /\ v = "lost" => Over(m) /\ CardOf(m).leader = t
    BY <1>3, EndedAre
  <2>2. CASE v = "won"
    BY <1>3, <1>4, <1>5, <2>1, <2>2, EndedAre
  <2>3. CASE v = "lost"
    BY <1>3, <1>4, <1>5, <2>1, <2>3, EndedAre
  <2> QED
    BY <2>2, <2>3
<1> QED
  BY <1>6, <1>7

MarginsOf(p, v) == {Margin(m) : m \in Ended(p, Judged(p), v)}

LEMMA MarginsType ==
    ASSUME BookInv, NEW p, NEW v
    PROVE  MarginsOf(p, v) \in SUBSET [lead : 0..NumHoles, holesRemaining : 0..NumHoles]
<1>1. ASSUME NEW m \in Judged(p)
      PROVE  Margin(m) \in [lead : 0..NumHoles, holesRemaining : 0..NumHoles]
  <2>1. m \in Matches /\ scores[m] # {}
    BY JudgedAre DEF LiveMatches
  <2>2. result[m] \in Results
    BY <2>1, CardType
  <2> QED
    BY <2>2 DEF Margin, Results
<1> QED
  BY <1>1 DEF MarginsOf, Ended

LEMMA MarginsOfTheCards == BookInv => MarginsMirror
<1> SUFFICES ASSUME BookInv, NEW p \in Players
             PROVE  LET page == PlayerMarginExtremes(p)
                    IN  /\ \A won \in page.bestWin :
                              \E q \in DOMAIN PlayerRecordByOpponent(p) :
                                  \E lost \in PlayerMarginExtremes(q).heaviestLoss : Heavier(lost, won)
                        /\ \A lost \in page.heaviestLoss :
                              \E q \in DOMAIN PlayerRecordByOpponent(p) :
                                  \E won \in PlayerMarginExtremes(q).bestWin : Heavier(won, lost)
  BY DEF MarginsMirror
<1>1. \A x : /\ PlayerMarginExtremes(x).bestWin = Heaviest(MarginsOf(x, "won"))
             /\ PlayerMarginExtremes(x).heaviestLoss = Heaviest(MarginsOf(x, "lost"))
  BY DEF PlayerMarginExtremes, MarginsOf
<1>2. ASSUME NEW v \in {"won", "lost"}, NEW w \in {"won", "lost"}, v # w,
             NEW x \in Heaviest(MarginsOf(p, v))
      PROVE  \E q \in DOMAIN PlayerRecordByOpponent(p) :
                \E y \in Heaviest(MarginsOf(q, w)) : Heavier(y, x)
  <2>1. PICK m \in Ended(p, Judged(p), v) : x = Margin(m)
    BY <1>2 DEF Heaviest, MarginsOf
  <2>2. PICK q \in DOMAIN PlayerRecordByOpponent(p) : m \in Ended(q, Judged(q), w)
    BY <1>2, Across
  <2>3. x \in MarginsOf(q, w)
    BY <2>1, <2>2 DEF MarginsOf
  <2>4. PICK y : y \in Heaviest(MarginsOf(q, w))
    BY <2>3, MarginsType, HeaviestExists
  <2>5. Heavier(y, x)
    BY <2>3, <2>4 DEF Heaviest
  <2> QED
    BY <2>2, <2>4, <2>5
<1> QED
  BY <1>1, <1>2

(***************************************************************************)
(* No page shows a win heavier than every defeat its opponents show, nor   *)
(* the other way about.                                                    *)
(***************************************************************************)
THEOREM ExtremesMirror == Spec => []MarginsMirror
  BY BookInvariant, MarginsOfTheCards, PTL

-----------------------------------------------------------------------------
(* Sums over sets. *)

\* Two sets with nothing in common.
LEMMA DisjointSizes ==
    ASSUME NEW A, IsFiniteSet(A), NEW B, IsFiniteSet(B), A \cap B = {}
    PROVE  /\ IsFiniteSet(A \cup B) /\ Cardinality(A) \in Nat /\ Cardinality(B) \in Nat
           /\ Cardinality(A \cup B) = Cardinality(A) + Cardinality(B)
<1>1. /\ IsFiniteSet(A \cup B)
      /\ Cardinality(A \cup B) = Cardinality(A) + Cardinality(B) - Cardinality(A \cap B)
  BY FS_Union
<1>2. Cardinality(A \cap B) = 0
  BY FS_EmptySet
<1>3. Cardinality(A) \in Nat /\ Cardinality(B) \in Nat
  BY FS_CardinalityType
<1> QED
  BY <1>1, <1>2, <1>3

\* MapThenSumSet takes the elements of a set one by one, in some order.
Pick(s) == CHOOSE x \in s : TRUE

\* h is the function on the subsets of S by which it sums what g gives them.
Summing(h, g, S) ==
    h = [s \in SUBSET S |-> IF s = {} THEN 0 ELSE g[Pick(s)] + h[s \ {Pick(s)}]]

\* The things of W whose key is x.
Keyed(W, key, x) == {w \in W : key[w] = x}

\* Where g counts the things of W that fall to each element, their number is one.
LEMMA SumExists ==
    ASSUME NEW S, NEW W, IsFiniteSet(W), NEW key, NEW g,
           \A x \in S : g[x] = Cardinality(Keyed(W, key, x))
    PROVE  Summing([s \in SUBSET S |-> Cardinality({w \in W : key[w] \in s})], g, S)
<1> DEFINE of(s) == {w \in W : key[w] \in s}
           only(x) == Keyed(W, key, x)
           h == [s \in SUBSET S |-> Cardinality(of(s))]
<1>1. \A s : IsFiniteSet(of(s)) /\ Cardinality(of(s)) \in Nat
  <2> SUFFICES ASSUME NEW s PROVE IsFiniteSet(of(s)) /\ Cardinality(of(s)) \in Nat
    OBVIOUS
  <2>1. of(s) \in SUBSET W
    OBVIOUS
  <2> QED
    BY <2>1, FS_Subset, FS_CardinalityType
<1>2. ASSUME NEW s \in SUBSET S, s # {}
      PROVE  Cardinality(of(s)) = g[Pick(s)] + Cardinality(of(s \ {Pick(s)}))
  <2>1. Pick(s) \in s
    BY <1>2 DEF Pick
  <2> DEFINE x == Pick(s)
  <2> HIDE DEF x
  <2>2. /\ of(s) = only(x) \cup of(s \ {x})
        /\ only(x) \cap of(s \ {x}) = {}
        /\ only(x) = of({x})
    BY <2>1 DEF x, Keyed
  <2>3. g[x] = Cardinality(only(x))
    BY <2>1 DEF x
  <2>4. IsFiniteSet(only(x)) /\ IsFiniteSet(of(s \ {x}))
    <3>1. IsFiniteSet(of({x})) /\ IsFiniteSet(of(s \ {x}))
      BY <1>1
    <3> HIDE DEF only, of
    <3> QED
      BY <2>2, <3>1
  <2> DEFINE A == only(x)
             B == of(s \ {x})
  <2>5. of(s) = A \cup B /\ A \cap B = {} /\ IsFiniteSet(A) /\ IsFiniteSet(B)
    BY <2>2, <2>4
  <2> HIDE DEF A, B, of
  <2>6. Cardinality(of(s)) = Cardinality(A) + Cardinality(B)
    BY <2>5, DisjointSizes
  <2> QED
    BY <2>3, <2>6 DEF x, A, B
<1>3. Cardinality(of({})) = 0
  <2>1. of({}) = {}
    OBVIOUS
  <2> QED
    BY <2>1, FS_EmptySet
<1> HIDE DEF of, only
<1>4. \A s \in SUBSET S : h[s] = IF s = {} THEN 0 ELSE g[Pick(s)] + h[s \ {Pick(s)}]
  BY <1>2, <1>3
<1>5. Summing(h, g, S)
  BY <1>4 DEF Summing
<1> QED
  BY <1>5 DEF of

\* There is no other.
LEMMA SumUnique ==
    ASSUME NEW S, IsFiniteSet(S), NEW g, NEW h, NEW k, Summing(h, g, S), Summing(k, g, S)
    PROVE  h[S] = k[S]
<1> DEFINE Apart == {s \in SUBSET S : h[s] # k[s]}
           Sizes == {Cardinality(s) : s \in Apart}
<1>1. \A s \in SUBSET S : IsFiniteSet(s) /\ Cardinality(s) \in Nat
  BY FS_Subset, FS_CardinalityType
<1>2. \A s \in SUBSET S :
         /\ h[s] = IF s = {} THEN 0 ELSE g[Pick(s)] + h[s \ {Pick(s)}]
         /\ k[s] = IF s = {} THEN 0 ELSE g[Pick(s)] + k[s \ {Pick(s)}]
  <2> DEFINE B(f) == [s \in SUBSET S |-> IF s = {} THEN 0 ELSE g[Pick(s)] + f[s \ {Pick(s)}]]
  <2>1. h = B(h) /\ k = B(k)
    BY DEF Summing
  <2>2. \A f : \A s \in SUBSET S : B(f)[s] = IF s = {} THEN 0 ELSE g[Pick(s)] + f[s \ {Pick(s)}]
    OBVIOUS
  <2> HIDE DEF B
  <2> QED
    BY <2>1, <2>2
<1>3. Sizes \in SUBSET Nat
  BY <1>1
<1> SUFFICES ASSUME h[S] # k[S] PROVE FALSE
  OBVIOUS
<1>4. S \in Apart
  OBVIOUS
<1>5. PICK n \in Sizes : \A i \in Sizes : n <= i
  <2>1. Sizes # {}
    BY <1>4
  <2> HIDE DEF Sizes
  <2> QED
    BY <1>3, <2>1, LeastExists
<1>6. PICK s \in Apart : Cardinality(s) = n
  OBVIOUS
<1>7. s # {} /\ s \ {Pick(s)} \in Apart
  BY <1>2
<1>8. Pick(s) \in s
  BY <1>7 DEF Pick
<1>9. Cardinality(s \ {Pick(s)}) = Cardinality(s) - 1
  BY <1>1, <1>8, FS_RemoveElement
<1>10. Cardinality(s \ {Pick(s)}) \in Sizes
  BY <1>7
<1>11. n \in Nat /\ Cardinality(s) - 1 < n
  BY <1>3, <1>5, <1>6
<1> HIDE DEF Sizes, Apart
<1> QED
  BY <1>5, <1>6, <1>9, <1>10, <1>11

\* Counting by key: each thing of W is counted once, where its key says.
LEMMA Tally ==
    ASSUME NEW S, IsFiniteSet(S), NEW W, IsFiniteSet(W), NEW key, NEW g,
           \A w \in W : key[w] \in S,
           \A x \in S : g[x] = Cardinality(Keyed(W, key, x))
    PROVE  /\ \E h : Summing(h, g, S)
           /\ \A h : Summing(h, g, S) => h[S] = Cardinality(W)
<1> DEFINE count == [s \in SUBSET S |-> Cardinality({w \in W : key[w] \in s})]
<1>1. Summing(count, g, S)
  BY SumExists
<1>2. count[S] = Cardinality(W)
  <2>1. {w \in W : key[w] \in S} = W
    OBVIOUS
  <2> QED
    BY <2>1
<1> HIDE DEF count
<1> QED
  BY <1>1, <1>2, SumUnique

-----------------------------------------------------------------------------
(* Points, one half at a time. *)

\* The halves a match that is over gives a side, each with a number of its own.
Halves(m, t) ==
    IF ~Over(m) THEN {}
    ELSE IF CardOf(m).leader = t THEN {1, 2}
    ELSE IF CardOf(m).leader = NoTeam THEN {3} ELSE {}

HalvesOf(M, t) == {x \in M \X {1, 2, 3} : x[2] \in Halves(x[1], t)}

Won(M, t) == {m \in M : Over(m) /\ CardOf(m).leader = t}

LEMMA HalvesCount ==
    ASSUME BookInv, NEW M \in SUBSET LiveMatches, NEW t, M # {} => t \in Teams
    PROVE  /\ IsFiniteSet(HalvesOf(M, t))
           /\ Cardinality(Won(M, t)) \in Nat /\ Cardinality(Won(M, NoTeam)) \in Nat
           /\ Cardinality(HalvesOf(M, t))
                = PointsFor(Cardinality(Won(M, t)), Cardinality(Won(M, NoTeam)))
<1> DEFINE A == Won(M, t)
           B == Won(M, NoTeam)
<1>1. IsFiniteSet(M)
  BY FS_Subset DEF BookInv, BookType
<1>2. A \in SUBSET M /\ B \in SUBSET M
  BY DEF Won
<1>3. IsFiniteSet(A) /\ IsFiniteSet(B) /\ Cardinality(A) \in Nat /\ Cardinality(B) \in Nat
  BY <1>1, <1>2, FS_Subset, FS_CardinalityType
<1>4. HalvesOf(M, t) = (A \X {1, 2}) \cup (B \X {3}) /\ (A \X {1, 2}) \cap (B \X {3}) = {}
  <2>1. \A m \in M : t # NoTeam
    BY MatchPlayAssumption DEF Teams
  <2>2. ASSUME NEW m \in M
        PROVE  Halves(m, t) = (IF m \in A THEN {1, 2} ELSE {}) \cup (IF m \in B THEN {3} ELSE {})
    <3>1. /\ m \in A <=> (Over(m) /\ CardOf(m).leader = t)
          /\ m \in B <=> (Over(m) /\ CardOf(m).leader = NoTeam)
      BY DEF Won
    <3> HIDE DEF A, B
    <3> QED
      BY <2>1, <3>1 DEF Halves
  <2> HIDE DEF A, B
  <2>3. HalvesOf(M, t) = (A \X {1, 2}) \cup (B \X {3})
    <3>1. HalvesOf(M, t)
            = {x \in M \X {1, 2, 3} : (x[1] \in A /\ x[2] \in {1, 2}) \/ (x[1] \in B /\ x[2] = 3)}
      BY <2>2 DEF HalvesOf
    <3> QED
      BY <1>2, <3>1
  <2> QED
    BY <2>3
<1> HIDE DEF A, B
<1>5. /\ IsFiniteSet({1, 2}) /\ Cardinality({1, 2}) = 2
      /\ IsFiniteSet({3}) /\ Cardinality({3}) = 1
  <2>1. \A i \in {1, 2, 3} : IsFiniteSet({i}) /\ Cardinality({i}) = 1
    BY FS_Singleton
  <2>2. {1} \cap {2} = {} /\ {1} \cup {2} = {1, 2}
    OBVIOUS
  <2>3. IsFiniteSet({1} \cup {2}) /\ Cardinality({1} \cup {2}) = 1 + 1
    BY <2>1, <2>2, DisjointSizes
  <2> QED
    BY <2>1, <2>2, <2>3
<1>6. /\ IsFiniteSet(A \X {1, 2}) /\ Cardinality(A \X {1, 2}) = 2 * Cardinality(A)
      /\ IsFiniteSet(B \X {3}) /\ Cardinality(B \X {3}) = Cardinality(B)
  <2>1. /\ IsFiniteSet(A \X {1, 2}) /\ Cardinality(A \X {1, 2}) = Cardinality(A) * Cardinality({1, 2})
        /\ IsFiniteSet(B \X {3}) /\ Cardinality(B \X {3}) = Cardinality(B) * Cardinality({3})
    BY <1>3, <1>5, FS_Product
  <2> QED
    BY <1>3, <1>5, <2>1
<1>7. /\ IsFiniteSet(HalvesOf(M, t))
      /\ Cardinality(HalvesOf(M, t)) = 2 * Cardinality(A) + Cardinality(B)
  <2> DEFINE X == A \X {1, 2}
             Y == B \X {3}
  <2>1. IsFiniteSet(X) /\ IsFiniteSet(Y) /\ X \cap Y = {} /\ HalvesOf(M, t) = X \cup Y
    BY <1>4, <1>6
  <2>2. Cardinality(X) = 2 * Cardinality(A) /\ Cardinality(Y) = Cardinality(B)
    BY <1>6
  <2> HIDE DEF X, Y
  <2> QED
    BY <2>1, <2>2, DisjointSizes
<1> QED
  BY <1>3, <1>7 DEF PointsFor, A, B

\* What a player's matches gave her.
LEMMA PlayerHalves ==
    ASSUME BookInv, NEW p
    PROVE  /\ Judged(p) \in SUBSET LiveMatches /\ (Judged(p) # {} => Draft[p] \in Teams)
           /\ RecordCount(p, "won") = Cardinality(Won(Judged(p), Draft[p]))
           /\ RecordCount(p, "tied") = Cardinality(Won(Judged(p), NoTeam))
           /\ PlayerPoints(p) = Cardinality(HalvesOf(Judged(p), Draft[p]))
<1>1. Judged(p) \in SUBSET LiveMatches
  BY JudgedAre
<1>2. Judged(p) # {} => Draft[p] \in Teams
  BY JudgedAre, Places DEF LiveMatches
<1>3. ASSUME NEW v \in {"won", "tied"}
      PROVE  {m \in Matches : \E e \in lineup[m] :
                 e.player = p /\ PlayerOutcome(Outcomes[m], e.team) = v} = Ended(p, Judged(p), v)
  <2>1. \A m \in Matches : \A e \in lineup[m] : e.player = p => InMatch(p, m) /\ e.team = Draft[p]
    BY DEF InMatch, BookInv, LineupStands, AllDrafted
  <2>2. \A m \in Matches : InMatch(p, m) => m \in LiveMatches /\ Draft[p] \in Teams
    BY Places
  <2>3. \A m \in Matches : InMatch(p, m) /\ PlayerOutcome(Outcomes[m], Draft[p]) = v
           => m \in Judged(p)
    <3> SUFFICES ASSUME NEW m \in Matches, InMatch(p, m), PlayerOutcome(Outcomes[m], Draft[p]) = v
                 PROVE  m \in Judged(p)
      OBVIOUS
    <3>1. m \in LiveMatches /\ Draft[p] \in Teams
      BY <2>2
    <3>2. Over(m)
      BY <3>1, VerdictIs
    <3> QED
      BY <3>1, <3>2, OutcomesAre, JudgedAre
  <2>4. \A m \in Judged(p) : SidesTaken(p, m) = {Draft[p]} /\ InMatch(p, m) /\ m \in Matches
    BY JudgedAre, Places DEF LiveMatches
  <2>5. Ended(p, Judged(p), v) = {m \in Judged(p) : PlayerOutcome(Outcomes[m], Draft[p]) = v}
    BY <2>4 DEF Ended
  <2>6. \A m \in Matches : InMatch(p, m) => \E e \in lineup[m] : e.player = p
    BY DEF InMatch
  <2> QED
    BY <2>1, <2>3, <2>4, <2>5, <2>6
<1>4. /\ Ended(p, Judged(p), "won") = Won(Judged(p), Draft[p])
      /\ Ended(p, Judged(p), "tied") = Won(Judged(p), NoTeam)
  BY EndedAre DEF Won
<1>5. /\ RecordCount(p, "won") = Cardinality(Won(Judged(p), Draft[p]))
      /\ RecordCount(p, "tied") = Cardinality(Won(Judged(p), NoTeam))
  BY <1>3, <1>4 DEF RecordCount
<1> QED
  BY <1>1, <1>2, <1>5, HalvesCount DEF PlayerPoints

\* What one match gave a side.
LEMMA MatchHalves ==
    ASSUME BookInv, NEW m \in LiveMatches, NEW t \in Teams
    PROVE  MatchPoints(m, t) = Cardinality(HalvesOf({m}, t))
<1> DEFINE o == [k \in {m} |-> Outcomes[k]]
<1>1. /\ FinishedIn(o) = {k \in {m} : Over(k)}
      /\ \A k \in {m} : o[k].winner = CardOf(k).leader
  BY OutcomesAre DEF FinishedIn
<1>2. \A u : {k \in FinishedIn(o) : o[k].winner = u} = Won({m}, u)
  BY <1>1 DEF Won
<1> HIDE DEF o
<1>3. ComputeTeamPoints(o)[t] = 2 * Cardinality(Won({m}, t)) + Cardinality(Won({m}, NoTeam))
  BY <1>2 DEF ComputeTeamPoints
<1>4. {m} \in SUBSET LiveMatches
  OBVIOUS
<1> QED
  BY <1>3, <1>4, HalvesCount DEF MatchPoints, PointsFor, o

\* The halves a side's players have, of every match.
HalvesWon(t) ==
    {w \in Players \X (LiveMatches \X {1, 2, 3}) :
        /\ Draft[w[1]] = t /\ w[2][1] \in Judged(w[1])
        /\ w[2][2] \in Halves(w[2][1], t)}

LEMMA HalvesWonFinite ==
    ASSUME BookInv, NEW t
    PROVE  IsFiniteSet(HalvesWon(t))
<1>1. IsFiniteSet({1, 2, 3})
  <2>1. {1, 2, 3} \in SUBSET Nat /\ \A i \in {1, 2, 3} : i <= 3
    OBVIOUS
  <2> QED
    BY <2>1, FS_BoundedSetOfNaturals
<1>2. IsFiniteSet(LiveMatches \X {1, 2, 3})
  BY <1>1, FS_Product DEF BookInv, BookType
<1>3. IsFiniteSet(Players \X (LiveMatches \X {1, 2, 3}))
  BY <1>2, FS_Product, MatchDataAssumption
<1>4. HalvesWon(t) \in SUBSET (Players \X (LiveMatches \X {1, 2, 3}))
  BY DEF HalvesWon
<1> QED
  BY <1>3, <1>4, FS_Subset

\* Told apart by player they are her points.
LEMMA HalvesByPlayer ==
    ASSUME BookInv, NEW t \in Teams, NEW p \in Players, Draft[p] = t
    PROVE  Cardinality({w \in HalvesWon(t) : w[1] = p}) = PlayerPoints(p)
<1> DEFINE H == HalvesOf(Judged(p), t)
<1>1. Judged(p) \in SUBSET LiveMatches /\ PlayerPoints(p) = Cardinality(H) /\ IsFiniteSet(H)
  BY PlayerHalves, HalvesCount
<1>2. {w \in HalvesWon(t) : w[1] = p} = {p} \X H
  <2>1. {w \in HalvesWon(t) : w[1] = p}
          = {w \in {p} \X (LiveMatches \X {1, 2, 3}) :
                w[2][1] \in Judged(p) /\ w[2][2] \in Halves(w[2][1], t)}
    BY DEF HalvesWon
  <2>2. H = {x \in LiveMatches \X {1, 2, 3} : x[1] \in Judged(p) /\ x[2] \in Halves(x[1], t)}
    BY <1>1 DEF HalvesOf
  <2> HIDE DEF H
  <2> QED
    BY <2>1, <2>2
<1> HIDE DEF H
<1>3. IsFiniteSet({p}) /\ Cardinality({p}) = 1
  BY FS_Singleton
<1>4. Cardinality({p} \X H) = 1 * Cardinality(H)
  BY <1>1, <1>3, FS_Product
<1>5. Cardinality(H) \in Nat
  BY <1>1, FS_CardinalityType
<1>6. Cardinality({p} \X H) = Cardinality(H)
  BY <1>4, <1>5
<1> QED
  BY <1>1, <1>2, <1>6

\* Told apart by match they are its points, once for each player of the side.
LEMMA HalvesByMatch ==
    ASSUME BookInv, NEW t \in Teams, NEW m \in LiveMatches
    PROVE  Cardinality({w \in HalvesWon(t) : w[2][1] = m}) = match[m].perSide * MatchPoints(m, t)
<1> DEFINE H == HalvesOf({m}, t)
           P == OnSide(lineup[m], t)
<1>1. /\ {m} \in SUBSET LiveMatches /\ MatchPoints(m, t) = Cardinality(H)
      /\ IsFiniteSet(H) /\ Cardinality(H) \in Nat
  BY MatchHalves, HalvesCount, FS_CardinalityType
<1>2. m \in Matches
  BY DEF LiveMatches
<1>3. \A p : p \in P <=> p \in Players /\ InMatch(p, m) /\ Draft[p] = t
  BY <1>2, Places
<1>4. H = {x \in {m} \X {1, 2, 3} : x[2] \in Halves(m, t)}
  BY DEF HalvesOf
<1>5. CASE ~Over(m)
  <2>1. Halves(m, t) = {}
    BY <1>5 DEF Halves
  <2>2. H = {} /\ {w \in HalvesWon(t) : w[2][1] = m} = {}
    BY <1>4, <2>1 DEF HalvesWon
  <2>3. match[m].perSide \in Nat
    BY <1>2, MatchDataAssumption DEF LiveMatches, Live, BookInv, BookType, MatchRows
  <2>4. Cardinality(H) = 0 /\ Cardinality({w \in HalvesWon(t) : w[2][1] = m}) = 0
    BY <2>2, FS_EmptySet
  <2>5. match[m].perSide * 0 = 0
    BY <2>3
  <2> QED
    BY <1>1, <2>4, <2>5
<1>6. CASE Over(m)
  <2>1. scores[m] # {} /\ lineup[m] # {}
    BY <1>2, <1>6, OutcomesAre DEF BookInv, ScoresNeedLineup
  <2>2. \A p : m \in Judged(p) <=> InMatch(p, m)
    BY <2>1, JudgedAre
  <2>3. {w \in HalvesWon(t) : w[2][1] = m} = P \X H
    <3>1. {w \in HalvesWon(t) : w[2][1] = m}
            = {w \in Players \X ({m} \X {1, 2, 3}) :
                  /\ Draft[w[1]] = t /\ InMatch(w[1], m) /\ w[2][2] \in Halves(m, t)}
      BY <2>2 DEF HalvesWon
    <3> HIDE DEF H, P
    <3> QED
      BY <1>3, <1>4, <3>1
  <2>4. IsFiniteSet(P) /\ Cardinality(P) = match[m].perSide
    <3>1. P \in SUBSET Players
      BY <1>3
    <3>2. LineupFits(lineup[m], match[m].perSide)
      BY <1>2, <2>1 DEF BookInv, LineupStands
    <3>3. t \in SidesOf(lineup[m])
      <4>1. PICK q : InMatch(q, m) /\ Draft[q] = t
        BY <1>2, <2>1, BothSides
      <4>2. q \in OnSide(lineup[m], t)
        BY <1>2, <4>1, Places
      <4> QED
        BY <4>2 DEF OnSide, SidesOf
    <3> QED
      BY <3>1, <3>2, <3>3, FS_Subset, MatchDataAssumption DEF LineupFits
  <2> HIDE DEF H, P
  <2>5. Cardinality(P \X H) = Cardinality(P) * Cardinality(H)
    BY <1>1, <2>4, FS_Product
  <2> QED
    BY <1>1, <2>3, <2>4, <2>5
<1> QED
  BY <1>5, <1>6

LEMMA RecordsOfTheCards == BookInv => RecordsAgreeWithStandings
<1> SUFFICES ASSUME BookInv, NEW t \in Teams
             PROVE  MapThenSumSet(PlayerPoints, {p \in Players : Draft[p] = t})
                      = MapThenSumSet(LAMBDA m : match[m].perSide * MatchPoints(m, t),
                                      {m \in Matches : Live(m)})
  BY DEF RecordsAgreeWithStandings
<1> DEFINE W == HalvesWon(t)
<1>1. IsFiniteSet(W)
  BY HalvesWonFinite
<1>2. MapThenSumSet(PlayerPoints, {p \in Players : Draft[p] = t}) = Cardinality(W)
  <2> DEFINE S == {p \in Players : Draft[p] = t}
             g == [p \in S |-> PlayerPoints(p)]
             key == [w \in W |-> w[1]]
             After(h) == [s \in SUBSET S |->
                             IF s = {} THEN 0
                             ELSE PlayerPoints(CHOOSE x \in s : TRUE)
                                    + h[s \ {CHOOSE x \in s : TRUE}]]
             it == CHOOSE h : h = After(h)
  <2>1. MapThenSumSet(PlayerPoints, S) = it[S]
    BY DEF MapThenSumSet, MapThenFoldSet
  <2>2. IsFiniteSet(S)
    <3>1. S \in SUBSET Players
      OBVIOUS
    <3> QED
      BY <3>1, FS_Subset, MatchDataAssumption
  <2>3. \A w \in W : key[w] \in S
    BY DEF HalvesWon
  <2>4. \A p \in S : g[p] = Cardinality(Keyed(W, key, p))
    <3> SUFFICES ASSUME NEW p \in S PROVE g[p] = Cardinality(Keyed(W, key, p))
      OBVIOUS
    <3>1. Keyed(W, key, p) = {w \in W : w[1] = p}
      BY DEF Keyed
    <3> QED
      BY <3>1, HalvesByPlayer
  <2>5. \A h : h = After(h) <=> Summing(h, g, S)
    <3>1. \A s \in SUBSET S : s # {} => g[Pick(s)] = PlayerPoints(CHOOSE x \in s : TRUE)
      BY DEF Pick
    <3> HIDE DEF g
    <3> QED
      BY <3>1 DEF Summing, Pick
  <2> HIDE DEF S, g, key, W
  <2>6. /\ \E h : Summing(h, g, S)
        /\ \A h : Summing(h, g, S) => h[S] = Cardinality(W)
    BY <1>1, <2>2, <2>3, <2>4, Tally
  <2> HIDE DEF After
  <2>7. it = After(it)
    BY <2>5, <2>6
  <2> HIDE DEF it
  <2>8. it[S] = Cardinality(W)
    BY <2>5, <2>6, <2>7
  <2> QED
    BY <2>1, <2>8 DEF S
<1>3. MapThenSumSet(LAMBDA m : match[m].perSide * MatchPoints(m, t), {m \in Matches : Live(m)})
        = Cardinality(W)
  <2> DEFINE S == {m \in Matches : Live(m)}
             g == [m \in S |-> match[m].perSide * MatchPoints(m, t)]
             key == [w \in W |-> w[2][1]]
             After(h) == [s \in SUBSET S |->
                             IF s = {} THEN 0
                             ELSE match[CHOOSE x \in s : TRUE].perSide
                                      * MatchPoints(CHOOSE x \in s : TRUE, t)
                                    + h[s \ {CHOOSE x \in s : TRUE}]]
             it == CHOOSE h : h = After(h)
  <2>1. MapThenSumSet(LAMBDA m : match[m].perSide * MatchPoints(m, t), S) = it[S]
    BY DEF MapThenSumSet, MapThenFoldSet
  <2>2. S = LiveMatches /\ IsFiniteSet(S)
    BY DEF LiveMatches, BookInv, BookType
  <2>3. \A w \in W : key[w] \in S
    BY <2>2 DEF HalvesWon
  <2>4. \A m \in S : g[m] = Cardinality(Keyed(W, key, m))
    <3> SUFFICES ASSUME NEW m \in S PROVE g[m] = Cardinality(Keyed(W, key, m))
      OBVIOUS
    <3>1. Keyed(W, key, m) = {w \in W : w[2][1] = m}
      BY DEF Keyed
    <3> QED
      BY <2>2, <3>1, HalvesByMatch
  <2>5. \A h : h = After(h) <=> Summing(h, g, S)
    <3>1. \A s \in SUBSET S : s # {} =>
             g[Pick(s)] = match[CHOOSE x \in s : TRUE].perSide * MatchPoints(CHOOSE x \in s : TRUE, t)
      BY DEF Pick
    <3> HIDE DEF g
    <3> QED
      BY <3>1 DEF Summing, Pick
  <2> HIDE DEF S, g, key, W
  <2>6. /\ \E h : Summing(h, g, S)
        /\ \A h : Summing(h, g, S) => h[S] = Cardinality(W)
    BY <1>1, <2>2, <2>3, <2>4, Tally
  <2> HIDE DEF After
  <2>7. it = After(it)
    BY <2>5, <2>6
  <2> HIDE DEF it
  <2>8. it[S] = Cardinality(W)
    BY <2>5, <2>6, <2>7
  <2> QED
    BY <2>1, <2>8 DEF S
<1> QED
  BY <1>2, <1>3

(***************************************************************************)
(* "Every stat that talks about points has to agree with the standings the *)
(* leaderboard shows" (PointsFor): whatever matches there are and whoever  *)
(* plays them, the points of a side's players add up to its match points.  *)
(***************************************************************************)
THEOREM RecordsAddUpToStandings == Spec => []RecordsAgreeWithStandings
  BY BookInvariant, RecordsOfTheCards, PTL

-----------------------------------------------------------------------------
(* The splits of a page. *)

\* A halved match went to the last hole.
LEMMA HalvedAtTheEnd ==
    ASSUME NEW rows, OnTheCard(rows), ComputeStoredResult(rows).finished,
           ComputeStoredResult(rows).leader = NoTeam
    PROVE  ComputeStoredResult(rows).holesRemaining = 0
<1> DEFINE played == HolesPlayed(rows)
<1>1. HolesInPlay(rows) # {}
  BY NothingInPlay DEF UnplayedResult
<1>2. PICK h \in HolesInPlay(rows) :
          /\ DecidedAt(played, h) /\ Leader(SignedLead(played, h)) = NoTeam
          /\ ComputeStoredResult(rows).holesRemaining = NumHoles - Cardinality(Counted(played, h))
  BY <1>1, WalkStops
<1>3. /\ HolesInPlay(rows) \in SUBSET Holes /\ DOMAIN played = HolesInPlay(rows)
  BY HolesPlayedType
<1> HIDE DEF played
<1> DEFINE X == Counted(played, h)
<1>4. X \in SUBSET Holes
  BY <1>3 DEF Counted
<1>5. /\ SignedLead(played, h) = LeadIn(X, played) /\ LeadIn(X, played) \in Int
      /\ Cardinality(X) \in 0..NumHoles /\ NumHoles \in Nat
  <2>1. SignedLead(played, h) = LeadIn(X, played)
    BY DEF Counted, SignedLead, LeadIn, WonIn
  <2>2. {} \in SUBSET X
    OBVIOUS
  <2> HIDE DEF X
  <2> QED
    BY <1>4, <2>1, <2>2, LeadMoves, MatchPlayAssumption
<1>6. SignedLead(played, h) = 0
  BY <1>2, <1>5, MatchPlayAssumption DEF Leader
<1>7. Decided(0, Cardinality(X))
  BY <1>2, <1>6 DEF DecidedAt, Abs
<1> QED
  BY <1>2, <1>5, <1>7 DEF Decided

\* The columns of a split, each counted by one key.
WinsIn(records, S) == MapThenSumSet(LAMBDA i : records[i].wins, S)
LossesIn(records, S) == MapThenSumSet(LAMBDA i : records[i].losses, S)
TiesIn(records, S) == MapThenSumSet(LAMBDA i : records[i].ties, S)

LEMMA WinsSum ==
    ASSUME NEW records, NEW S, IsFiniteSet(S), NEW W, IsFiniteSet(W), NEW key,
           \A w \in W : key[w] \in S,
           \A i \in S : records[i].wins = Cardinality(Keyed(W, key, i))
    PROVE  WinsIn(records, S) = Cardinality(W)
<1> DEFINE g == [i \in S |-> records[i].wins]
           After(h) == [s \in SUBSET S |->
                           IF s = {} THEN 0
                           ELSE records[CHOOSE x \in s : TRUE].wins
                                  + h[s \ {CHOOSE x \in s : TRUE}]]
           it == CHOOSE h : h = After(h)
<1>1. WinsIn(records, S) = it[S]
  BY DEF WinsIn, MapThenSumSet, MapThenFoldSet
<1>2. \A i \in S : g[i] = Cardinality(Keyed(W, key, i))
  OBVIOUS
<1>3. \A h : h = After(h) <=> Summing(h, g, S)
  <2>1. \A s \in SUBSET S : s # {} => g[Pick(s)] = records[CHOOSE x \in s : TRUE].wins
    BY DEF Pick
  <2> HIDE DEF g
  <2> QED
    BY <2>1 DEF Summing, Pick
<1> HIDE DEF g, After, it
<1>4. /\ \E h : Summing(h, g, S)
      /\ \A h : Summing(h, g, S) => h[S] = Cardinality(W)
  BY <1>2, Tally
<1>5. it = After(it)
  BY <1>3, <1>4 DEF it
<1> QED
  BY <1>1, <1>3, <1>4, <1>5

LEMMA LossesSum ==
    ASSUME NEW records, NEW S, IsFiniteSet(S), NEW W, IsFiniteSet(W), NEW key,
           \A w \in W : key[w] \in S,
           \A i \in S : records[i].losses = Cardinality(Keyed(W, key, i))
    PROVE  LossesIn(records, S) = Cardinality(W)
<1> DEFINE g == [i \in S |-> records[i].losses]
           After(h) == [s \in SUBSET S |->
                           IF s = {} THEN 0
                           ELSE records[CHOOSE x \in s : TRUE].losses
                                  + h[s \ {CHOOSE x \in s : TRUE}]]
           it == CHOOSE h : h = After(h)
<1>1. LossesIn(records, S) = it[S]
  BY DEF LossesIn, MapThenSumSet, MapThenFoldSet
<1>2. \A i \in S : g[i] = Cardinality(Keyed(W, key, i))
  OBVIOUS
<1>3. \A h : h = After(h) <=> Summing(h, g, S)
  <2>1. \A s \in SUBSET S : s # {} => g[Pick(s)] = records[CHOOSE x \in s : TRUE].losses
    BY DEF Pick
  <2> HIDE DEF g
  <2> QED
    BY <2>1 DEF Summing, Pick
<1> HIDE DEF g, After, it
<1>4. /\ \E h : Summing(h, g, S)
      /\ \A h : Summing(h, g, S) => h[S] = Cardinality(W)
  BY <1>2, Tally
<1>5. it = After(it)
  BY <1>3, <1>4 DEF it
<1> QED
  BY <1>1, <1>3, <1>4, <1>5

LEMMA TiesSum ==
    ASSUME NEW records, NEW S, IsFiniteSet(S), NEW W, IsFiniteSet(W), NEW key,
           \A w \in W : key[w] \in S,
           \A i \in S : records[i].ties = Cardinality(Keyed(W, key, i))
    PROVE  TiesIn(records, S) = Cardinality(W)
<1> DEFINE g == [i \in S |-> records[i].ties]
           After(h) == [s \in SUBSET S |->
                           IF s = {} THEN 0
                           ELSE records[CHOOSE x \in s : TRUE].ties
                                  + h[s \ {CHOOSE x \in s : TRUE}]]
           it == CHOOSE h : h = After(h)
<1>1. TiesIn(records, S) = it[S]
  BY DEF TiesIn, MapThenSumSet, MapThenFoldSet
<1>2. \A i \in S : g[i] = Cardinality(Keyed(W, key, i))
  OBVIOUS
<1>3. \A h : h = After(h) <=> Summing(h, g, S)
  <2>1. \A s \in SUBSET S : s # {} => g[Pick(s)] = records[CHOOSE x \in s : TRUE].ties
    BY DEF Pick
  <2> HIDE DEF g
  <2> QED
    BY <2>1 DEF Summing, Pick
<1> HIDE DEF g, After, it
<1>4. /\ \E h : Summing(h, g, S)
      /\ \A h : Summing(h, g, S) => h[S] = Cardinality(W)
  BY <1>2, Tally
<1>5. it = After(it)
  BY <1>3, <1>4 DEF it
<1> QED
  BY <1>1, <1>3, <1>4, <1>5

LEMMA TotalIs ==
    ASSUME NEW records, IsFiniteSet(DOMAIN records), NEW key,
           NEW W, NEW L, NEW T, IsFiniteSet(W), IsFiniteSet(L), IsFiniteSet(T),
           \A w \in W : key[w] \in DOMAIN records, \A w \in L : key[w] \in DOMAIN records,
           \A w \in T : key[w] \in DOMAIN records,
           \A i \in DOMAIN records :
              /\ records[i].wins = Cardinality(Keyed(W, key, i))
              /\ records[i].losses = Cardinality(Keyed(L, key, i))
              /\ records[i].ties = Cardinality(Keyed(T, key, i))
    PROVE  Total(records) =
              [wins |-> Cardinality(W), losses |-> Cardinality(L), ties |-> Cardinality(T)]
<1>1. WinsIn(records, DOMAIN records) = Cardinality(W)
  BY WinsSum
<1>2. LossesIn(records, DOMAIN records) = Cardinality(L)
  BY LossesSum
<1>3. TiesIn(records, DOMAIN records) = Cardinality(T)
  BY TiesSum
<1>4. Total(records) = [wins |-> WinsIn(records, DOMAIN records),
                        losses |-> LossesIn(records, DOMAIN records),
                        ties |-> TiesIn(records, DOMAIN records)]
  BY DEF Total, WinsIn, LossesIn, TiesIn
<1> QED
  BY <1>1, <1>2, <1>3, <1>4

\* A player's matches of one format.
OfFormat(p, f) == {m \in Judged(p) : match[m].perSide = f}

\* Restricting the matches restricts those that ended some way.
LEMMA EndedSome ==
    ASSUME NEW p, NEW v, NEW S, NEW T \in SUBSET S
    PROVE  Ended(p, T, v) = {m \in Ended(p, S, v) : m \in T}
  BY DEF Ended

\* The formats played are finitely many, as the matches are.
LEMMA FormatsFinite ==
    ASSUME BookInv, NEW p
    PROVE  IsFiniteSet(Judged(p)) /\ IsFiniteSet({match[m].perSide : m \in Judged(p)})
<1> DEFINE J == Judged(p)
           F == {match[m].perSide : m \in J}
           f == [m \in J |-> match[m].perSide]
<1>1. IsFiniteSet(J)
  BY PlayerHalves, FS_Subset DEF BookInv, BookType
<1>2. f \in Surjection(J, F)
  <2> HIDE DEF J
  <2> QED
    BY DEF Surjection
<1> HIDE DEF J, F, f
<1>3. IsFiniteSet(F)
  BY <1>1, <1>2, FS_Surjection
<1> QED
  BY <1>1, <1>3 DEF J, F

LEMMA SplitByFormat ==
    ASSUME BookInv, NEW p
    PROVE  Total(PlayerRecordByFormat(p)) = PlayerRecord(p)
<1> DEFINE records == PlayerRecordByFormat(p)
           J == Judged(p)
           key == [m \in J |-> match[m].perSide]
           W(v) == Ended(p, J, v)
<1>1. /\ DOMAIN records = {match[m].perSide : m \in J}
      /\ \A f \in DOMAIN records : records[f] = Record(p, OfFormat(p, f))
  BY DEF PlayerRecordByFormat, OfFormat
<1>2. IsFiniteSet(J) /\ IsFiniteSet(DOMAIN records)
  BY <1>1, FormatsFinite
<1>3. \A v : W(v) \in SUBSET J
  BY DEF Ended
<1>4. \A v : IsFiniteSet(W(v))
  <2> HIDE DEF W, J
  <2> QED
    BY <1>2, <1>3, FS_Subset
<1>5. \A v, f : Ended(p, OfFormat(p, f), v) = Keyed(W(v), key, f)
  <2> SUFFICES ASSUME NEW v, NEW f PROVE Ended(p, OfFormat(p, f), v) = Keyed(W(v), key, f)
    OBVIOUS
  <2>1. OfFormat(p, f) = {m \in J : key[m] = f}
    BY DEF OfFormat
  <2>2. Ended(p, OfFormat(p, f), v) = {m \in W(v) : m \in OfFormat(p, f)}
    BY <2>1, EndedSome
  <2> HIDE DEF W, J, key
  <2> QED
    BY <1>3, <2>1, <2>2 DEF Keyed
<1>6. \A v : \A m \in W(v) : key[m] \in DOMAIN records
  BY <1>1, <1>3
<1>7. \A f \in DOMAIN records :
         /\ records[f].wins = Cardinality(Keyed(W("won"), key, f))
         /\ records[f].losses = Cardinality(Keyed(W("lost"), key, f))
         /\ records[f].ties = Cardinality(Keyed(W("tied"), key, f))
  <2> SUFFICES ASSUME NEW f \in DOMAIN records
               PROVE  /\ records[f].wins = Cardinality(Keyed(W("won"), key, f))
                      /\ records[f].losses = Cardinality(Keyed(W("lost"), key, f))
                      /\ records[f].ties = Cardinality(Keyed(W("tied"), key, f))
    OBVIOUS
  <2> DEFINE S == OfFormat(p, f)
  <2>1. records[f] = Record(p, S)
    BY <1>1
  <2>2. /\ Ended(p, S, "won") = Keyed(W("won"), key, f)
        /\ Ended(p, S, "lost") = Keyed(W("lost"), key, f)
        /\ Ended(p, S, "tied") = Keyed(W("tied"), key, f)
    BY <1>5
  <2> HIDE DEF records, key, W, J, S
  <2> QED
    BY <2>1, <2>2 DEF Record
<1> HIDE DEF records, key, W, J
<1>8. Total(records) = [wins |-> Cardinality(W("won")), losses |-> Cardinality(W("lost")),
                        ties |-> Cardinality(W("tied"))]
  <2> DEFINE won == W("won")
             lost == W("lost")
             tied == W("tied")
  <2>1. IsFiniteSet(won) /\ IsFiniteSet(lost) /\ IsFiniteSet(tied)
    BY <1>4
  <2>2. /\ \A w \in won : key[w] \in DOMAIN records
        /\ \A w \in lost : key[w] \in DOMAIN records
        /\ \A w \in tied : key[w] \in DOMAIN records
    BY <1>6
  <2>3. \A i \in DOMAIN records :
           /\ records[i].wins = Cardinality(Keyed(won, key, i))
           /\ records[i].losses = Cardinality(Keyed(lost, key, i))
           /\ records[i].ties = Cardinality(Keyed(tied, key, i))
    BY <1>7
  <2> HIDE DEF won, lost, tied
  <2>4. Total(records) = [wins |-> Cardinality(won), losses |-> Cardinality(lost),
                          ties |-> Cardinality(tied)]
    BY <1>2, <2>1, <2>2, <2>3, TotalIs
  <2> QED
    BY <2>4 DEF won, lost, tied
<1> QED
  BY <1>8 DEF records, W, J, PlayerRecord, Record

LEMMA SplitByCloseness ==
    ASSUME BookInv, NEW p
    PROVE  /\ Total(PlayerRecordByCloseness(p)) = PlayerRecord(p)
           /\ PlayerRecordByCloseness(p).early.ties = 0
<1> DEFINE records == PlayerRecordByCloseness(p)
           J == Judged(p)
           last == {m \in {k \in J : result[k].finished} : result[m].holesRemaining = 0}
           early == {m \in {k \in J : result[k].finished} : result[m].holesRemaining > 0}
           key == [m \in J |-> IF result[m].holesRemaining = 0 THEN "lastHole" ELSE "early"]
           W(v) == Ended(p, J, v)
<1>1. records = [lastHole |-> Record(p, last), early |-> Record(p, early)]
  BY DEF PlayerRecordByCloseness
<1>2. /\ DOMAIN records = {"lastHole", "early"}
      /\ records["lastHole"] = Record(p, last) /\ records["early"] = Record(p, early)
  <2> HIDE DEF last, early, records
  <2> QED
    BY <1>1
<1>3. IsFiniteSet(J) /\ IsFiniteSet(DOMAIN records)
  <2>1. IsFiniteSet(J)
    BY FormatsFinite
  <2>2. \A i \in {"lastHole", "early"} : IsFiniteSet({i})
    BY FS_Singleton
  <2>3. IsFiniteSet({"lastHole"} \cup {"early"})
    BY <2>2, FS_Union
  <2>4. DOMAIN records = {"lastHole"} \cup {"early"}
    <3> HIDE DEF records
    <3> QED
      BY <1>2
  <2> HIDE DEF J, records
  <2> QED
    BY <2>1, <2>3, <2>4
<1>4. \A v : W(v) \in SUBSET J
  BY DEF Ended
<1>5. \A v : IsFiniteSet(W(v))
  <2> HIDE DEF W, J
  <2> QED
    BY <1>3, <1>4, FS_Subset
\* A match somebody won, lost or halved is over, and its result is its card's.
<1>6. \A v \in {"won", "lost", "tied"} : \A m \in W(v) :
         /\ m \in Matches /\ result[m] = CardOf(m) /\ CardOf(m) \in Results
         /\ CardOf(m).finished /\ OnTheCard(scores[m])
         /\ v = "tied" => CardOf(m).leader = NoTeam
  <2> SUFFICES ASSUME NEW v \in {"won", "lost", "tied"}, NEW m \in W(v)
               PROVE  /\ m \in Matches /\ result[m] = CardOf(m) /\ CardOf(m) \in Results
                      /\ CardOf(m).finished /\ OnTheCard(scores[m])
                      /\ v = "tied" => CardOf(m).leader = NoTeam
    OBVIOUS
  <2>1. m \in J /\ Over(m) /\ (v = "tied" => CardOf(m).leader = NoTeam)
    BY EndedAre
  <2>2. m \in Matches /\ scores[m] # {}
    BY <2>1, JudgedAre DEF LiveMatches
  <2>3. OnTheCard(scores[m])
    BY <2>2 DEF BookInv, BookType, ScoreRows, OnTheCard
  <2>4. result[m] = CardOf(m) /\ CardOf(m) \in Results
    BY <2>2, CardType
  <2> QED
    BY <2>1, <2>2, <2>3, <2>4 DEF Over, CardOf
<1>7. \A v \in {"won", "lost", "tied"} :
         /\ Ended(p, last, v) = Keyed(W(v), key, "lastHole")
         /\ Ended(p, early, v) = Keyed(W(v), key, "early")
  <2> SUFFICES ASSUME NEW v \in {"won", "lost", "tied"}
               PROVE  /\ Ended(p, last, v) = Keyed(W(v), key, "lastHole")
                      /\ Ended(p, early, v) = Keyed(W(v), key, "early")
    OBVIOUS
  <2>1. /\ Ended(p, last, v) = {m \in W(v) : m \in last}
        /\ Ended(p, early, v) = {m \in W(v) : m \in early}
    <3>1. last \in SUBSET J /\ early \in SUBSET J
      OBVIOUS
    <3> HIDE DEF last, early, J
    <3> QED
      BY <3>1, EndedSome DEF J
  <2>2. \A m \in W(v) : result[m].finished /\ result[m].holesRemaining \in Nat
    BY <1>6, HolesAreFinite DEF Results
  <2>3. \A m \in W(v) : /\ m \in last <=> result[m].holesRemaining = 0
                        /\ m \in early <=> result[m].holesRemaining # 0
    <3> SUFFICES ASSUME NEW m \in W(v)
                 PROVE  /\ m \in last <=> result[m].holesRemaining = 0
                        /\ m \in early <=> result[m].holesRemaining # 0
      OBVIOUS
    <3>1. m \in J /\ result[m].finished /\ result[m].holesRemaining \in Nat
      BY <1>4, <2>2
    <3> QED
      BY <3>1
  <2>4. \A m \in W(v) : key[m] = IF result[m].holesRemaining = 0 THEN "lastHole" ELSE "early"
    BY <1>4
  <2> HIDE DEF last, early, W, key, J
  <2> QED
    BY <2>1, <2>3, <2>4 DEF Keyed
<1>8. \A v : \A m \in W(v) : key[m] \in DOMAIN records
  BY <1>2, <1>4
<1>9. \A i \in DOMAIN records :
         /\ records[i].wins = Cardinality(Keyed(W("won"), key, i))
         /\ records[i].losses = Cardinality(Keyed(W("lost"), key, i))
         /\ records[i].ties = Cardinality(Keyed(W("tied"), key, i))
  <2> HIDE DEF records, key, W, J, last, early
  <2> QED
    BY <1>2, <1>7 DEF Record
<1> HIDE DEF records, key, W, J, last, early
<1>10. Total(records) = [wins |-> Cardinality(W("won")), losses |-> Cardinality(W("lost")),
                         ties |-> Cardinality(W("tied"))]
  <2> DEFINE won == W("won")
             lost == W("lost")
             tied == W("tied")
  <2>1. IsFiniteSet(won) /\ IsFiniteSet(lost) /\ IsFiniteSet(tied)
    BY <1>5
  <2>2. /\ \A w \in won : key[w] \in DOMAIN records
        /\ \A w \in lost : key[w] \in DOMAIN records
        /\ \A w \in tied : key[w] \in DOMAIN records
    BY <1>8
  <2>3. \A i \in DOMAIN records :
           /\ records[i].wins = Cardinality(Keyed(won, key, i))
           /\ records[i].losses = Cardinality(Keyed(lost, key, i))
           /\ records[i].ties = Cardinality(Keyed(tied, key, i))
    BY <1>9
  <2> HIDE DEF won, lost, tied
  <2>4. Total(records) = [wins |-> Cardinality(won), losses |-> Cardinality(lost),
                          ties |-> Cardinality(tied)]
    BY <1>3, <2>1, <2>2, <2>3, TotalIs
  <2> QED
    BY <2>4 DEF won, lost, tied
<1>11. Ended(p, early, "tied") = {}
  <2> SUFFICES ASSUME NEW m \in Ended(p, early, "tied") PROVE FALSE
    OBVIOUS
  <2>1. m \in early
    BY DEF Ended
  <2>2. m \in W("tied")
    BY <1>7 DEF Keyed
  <2>3. /\ result[m] = ComputeStoredResult(scores[m]) /\ OnTheCard(scores[m])
        /\ ComputeStoredResult(scores[m]).finished /\ ComputeStoredResult(scores[m]).leader = NoTeam
    BY <1>6, <2>2 DEF CardOf
  <2>4. result[m].holesRemaining = 0
    BY <2>3, HalvedAtTheEnd
  <2> QED
    BY <2>1, <2>4 DEF early
<1>12. records.early.ties = 0
  <2>1. records.early = Record(p, early)
    BY <1>1
  <2> QED
    BY <1>11, <2>1, FS_EmptySet DEF Record
<1> QED
  BY <1>10, <1>12 DEF records, W, J, PlayerRecord, Record

\* The points of a career, by format, are the points of its matches.
LEMMA PointsByFormat ==
    ASSUME BookInv, NEW p
    PROVE  CareerPoints(p) = PlayerPoints(p)
<1> DEFINE split == PlayerRecordByFormat(p)
           J == Judged(p)
           S == DOMAIN split
           t == Draft[p]
           W == HalvesOf(J, t)
           key == [w \in W |-> match[w[1]].perSide]
           g == [f \in S |-> PointsFor(split[f].wins, split[f].ties)]
           After(h) == [s \in SUBSET S |->
                           IF s = {} THEN 0
                           ELSE PointsFor(split[CHOOSE x \in s : TRUE].wins,
                                          split[CHOOSE x \in s : TRUE].ties)
                                  + h[s \ {CHOOSE x \in s : TRUE}]]
           it == CHOOSE h : h = After(h)
<1>1. CareerPoints(p) = it[S]
  BY DEF CareerPoints, MapThenSumSet, MapThenFoldSet
<1>2. /\ S = {match[m].perSide : m \in J}
      /\ \A f \in S : split[f] = Record(p, OfFormat(p, f))
  BY DEF PlayerRecordByFormat, OfFormat
<1>3. IsFiniteSet(S)
  BY <1>2, FormatsFinite
<1>4. /\ J \in SUBSET LiveMatches /\ (J # {} => t \in Teams)
      /\ PlayerPoints(p) = Cardinality(W)
  BY PlayerHalves
<1>5. IsFiniteSet(W)
  BY <1>4, HalvesCount
<1>6. \A w \in W : key[w] \in S
  BY <1>2 DEF HalvesOf
<1>7. \A f \in S : g[f] = Cardinality(Keyed(W, key, f))
  <2> SUFFICES ASSUME NEW f \in S PROVE g[f] = Cardinality(Keyed(W, key, f))
    OBVIOUS
  <2> DEFINE M == OfFormat(p, f)
  <2>1. M \in SUBSET Judged(p) /\ M \in SUBSET LiveMatches /\ (M # {} => t \in Teams)
    BY <1>4 DEF OfFormat
  <2>2. Keyed(W, key, f) = HalvesOf(M, t)
    BY DEF Keyed, HalvesOf, OfFormat
  <2>3. Ended(p, M, "won") = Won(M, t) /\ Ended(p, M, "tied") = Won(M, NoTeam)
    <3> HIDE DEF M
    <3> QED
      BY <2>1, EndedAre DEF Won
  <2>4. split[f].wins = Cardinality(Won(M, t)) /\ split[f].ties = Cardinality(Won(M, NoTeam))
    <3>1. split[f] = Record(p, M)
      BY <1>2
    <3> HIDE DEF split, M, t
    <3> QED
      BY <2>3, <3>1 DEF Record, t
  <2>5. Cardinality(HalvesOf(M, t)) = PointsFor(Cardinality(Won(M, t)), Cardinality(Won(M, NoTeam)))
    <3> HIDE DEF M, t
    <3> QED
      BY <2>1, HalvesCount
  <2>6. g[f] = PointsFor(split[f].wins, split[f].ties)
    <3> HIDE DEF split
    <3> QED
      OBVIOUS
  <2> HIDE DEF M, t, W, key, g, split, S
  <2> QED
    BY <2>2, <2>4, <2>5, <2>6
<1>8. \A h : h = After(h) <=> Summing(h, g, S)
  <2>1. \A s \in SUBSET S : s # {} =>
           g[Pick(s)] = PointsFor(split[CHOOSE x \in s : TRUE].wins,
                                  split[CHOOSE x \in s : TRUE].ties)
    <3> HIDE DEF split
    <3> QED
      BY DEF Pick
  <2> HIDE DEF g, split
  <2> QED
    BY <2>1 DEF Summing, Pick
<1> HIDE DEF split, J, S, t, W, key, g
<1>9. /\ \E h : Summing(h, g, S)
      /\ \A h : Summing(h, g, S) => h[S] = Cardinality(W)
  BY <1>3, <1>5, <1>6, <1>7, Tally
<1> HIDE DEF After
<1>10. it = After(it)
  BY <1>8, <1>9
<1> HIDE DEF it
<1>11. it[S] = Cardinality(W)
  BY <1>8, <1>9, <1>10
<1> QED
  BY <1>1, <1>4, <1>11

LEMMA SplitsOfTheCards == BookInv => SplitsAddUp
  BY SplitByFormat, SplitByCloseness, PointsByFormat DEF SplitsAddUp

(***************************************************************************)
(* A page agrees with itself, whoever's it is: the splits by format and by *)
(* closeness each add up to the career record, the points of the formats   *)
(* to the points of her cups, and no match that ended early was halved     *)
(* (PlayerStats, PlayerRecordByCloseness).                                 *)
(***************************************************************************)
THEOREM PagesAddUp == Spec => []SplitsAddUp
  BY BookInvariant, SplitsOfTheCards, PTL
=============================================================================
