------------------------- MODULE ResultsViewProofs -------------------------
(***************************************************************************)
(* The results page, built from four reads with any writes in between, for *)
(* any matches, holes and players.                                         *)
(*                                                                         *)
(* EachResultWasCurrent is about the finished answer; ViewInv says what    *)
(* each read has in hand.  The lineup and the scores of a match are read   *)
(* apart, and the page shows it as unplayed when the lineup read had no    *)
(* two sides: BookInv, a match with scores has its lineup, is why it was   *)
(* unplayed at that moment.                                                *)
(***************************************************************************)
EXTENDS ResultsView, CupProofs

Stages == {"matches", "participants", "scores", "outcomes"}

ViewType ==
    /\ reading \in [next : Stages, matches : SUBSET Matches,
                    lineups : [Matches -> SUBSET Participants],
                    cards : [Matches -> SUBSET ScoreRows]]
    /\ DOMAIN witnessed = Matches /\ quiet \in BOOLEAN
    /\ reading.next # "matches" => answer = NoAnswer

\* What is in hand was a match's own at some moment of the request.
InHand ==
    \A m \in Matches :
        /\ reading.next # "matches" => ComputeStoredResult(scores[m]) \in witnessed[m]
        /\ reading.next = "outcomes" => ComputeStoredResult(reading.cards[m]) \in witnessed[m]
        /\ reading.next \in {"scores", "outcomes"} /\ ~TwoSides(reading.lineups[m])
              => UnplayedResult \in witnessed[m]

\* With no write since the request began it is the tables themselves.
StillTrue ==
    quiet =>
        /\ reading.next # "matches" => reading.matches = LiveMatches
        /\ reading.next \in {"scores", "outcomes"} => reading.lineups = lineup
        /\ reading.next = "outcomes" => reading.cards = scores

ViewInv ==
    /\ BookInv /\ ViewType /\ InHand /\ StillTrue
    /\ answer.served => DOMAIN answer.results \in SUBSET Matches
    /\ EachResultWasCurrent /\ AnswersAgreeWhenQuiet

-----------------------------------------------------------------------------
\* A match without two sides in its lineup has no scores.
LEMMA UnplayedWithoutSides ==
    ASSUME BookInv, NEW m \in Matches, ~TwoSides(lineup[m])
    PROVE  ComputeStoredResult(scores[m]) = UnplayedResult
<1>1. lineup[m] = {}
  BY DEF BookInv, LineupStands, LineupFits, TwoSides
<1>2. scores[m] = {}
  BY <1>1 DEF BookInv, ScoresNeedLineup
<1> QED
  BY <1>2, CardType DEF CardOf

LEMMA InitView == ViewInit => ViewInv
<1> SUFFICES ASSUME ViewInit PROVE ViewInv
  OBVIOUS
<1>1. BookInv
  BY InitBook DEF ViewInit
<1>2. /\ reading = [next |-> "matches", matches |-> {}, lineups |-> Nothing, cards |-> Nothing]
      /\ answer = NoAnswer /\ answer.served = FALSE /\ witnessed = Nothing /\ quiet = FALSE
  BY DEF ViewInit, Idle, NoAnswer
<1>3. reading.next = "matches"
  BY <1>2
<1>4. ViewType
  <2>1. /\ "matches" \in Stages /\ Nothing \in [Matches -> SUBSET Participants]
        /\ Nothing \in [Matches -> SUBSET ScoreRows] /\ DOMAIN Nothing = Matches
    BY DEF Stages, Nothing
  <2>2. reading \in [next : Stages, matches : SUBSET Matches,
                     lineups : [Matches -> SUBSET Participants],
                     cards : [Matches -> SUBSET ScoreRows]]
    BY <1>2, <2>1
  <2> QED
    BY <1>2, <1>3, <2>1, <2>2 DEF ViewType
<1>5. InHand /\ StillTrue
  BY <1>3 DEF InHand, StillTrue
<1> QED
  BY <1>1, <1>2, <1>4, <1>5 DEF ViewInv, EachResultWasCurrent, AnswersAgreeWhenQuiet

\* A write adds what it makes of each match to what has been.
LEMMA WriteStep == ASSUME ViewInv, Write PROVE ViewInv'
<1>1. BookInv'
  BY NextBook DEF ViewInv, Write
<1>2. /\ reading' = reading /\ answer' = answer
      /\ reading.next = "matches" => witnessed' = witnessed /\ quiet' = quiet
      /\ reading.next # "matches" =>
            /\ quiet' = FALSE
            /\ witnessed' = [m \in Matches |->
                                witnessed[m] \cup {ComputeStoredResult(scores'[m])}]
  BY DEF Write, view, history
<1>3. ViewType' /\ InHand' /\ StillTrue'
  <2>1. CASE reading.next = "matches"
    BY <1>2, <2>1 DEF ViewInv, ViewType, InHand, StillTrue
  <2>2. CASE reading.next # "matches"
    BY <1>2, <2>2 DEF ViewInv, ViewType, InHand, StillTrue
  <2> QED
    BY <2>1, <2>2
<1>4. /\ answer'.served => DOMAIN answer'.results \in SUBSET Matches
      /\ EachResultWasCurrent' /\ AnswersAgreeWhenQuiet'
  <2>1. CASE reading.next = "matches"
    BY <1>2, <2>1 DEF ViewInv, EachResultWasCurrent, AnswersAgreeWhenQuiet
  <2>2. CASE reading.next # "matches"
    <3>1. answer'.served = FALSE
      BY <1>2, <2>2 DEF ViewInv, ViewType, NoAnswer
    <3> QED
      BY <3>1 DEF EachResultWasCurrent, AnswersAgreeWhenQuiet
  <2> QED
    BY <2>1, <2>2
<1> QED
  BY <1>1, <1>3, <1>4 DEF ViewInv

LEMMA ReadStep ==
    ASSUME ViewInv, ReadMatches \/ ReadParticipants \/ ReadScores
    PROVE  ViewInv'
<1>1. BookInv' /\ (BookInv /\ UNCHANGED tables)
  <2>1. UNCHANGED tables
    BY DEF ReadMatches, ReadParticipants, ReadScores
  <2> QED
    BY <2>1, NextBook DEF ViewInv
<1>2. scores' = scores /\ lineup' = lineup /\ match' = match /\ LiveMatches' = LiveMatches
  BY <1>1 DEF tables, LiveMatches, Live
<1>3. answer' = NoAnswer
  BY DEF ReadMatches, ReadParticipants, ReadScores, ViewInv, ViewType
<1>4. CASE ReadMatches
  <2>1. /\ reading' = [reading EXCEPT !.next = "participants", !.matches = LiveMatches]
        /\ witnessed' = [m \in Matches |-> {ComputeStoredResult(scores[m])}] /\ quiet' = TRUE
    BY <1>4 DEF ReadMatches, LiveMatches
  <2>2. ViewType'
    BY <1>3, <2>1 DEF ViewInv, ViewType, Stages, LiveMatches
  <2>3. reading'.next = "participants" /\ reading'.matches = LiveMatches
    BY <2>1 DEF ViewInv, ViewType
  <2>4. InHand' /\ StillTrue'
    BY <1>2, <2>1, <2>3 DEF InHand, StillTrue
  <2> QED
    BY <1>1, <1>3, <2>2, <2>4 DEF ViewInv, EachResultWasCurrent, AnswersAgreeWhenQuiet, NoAnswer
<1>5. CASE ReadParticipants
  <2>1. /\ reading.next = "participants" /\ witnessed' = witnessed /\ quiet' = quiet
        /\ reading' = [reading EXCEPT !.next = "scores", !.lineups = lineup]
    BY <1>5 DEF ReadParticipants, history
  <2>2. /\ reading'.next = "scores" /\ reading'.lineups = lineup
        /\ reading'.matches = reading.matches
    BY <2>1 DEF ViewInv, ViewType
  <2>3. ViewType'
    BY <1>3, <2>1 DEF ViewInv, ViewType, Stages, BookInv, BookType
  <2>4. InHand'
    BY <1>1, <1>2, <2>1, <2>2, UnplayedWithoutSides DEF ViewInv, InHand
  <2>5. StillTrue'
    BY <1>2, <2>1, <2>2 DEF ViewInv, StillTrue
  <2> QED
    BY <1>1, <1>3, <2>3, <2>4, <2>5 DEF ViewInv, EachResultWasCurrent, AnswersAgreeWhenQuiet, NoAnswer
<1>6. CASE ReadScores
  <2>1. /\ reading.next = "scores" /\ witnessed' = witnessed /\ quiet' = quiet
        /\ reading' = [reading EXCEPT !.next = "outcomes", !.cards = scores]
    BY <1>6 DEF ReadScores, history
  <2>2. /\ reading'.next = "outcomes" /\ reading'.cards = scores
        /\ reading'.matches = reading.matches /\ reading'.lineups = reading.lineups
    BY <2>1 DEF ViewInv, ViewType
  <2>3. ViewType'
    BY <1>3, <2>1 DEF ViewInv, ViewType, Stages, BookInv, BookType
  <2>4. InHand'
    BY <1>2, <2>1, <2>2 DEF ViewInv, InHand
  <2>5. StillTrue'
    BY <1>2, <2>1, <2>2 DEF ViewInv, StillTrue
  <2> QED
    BY <1>1, <1>3, <2>3, <2>4, <2>5 DEF ViewInv, EachResultWasCurrent, AnswersAgreeWhenQuiet, NoAnswer
<1> QED
  BY <1>4, <1>5, <1>6

\* The answer: each result was current, and with no write it is the cards'.
LEMMA AnswerStep == ASSUME ViewInv, Answer PROVE ViewInv'
<1> DEFINE results == [m \in reading.matches |->
                          BuildMatchResult(reading.lineups[m], reading.cards[m])]
           phase == ComputePhase(Outcomes)
<1>1. /\ reading.next = "outcomes" /\ UNCHANGED tables
      /\ witnessed' = witnessed /\ quiet' = quiet
      /\ reading' = [next |-> "matches", matches |-> {}, lineups |-> Nothing, cards |-> Nothing]
      /\ answer'.served = TRUE /\ answer'.results = results /\ answer'.phase = phase
  BY DEF Answer, history, Idle
<1>2. BookInv'
  BY <1>1, NextBook DEF ViewInv
<1>3. ViewType' /\ InHand' /\ StillTrue'
  BY <1>1 DEF ViewInv, ViewType, Stages, Nothing, InHand, StillTrue
<1>4. reading.matches \in SUBSET Matches /\ DOMAIN results = reading.matches
  BY DEF ViewInv, ViewType
<1>5. \A m \in reading.matches : results[m] \in witnessed[m]
  BY <1>1, <1>4 DEF ViewInv, InHand, BuildMatchResult
<1>6. ASSUME quiet
      PROVE  /\ phase = "finished" <=> /\ DOMAIN results # {}
                                       /\ \A m \in DOMAIN results : results[m].finished
             /\ phase = "upcoming" => \A m \in DOMAIN results : results[m] = UnplayedResult
  <2>1. reading.matches = LiveMatches /\ reading.lineups = lineup /\ reading.cards = scores
    BY <1>1, <1>6 DEF ViewInv, StillTrue
  <2>2. ASSUME NEW m \in LiveMatches
        PROVE  /\ results[m] = ComputeStoredResult(scores[m])
               /\ results[m].finished = Over(m)
               /\ scores[m] = {} => results[m] = UnplayedResult
    <3>1. m \in Matches /\ results[m] = BuildMatchResult(lineup[m], scores[m])
      BY <2>1 DEF LiveMatches
    <3>2. results[m] = ComputeStoredResult(scores[m])
      BY <3>1, UnplayedWithoutSides DEF BuildMatchResult, ViewInv
    <3> HIDE DEF results
    <3> QED
      BY <3>1, <3>2, CardType DEF Over, CardOf, ViewInv
  <2>3. /\ phase = "upcoming" <=> \A m \in LiveMatches : scores[m] = {}
        /\ phase = "finished" <=> LiveMatches # {} /\ \A m \in LiveMatches : Over(m)
    BY PhaseOfTheCards DEF ViewInv, PhaseFollowsTheCards, LiveMatches
  <2>4. DOMAIN results = LiveMatches
    BY <1>4, <2>1
  <2> HIDE DEF results, phase
  <2> QED
    BY <2>2, <2>3, <2>4
<1> HIDE DEF results, phase
<1> QED
  BY <1>1, <1>2, <1>3, <1>4, <1>5, <1>6 DEF ViewInv, EachResultWasCurrent, AnswersAgreeWhenQuiet

LEMMA ViewInvariant == ViewSpec => []ViewInv
<1>1. ViewInv /\ [ViewNext]_vars => ViewInv'
  <2> SUFFICES ASSUME ViewInv, [ViewNext]_vars PROVE ViewInv'
    OBVIOUS
  <2>1. CASE UNCHANGED vars
    <3>1. /\ UNCHANGED tables /\ UNCHANGED view /\ UNCHANGED history
      BY <2>1 DEF vars
    <3>2. BookInv' /\ LiveMatches' = LiveMatches
      BY <3>1, NextBook DEF ViewInv, tables, LiveMatches, Live
    <3> QED
      BY <3>1, <3>2 DEF ViewInv, ViewType, InHand, StillTrue, EachResultWasCurrent,
                        AnswersAgreeWhenQuiet, tables, view, history
  <2> QED
    BY <2>1, WriteStep, ReadStep, AnswerStep DEF ViewNext
<1> QED
  BY <1>1, InitView, PTL DEF ViewSpec

(***************************************************************************)
(* Every outcome on the results page was its match's own at some moment of *)
(* the request, whatever was written between its reads.                    *)
(***************************************************************************)
THEOREM ResultsWereCurrent == ViewSpec => []EachResultWasCurrent
<1>1. ViewInv => EachResultWasCurrent
  BY DEF ViewInv
<1> QED
  BY <1>1, ViewInvariant, PTL

(***************************************************************************)
(* With no write during the request the page and the phase beside it tell  *)
(* one story, although one is computed from the scores and the other read  *)
(* from the stored outcomes.                                               *)
(***************************************************************************)
THEOREM QuietAnswersAgree == ViewSpec => []AnswersAgreeWhenQuiet
<1>1. ViewInv => AnswersAgreeWhenQuiet
  BY DEF ViewInv
<1> QED
  BY <1>1, ViewInvariant, PTL
=============================================================================
