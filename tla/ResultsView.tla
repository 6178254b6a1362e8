---------------------------- MODULE ResultsView ----------------------------
(***************************************************************************)
(* GET /tournaments/{id}/results while the matches move.                   *)
(*                                                                         *)
(* ListResults reads the matches, their participants, their scores and     *)
(* their stored outcomes in four transactions, and the handler picks how   *)
(* long the edge may keep the answer from the phase the last one gives.    *)
(* Between any two of them a write of MatchBook may commit: the view is    *)
(* built from four moments, and the properties say what it still promises. *)
(***************************************************************************)
EXTENDS Cup

VARIABLES
    reading,    \* the request: the next read, and what the earlier ones returned
    answer,     \* the last response, or NoAnswer while the next one is built
    witnessed,  \* history: every outcome a match has had since the request began
    quiet       \* history: no write has committed since the request began

view == <<reading, answer>>
history == <<witnessed, quiet>>
vars == <<tables, view, history>>

NoAnswer == [served |-> FALSE]

Nothing == [m \in Matches |-> {}]
Idle == [next |-> "matches", matches |-> {}, lineups |-> Nothing, cards |-> Nothing]

\* buildMatchResult: with fewer than two sides the match reads as unplayed.
BuildMatchResult(sides, rows) ==
    IF TwoSides(sides) THEN ComputeStoredResult(rows) ELSE UnplayedResult

\* cacheByPhase, in seconds; an upcoming cup keeps the default.
MaxAge(phase) ==
    CASE phase = "live" -> 0
      [] phase = "finished" -> 3600
      [] OTHER -> 60

ReadMatches ==
    /\ reading.next = "matches"
    /\ reading' = [reading EXCEPT !.next = "participants",
                                  !.matches = {m \in Matches : Live(m)}]
    /\ answer' = NoAnswer
    /\ witnessed' = [m \in Matches |-> {ComputeStoredResult(scores[m])}]
    /\ quiet' = TRUE
    /\ UNCHANGED tables

ReadParticipants ==
    /\ reading.next = "participants"
    /\ reading' = [reading EXCEPT !.next = "scores", !.lineups = lineup]
    /\ UNCHANGED <<tables, answer, history>>

ReadScores ==
    /\ reading.next = "scores"
    /\ reading' = [reading EXCEPT !.next = "outcomes", !.cards = scores]
    /\ UNCHANGED <<tables, answer, history>>

\* The stored outcomes, then the response: built from the four reads in hand.
Answer ==
    /\ reading.next = "outcomes"
    /\ answer' = [served |-> TRUE,
                  results |-> [m \in reading.matches |->
                                  BuildMatchResult(reading.lineups[m], reading.cards[m])],
                  phase |-> ComputePhase(Outcomes),
                  maxAge |-> MaxAge(ComputePhase(Outcomes))]
    /\ reading' = Idle
    /\ UNCHANGED <<tables, history>>

\* A match write commits, whatever the request is doing.
Write ==
    /\ Next
    /\ IF reading.next = "matches" THEN UNCHANGED history
       ELSE /\ quiet' = FALSE
            /\ witnessed' = [m \in Matches |->
                                witnessed[m] \cup {ComputeStoredResult(scores'[m])}]
    /\ UNCHANGED view

ViewInit ==
    /\ Init
    /\ reading = Idle
    /\ answer = NoAnswer
    /\ witnessed = Nothing
    /\ quiet = FALSE

ViewNext == Write \/ ReadMatches \/ ReadParticipants \/ ReadScores \/ Answer

ViewSpec == ViewInit /\ [][ViewNext]_vars

-----------------------------------------------------------------------------
(***************************************************************************)
(* Every outcome in the answer was the match's own at some moment of the   *)
(* request, although its lineup and its scores were read apart: no reader  *)
(* sees a match as unplayed that was scored throughout, nor a score card   *)
(* that never was (ListResults, buildMatchResult).  It needs a lineup that *)
(* cannot change under scores.                                             *)
(***************************************************************************)
EachResultWasCurrent ==
    answer.served => \A m \in DOMAIN answer.results : answer.results[m] \in witnessed[m]

(***************************************************************************)
(* With no write during the request the two sources agree: the phase of    *)
(* the stored outcomes is finished exactly when every result shown is, and *)
(* nothing is shown played in a cup it calls upcoming.  (A cup may be live *)
(* and show nothing: one side's scores start a match and play no hole.)    *)
(***************************************************************************)
AnswersAgreeWhenQuiet ==
    answer.served /\ quiet =>
        /\ answer.phase = "finished" <=>
               /\ DOMAIN answer.results # {}
               /\ \A m \in DOMAIN answer.results : answer.results[m].finished
        /\ answer.phase = "upcoming" =>
               \A m \in DOMAIN answer.results : answer.results[m] = UnplayedResult

(***************************************************************************)
(* The hour is for "a finished cup" and "a cup being played is exempt"     *)
(* (cache.go): an answer the edge keeps that long shows every match        *)
(* finished.                                                               *)
(***************************************************************************)
SettledAnswerIsSettled ==
    answer.served /\ answer.maxAge = 3600 =>
        \A m \in DOMAIN answer.results : answer.results[m].finished
=============================================================================
