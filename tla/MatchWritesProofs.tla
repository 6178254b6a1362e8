------------------------- MODULE MatchWritesProofs -------------------------
(***************************************************************************)
(* For any number of requests, matches, holes and players, any submissions *)
(* and lineups, and any clock: the tables are well typed and every stored  *)
(* result is the outcome of its match's scores.                            *)
(*                                                                         *)
(* ResultInSync is not inductive: a submission writes the result it        *)
(* computed some steps earlier.  IInv adds what makes that sound: it holds *)
(* the match's lock from before it read the scores until it commits        *)
(* (LockHeld), so what it computed is still current (WrittenIsCurrent).    *)
(*                                                                         *)
(* The second half, from BookInv on, is the refinement of MatchBook.       *)
(***************************************************************************)
EXTENDS MatchWrites, MatchPlayProofs

-----------------------------------------------------------------------------
(* The rules of MatchData. *)

LEMMA RowsOnTheCard ==
    ASSUME NEW rows \in SUBSET ScoreRows
    PROVE  OnTheCard(rows)
  BY DEF ScoreRows, OnTheCard

\* A hole's upsert leaves rows, and at least one.
LEMMA UpsertType ==
    ASSUME NEW rows \in SUBSET ScoreRows, NEW hole \in Holes,
           NEW entries \in Submissions, NEW tee \in TeeSets
    PROVE  /\ UpsertScores(rows, hole, entries, tee) \in SUBSET ScoreRows
           /\ UpsertScores(rows, hole, entries, tee) # {}
<1>1. entries # {} /\ entries \in SUBSET ScoreEntries
  BY RequestsAssumption DEF ValidSubmission
<1>2. ASSUME NEW e \in entries
      PROVE  WrittenRow(rows, hole, e, tee) \in ScoreRows
  <2>1. e \in [who : Competitors, team : Teams, strokes : Nat \ {0}]
    BY <1>1 DEF ScoreEntries
  <2>2. CASE Corrects(rows, hole, e)
    <3> DEFINE old == CHOOSE r \in rows : SameKey(r, hole, e)
    <3>1. old \in ScoreRows
      BY <2>2 DEF Corrects
    <3>2. WrittenRow(rows, hole, e, tee) = [old EXCEPT !.strokes = e.strokes]
      BY <2>2 DEF WrittenRow
    <3> HIDE DEF old
    <3> QED
      BY <2>1, <3>1, <3>2 DEF ScoreRows
  <2>3. CASE ~Corrects(rows, hole, e)
    BY <2>1, <2>3 DEF WrittenRow, ScoreRows
  <2> QED
    BY <2>2, <2>3
<1> QED
  BY <1>1, <1>2 DEF UpsertScores

\* So the outcome of a hole's upsert is a result, and what ResultOf asks for.
LEMMA UpsertResult ==
    ASSUME NEW rows \in SUBSET ScoreRows, NEW hole \in Holes,
           NEW entries \in Submissions, NEW tee \in TeeSets
    PROVE  LET after == UpsertScores(rows, hole, entries, tee)
           IN  /\ ComputeStoredResult(after) \in Results
               /\ ResultOf(after) = ComputeStoredResult(after)
  BY UpsertType, RowsOnTheCard, StoredResultType DEF ResultOf

LEMMA UpdatedType ==
    ASSUME NEW row \in MatchRows, NEW u \in Updates
    PROVE  Updated(row, u) \in MatchRows
  BY DEF Updated, Updates, MatchRows

\* What a request of each kind carries.
LEMMA RequestFields ==
    ASSUME NEW r \in Requests
    PROVE  /\ r.m \in Matches
           /\ r.op = "submit" => r.hole \in Holes /\ r.entries \in Submissions
           /\ r.op = "update" => r.update \in Updates
           /\ r.op = "lineup" => r.entries \in Lineups
  BY DEF Requests

LEMMA LineupType ==
    ASSUME NEW entries \in Lineups
    PROVE  entries \in SUBSET Participants
  BY RequestsAssumption DEF ValidLineup
-----------------------------------------------------------------------------
(* The inductive invariant. *)

LEMMA InitIInv == Init => IInv
<1> SUFFICES ASSUME Init PROVE IInv
  OBVIOUS
<1>1. TypeOK
  BY ClientsAssumption DEF Init, TypeOK, Stages
<1>2. RequestKnown /\ LockHeld /\ WrittenIsCurrent /\ ResultInSync
  BY DEF Init, RequestKnown, LockHeld, WrittenIsCurrent, At, ResultInSync, ResultOf
<1> QED
  BY <1>1, <1>2 DEF IInv

\* Answering one client leaves the others as they were, and their locks.
LEMMA AnswerStep ==
    ASSUME IInv, NEW c \in Clients, Answer(c)
    PROVE  /\ lockedBy' \in [Matches -> Clients \cup {NoClient}]
           /\ now' \in 0..MaxNow
           /\ pc' \in [Clients -> Stages]
           /\ req' \in [Clients -> Requests \cup {NoRequest}]
           /\ seen' \in [Clients -> MatchRows \cup {NoRow}]
           /\ written' \in [Clients -> Results \cup {NoResult}]
           /\ RequestKnown'
           /\ pc'[c] = "idle"
           /\ \A d \in Clients \ {c} : /\ pc'[d] = pc[d] /\ req'[d] = req[d]
                                       /\ seen'[d] = seen[d] /\ written'[d] = written[d]
           /\ \A m \in Matches : lockedBy[m] # c => lockedBy'[m] = lockedBy[m]
<1>1. /\ lockedBy \in [Matches -> Clients \cup {NoClient}]
      /\ now' \in 0..MaxNow
      /\ pc' \in [Clients -> Stages]
      /\ req' \in [Clients -> Requests \cup {NoRequest}]
      /\ seen' \in [Clients -> MatchRows \cup {NoRow}]
      /\ written' \in [Clients -> Results \cup {NoResult}]
  BY DEF IInv, TypeOK, Answer, Stages
<1>2. lockedBy' \in [Matches -> Clients \cup {NoClient}]
  BY <1>1 DEF Answer, Unlocked
<1>3. \A m \in Matches : lockedBy[m] # c => lockedBy'[m] = lockedBy[m]
  BY DEF Answer, Unlocked
<1>4. /\ pc'[c] = "idle"
      /\ \A d \in Clients \ {c} : /\ pc'[d] = pc[d] /\ req'[d] = req[d]
                                  /\ seen'[d] = seen[d] /\ written'[d] = written[d]
  BY DEF IInv, TypeOK, Answer
<1>5. RequestKnown'
  BY <1>4 DEF IInv, RequestKnown
<1> QED
  BY <1>1, <1>2, <1>3, <1>4, <1>5

\* A commit that moves only the match its client has locked, and leaves its
\* result in step with its scores, keeps the invariant.
LEMMA CommitStep ==
    ASSUME IInv, NEW c \in Clients, Answer(c),
           NEW k \in Matches, lockedBy[k] = c,
           match' \in [Matches -> MatchRows \cup {Unborn, Deleted}],
           lineup' \in [Matches -> SUBSET Participants],
           scores' \in [Matches -> SUBSET ScoreRows],
           result' \in [Matches -> Results \cup {NoResult}],
           \A m \in Matches \ {k} : /\ match'[m] = match[m] /\ scores'[m] = scores[m]
                                    /\ result'[m] = result[m],
           result'[k] = ResultOf(scores'[k])
    PROVE  IInv'
<1>1. TypeOK' /\ RequestKnown'
  BY AnswerStep DEF TypeOK
<1>2. ASSUME NEW d \in Clients, pc'[d] \in {"locked", "checked"}
      PROVE  /\ d # c /\ pc'[d] = pc[d] /\ req'[d] = req[d]
             /\ seen'[d] = seen[d] /\ written'[d] = written[d]
             /\ req[d].m \in Matches \ {k}
             /\ lockedBy[req[d].m] = d
  <2>1. /\ d # c /\ pc'[d] = pc[d] /\ req'[d] = req[d]
        /\ seen'[d] = seen[d] /\ written'[d] = written[d]
    BY <1>2, AnswerStep
  <2>2. lockedBy[req[d].m] = d
    BY <1>2, <2>1 DEF IInv, LockHeld
  <2>3. req[d] \in Requests
    BY <1>2, <2>1 DEF IInv, RequestKnown
  <2> QED
    BY <2>1, <2>2, <2>3, RequestFields
<1>3. LockHeld'
  <2> SUFFICES ASSUME NEW d \in Clients, pc'[d] \in {"locked", "checked"}
               PROVE  lockedBy'[req'[d].m] = d /\ match'[req'[d].m] \notin {Unborn, Deleted}
    BY DEF LockHeld, Live
  <2>1. lockedBy'[req[d].m] = d
    BY <1>2, AnswerStep
  <2>2. Live(req[d].m) /\ match'[req[d].m] = match[req[d].m]
    BY <1>2 DEF IInv, LockHeld
  <2> QED
    BY <1>2, <2>1, <2>2 DEF Live
<1>4. WrittenIsCurrent'
  <2> SUFFICES ASSUME NEW d \in Clients, At(d, "checked", {"submit"})'
               PROVE  written'[d] = ComputeStoredResult(UpsertScores(
                          scores'[req'[d].m], req'[d].hole, req'[d].entries, seen'[d].tee))
    BY DEF WrittenIsCurrent
  <2>1. At(d, "checked", {"submit"})
    BY <1>2 DEF At
  <2>2. scores'[req[d].m] = scores[req[d].m]
    BY <1>2 DEF At
  <2> QED
    BY <1>2, <2>1, <2>2 DEF IInv, WrittenIsCurrent, At
<1>5. ResultInSync'
  BY DEF IInv, ResultInSync
<1> QED
  BY <1>1, <1>3, <1>4, <1>5 DEF IInv

\* A refusal or a rollback keeps the invariant.
LEMMA RefuseStep ==
    ASSUME IInv, NEW c \in Clients, Refuse(c)
    PROVE  IInv'
<1> USE DEF Refuse, tables
<1>1. TypeOK' /\ RequestKnown'
  BY AnswerStep DEF IInv, TypeOK
<1>2. ASSUME NEW d \in Clients, pc'[d] \in {"locked", "checked"}
      PROVE  /\ pc'[d] = pc[d] /\ req'[d] = req[d]
             /\ seen'[d] = seen[d] /\ written'[d] = written[d]
             /\ lockedBy[req[d].m] = d /\ lockedBy'[req[d].m] = d
             /\ Live(req[d].m)
  <2>1. /\ d # c /\ pc'[d] = pc[d] /\ req'[d] = req[d]
        /\ seen'[d] = seen[d] /\ written'[d] = written[d]
    BY <1>2, AnswerStep
  <2>2. lockedBy[req[d].m] = d /\ Live(req[d].m)
    BY <1>2, <2>1 DEF IInv, LockHeld
  <2>3. req[d].m \in Matches
    BY <1>2, <2>1, RequestFields DEF IInv, RequestKnown
  <2> QED
    BY <2>1, <2>2, <2>3, AnswerStep
<1>3. LockHeld'
  BY <1>2 DEF LockHeld, Live
<1>4. WrittenIsCurrent'
  BY <1>2 DEF IInv, WrittenIsCurrent, At
<1>5. ResultInSync'
  BY DEF IInv, ResultInSync
<1> QED
  BY <1>1, <1>3, <1>4, <1>5 DEF IInv
\* Moving one client on, with the tables and the requests as they are, keeps the
\* invariant if what it now claims is so: that its match is locked by it, and what
\* it has written.  Locks move only to hand it a free one.
LEMMA AdvanceStep ==
    ASSUME IInv, NEW c \in Clients, NEW stage \in Stages,
           pc[c] # "idle", req[c] \in Requests, Advance(c, stage),
           lockedBy' \in [Matches -> Clients \cup {NoClient}],
           seen' \in [Clients -> MatchRows \cup {NoRow}],
           written' \in [Clients -> Results \cup {NoResult}],
           \A m \in Matches : lockedBy[m] # NoClient => lockedBy'[m] = lockedBy[m],
           \A d \in Clients \ {c} : seen'[d] = seen[d] /\ written'[d] = written[d],
           req[c].op = "submit" => seen'[c] \in MatchRows,
           stage \in {"locked", "checked"} => lockedBy'[req[c].m] = c /\ Live(req[c].m),
           stage = "checked" /\ req[c].op = "submit" =>
               written'[c] = ComputeStoredResult(
                   UpsertScores(scores[req[c].m], req[c].hole, req[c].entries, seen'[c].tee))
    PROVE  IInv'
<1> USE DEF Advance, tables
<1>1. TypeOK'
  BY DEF IInv, TypeOK
<1>2. /\ pc'[c] = stage
      /\ \A d \in Clients \ {c} : pc'[d] = pc[d]
  BY DEF IInv, TypeOK
<1>3. RequestKnown'
  BY <1>2 DEF IInv, RequestKnown
<1>4. LockHeld'
  <2> SUFFICES ASSUME NEW d \in Clients, pc'[d] \in {"locked", "checked"}
               PROVE  lockedBy'[req[d].m] = d /\ Live(req[d].m)
    BY DEF LockHeld, Live
  <2>1. CASE d = c
    BY <1>2, <2>1
  <2>2. CASE d # c
    <3>1. lockedBy[req[d].m] = d /\ Live(req[d].m) /\ req[d] \in Requests
      BY <1>2, <2>2 DEF IInv, LockHeld, RequestKnown
    <3> QED
      BY <3>1, RequestFields, ClientsAssumption
  <2> QED
    BY <2>1, <2>2
<1>5. WrittenIsCurrent'
  <2> SUFFICES ASSUME NEW d \in Clients, pc'[d] = "checked", req[d].op = "submit"
               PROVE  written'[d] = ComputeStoredResult(
                          UpsertScores(scores[req[d].m], req[d].hole, req[d].entries, seen'[d].tee))
    BY DEF WrittenIsCurrent, At
  <2>1. CASE d = c
    BY <1>2, <2>1
  <2>2. CASE d # c
    BY <1>2, <2>2 DEF IInv, WrittenIsCurrent, At
  <2> QED
    BY <2>1, <2>2
<1>6. ResultInSync'
  BY DEF IInv, ResultInSync
<1> QED
  BY <1>1, <1>3, <1>4, <1>5, <1>6 DEF IInv

\* The request of a client that is at some stage.
LEMMA AtRequest ==
    ASSUME IInv, NEW c \in Clients, pc[c] # "idle"
    PROVE  req[c] \in Requests /\ req[c].m \in Matches
  BY RequestFields DEF IInv, RequestKnown

-----------------------------------------------------------------------------
(* The steps before the commit. *)

LEMMA ReceiveStep ==
    ASSUME IInv, NEW c \in Clients, NEW r \in Requests, Receive(c, r)
    PROVE  IInv'
<1> USE DEF Receive, tables
<1>1. TypeOK'
  BY DEF IInv, TypeOK, Stages
<1>2. /\ pc'[c] \in {"received", "ready"} /\ req'[c] = r
      /\ pc'[c] # "received" => r.op # "submit"
      /\ \A d \in Clients \ {c} : pc'[d] = pc[d] /\ req'[d] = req[d]
  BY DEF IInv, TypeOK
<1>3. RequestKnown'
  BY <1>2 DEF IInv, RequestKnown
<1>4. LockHeld'
  BY <1>2 DEF IInv, LockHeld, Live
<1>5. WrittenIsCurrent'
  BY <1>2 DEF IInv, WrittenIsCurrent, At
<1>6. ResultInSync'
  BY DEF IInv, ResultInSync
<1> QED
  BY <1>1, <1>3, <1>4, <1>5, <1>6 DEF IInv

LEMMA ReadStep ==
    ASSUME IInv, NEW c \in Clients, GetMatch(c) \/ MatchTeams(c)
    PROVE  IInv'
<1>1. pc[c] # "idle" /\ req[c] \in Requests /\ req[c].m \in Matches
  BY AtRequest DEF GetMatch, MatchTeams, At
<1>2. CASE Refuse(c)
  BY <1>2, RefuseStep
<1>3. CASE GetMatch(c) /\ ~Refuse(c)
  <2>1. /\ Advance(c, "read") /\ seen' = [seen EXCEPT ![c] = match[req[c].m]]
        /\ Live(req[c].m) /\ UNCHANGED <<lockedBy, written>>
    BY <1>3 DEF GetMatch
  <2>2. match[req[c].m] \in MatchRows
    BY <1>1, <2>1 DEF IInv, TypeOK, Live
  <2> QED
    BY <1>1, <2>1, <2>2, AdvanceStep DEF IInv, TypeOK, Stages
<1>4. CASE MatchTeams(c) /\ ~Refuse(c)
  <2>1. Advance(c, "ready") /\ UNCHANGED <<lockedBy, seen, written>> /\ pc[c] = "read"
    BY <1>4 DEF MatchTeams, At
  <2>2. req[c].op = "submit" => seen'[c] \in MatchRows
    BY <2>1 DEF IInv, RequestKnown
  <2> QED
    BY <1>1, <2>1, <2>2, AdvanceStep DEF IInv, TypeOK, Stages
<1> QED
  BY <1>2, <1>3, <1>4

LEMMA LockMatchStep ==
    ASSUME IInv, NEW c \in Clients, LockMatch(c)
    PROVE  IInv'
<1>1. pc[c] = "ready" /\ req[c] \in Requests /\ req[c].m \in Matches
  BY AtRequest DEF LockMatch
<1>2. CASE Refuse(c)
  BY <1>2, RefuseStep
<1>3. CASE ~Refuse(c)
  <2>1. /\ Advance(c, "locked") /\ Live(req[c].m) /\ lockedBy[req[c].m] = NoClient
        /\ lockedBy' = [lockedBy EXCEPT ![req[c].m] = c]
        /\ UNCHANGED <<seen, written>>
    BY <1>3 DEF LockMatch, LockFree
  <2>2. req[c].op = "submit" => seen'[c] \in MatchRows
    BY <1>1, <2>1 DEF IInv, RequestKnown
  <2> QED
    BY <1>1, <2>1, <2>2, AdvanceStep DEF IInv, TypeOK, Stages
<1> QED
  BY <1>2, <1>3

LEMMA SaveScoresStep ==
    ASSUME IInv, NEW c \in Clients, SaveScores(c)
    PROVE  IInv'
<1>1. /\ pc[c] = "locked" /\ req[c].op = "submit"
      /\ req[c] \in Requests /\ req[c].m \in Matches
  BY AtRequest DEF SaveScores, At
<1>2. CASE Refuse(c)
  BY <1>2, RefuseStep
<1>3. CASE ~Refuse(c)
  <2> DEFINE outcome == ComputeStoredResult(
          UpsertScores(scores[req[c].m], req[c].hole, req[c].entries, seen[c].tee))
  <2>1. /\ Advance(c, "checked") /\ written' = [written EXCEPT ![c] = outcome]
        /\ UNCHANGED <<lockedBy, seen>>
    BY <1>3 DEF SaveScores
  <2>2. seen[c] \in MatchRows /\ lockedBy[req[c].m] = c /\ Live(req[c].m)
    BY <1>1 DEF IInv, RequestKnown, LockHeld
  <2>3. /\ scores[req[c].m] \in SUBSET ScoreRows /\ seen[c].tee \in TeeSets
        /\ req[c].hole \in Holes /\ req[c].entries \in Submissions
    BY <1>1, <2>2, RequestFields DEF IInv, TypeOK, MatchRows
  <2>4. outcome \in Results
    BY <2>3, UpsertResult
  <2>5. written'[c] = outcome
    BY <2>1 DEF IInv, TypeOK
  <2> HIDE DEF outcome
  <2>6. written' \in [Clients -> Results \cup {NoResult}]
    BY <2>1, <2>4 DEF IInv, TypeOK
  <2>7. written'[c] = ComputeStoredResult(
            UpsertScores(scores[req[c].m], req[c].hole, req[c].entries, seen'[c].tee))
    BY <2>1, <2>5 DEF outcome
  <2> QED
    BY <1>1, <2>1, <2>2, <2>6, <2>7, AdvanceStep DEF IInv, TypeOK, Stages
<1> QED
  BY <1>2, <1>3

LEMMA CheckStep ==
    ASSUME IInv, NEW c \in Clients, CheckUpdate(c) \/ CheckDelete(c) \/ CheckLineup(c)
    PROVE  IInv'
<1>1. /\ pc[c] = "locked" /\ req[c].op # "submit"
      /\ req[c] \in Requests /\ req[c].m \in Matches
  BY AtRequest DEF CheckUpdate, CheckDelete, CheckLineup, At
<1>2. CASE Refuse(c)
  BY <1>2, RefuseStep
<1>3. CASE ~Refuse(c)
  <2>1. Advance(c, "checked") /\ UNCHANGED <<lockedBy, seen, written>>
    BY <1>3 DEF CheckUpdate, CheckDelete, CheckLineup
  <2>2. lockedBy[req[c].m] = c /\ Live(req[c].m)
    BY <1>1 DEF IInv, LockHeld
  <2> QED
    BY <1>1, <2>1, <2>2, AdvanceStep DEF IInv, TypeOK, Stages
<1> QED
  BY <1>2, <1>3

-----------------------------------------------------------------------------
(* The commits. *)

LEMMA CommitScoresStep ==
    ASSUME IInv, NEW c \in Clients, CommitScores(c)
    PROVE  IInv'
<1> DEFINE k == req[c].m
           after == UpsertScores(scores[k], req[c].hole, req[c].entries, seen[c].tee)
<1>1. /\ pc[c] = "checked" /\ req[c].op = "submit"
      /\ req[c] \in Requests /\ k \in Matches
  BY AtRequest DEF CommitScores, At
<1>2. /\ lockedBy[k] = c /\ seen[c] \in MatchRows
      /\ written[c] = ComputeStoredResult(after)
  BY <1>1 DEF IInv, LockHeld, RequestKnown, WrittenIsCurrent, At
<1>3. /\ scores[k] \in SUBSET ScoreRows /\ seen[c].tee \in TeeSets
      /\ req[c].hole \in Holes /\ req[c].entries \in Submissions
  BY <1>1, <1>2, RequestFields DEF IInv, TypeOK, MatchRows
<1>4. after \in SUBSET ScoreRows /\ written[c] \in Results /\ written[c] = ResultOf(after)
  BY <1>2, <1>3, UpsertType, UpsertResult
<1>5. /\ scores' = [scores EXCEPT ![k] = after]
      /\ result' = [result EXCEPT ![k] = written[c]]
      /\ UNCHANGED <<match, lineup>> /\ Answer(c)
  BY DEF CommitScores
<1> HIDE DEF k, after
<1>6. /\ match' \in [Matches -> MatchRows \cup {Unborn, Deleted}]
      /\ lineup' \in [Matches -> SUBSET Participants]
      /\ scores' \in [Matches -> SUBSET ScoreRows]
      /\ result' \in [Matches -> Results \cup {NoResult}]
      /\ \A m \in Matches \ {k} : /\ match'[m] = match[m] /\ scores'[m] = scores[m]
                                  /\ result'[m] = result[m]
  BY <1>1, <1>4, <1>5 DEF IInv, TypeOK
<1>7. scores'[k] = after /\ result'[k] = written[c]
  BY <1>1, <1>5 DEF IInv, TypeOK
<1>8. result'[k] = ResultOf(scores'[k])
  BY <1>4, <1>7
<1> QED
  BY <1>1, <1>2, <1>5, <1>6, <1>8, CommitStep

\* Reset and delete leave no score and no result.
LEMMA ClearStep ==
    ASSUME IInv, NEW c \in Clients, ResetMatch(c) \/ DeleteMatch(c)
    PROVE  IInv'
<1> DEFINE k == req[c].m
<1>1. pc[c] \in {"locked", "checked"} /\ req[c] \in Requests /\ k \in Matches
  BY AtRequest DEF ResetMatch, DeleteMatch, At
<1>2. lockedBy[k] = c
  BY <1>1 DEF IInv, LockHeld
<1>3. /\ scores' = [scores EXCEPT ![k] = {}] /\ result' = [result EXCEPT ![k] = NoResult]
      /\ match' \in {match, [match EXCEPT ![k] = Deleted]}
      /\ lineup' \in {lineup, [lineup EXCEPT ![k] = {}]}
      /\ Answer(c)
  BY DEF ResetMatch, DeleteMatch
<1> HIDE DEF k
<1>4. /\ match' \in [Matches -> MatchRows \cup {Unborn, Deleted}]
      /\ lineup' \in [Matches -> SUBSET Participants]
      /\ scores' \in [Matches -> SUBSET ScoreRows]
      /\ result' \in [Matches -> Results \cup {NoResult}]
      /\ \A m \in Matches \ {k} : /\ match'[m] = match[m] /\ scores'[m] = scores[m]
                                  /\ result'[m] = result[m]
  BY <1>1, <1>3 DEF IInv, TypeOK
<1>5. result'[k] = ResultOf(scores'[k])
  BY <1>1, <1>3 DEF IInv, TypeOK, ResultOf
<1> QED
  BY <1>1, <1>2, <1>3, <1>4, <1>5, CommitStep

\* An update and a lineup leave the scores and the result alone.
LEMMA SetupStep ==
    ASSUME IInv, NEW c \in Clients, UpdateMatch(c) \/ SetLineup(c)
    PROVE  IInv'
<1> DEFINE k == req[c].m
<1>1. pc[c] = "checked" /\ req[c] \in Requests /\ k \in Matches
  BY AtRequest DEF UpdateMatch, SetLineup, At
<1>2. lockedBy[k] = c /\ match[k] \in MatchRows
  BY <1>1 DEF IInv, LockHeld, Live, TypeOK
<1>3. UNCHANGED <<scores, result>> /\ Answer(c)
  BY DEF UpdateMatch, SetLineup
<1>4. /\ match' \in [Matches -> MatchRows \cup {Unborn, Deleted}]
      /\ lineup' \in [Matches -> SUBSET Participants]
      /\ \A m \in Matches \ {k} : match'[m] = match[m]
  <2>1. CASE UpdateMatch(c)
    <3>1. Updated(match[k], req[c].update) \in MatchRows
      BY <1>1, <1>2, <2>1, RequestFields, UpdatedType DEF UpdateMatch, At
    <3> QED
      BY <1>1, <2>1, <3>1 DEF IInv, TypeOK, UpdateMatch
  <2>2. CASE SetLineup(c)
    <3>1. req[c].entries \in SUBSET Participants
      BY <1>1, <2>2, RequestFields, LineupType DEF SetLineup, At
    <3> QED
      BY <1>1, <2>2, <3>1 DEF IInv, TypeOK, SetLineup
  <2> QED
    BY <2>1, <2>2
<1>5. result'[k] = ResultOf(scores'[k])
  BY <1>1, <1>3 DEF IInv, ResultInSync
<1> HIDE DEF k
<1> QED
  BY <1>1, <1>2, <1>3, <1>4, <1>5, CommitStep DEF IInv, TypeOK

-----------------------------------------------------------------------------
(* The environment, and the theorems. *)

LEMMA CreateMatchStep ==
    ASSUME IInv, NEW m \in Matches, NEW row \in MatchRows, CreateMatch(m, row)
    PROVE  IInv'
<1> USE DEF CreateMatch
<1>1. TypeOK' /\ RequestKnown' /\ ResultInSync'
  BY DEF IInv, TypeOK, RequestKnown, ResultInSync
<1>2. \A k \in Matches : match[k] \notin {Unborn, Deleted} => match'[k] = match[k]
  BY DEF IInv, TypeOK
<1>3. LockHeld'
  <2> SUFFICES ASSUME NEW c \in Clients, pc[c] \in {"locked", "checked"}
               PROVE  lockedBy[req[c].m] = c /\ match'[req[c].m] \notin {Unborn, Deleted}
    BY DEF LockHeld, Live
  <2> QED
    BY <1>2, AtRequest DEF IInv, LockHeld, Live
<1>4. WrittenIsCurrent'
  BY DEF IInv, WrittenIsCurrent, At
<1> QED
  BY <1>1, <1>3, <1>4 DEF IInv

LEMMA TickStep ==
    ASSUME IInv, Tick
    PROVE  IInv'
<1>1. TypeOK'
  BY ClientsAssumption DEF IInv, TypeOK, Tick, tables
<1> QED
  BY <1>1 DEF IInv, Tick, tables, RequestKnown, LockHeld, Live, WrittenIsCurrent, At,
              ResultInSync

LEMMA NextIInv == IInv /\ [Next]_vars => IInv'
<1> SUFFICES ASSUME IInv, [Next]_vars PROVE IInv'
  OBVIOUS
<1>1. ASSUME NEW c \in Clients, Step(c)
      PROVE  IInv'
  BY <1>1, ReadStep, SaveScoresStep, CheckStep, CommitScoresStep, ClearStep, SetupStep
     DEF Step
<1>2. ASSUME NEW c \in Clients, Abort(c)
      PROVE  IInv'
  BY <1>2, RefuseStep DEF Abort
<1>3. CASE UNCHANGED vars
  BY <1>3 DEF IInv, vars, TypeOK, RequestKnown, LockHeld, Live, WrittenIsCurrent, At,
              ResultInSync
<1> QED
  BY <1>1, <1>2, <1>3, ReceiveStep, LockMatchStep, CreateMatchStep, TickStep DEF Next

(***************************************************************************)
(* The inductive invariant holds, and with it its parts.                   *)
(***************************************************************************)
THEOREM InductiveInvariant == Spec => []IInv
BY InitIInv, NextIInv, PTL DEF Spec

(***************************************************************************)
(* Every row the handlers leave has its table's shape.                     *)
(***************************************************************************)
THEOREM TypeCorrect == Spec => []TypeOK
<1>1. IInv => TypeOK
  BY DEF IInv
<1> QED
  BY <1>1, InductiveInvariant, PTL

(***************************************************************************)
(* However many submissions, resets and deletions overlap, match_results   *)
(* is the outcome of the scores beside it, and absent when there are none. *)
(***************************************************************************)
THEOREM ResultAlwaysInSync == Spec => []ResultInSync
<1>1. IInv => ResultInSync
  BY DEF IInv
<1> QED
  BY <1>1, InductiveInvariant, PTL

-----------------------------------------------------------------------------
(***************************************************************************)
(* MatchWrites implements MatchBook, for any number of requests, matches,  *)
(* holes and players: a request that reads, waits, checks and commits in   *)
(* steps of its own moves the tables as one atomic step on what they hold  *)
(* at its commit.                                                          *)
(*                                                                         *)
(* The argument is that a decision outlives the wait.  What a request      *)
(* checked under the match's lock still holds when it commits, because     *)
(* nobody else moves a locked match (ChecksStand).  What a submission read *)
(* before its lock may have moved, and only two things of it matter: that  *)
(* the match had a lineup, which it keeps until it is deleted (LineupSeen),*)
(* and the tee set its new rows name, which the composite key compares     *)
(* with the match's own.                                                   *)
(***************************************************************************)


-----------------------------------------------------------------------------
(* The inductive invariant. *)

\* A match's lineup is none or a whole one, and it is a match's.
LineupsFit ==
    \A m \in Matches : lineup[m] # {} =>
        Live(m) /\ LineupFits(lineup[m], match[m].perSide)

\* The match a submission goes on with had a lineup, and has it until it is gone.
LineupSeen ==
    \A c \in Clients : pc[c] \in {"ready", "locked", "checked"} /\ req[c].op = "submit" =>
        match[req[c].m] = Deleted \/ lineup[req[c].m] # {}

\* What a request found under its lock.
CheckHolds(c) ==
    LET m == req[c].m
    IN  /\ req[c].op = "submit" =>
              /\ GuardAllows(scores[m], req[c].hole)
              /\ ScoreKeysHold(scores[m], req[c].hole, req[c].entries,
                               seen[c].tee, match[m], lineup[m])
        /\ req[c].op = "update" /\ ChangesSetup(req[c].update, match[m]) => scores[m] = {}
        /\ req[c].op \in {"delete", "lineup"} => scores[m] = {}
        /\ req[c].op = "lineup" =>
              LineupFits(req[c].entries, match[m].perSide) /\ AllDrafted(req[c].entries)

ChecksStand == \A c \in Clients : pc[c] = "checked" => CheckHolds(c)

BookInv == IInv /\ LineupsFit /\ ScoredMatchIsWhole /\ LineupSeen /\ ChecksStand

-----------------------------------------------------------------------------
(* What each step moves. *)

\* The steps that commit nothing.
Quiet == UNCHANGED tables

Commit(c) ==
    CommitScores(c) \/ ResetMatch(c) \/ UpdateMatch(c) \/ DeleteMatch(c) \/ SetLineup(c)

LEMMA StepCases ==
    ASSUME [Next]_vars
    PROVE  \/ Quiet
           \/ \E c \in Clients : Commit(c)
           \/ \E m \in Matches, row \in MatchRows : CreateMatch(m, row)
<1>1. ASSUME NEW c \in Clients, Step(c) \/ LockMatch(c) \/ Abort(c) PROVE Quiet \/ Commit(c)
  BY <1>1 DEF Step, LockMatch, Abort, Refuse, Advance, GetMatch, MatchTeams, SaveScores,
              CheckUpdate, CheckDelete, CheckLineup, Quiet, Commit
<1>2. ASSUME NEW c \in Clients, NEW r \in Requests, Receive(c, r) PROVE Quiet
  BY <1>2 DEF Receive, Quiet
<1>3. Tick \/ UNCHANGED vars => Quiet
  BY DEF Tick, Quiet, vars, tables
<1> QED
  BY <1>1, <1>2, <1>3 DEF Next

\* Whoever commits holds the lock of the one match it moves, and it is there.
LEMMA Committer ==
    ASSUME IInv, NEW c \in Clients, Commit(c)
    PROVE  /\ pc[c] \in {"locked", "checked"}
           /\ req[c] \in Requests /\ req[c].m \in Matches
           /\ lockedBy[req[c].m] = c
           /\ Live(req[c].m) /\ match[req[c].m] \in MatchRows
           /\ Answer(c)
           /\ \A m \in Matches \ {req[c].m} :
                 /\ match'[m] = match[m] /\ lineup'[m] = lineup[m]
                 /\ scores'[m] = scores[m]
<1>1. pc[c] \in {"locked", "checked"} /\ Answer(c)
  BY DEF Commit, CommitScores, ResetMatch, UpdateMatch, DeleteMatch, SetLineup, At
<1>2. req[c] \in Requests /\ req[c].m \in Matches
  BY <1>1, AtRequest
<1>3. /\ lockedBy[req[c].m] = c /\ Live(req[c].m)
  BY <1>1 DEF IInv, LockHeld
<1>4. match[req[c].m] \in MatchRows
  BY <1>2, <1>3 DEF IInv, TypeOK, Live
<1>5. ASSUME NEW m \in Matches \ {req[c].m}
      PROVE  match'[m] = match[m] /\ lineup'[m] = lineup[m] /\ scores'[m] = scores[m]
  BY DEF Commit, CommitScores, ResetMatch, UpdateMatch, DeleteMatch, SetLineup, IInv, TypeOK
<1> QED
  BY <1>1, <1>2, <1>3, <1>4, <1>5

\* From its lock to its commit nobody moves a request's match.
LEMMA LockedStays ==
    ASSUME IInv, [Next]_vars, NEW d \in Clients,
           pc[d] \in {"locked", "checked"}, pc'[d] = "checked"
    PROVE  /\ req'[d] = req[d] /\ seen'[d] = seen[d]
           /\ match'[req[d].m] = match[req[d].m]
           /\ lineup'[req[d].m] = lineup[req[d].m]
           /\ scores'[req[d].m] = scores[req[d].m]
<1>1. /\ req[d] \in Requests /\ req[d].m \in Matches
      /\ lockedBy[req[d].m] = d /\ Live(req[d].m)
  BY AtRequest DEF IInv, LockHeld
<1>2. req'[d] = req[d] /\ seen'[d] = seen[d]
  <2>1. ASSUME NEW c \in Clients, Answer(c) PROVE req'[d] = req[d] /\ seen'[d] = seen[d]
    BY <2>1 DEF Answer, IInv, TypeOK
  <2>2. ASSUME NEW c \in Clients, Step(c) \/ LockMatch(c) \/ Abort(c), ~Answer(c)
        PROVE  req'[d] = req[d] /\ seen'[d] = seen[d]
    BY <2>2 DEF Step, LockMatch, Abort, Refuse, Advance, GetMatch, MatchTeams, SaveScores,
                CheckUpdate, CheckDelete, CheckLineup, CommitScores, ResetMatch,
                UpdateMatch, DeleteMatch, SetLineup, At, IInv, TypeOK
  <2>3. ASSUME NEW c \in Clients, NEW r \in Requests, Receive(c, r)
        PROVE  req'[d] = req[d] /\ seen'[d] = seen[d]
    BY <2>3 DEF Receive, IInv, TypeOK
  <2>4. ASSUME NEW m \in Matches, NEW row \in MatchRows, CreateMatch(m, row)
        PROVE  req'[d] = req[d] /\ seen'[d] = seen[d]
    BY <2>4 DEF CreateMatch
  <2>5. Tick \/ UNCHANGED vars => req'[d] = req[d] /\ seen'[d] = seen[d]
    BY DEF Tick, vars
  <2> QED
    BY <2>1, <2>2, <2>3, <2>4, <2>5 DEF Next
<1>3. CASE Quiet
  BY <1>2, <1>3 DEF Quiet, tables
<1>4. ASSUME NEW c \in Clients, Commit(c)
      PROVE  /\ match'[req[d].m] = match[req[d].m]
             /\ lineup'[req[d].m] = lineup[req[d].m]
             /\ scores'[req[d].m] = scores[req[d].m]
  <2>1. c # d
    BY <1>4, Committer DEF Answer, IInv, TypeOK
  <2> QED
    BY <1>1, <1>4, <2>1, Committer
<1>5. ASSUME NEW m \in Matches, NEW row \in MatchRows, CreateMatch(m, row)
      PROVE  /\ match'[req[d].m] = match[req[d].m]
             /\ lineup'[req[d].m] = lineup[req[d].m]
             /\ scores'[req[d].m] = scores[req[d].m]
  BY <1>1, <1>5 DEF CreateMatch, Live, IInv, TypeOK
<1> QED
  BY <1>2, <1>3, <1>4, <1>5, StepCases

-----------------------------------------------------------------------------
(* A decision outlives the wait. *)

LEMMA NextChecksStand ==
    ASSUME BookInv, [Next]_vars
    PROVE  ChecksStand'
<1> SUFFICES ASSUME NEW d \in Clients, pc'[d] = "checked"
             PROVE  CheckHolds(d)'
  BY DEF ChecksStand
<1>1. CASE pc[d] = "checked"
  <2>1. CheckHolds(d)
    BY <1>1 DEF BookInv, ChecksStand
  <2>2. /\ req'[d] = req[d] /\ seen'[d] = seen[d]
        /\ match'[req[d].m] = match[req[d].m]
        /\ lineup'[req[d].m] = lineup[req[d].m]
        /\ scores'[req[d].m] = scores[req[d].m]
    BY <1>1, LockedStays DEF BookInv
  <2> QED
    BY <2>1, <2>2 DEF CheckHolds
<1>2. CASE pc[d] # "checked"
  <2> DEFINE Check(c) == SaveScores(c) \/ CheckUpdate(c) \/ CheckDelete(c) \/ CheckLineup(c)
  <2>1. Check(d) /\ Advance(d, "checked")
    <3>1. ASSUME NEW c \in Clients, Answer(c) PROVE FALSE
      BY <1>2, <3>1 DEF Answer, BookInv, IInv, TypeOK
    <3>2. ASSUME NEW c \in Clients, NEW stage \in Stages, Advance(c, stage)
          PROVE  c = d /\ stage = "checked"
      BY <1>2, <3>2 DEF Advance, BookInv, IInv, TypeOK
    <3>3. ASSUME NEW c \in Clients, NEW r \in Requests, Receive(c, r) PROVE FALSE
      BY <1>2, <3>3 DEF Receive, BookInv, IInv, TypeOK
    <3>4. ASSUME NEW c \in Clients, GetMatch(c) \/ MatchTeams(c) \/ LockMatch(c) PROVE FALSE
      BY <3>1, <3>2, <3>4 DEF GetMatch, MatchTeams, LockMatch, Refuse, Stages
    <3>5. ASSUME NEW c \in Clients, Check(c) PROVE Check(d) /\ Advance(d, "checked")
      <4>1. Advance(c, "checked")
        BY <3>1, <3>5 DEF SaveScores, CheckUpdate, CheckDelete, CheckLineup, Refuse
      <4> QED
        BY <3>2, <3>5, <4>1 DEF Stages
    <3>6. ASSUME NEW c \in Clients, Commit(c) \/ Abort(c) PROVE FALSE
      BY <3>1, <3>6 DEF Commit, Abort, Refuse, CommitScores, ResetMatch, UpdateMatch,
                        DeleteMatch, SetLineup
    <3>7. ASSUME NEW m \in Matches, NEW row \in MatchRows, CreateMatch(m, row) PROVE FALSE
      BY <1>2, <3>7 DEF CreateMatch
    <3>8. ASSUME Tick \/ UNCHANGED vars PROVE FALSE
      BY <1>2, <3>8 DEF Tick, vars
    <3> QED
      BY <3>3, <3>4, <3>5, <3>6, <3>7, <3>8 DEF Next, Step, Commit
  <2>2. /\ ~Refuse(d)
        /\ req' = req /\ seen' = seen /\ UNCHANGED tables
    <3>1. ~Refuse(d)
      BY <2>1 DEF Refuse, Answer, Advance, BookInv, IInv, TypeOK
    <3> QED
      BY <2>1, <3>1 DEF Advance, SaveScores, CheckUpdate, CheckDelete, CheckLineup
  <2>3. CheckHolds(d)
    BY <2>1, <2>2 DEF SaveScores, CheckUpdate, CheckDelete, CheckLineup, At, HasScores, CheckHolds
  <2> QED
    BY <2>2, <2>3 DEF CheckHolds, tables
<1> QED
  BY <1>1, <1>2

\* An update keeps the tee set unless it changes it, and always the format.
LEMMA UpdateKeeps ==
    ASSUME NEW row \in MatchRows, NEW u \in Updates
    PROVE  /\ Updated(row, u).perSide = row.perSide
           /\ ~ChangesSetup(u, row) => Updated(row, u).tee = row.tee
  BY DEF Updated, Updates, MatchRows, ChangesSetup

\* Without the request's tee set in play, or with the match's own.
LEMMA UpsertTee ==
    ASSUME NEW rows, NEW hole, NEW entries, NEW tee, NEW row, NEW here,
           ScoreKeysHold(rows, hole, entries, tee, row, here)
    PROVE  UpsertScores(rows, hole, entries, tee) = UpsertScores(rows, hole, entries, row.tee)
<1>1. \A e \in entries : WrittenRow(rows, hole, e, tee) = WrittenRow(rows, hole, e, row.tee)
  BY DEF ScoreKeysHold, WrittenRow
<1> QED
  BY <1>1 DEF UpsertScores

\* What each commit does to its own match.
LEMMA CommitKinds ==
    ASSUME BookInv, NEW c \in Clients, Commit(c)
    PROVE  LET m == req[c].m
           IN  /\ CommitScores(c) =>
                     /\ match' = match /\ lineup' = lineup
                     /\ scores'[m] = UpsertScores(scores[m], req[c].hole, req[c].entries,
                                                  match[m].tee)
                     /\ scores'[m] # {} /\ scores'[m] \in SUBSET ScoreRows
                     /\ lineup[m] # {} /\ LineupFits(lineup[m], match[m].perSide)
                     /\ req[c].hole \in Holes /\ req[c].entries \in Submissions
                     /\ CheckHolds(c) /\ req[c].op = "submit"
               /\ ResetMatch(c) =>
                     match' = match /\ lineup' = lineup /\ scores'[m] = {}
               /\ UpdateMatch(c) =>
                     /\ lineup' = lineup /\ scores' = scores
                     /\ match'[m] = Updated(match[m], req[c].update)
                     /\ match'[m] \in MatchRows
                     /\ match'[m].perSide = match[m].perSide
                     /\ scores[m] # {} => match'[m].tee = match[m].tee
                     /\ req[c].update \in Updates
                     /\ CheckHolds(c) /\ req[c].op = "update"
               /\ DeleteMatch(c) =>
                     /\ match'[m] = Deleted /\ lineup'[m] = {} /\ scores'[m] = {}
                     /\ scores[m] = {}
               /\ SetLineup(c) =>
                     /\ match' = match /\ scores' = scores /\ lineup'[m] = req[c].entries
                     /\ scores[m] = {} /\ req[c].entries \in Lineups /\ req[c].entries # {}
                     /\ CheckHolds(c) /\ req[c].op = "lineup"
<1> DEFINE m == req[c].m
<1>1. /\ req[c] \in Requests /\ m \in Matches /\ Live(m) /\ match[m] \in MatchRows
  BY Committer DEF BookInv
<1>2. ASSUME pc[c] = "checked" PROVE CheckHolds(c)
  BY <1>2 DEF BookInv, ChecksStand
<1>3. ASSUME CommitScores(c)
      PROVE  /\ match' = match /\ lineup' = lineup
             /\ scores'[m] = UpsertScores(scores[m], req[c].hole, req[c].entries, match[m].tee)
             /\ scores'[m] # {} /\ scores'[m] \in SUBSET ScoreRows
             /\ lineup[m] # {} /\ LineupFits(lineup[m], match[m].perSide)
             /\ req[c].hole \in Holes /\ req[c].entries \in Submissions
             /\ CheckHolds(c) /\ req[c].op = "submit"
  <2>1. pc[c] = "checked" /\ req[c].op = "submit" /\ CheckHolds(c)
    BY <1>2, <1>3 DEF CommitScores, At
  <2>2. /\ match' = match /\ lineup' = lineup
        /\ scores'[m] = UpsertScores(scores[m], req[c].hole, req[c].entries, seen[c].tee)
    BY <1>1, <1>3 DEF CommitScores, BookInv, IInv, TypeOK
  <2>3. UpsertScores(scores[m], req[c].hole, req[c].entries, seen[c].tee)
          = UpsertScores(scores[m], req[c].hole, req[c].entries, match[m].tee)
    BY <2>1, UpsertTee DEF CheckHolds
  <2>4. lineup[m] # {}
    BY <1>1, <2>1 DEF BookInv, LineupSeen, Live
  <2>5. LineupFits(lineup[m], match[m].perSide)
    BY <1>1, <2>4 DEF BookInv, LineupsFit
  <2>6. req[c].hole \in Holes /\ req[c].entries \in Submissions
    BY <1>1, <2>1, RequestFields
  <2>7. scores[m] \in SUBSET ScoreRows /\ match[m].tee \in TeeSets
    BY <1>1 DEF BookInv, IInv, TypeOK, MatchRows
  <2> HIDE DEF m
  <2> QED
    BY <2>1, <2>2, <2>3, <2>4, <2>5, <2>6, <2>7, UpsertType
<1>4. ASSUME ResetMatch(c) PROVE match' = match /\ lineup' = lineup /\ scores'[m] = {}
  BY <1>1, <1>4 DEF ResetMatch, BookInv, IInv, TypeOK
<1>5. ASSUME UpdateMatch(c)
      PROVE  /\ lineup' = lineup /\ scores' = scores
             /\ match'[m] = Updated(match[m], req[c].update)
             /\ match'[m] \in MatchRows
             /\ match'[m].perSide = match[m].perSide
             /\ scores[m] # {} => match'[m].tee = match[m].tee
             /\ req[c].update \in Updates
             /\ CheckHolds(c) /\ req[c].op = "update"
  <2>1. pc[c] = "checked" /\ req[c].op = "update" /\ CheckHolds(c)
    BY <1>2, <1>5 DEF UpdateMatch, At
  <2>2. req[c].update \in Updates
    BY <1>1, <2>1, RequestFields
  <2>3. /\ lineup' = lineup /\ scores' = scores
        /\ match'[m] = Updated(match[m], req[c].update)
    BY <1>1, <1>5 DEF UpdateMatch, BookInv, IInv, TypeOK
  <2>4. ChangesSetup(req[c].update, match[m]) => scores[m] = {}
    BY <2>1 DEF CheckHolds
  <2> QED
    BY <1>1, <2>1, <2>2, <2>3, <2>4, UpdateKeeps, UpdatedType
<1>6. ASSUME DeleteMatch(c)
      PROVE  /\ match'[m] = Deleted /\ lineup'[m] = {} /\ scores'[m] = {}
             /\ scores[m] = {}
  <2>1. CheckHolds(c) /\ req[c].op = "delete"
    BY <1>2, <1>6 DEF DeleteMatch, At
  <2> QED
    BY <1>1, <1>6, <2>1 DEF DeleteMatch, CheckHolds, BookInv, IInv, TypeOK
<1>7. ASSUME SetLineup(c)
      PROVE  /\ match' = match /\ scores' = scores /\ lineup'[m] = req[c].entries
             /\ scores[m] = {} /\ req[c].entries \in Lineups /\ req[c].entries # {}
             /\ CheckHolds(c) /\ req[c].op = "lineup"
  <2>1. CheckHolds(c) /\ req[c].op = "lineup"
    BY <1>2, <1>7 DEF SetLineup, At
  <2>2. req[c].entries \in Lineups
    BY <1>1, <2>1, RequestFields
  <2>3. req[c].entries # {}
    BY <2>2, RequestsAssumption DEF ValidLineup
  <2> QED
    BY <1>1, <1>7, <2>1, <2>2, <2>3 DEF SetLineup, CheckHolds, BookInv, IInv, TypeOK
<1> HIDE DEF m
<1> QED
  BY <1>3, <1>4, <1>5, <1>6, <1>7 DEF m

-----------------------------------------------------------------------------
(* The lineups and the scores stay whole. *)

LEMMA NextLineupsFit ==
    ASSUME BookInv, [Next]_vars
    PROVE  LineupsFit'
<1> SUFFICES ASSUME NEW m \in Matches, lineup'[m] # {}
             PROVE  Live(m)' /\ LineupFits(lineup'[m], match'[m].perSide)
  BY DEF LineupsFit
<1>1. lineup[m] # {} => Live(m) /\ LineupFits(lineup[m], match[m].perSide)
  BY DEF BookInv, LineupsFit
<1>2. CASE Quiet
  BY <1>1, <1>2 DEF Quiet, tables, Live
<1>3. ASSUME NEW c \in Clients, Commit(c)
      PROVE  Live(m)' /\ LineupFits(lineup'[m], match'[m].perSide)
  <2>1. CASE m # req[c].m
    BY <1>1, <1>3, <2>1, Committer DEF BookInv, Live
  <2>2. CASE m = req[c].m
    <3>1. Live(m) /\ match[m] \in MatchRows /\ {Unborn, Deleted} \cap MatchRows = {}
      BY <1>3, <2>2, Committer, AbsentMatchAssumption DEF BookInv
    <3>2. CASE CommitScores(c) \/ ResetMatch(c)
      BY <1>1, <1>3, <2>2, <3>1, <3>2, CommitKinds DEF Live
    <3>3. CASE UpdateMatch(c)
      BY <1>1, <1>3, <2>2, <3>1, <3>3, CommitKinds DEF Live
    <3>4. CASE DeleteMatch(c)
      BY <1>3, <2>2, <3>4, CommitKinds
    <3>5. CASE SetLineup(c)
      BY <1>3, <2>2, <3>1, <3>5, CommitKinds DEF Live, CheckHolds
    <3> QED
      BY <1>3, <3>2, <3>3, <3>4, <3>5 DEF Commit
  <2> QED
    BY <2>1, <2>2
<1>4. ASSUME NEW k \in Matches, NEW row \in MatchRows, CreateMatch(k, row)
      PROVE  Live(m)' /\ LineupFits(lineup'[m], match'[m].perSide)
  BY <1>1, <1>4 DEF CreateMatch, Live, BookInv, IInv, TypeOK
<1> QED
  BY <1>2, <1>3, <1>4, StepCases

LEMMA NextLineupSeen ==
    ASSUME BookInv, [Next]_vars
    PROVE  LineupSeen'
<1> SUFFICES ASSUME NEW d \in Clients, pc'[d] \in {"ready", "locked", "checked"},
                    req'[d].op = "submit"
             PROVE  match'[req'[d].m] = Deleted \/ lineup'[req'[d].m] # {}
  BY DEF LineupSeen
<1> DEFINE Stays(m) == match[m] = Deleted \/ lineup[m] # {}
\* Whoever has seen a lineup goes on seeing it.
<1>1. ASSUME NEW m \in Matches, Stays(m)
      PROVE  match'[m] = Deleted \/ lineup'[m] # {}
  <2>1. CASE Quiet
    BY <1>1, <2>1 DEF Quiet, tables
  <2>2. ASSUME NEW c \in Clients, Commit(c)
        PROVE  match'[m] = Deleted \/ lineup'[m] # {}
    <3>1. CASE m # req[c].m
      BY <1>1, <2>2, <3>1, Committer DEF BookInv
    <3>2. CASE m = req[c].m
      <4>1. lineup[m] # {}
        BY <1>1, <2>2, <3>2, Committer DEF BookInv, Live
      <4> QED
        BY <2>2, <3>2, <4>1, CommitKinds DEF Commit
    <3> QED
      BY <3>1, <3>2
  <2>3. ASSUME NEW k \in Matches, NEW row \in MatchRows, CreateMatch(k, row)
        PROVE  match'[m] = Deleted \/ lineup'[m] # {}
    <3>1. m # k
      <4>1. lineup[k] = {} /\ match[k] # Deleted
        BY <2>3, AbsentMatchAssumption DEF CreateMatch, BookInv, LineupsFit, Live
      <4> QED
        BY <1>1, <4>1
    <3> QED
      BY <1>1, <2>3, <3>1 DEF CreateMatch, BookInv, IInv, TypeOK
  <2> QED
    BY <2>1, <2>2, <2>3, StepCases
<1>2. /\ req'[d] = req[d] /\ req[d].m \in Matches
      /\ \/ pc[d] \in {"ready", "locked"}
         \/ pc[d] = "checked"
         \/ MatchTeams(d) /\ ~Answer(d)
  <2>0. pc \in [Clients -> Stages] /\ req \in [Clients -> Requests \cup {NoRequest}]
    BY DEF BookInv, IInv, TypeOK
  <2>1. ASSUME NEW c \in Clients, Answer(c)
        PROVE  req'[d] = req[d] /\ pc'[d] = pc[d]
    BY <2>0, <2>1 DEF Answer
  <2>2. ASSUME NEW c \in Clients, NEW stage, Advance(c, stage), c # d
        PROVE  req'[d] = req[d] /\ pc'[d] = pc[d]
    BY <2>0, <2>2 DEF Advance
  <2>3. ASSUME NEW c \in Clients, NEW r \in Requests, Receive(c, r)
        PROVE  req'[d] = req[d] /\ pc'[d] = pc[d]
    BY <2>0, <2>3 DEF Receive
  <2>4. ASSUME NEW c \in Clients, Step(c) \/ LockMatch(c) \/ Abort(c), ~Answer(c)
        PROVE  /\ req'[d] = req[d]
               /\ \/ pc'[d] = pc[d]
                  \/ pc[d] \in {"ready", "locked"}
                  \/ MatchTeams(d) /\ ~Answer(d)
    <3>1. CASE GetMatch(c)
      <4>1. Advance(c, "read")
        BY <2>4, <3>1 DEF GetMatch, Refuse
      <4> QED
        BY <2>0, <2>2, <4>1 DEF Advance
    <3>2. CASE MatchTeams(c)
      <4>1. Advance(c, "ready")
        BY <2>4, <3>2 DEF MatchTeams, Refuse
      <4> QED
        BY <2>2, <2>4, <3>2, <4>1 DEF Advance
    <3>3. CASE LockMatch(c)
      <4>1. Advance(c, "locked") /\ pc[c] = "ready"
        BY <2>4, <3>3 DEF LockMatch, Refuse
      <4> QED
        BY <2>2, <4>1 DEF Advance
    <3>4. CASE SaveScores(c) \/ CheckUpdate(c) \/ CheckDelete(c) \/ CheckLineup(c)
      <4>1. Advance(c, "checked") /\ pc[c] = "locked"
        BY <2>4, <3>4 DEF SaveScores, CheckUpdate, CheckDelete, CheckLineup, Refuse, At
      <4> QED
        BY <2>2, <4>1 DEF Advance
    <3> QED
      BY <2>4, <3>1, <3>2, <3>3, <3>4 DEF Step, Abort, Refuse, CommitScores, ResetMatch,
                                          UpdateMatch, DeleteMatch, SetLineup
  <2>5. ASSUME NEW m \in Matches, NEW row \in MatchRows, CreateMatch(m, row)
        PROVE  req'[d] = req[d] /\ pc'[d] = pc[d]
    BY <2>5 DEF CreateMatch
  <2>6. Tick \/ UNCHANGED vars => req'[d] = req[d] /\ pc'[d] = pc[d]
    BY DEF Tick, vars
  <2>7. /\ req'[d] = req[d]
        /\ \/ pc'[d] = pc[d]
           \/ pc[d] \in {"ready", "locked"}
           \/ MatchTeams(d) /\ ~Answer(d)
    BY <2>1, <2>3, <2>4, <2>5, <2>6 DEF Next
  <2>8. pc[d] # "idle"
    BY <2>7 DEF MatchTeams, At
  <2> QED
    BY <2>7, <2>8, AtRequest DEF BookInv
<1>3. Stays(req[d].m)
  <2>1. CASE MatchTeams(d) /\ ~Answer(d)
    <3>1. TwoSides(lineup[req[d].m])
      BY <2>1 DEF MatchTeams, Refuse
    <3> QED
      BY <3>1, FS_EmptySet DEF TwoSides, SidesOf
  <2> QED
    BY <1>2, <2>1 DEF BookInv, LineupSeen
<1> QED
  BY <1>1, <1>2, <1>3

\* One row a competitor and hole, each on the tee set and of a player of the
\* lineup, or there before.
LEMMA UpsertWhole ==
    ASSUME NEW rows \in SUBSET ScoreRows, NEW hole \in Holes, NEW entries \in Submissions,
           NEW tee \in TeeSets, NEW asked, NEW row, NEW here, row.tee = tee,
           ScoreKeysHold(rows, hole, entries, asked, row, here),
           \A r \in rows : r.tee = tee /\ (r.who \in Players => r.who \in {p.player : p \in here}),
           \A q, r \in rows : q.hole = r.hole /\ q.who = r.who => q = r
    PROVE  LET after == UpsertScores(rows, hole, entries, tee)
           IN  /\ \A r \in after :
                     r.tee = tee /\ (r.who \in Players => r.who \in {p.player : p \in here})
               /\ \A q, r \in after : q.hole = r.hole /\ q.who = r.who => q = r
<1>1. /\ entries \subseteq ScoreEntries
      /\ \A d, e \in entries : d.who = e.who => d = e
  BY RequestsAssumption DEF ValidSubmission
<1>2. ASSUME NEW e \in entries
      PROVE  LET w == WrittenRow(rows, hole, e, tee)
             IN  /\ w.hole = hole /\ w.who = e.who /\ w.tee = tee
                 /\ w.who \in Players => w.who \in {p.player : p \in here}
  <2>1. CASE Corrects(rows, hole, e)
    <3> DEFINE old == CHOOSE r \in rows : SameKey(r, hole, e)
    <3>1. old \in rows /\ SameKey(old, hole, e)
      BY <2>1 DEF Corrects
    <3>2. WrittenRow(rows, hole, e, tee) = [old EXCEPT !.strokes = e.strokes]
      BY <2>1 DEF WrittenRow
    <3> HIDE DEF old
    <3> QED
      BY <3>1, <3>2 DEF SameKey, ScoreRows
  <2>2. CASE ~Corrects(rows, hole, e)
    BY <2>2 DEF WrittenRow, ScoreKeysHold
  <2> QED
    BY <2>1, <2>2
<1> DEFINE kept == {r \in rows : \A e \in entries : ~SameKey(r, hole, e)}
<1>3. \A r \in kept, e \in entries : ~(r.hole = hole /\ r.who = e.who)
  BY DEF SameKey
<1> QED
  BY <1>1, <1>2, <1>3 DEF UpsertScores

LEMMA NextWhole ==
    ASSUME BookInv, [Next]_vars
    PROVE  ScoredMatchIsWhole'
<1> DEFINE Whole(m) ==
        /\ Live(m)
        /\ LineupFits(lineup[m], match[m].perSide)
        /\ \A r \in scores[m] :
            /\ r.tee = match[m].tee
            /\ r.who \in Players => r.who \in {p.player : p \in lineup[m]}
        /\ \A q, r \in scores[m] : q.hole = r.hole /\ q.who = r.who => q = r
<1> SUFFICES ASSUME NEW m \in Matches, scores'[m] # {}
             PROVE  Whole(m)'
  BY DEF ScoredMatchIsWhole
<1>1. scores[m] # {} => Whole(m)
  BY DEF BookInv, ScoredMatchIsWhole
<1>2. CASE Quiet
  BY <1>1, <1>2 DEF Quiet, tables, Live
<1>3. ASSUME NEW c \in Clients, Commit(c) PROVE Whole(m)'
  <2>1. CASE m # req[c].m
    BY <1>1, <1>3, <2>1, Committer DEF BookInv, Live
  <2>2. CASE m = req[c].m
    <3>1. Live(m) /\ match[m] \in MatchRows /\ {Unborn, Deleted} \cap MatchRows = {}
      BY <1>3, <2>2, Committer, AbsentMatchAssumption DEF BookInv
    <3>2. CASE CommitScores(c)
      <4>1. /\ match' = match /\ lineup' = lineup
            /\ scores'[m] = UpsertScores(scores[m], req[c].hole, req[c].entries, match[m].tee)
            /\ LineupFits(lineup[m], match[m].perSide)
            /\ req[c].hole \in Holes /\ req[c].entries \in Submissions
            /\ ScoreKeysHold(scores[m], req[c].hole, req[c].entries,
                             seen[c].tee, match[m], lineup[m])
        BY <1>3, <2>2, <3>2, CommitKinds DEF CheckHolds
      <4>2. scores[m] \in SUBSET ScoreRows /\ match[m].tee \in TeeSets
        BY <3>1 DEF BookInv, IInv, TypeOK, MatchRows
      <4>3. /\ \A r \in scores'[m] : r.tee = match[m].tee
                  /\ (r.who \in Players => r.who \in {p.player : p \in lineup[m]})
            /\ \A q, r \in scores'[m] : q.hole = r.hole /\ q.who = r.who => q = r
        BY <1>1, <4>1, <4>2, UpsertWhole
      <4> QED
        BY <3>1, <4>1, <4>3 DEF Live
    <3>3. CASE ResetMatch(c) \/ DeleteMatch(c)
      BY <1>3, <2>2, <3>3, CommitKinds
    <3>4. CASE UpdateMatch(c)
      BY <1>1, <1>3, <2>2, <3>1, <3>4, CommitKinds DEF Live
    <3>5. CASE SetLineup(c)
      BY <1>3, <2>2, <3>5, CommitKinds
    <3> QED
      BY <1>3, <3>2, <3>3, <3>4, <3>5 DEF Commit
  <2> QED
    BY <2>1, <2>2
<1>4. ASSUME NEW k \in Matches, NEW row \in MatchRows, CreateMatch(k, row)
      PROVE  Whole(m)'
  BY <1>1, <1>4 DEF CreateMatch, Live, BookInv, IInv, TypeOK
<1> QED
  BY <1>2, <1>3, <1>4, StepCases

LEMMA BookInvariant == Spec => []BookInv
<1>1. Init => BookInv
  BY InitIInv DEF BookInv, Init, LineupsFit, ScoredMatchIsWhole, LineupSeen, ChecksStand
<1>2. BookInv /\ [Next]_vars => BookInv'
  BY NextIInv, NextLineupsFit, NextWhole, NextLineupSeen, NextChecksStand DEF BookInv
<1> QED
  BY <1>1, <1>2, PTL DEF Spec

-----------------------------------------------------------------------------
(* The book's rules are the handlers' own. *)

LEMMA SameCardinality == ASSUME NEW S PROVE Book!Cardinality(S) = Cardinality(S)
  BY DEF Cardinality, Book!Cardinality

LEMMA SameRows ==
    Book!MatchRows = MatchRows /\ Book!Updates = Updates /\ Book!Holes = Holes
  BY DEF MatchRows, Book!MatchRows, Updates, Book!Updates, Times, Book!Times,
         Holes, Book!Holes

LEMMA SameSetup ==
    ASSUME NEW row, NEW u, NEW m
    PROVE  /\ Book!Updated(row, u) = Updated(row, u)
           /\ Book!ChangesSetup(u, row) = ChangesSetup(u, row)
           /\ Book!Live(m) = Live(m)
  BY DEF Updated, Book!Updated, ChangesSetup, Book!ChangesSetup, Live, Book!Live

LEMMA SameLineup ==
    ASSUME NEW here, NEW perSide
    PROVE  /\ Book!LineupFits(here, perSide) = LineupFits(here, perSide)
           /\ Book!AllDrafted(here) = AllDrafted(here)
<1>1. /\ Book!SidesOf(here) = SidesOf(here)
      /\ \A t : Book!OnSide(here, t) = OnSide(here, t)
  BY DEF SidesOf, Book!SidesOf, OnSide, Book!OnSide
<1> QED
  BY <1>1, SameCardinality DEF LineupFits, Book!LineupFits, AllDrafted, Book!AllDrafted

LEMMA SameUpsert ==
    ASSUME NEW rows, NEW hole, NEW entries, NEW tee
    PROVE  Book!UpsertScores(rows, hole, entries, tee) = UpsertScores(rows, hole, entries, tee)
  BY DEF UpsertScores, Book!UpsertScores, SameKey, Book!SameKey, Corrects, Book!Corrects,
         WrittenRow, Book!WrittenRow

LEMMA SameWalk ==
    ASSUME NEW played, NEW h
    PROVE  /\ Book!SignedLead(played, h) = SignedLead(played, h)
           /\ Book!Cardinality(Book!Counted(played, h)) = Cardinality(Counted(played, h))
           /\ Book!DecidedAt(played, h) = DecidedAt(played, h)
           /\ Book!Abs(Book!SignedLead(played, h)) = Abs(SignedLead(played, h))
           /\ Book!Leader(Book!SignedLead(played, h)) = Leader(SignedLead(played, h))
<1>1. /\ Book!SignedLead(played, h) = SignedLead(played, h)
      /\ Book!Cardinality(Book!Counted(played, h)) = Cardinality(Counted(played, h))
  BY SameCardinality DEF Counted, Book!Counted, SignedLead, Book!SignedLead
<1>2. \A n : Book!Abs(n) = Abs(n) /\ Book!Leader(n) = Leader(n)
  BY DEF Abs, Book!Abs, Leader, Book!Leader
<1>3. \A n, lead : Book!Decided(lead, n) = Decided(lead, n)
  BY DEF Decided, Book!Decided
<1> QED
  BY <1>1, <1>2, <1>3 DEF DecidedAt, Book!DecidedAt

LEMMA SameResult ==
    ASSUME NEW rows
    PROVE  Book!ComputeStoredResult(rows) = ComputeStoredResult(rows)
<1> DEFINE played == HolesPlayed(rows)
           shown == {h \in DOMAIN played :
                        \A g \in DOMAIN played : g < h => ~DecidedAt(played, g)}
<1> HIDE DEF played
<1>1. played = HolesPlayed(rows) /\ played = Book!HolesPlayed(rows)
  BY DEF played, HolesPlayed, Book!HolesPlayed, HolesInPlay, Book!HolesInPlay,
         HolesScoredBy, Book!HolesScoredBy, HoleWinner, Book!HoleWinner,
         TeamStrokes, Book!TeamStrokes, Min, Book!Min
<1>2. shown = {h \in DOMAIN played :
                  \A g \in DOMAIN played : g < h => ~Book!DecidedAt(played, g)}
  BY SameWalk
<1> HIDE DEF shown
<1>3. Book!ComputeMatchProgress(rows) = ComputeMatchProgress(rows)
  BY <1>1, <1>2, SameWalk DEF ComputeMatchProgress, Book!ComputeMatchProgress, shown
<1> QED
  BY <1>3 DEF ComputeStoredResult, Book!ComputeStoredResult, Max, Book!Max,
              UnplayedResult, Book!UnplayedResult

LEMMA SameGuard ==
    ASSUME NEW rows, NEW hole
    PROVE  Book!GuardAllows(rows, hole) = GuardAllows(rows, hole)
  BY SameResult DEF GuardAllows, Book!GuardAllows, HoleIsScored, Book!HoleIsScored

-----------------------------------------------------------------------------
(* The refinement. *)

LEMMA CommitIsBook ==
    ASSUME BookInv, NEW c \in Clients, Commit(c)
    PROVE  Book!Next
<1> DEFINE m == req[c].m
<1>1. m \in Matches /\ Live(m) /\ match[m] \in MatchRows
  BY Committer DEF BookInv
<1>2. Book!Live(m)
  BY <1>1, SameSetup
<1>3. CASE CommitScores(c)
  <2>1. /\ LineupFits(lineup[m], match[m].perSide)
        /\ req[c].hole \in Holes /\ req[c].entries \in Submissions
        /\ GuardAllows(scores[m], req[c].hole)
        /\ UpsertScores(scores[m], req[c].hole, req[c].entries, seen[c].tee)
             = UpsertScores(scores[m], req[c].hole, req[c].entries, match[m].tee)
    BY <1>3, CommitKinds, UpsertTee DEF CheckHolds
  <2>2. written[c] = ComputeStoredResult(
            UpsertScores(scores[m], req[c].hole, req[c].entries, seen[c].tee))
    BY <1>3 DEF CommitScores, BookInv, IInv, WrittenIsCurrent
  <2>3. /\ scores' = [scores EXCEPT ![m] =
               UpsertScores(scores[m], req[c].hole, req[c].entries, match[m].tee)]
        /\ result' = [result EXCEPT ![m] = ComputeStoredResult(
               UpsertScores(scores[m], req[c].hole, req[c].entries, match[m].tee))]
        /\ UNCHANGED <<match, lineup>>
    BY <1>1, <1>3, <2>1, <2>2 DEF CommitScores, BookInv, IInv, TypeOK
  <2> HIDE DEF m
  <2>4. Book!RecordHole(m, req[c].hole, req[c].entries)
    BY <1>2, <2>1, <2>3, SameLineup, SameGuard, SameUpsert, SameResult DEF Book!RecordHole
  <2> QED
    BY <1>1, <2>1, <2>4, SameRows DEF Book!Next
<1>4. CASE ResetMatch(c)
  <2>1. Book!Reset(m)
    BY <1>2, <1>4 DEF ResetMatch, Book!Reset
  <2> QED
    BY <1>1, <2>1 DEF Book!Next
<1>5. CASE UpdateMatch(c)
  <2>1. /\ req[c].update \in Updates
        /\ ChangesSetup(req[c].update, match[m]) => scores[m] = {}
    BY <1>5, CommitKinds DEF CheckHolds
  <2>2. /\ match' = [match EXCEPT ![m] = Updated(match[m], req[c].update)]
        /\ UNCHANGED <<lineup, scores, result>>
    BY <1>5 DEF UpdateMatch
  <2> HIDE DEF m
  <2>3. Book!Update(m, req[c].update)
    BY <1>2, <2>1, <2>2, SameSetup DEF Book!Update
  <2> QED
    BY <1>1, <2>1, <2>3, SameRows DEF Book!Next
<1>6. CASE DeleteMatch(c)
  <2>1. scores[m] = {} /\ result[m] = NoResult
    BY <1>1, <1>6, CommitKinds DEF BookInv, IInv, ResultInSync, ResultOf
  <2>2. /\ match' = [match EXCEPT ![m] = Deleted]
        /\ lineup' = [lineup EXCEPT ![m] = {}]
        /\ scores' = [scores EXCEPT ![m] = {}]
        /\ result' = [result EXCEPT ![m] = NoResult]
    BY <1>6 DEF DeleteMatch
  <2> HIDE DEF m
  <2>3. scores' = scores /\ result' = result
    BY <1>1, <2>1, <2>2 DEF BookInv, IInv, TypeOK
  <2>4. Book!Delete(m)
    BY <1>2, <2>1, <2>2, <2>3 DEF Book!Delete
  <2> QED
    BY <1>1, <2>4 DEF Book!Next
<1>7. CASE SetLineup(c)
  <2>1. /\ req[c].entries \in Lineups /\ scores[m] = {}
        /\ LineupFits(req[c].entries, match[m].perSide) /\ AllDrafted(req[c].entries)
    BY <1>7, CommitKinds DEF CheckHolds
  <2>2. /\ lineup' = [lineup EXCEPT ![m] = req[c].entries]
        /\ UNCHANGED <<match, scores, result>>
    BY <1>7 DEF SetLineup
  <2> HIDE DEF m
  <2>3. Book!SetLineup(m, req[c].entries)
    BY <1>2, <2>1, <2>2, SameLineup DEF Book!SetLineup
  <2> QED
    BY <1>1, <2>1, <2>3 DEF Book!Next
<1> QED
  BY <1>3, <1>4, <1>5, <1>6, <1>7 DEF Commit

LEMMA StepIsBook == BookInv /\ [Next]_vars => [Book!Next]_Book!tables
<1> SUFFICES ASSUME BookInv, [Next]_vars PROVE [Book!Next]_Book!tables
  OBVIOUS
<1>1. CASE Quiet
  BY <1>1 DEF Quiet, tables, Book!tables
<1>2. ASSUME NEW c \in Clients, Commit(c) PROVE Book!Next
  BY <1>2, CommitIsBook
<1>3. ASSUME NEW m \in Matches, NEW row \in MatchRows, CreateMatch(m, row) PROVE Book!Next
  <2>1. Book!Create(m, row)
    BY <1>3 DEF CreateMatch, Book!Create
  <2> QED
    BY <2>1, SameRows DEF Book!Next
<1> QED
  BY <1>1, <1>2, <1>3, StepCases

(***************************************************************************)
(* The handlers implement the book: however requests overlap, wait and     *)
(* are cut off, the tables move as if each had been one atomic step.       *)
(***************************************************************************)
THEOREM HandlersImplementBook == Spec => ImplementsBook
<1>1. Init => Book!Init
  BY DEF Init, Book!Init
<1> QED
  BY <1>1, StepIsBook, BookInvariant, PTL DEF Spec, ImplementsBook, Book!Spec

(***************************************************************************)
(* Whatever was read before the lock and has moved since, a match with     *)
(* scores is there, has its lineup, and its scores are on its tee set, of  *)
(* its players, and one for a competitor and hole.                         *)
(***************************************************************************)
THEOREM ScoresAlwaysWhole == Spec => []ScoredMatchIsWhole
<1>1. BookInv => ScoredMatchIsWhole
  BY DEF BookInv
<1> QED
  BY <1>1, BookInvariant, PTL

(***************************************************************************)
(* From its first score to its reset no update, lineup or delete touches   *)
(* what a match's scores mean, whenever its request was let in.            *)
(***************************************************************************)
THEOREM ScoredStaysFrozen == Spec => ScoredMatchIsFrozen
<1> DEFINE Frozen == \A m \in Matches : scores[m] # {} =>
              /\ Live(m)'
              /\ match'[m].tee = match[m].tee /\ match'[m].perSide = match[m].perSide
              /\ lineup'[m] = lineup[m]
<1>1. BookInv /\ [Next]_vars => [Frozen]_vars
  <2> SUFFICES ASSUME BookInv, [Next]_vars, NEW m \in Matches, scores[m] # {}
               PROVE  /\ Live(m)'
                      /\ match'[m].tee = match[m].tee /\ match'[m].perSide = match[m].perSide
                      /\ lineup'[m] = lineup[m]
    OBVIOUS
  <2>1. Live(m)
    BY DEF BookInv, ScoredMatchIsWhole
  <2>2. CASE Quiet
    BY <2>1, <2>2 DEF Quiet, tables, Live
  <2>3. ASSUME NEW c \in Clients, Commit(c)
        PROVE  /\ Live(m)'
               /\ match'[m].tee = match[m].tee /\ match'[m].perSide = match[m].perSide
               /\ lineup'[m] = lineup[m]
    <3>1. CASE m # req[c].m
      BY <2>1, <2>3, <3>1, Committer DEF BookInv, Live
    <3>2. CASE m = req[c].m
      <4>1. CASE CommitScores(c) \/ ResetMatch(c)
        BY <2>1, <2>3, <3>2, <4>1, CommitKinds DEF Live
      <4>2. CASE UpdateMatch(c)
        BY <2>3, <3>2, <4>2, CommitKinds, AbsentMatchAssumption DEF Live
      <4> QED
        BY <2>3, <3>2, <4>1, <4>2, CommitKinds DEF Commit
    <3> QED
      BY <3>1, <3>2
  <2>4. ASSUME NEW k \in Matches, NEW row \in MatchRows, CreateMatch(k, row)
        PROVE  /\ Live(m)'
               /\ match'[m].tee = match[m].tee /\ match'[m].perSide = match[m].perSide
               /\ lineup'[m] = lineup[m]
    BY <2>1, <2>4 DEF CreateMatch, Live, BookInv, IInv, TypeOK
  <2> QED
    BY <2>2, <2>3, <2>4, StepCases
<1> QED
  BY <1>1, BookInvariant, PTL DEF Spec, ScoredMatchIsFrozen

(***************************************************************************)
(* Two submissions cannot both find a match open and both add a hole to    *)
(* it: once match_results says finished, only a reset changes which holes  *)
(* carry scores.                                                           *)
(***************************************************************************)
THEOREM FinishedStaysFinished == Spec => FinishedTakesNoNewHole
<1> DEFINE NoNewHole == \A m \in Matches :
              result[m] # NoResult /\ scores'[m] # {} =>
                  (result[m].finished => HolesScored(scores'[m]) = HolesScored(scores[m]))
<1>1. BookInv /\ [Next]_vars => [NoNewHole]_vars
  <2> SUFFICES ASSUME BookInv, [Next]_vars, NEW m \in Matches,
                      result[m] # NoResult, scores'[m] # {}, result[m].finished
               PROVE  HolesScored(scores'[m]) = HolesScored(scores[m])
    OBVIOUS
  <2>1. ComputeStoredResult(scores[m]).finished
    BY DEF BookInv, IInv, ResultInSync, ResultOf
  <2>2. CASE Quiet
    BY <2>2 DEF Quiet, tables
  <2>3. ASSUME NEW c \in Clients, Commit(c)
        PROVE  HolesScored(scores'[m]) = HolesScored(scores[m])
    <3>1. CASE m # req[c].m
      BY <2>3, <3>1, Committer DEF BookInv
    <3>2. CASE m = req[c].m
      <4>1. CASE CommitScores(c)
        <5>1. /\ HoleIsScored(scores[m], req[c].hole)
              /\ scores'[m] = UpsertScores(scores[m], req[c].hole, req[c].entries, match[m].tee)
              /\ req[c].entries \in Submissions
          BY <2>1, <2>3, <3>2, <4>1, CommitKinds DEF CheckHolds, GuardAllows
        <5>2. scores[m] \in SUBSET ScoreRows /\ req[c].entries # {}
          BY <5>1, RequestsAssumption DEF BookInv, IInv, TypeOK, ValidSubmission
        <5>3. ASSUME NEW e \in req[c].entries
              PROVE  WrittenRow(scores[m], req[c].hole, e, match[m].tee).hole = req[c].hole
          <6>1. CASE Corrects(scores[m], req[c].hole, e)
            <7> DEFINE old == CHOOSE r \in scores[m] : SameKey(r, req[c].hole, e)
            <7>1. old \in ScoreRows /\ old.hole = req[c].hole
              BY <5>2, <6>1 DEF Corrects, SameKey
            <7>2. WrittenRow(scores[m], req[c].hole, e, match[m].tee)
                    = [old EXCEPT !.strokes = e.strokes]
              BY <6>1 DEF WrittenRow
            <7> HIDE DEF old
            <7> QED
              BY <7>1, <7>2 DEF ScoreRows
          <6>2. CASE ~Corrects(scores[m], req[c].hole, e)
            BY <6>2 DEF WrittenRow
          <6> QED
            BY <6>1, <6>2
        <5> QED
          BY <5>1, <5>2, <5>3 DEF UpsertScores, HoleIsScored, HolesScored, SameKey
      <4>2. CASE ~CommitScores(c)
        BY <2>3, <3>2, <4>2, CommitKinds DEF Commit
      <4> QED
        BY <4>1, <4>2
    <3> QED
      BY <3>1, <3>2
  <2>4. ASSUME NEW k \in Matches, NEW row \in MatchRows, CreateMatch(k, row)
        PROVE  HolesScored(scores'[m]) = HolesScored(scores[m])
    BY <2>4 DEF CreateMatch
  <2> QED
    BY <2>2, <2>3, <2>4, StepCases
<1> QED
  BY <1>1, BookInvariant, PTL DEF Spec, FinishedTakesNoNewHole
=============================================================================
