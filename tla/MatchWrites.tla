---------------------------- MODULE MatchWrites ----------------------------
(***************************************************************************)
(* The handlers that write a match, run concurrently by any number of      *)
(* requests: SubmitHoleScores, ResetMatch, UpdateMatch, DeleteMatch and    *)
(* SetLineup, statement by statement, as the repository's transactions     *)
(* take, decide and commit them.  A request reads what it reads outside    *)
(* its transaction in steps of its own, waits for the match's row lock,    *)
(* checks under it, and commits; at any of these it may be cut off.        *)
(*                                                                         *)
(* The four table variables are what is committed.  A transaction's own    *)
(* writes become visible in its commit step, which is what READ COMMITTED  *)
(* shows the others.  A refusal changes no table, so the reason for it is  *)
(* not kept.                                                               *)
(***************************************************************************)
EXTENDS MatchData

CONSTANTS
    Clients,        \* requests in progress at once
    NoClient,       \* a row lock nobody holds
    NoRequest,      \* an idle client's request
    NoRow,          \* a client that has read no match row
    MaxNow          \* bound on the clock

ASSUME ClientsAssumption == NoClient \notin Clients /\ MaxNow \in Nat

VARIABLES
    match, lineup, scores, result,      \* the committed tables
    lockedBy,       \* who holds a match's FOR UPDATE lock
    now,            \* MatchService.now
    pc,             \* where each request is
    req,            \* the request each client sent
    seen,           \* the match row SubmitHoleScores read before its transaction
    written         \* the match_results row its transaction has written

tables == <<match, lineup, scores, result>>
vars == <<match, lineup, scores, result, lockedBy, now, pc, req, seen, written>>

\* idle; received: the request is in; read: the match row was read; ready: about
\* to open the transaction; locked: it holds the match; checked: it may commit.
Stages == {"idle", "received", "read", "ready", "locked", "checked"}

Requests ==
    [op : {"submit"}, m : Matches, hole : Holes, entries : Submissions]
      \cup [op : {"reset", "delete"}, m : Matches]
      \cup [op : {"update"}, m : Matches, update : Updates]
      \cup [op : {"lineup"}, m : Matches, entries : Lineups]

ASSUME AbsentRequestAssumption == NoRequest \notin Requests /\ NoRow \notin MatchRows

Live(m) == match[m] \notin {Unborn, Deleted}

Init ==
    /\ match = [m \in Matches |-> Unborn]
    /\ lineup = [m \in Matches |-> {}]
    /\ scores = [m \in Matches |-> {}]
    /\ result = [m \in Matches |-> NoResult]
    /\ lockedBy = [m \in Matches |-> NoClient]
    /\ now = 0
    /\ pc = [c \in Clients |-> "idle"]
    /\ req = [c \in Clients |-> NoRequest]
    /\ seen = [c \in Clients |-> NoRow]
    /\ written = [c \in Clients |-> NoResult]

-----------------------------------------------------------------------------
(* Answering: the transaction ends, by commit or rollback, and its locks go. *)

Unlocked(c) == [m \in Matches |-> IF lockedBy[m] = c THEN NoClient ELSE lockedBy[m]]

Answer(c) ==
    /\ pc' = [pc EXCEPT ![c] = "idle"]
    /\ req' = [req EXCEPT ![c] = NoRequest]
    /\ seen' = [seen EXCEPT ![c] = NoRow]
    /\ written' = [written EXCEPT ![c] = NoResult]
    /\ lockedBy' = Unlocked(c)
    /\ UNCHANGED now

Refuse(c) == Answer(c) /\ UNCHANGED tables

Advance(c, stage) ==
    /\ pc' = [pc EXCEPT ![c] = stage]
    /\ UNCHANGED <<tables, now, req>>

At(c, stage, ops) == pc[c] = stage /\ req[c].op \in ops

-----------------------------------------------------------------------------
Receive(c, r) ==
    /\ pc[c] = "idle"
    /\ req' = [req EXCEPT ![c] = r]
    /\ pc' = [pc EXCEPT ![c] = IF r.op = "submit" THEN "received" ELSE "ready"]
    /\ UNCHANGED <<tables, lockedBy, now, seen, written>>

\* SubmitHoleScores reads the match in a transaction of its own and checks the
\* scoring window against it.
GetMatch(c) ==
    /\ At(c, "received", {"submit"})
    /\ LET row == match[req[c].m]
       IN  IF Live(req[c].m) /\ ScoringOpen(now, row.teeTime)
           THEN /\ Advance(c, "read")
                /\ seen' = [seen EXCEPT ![c] = row]
                /\ UNCHANGED <<lockedBy, written>>
           ELSE Refuse(c)

\* Then the participants, in another: every entry names one of the two sides.
MatchTeams(c) ==
    /\ At(c, "read", {"submit"})
    /\ LET here == lineup[req[c].m]
       IN  IF TwoSides(here) /\ \A e \in req[c].entries : e.team \in SidesOf(here)
           THEN Advance(c, "ready") /\ UNCHANGED <<lockedBy, seen, written>>
           ELSE Refuse(c)

\* Bug: submissions take the row FOR SHARE, so that two of them hold it at once.
LockFree_Shared(c) ==
    \A d \in {lockedBy[req[c].m]} \ {NoClient} : {req[c].op, req[d].op} = {"submit"}

LockFree(c) == lockedBy[req[c].m] = NoClient

\* Bug: the match that is gone is polled for and not answered.
LockMatch_Unanswered(c) ==
    /\ pc[c] = "ready"
    /\ LockFree(c)
    /\ Live(req[c].m)
    /\ Advance(c, "locked")
    /\ lockedBy' = [lockedBy EXCEPT ![req[c].m] = c]
    /\ UNCHANGED <<seen, written>>

\* lockMatch: wait for the row lock; a match that is gone is not found.
LockMatch(c) ==
    /\ pc[c] = "ready"
    /\ LockFree(c)
    /\ IF Live(req[c].m)
       THEN /\ Advance(c, "locked")
            /\ lockedBy' = [lockedBy EXCEPT ![req[c].m] = c]
            /\ UNCHANGED <<seen, written>>
       ELSE Refuse(c)

\* Under the lock: list, guard, upsert the hole, list again and write the result.
SaveScores(c) ==
    /\ At(c, "locked", {"submit"})
    /\ LET m == req[c].m
           before == scores[m]
       IN  IF /\ GuardAllows(before, req[c].hole)
              /\ ScoreKeysHold(before, req[c].hole, req[c].entries,
                               seen[c].tee, match[m], lineup[m])
           THEN /\ Advance(c, "checked")
                /\ written' = [written EXCEPT ![c] = ComputeStoredResult(
                       UpsertScores(before, req[c].hole, req[c].entries, seen[c].tee))]
                /\ UNCHANGED <<lockedBy, seen>>
           ELSE Refuse(c)

\* Bug: the scored check is forgotten.
HasScores_Never(m) == FALSE

\* refuseIfScored's question.
HasScores(m) == scores[m] # {}

\* UpdateMatch: a scored match keeps its tee set.  (The foreign key from scores to
\* (course, tee, match) would refuse the same requests.)
CheckUpdate(c) ==
    /\ At(c, "locked", {"update"})
    /\ IF ChangesSetup(req[c].update, match[req[c].m]) /\ HasScores(req[c].m)
       THEN Refuse(c)
       ELSE Advance(c, "checked") /\ UNCHANGED <<lockedBy, seen, written>>

CheckDelete(c) ==
    /\ At(c, "locked", {"delete"})
    /\ IF HasScores(req[c].m)
       THEN Refuse(c)
       ELSE Advance(c, "checked") /\ UNCHANGED <<lockedBy, seen, written>>

\* SetMatchLineup: not scored, the right size, and everybody drafted onto the
\* side they are entered for.
CheckLineup(c) ==
    /\ At(c, "locked", {"lineup"})
    /\ IF /\ ~HasScores(req[c].m)
          /\ LineupFits(req[c].entries, match[req[c].m].perSide)
          /\ AllDrafted(req[c].entries)
       THEN Advance(c, "checked") /\ UNCHANGED <<lockedBy, seen, written>>
       ELSE Refuse(c)

-----------------------------------------------------------------------------
(* Commits. *)

CommitScores(c) ==
    /\ At(c, "checked", {"submit"})
    /\ LET m == req[c].m
       IN  /\ scores' = [scores EXCEPT ![m] =
                  UpsertScores(@, req[c].hole, req[c].entries, seen[c].tee)]
           /\ result' = [result EXCEPT ![m] = written[c]]
    /\ UNCHANGED <<match, lineup>>
    /\ Answer(c)

\* A reset decides nothing: it deletes under the lock and commits.
ResetMatch(c) ==
    /\ At(c, "locked", {"reset"})
    /\ scores' = [scores EXCEPT ![req[c].m] = {}]
    /\ result' = [result EXCEPT ![req[c].m] = NoResult]
    /\ UNCHANGED <<match, lineup>>
    /\ Answer(c)

UpdateMatch(c) ==
    /\ At(c, "checked", {"update"})
    /\ match' = [match EXCEPT ![req[c].m] = Updated(@, req[c].update)]
    /\ UNCHANGED <<lineup, scores, result>>
    /\ Answer(c)

\* The lineup, the scores and the result cascade.
DeleteMatch(c) ==
    /\ At(c, "checked", {"delete"})
    /\ match' = [match EXCEPT ![req[c].m] = Deleted]
    /\ lineup' = [lineup EXCEPT ![req[c].m] = {}]
    /\ scores' = [scores EXCEPT ![req[c].m] = {}]
    /\ result' = [result EXCEPT ![req[c].m] = NoResult]
    /\ Answer(c)

SetLineup(c) ==
    /\ At(c, "checked", {"lineup"})
    /\ lineup' = [lineup EXCEPT ![req[c].m] = req[c].entries]
    /\ UNCHANGED <<match, scores, result>>
    /\ Answer(c)

-----------------------------------------------------------------------------
(* The environment. *)

\* CreateMatch is one INSERT.
CreateMatch(m, row) ==
    /\ match[m] = Unborn
    /\ match' = [match EXCEPT ![m] = row]
    /\ UNCHANGED <<lineup, scores, result, lockedBy, now, pc, req, seen, written>>

\* A request cut off before its commit: the caller gone, its context cancelled,
\* the connection or the server lost.  The transaction rolls back.
Abort(c) == pc[c] # "idle" /\ Refuse(c)

Tick ==
    /\ now < MaxNow
    /\ now' = now + 1
    /\ UNCHANGED <<tables, lockedBy, pc, req, seen, written>>

Step(c) ==
    \/ GetMatch(c) \/ MatchTeams(c) \/ SaveScores(c)
    \/ CheckUpdate(c) \/ CheckDelete(c) \/ CheckLineup(c)
    \/ CommitScores(c) \/ ResetMatch(c) \/ UpdateMatch(c)
    \/ DeleteMatch(c) \/ SetLineup(c)

Next ==
    \/ \E c \in Clients :
        \/ \E r \in Requests : Receive(c, r)
        \/ LockMatch(c)
        \/ Step(c)
        \/ Abort(c)
    \/ \E m \in Matches, row \in MatchRows : CreateMatch(m, row)
    \/ Tick

Spec == Init /\ [][Next]_vars

\* A request that is not cut off runs to its end: each statement returns, and
\* Postgres grants a row lock to its waiters in turn.  Nothing makes a client
\* send, a match exist, the clock move or a connection drop.
FairSpec ==
    Spec /\ \A c \in Clients : WF_vars(Step(c)) /\ SF_vars(LockMatch(c))

-----------------------------------------------------------------------------
TypeOK ==
    /\ match \in [Matches -> MatchRows \cup {Unborn, Deleted}]
    /\ lineup \in [Matches -> SUBSET Participants]
    /\ scores \in [Matches -> SUBSET ScoreRows]
    /\ result \in [Matches -> Results \cup {NoResult}]
    /\ lockedBy \in [Matches -> Clients \cup {NoClient}]
    /\ now \in 0..MaxNow
    /\ pc \in [Clients -> Stages]
    /\ req \in [Clients -> Requests \cup {NoRequest}]
    /\ seen \in [Clients -> MatchRows \cup {NoRow}]
    /\ written \in [Clients -> Results \cup {NoResult}]

(***************************************************************************)
(* match_results is the outcome of the scores: a match has a row exactly   *)
(* when it has been scored, and the row is what its scores compute to now. *)
(* The cup, the records and every status read trust it.  Two submissions   *)
(* of different holes that overlapped would each store a result without    *)
(* the other's hole (the concurrency tests; SaveScoresAndRecompute).       *)
(***************************************************************************)
ResultInSync == \A m \in Matches : result[m] = ResultOf(scores[m])

(***************************************************************************)
(* What keeps it so.  Past its reads a request knows its match row; from   *)
(* lock to commit it holds the match's lock, and nobody else moves that    *)
(* match, so what it has written is still the outcome of what it commits.  *)
(***************************************************************************)
RequestKnown ==
    \A c \in Clients : pc[c] # "idle" =>
        /\ req[c] \in Requests
        /\ req[c].op = "submit" /\ pc[c] # "received" => seen[c] \in MatchRows

LockHeld ==
    \A c \in Clients : pc[c] \in {"locked", "checked"} =>
        lockedBy[req[c].m] = c /\ Live(req[c].m)

WrittenIsCurrent ==
    \A c \in Clients : At(c, "checked", {"submit"}) =>
        written[c] = ComputeStoredResult(
            UpsertScores(scores[req[c].m], req[c].hole, req[c].entries, seen[c].tee))

IInv == TypeOK /\ RequestKnown /\ LockHeld /\ WrittenIsCurrent /\ ResultInSync

(***************************************************************************)
(* A scored match can be read: it exists, its lineup is complete, each of  *)
(* its scores is on its own tee set, no two are for the same competitor    *)
(* and hole, and every player with a score is in the lineup.  The match    *)
(* and lineup a submission read before its lock may have moved since.      *)
(***************************************************************************)
ScoredMatchIsWhole ==
    \A m \in Matches : scores[m] # {} =>
        /\ Live(m)
        /\ LineupFits(lineup[m], match[m].perSide)
        /\ \A r \in scores[m] :
            /\ r.tee = match[m].tee
            /\ r.who \in Players => r.who \in {p.player : p \in lineup[m]}
        /\ \A q, r \in scores[m] : q.hole = r.hole /\ q.who = r.who => q = r

(***************************************************************************)
(* "A match that has been scored refuses the edits that would reinterpret  *)
(* those scores" (README): from its first score until its reset a match is *)
(* not deleted, and its tee set, format and lineup do not change, whatever *)
(* was decided about it before that score landed.                          *)
(***************************************************************************)
ScoredMatchIsFrozen ==
    [][\A m \in Matches : scores[m] # {} =>
          /\ Live(m)'
          /\ match'[m].tee = match[m].tee /\ match'[m].perSide = match[m].perSide
          /\ lineup'[m] = lineup[m]]_vars

(***************************************************************************)
(* A finished match takes no new hole: while match_results says finished,  *)
(* only a reset changes which holes carry scores.  The guard reads the     *)
(* scores and the write comes later, so two submissions could both find    *)
(* the match open (SubmitHoleScores' guard).                               *)
(***************************************************************************)
HolesScored(rows) == {r.hole : r \in rows}

FinishedTakesNoNewHole ==
    [][\A m \in Matches :
          result[m] # NoResult /\ scores'[m] # {} =>
              (result[m].finished => HolesScored(scores'[m]) = HolesScored(scores[m]))]_vars

(***************************************************************************)
(* The handlers implement MatchBook: whatever they read and however they   *)
(* overlap, abort and wait, the committed tables move as if every request  *)
(* had been one atomic step; in particular a hole lands whole or not at    *)
(* all.                                                                    *)
(***************************************************************************)
Book == INSTANCE MatchBook WITH match <- match, lineup <- lineup, scores <- scores, result <- result
ImplementsBook == Book!Spec

(***************************************************************************)
(* Every request is answered: no refusal, commit or cut-off leaves a lock  *)
(* behind for the others to wait on.                                       *)
(***************************************************************************)
EveryRequestAnswered == \A c \in Clients : pc[c] # "idle" ~> pc[c] = "idle"

(***************************************************************************)
(* "Scores are only accepted within a window around each match's tee time. *)
(* Outside it, a write is a 409" (README): a submission passes the checks  *)
(* of its transaction only if the window of the match it has locked is     *)
(* open.  The code checks the window before it waits for the lock, against *)
(* a row read then, and not again on the row the lock hands it.            *)
(***************************************************************************)
AcceptedInsideWindow ==
    [][\A c \in Clients : At(c, "locked", {"submit"}) /\ pc'[c] = "checked" =>
          ScoringOpen(now, match[req[c].m].teeTime)]_vars
=============================================================================
