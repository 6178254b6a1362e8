------------------------------- MODULE Roster -------------------------------
(***************************************************************************)
(* A tournament's roster under concurrent requests: players are entered,   *)
(* drafted and undrafted, captains named, and lineups set from whoever is  *)
(* on a side.                                                              *)
(*                                                                         *)
(* A lineup place references its player's team_members row, and "nothing   *)
(* here has to be locked, because the rule is the reference itself"        *)
(* (team_members.go).  So the two requests that meet on such a row run     *)
(* here statement by statement, with the row locks PostgreSQL takes for    *)
(* the reference: SetMatchLineup holds a share lock on the row of each     *)
(* player it has placed, DeleteTeamMember an exclusive one on the row it   *)
(* deletes, and a wait in a circle is broken by aborting one of its        *)
(* members.  The other requests are one statement each.                    *)
(*                                                                         *)
(* The tables hold what is committed; a transaction that aborts or is cut  *)
(* off leaves them as they were.                                           *)
(***************************************************************************)
EXTENDS MatchData, Relation

CONSTANTS
    Clients,        \* requests in progress at once
    Format,         \* players_per_side of each match's format
    CutOffAt,       \* where a request may be cut off: its context cancelled, a crash
    NoMatch, NoPlace, NoPlayer

\* placing: a lineup's transaction holds the match and has deleted the old places;
\* removed: an undraft has deleted the member row and checks the reference;
\* undrafted: that has committed and the captain is to be cleared.
Stages == {"idle", "placing", "removed", "undrafted"}

ASSUME RosterAssumption ==
    /\ Format \in [Matches -> PlayersPerSide]
    /\ CutOffAt \subseteq Stages
    /\ NoMatch \notin Matches /\ NoPlace \notin Participants /\ NoPlayer \notin Players

VARIABLES
    entered,    \* tournament_players
    member,     \* team_members: the side of each drafted player
    captain,    \* teams.captain_id
    lineup,     \* match_participants
    pc,         \* where each request is
    job,        \* what it is about
    departed    \* history: who has left a side while captain of it, since named

tables == <<entered, member, captain, lineup>>
vars == <<entered, member, captain, lineup, pc, job, departed>>

Idle == [match |-> NoMatch, want |-> {}, placed |-> {}, place |-> NoPlace]

Place(p, t) == [player |-> p, team |-> t]

Init ==
    /\ entered = {p \in Players : Draft[p] # NoTeam}
    /\ member = Draft
    /\ captain = [t \in Teams |-> NoPlayer]
    /\ lineup = [m \in Matches |-> {}]
    /\ pc = [c \in Clients |-> "idle"]
    /\ job = [c \in Clients |-> Idle]
    /\ departed = {}

End(c) ==
    /\ pc' = [pc EXCEPT ![c] = "idle"]
    /\ job' = [job EXCEPT ![c] = Idle]

(* ------------------------------- the locks ----------------------------- *)

\* lockMatch, until the lineup's transaction ends.
Replacing(c, m) == pc[c] = "placing" /\ job[c].match = m

\* The member row of a place somebody has added to a lineup and not committed.
SharedBy(c, place) == pc[c] = "placing" /\ place \in job[c].placed

\* The member row somebody has deleted and not committed.
DeletedBy(c, place) == pc[c] = "removed" /\ job[c].place = place

\* c cannot go on before d ends: the row it references, or is referenced by, is d's.
WaitsFor(c, d) ==
    \/ /\ pc[c] = "placing"
       /\ job[c].place # NoPlace
       /\ DeletedBy(d, job[c].place)
    \/ /\ pc[c] = "removed"
       /\ \E m \in Matches : Replacing(d, m) /\ job[c].place \in lineup[m]

Blocked(c) == \E d \in Clients : WaitsFor(c, d)

Deadlocked(c) ==
    TransitiveClosure([x, y \in Clients |-> WaitsFor(x, y)], Clients)[c, c]

(* ------------------------- entering and drafting ----------------------- *)

EnterPlayer(p) ==
    /\ p \notin entered
    /\ entered' = entered \cup {p}
    /\ UNCHANGED <<member, captain, lineup, pc, job, departed>>

\* One side a player: the insert waits on an undraft of hers and fails on a draft.
DraftPlayer(p, t) ==
    /\ p \in entered
    /\ member[p] = NoTeam
    /\ member' = [member EXCEPT ![p] = t]
    /\ departed' = departed \ {Place(p, t)}
    /\ UNCHANGED <<entered, captain, lineup, pc, job>>

(* ------------------------------ the captain ---------------------------- *)

\* Any player may captain a side, drafted onto it or not.
SetCaptain(t, p) ==
    /\ captain' = [captain EXCEPT ![t] = p]
    /\ departed' = {d \in departed : d.team # t}
    /\ UNCHANGED <<entered, member, lineup, pc, job>>

\* Bug: the column is cleared with the wrong null.
ClearCaptain_NoTeam(t) ==
    /\ captain' = [captain EXCEPT ![t] = NoTeam]
    /\ departed' = {d \in departed : d.team # t}
    /\ UNCHANGED <<entered, member, lineup, pc, job>>

ClearCaptain(t) ==
    /\ captain' = [captain EXCEPT ![t] = NoPlayer]
    /\ departed' = {d \in departed : d.team # t}
    /\ UNCHANGED <<entered, member, lineup, pc, job>>

(* ------------------------------ the lineup ----------------------------- *)

\* The next place an INSERT is for, when there is one.
NextPlaces(rest) == IF rest = {} THEN {NoPlace} ELSE rest

\* SetMatchLineup up to its first INSERT: the lock, the size, the DELETE.
BeginLineup(c, m, entries) ==
    /\ pc[c] = "idle"
    /\ \A d \in Clients : ~Replacing(d, m)
    /\ LineupFits(entries, Format[m])
    /\ pc' = [pc EXCEPT ![c] = "placing"]
    /\ \E place \in NextPlaces(entries) :
          job' = [job EXCEPT ![c] =
                     [match |-> m, want |-> entries, placed |-> {}, place |-> place]]
    /\ UNCHANGED <<tables, departed>>

\* Bug: the reference is read and its row not locked.
PlaceOne_NoWait(c) ==
    /\ pc[c] = "placing"
    /\ job[c].place # NoPlace
    /\ member[job[c].place.player] = job[c].place.team
    /\ LET placed == job[c].placed \cup {job[c].place}
       IN  \E place \in NextPlaces(job[c].want \ placed) :
              job' = [job EXCEPT ![c].placed = placed, ![c].place = place]
    /\ UNCHANGED <<tables, pc, departed>>

\* CreateMatchParticipant of a drafted player.
PlaceOne(c) ==
    /\ pc[c] = "placing"
    /\ job[c].place # NoPlace
    /\ ~Blocked(c)
    /\ member[job[c].place.player] = job[c].place.team
    /\ LET placed == job[c].placed \cup {job[c].place}
       IN  \E place \in NextPlaces(job[c].want \ placed) :
              job' = [job EXCEPT ![c].placed = placed, ![c].place = place]
    /\ UNCHANGED <<tables, pc, departed>>

\* Bug: the refused insert is tried again in the open transaction.
RefusePlace_Retried(c) ==
    /\ pc[c] = "placing"
    /\ job[c].place # NoPlace
    /\ ~Blocked(c)
    /\ member[job[c].place.player] # job[c].place.team
    /\ UNCHANGED vars

\* CreateMatchParticipant of anybody else: the foreign key aborts the transaction.
RefusePlace(c) ==
    /\ pc[c] = "placing"
    /\ job[c].place # NoPlace
    /\ ~Blocked(c)
    /\ member[job[c].place.player] # job[c].place.team
    /\ End(c)
    /\ UNCHANGED <<tables, departed>>

CommitLineup(c) ==
    /\ pc[c] = "placing"
    /\ job[c].place = NoPlace
    /\ lineup' = [lineup EXCEPT ![job[c].match] = job[c].want]
    /\ End(c)
    /\ UNCHANGED <<entered, member, captain, departed>>

(* ------------------------------ the undraft ---------------------------- *)

\* DeleteTeamMember's DELETE, once nobody holds the row.
DeleteMember(c, p, t) ==
    /\ pc[c] = "idle"
    /\ member[p] = t
    /\ \A d \in Clients : ~SharedBy(d, Place(p, t)) /\ ~DeletedBy(d, Place(p, t))
    /\ pc' = [pc EXCEPT ![c] = "removed"]
    /\ job' = [job EXCEPT ![c].place = Place(p, t)]
    /\ UNCHANGED <<tables, departed>>

\* ON DELETE RESTRICT: ErrAssignedPlayerUndraft.
RefuseUndraft(c) ==
    /\ pc[c] = "removed"
    /\ \E m \in Matches :
          job[c].place \in lineup[m] /\ \A d \in Clients : ~Replacing(d, m)
    /\ End(c)
    /\ UNCHANGED <<tables, departed>>

Leave(c) ==
    LET place == job[c].place
    IN  /\ member' = [member EXCEPT ![place.player] = NoTeam]
        /\ departed' = departed \cup
                          {d \in {place} : captain[place.team] = place.player}

\* Bug: the cascade of 001_init, before migration 005.
CommitUndraft_Cascade(c) ==
    /\ pc[c] = "removed"
    /\ ~Blocked(c)
    /\ Leave(c)
    /\ lineup' = [m \in Matches |-> lineup[m] \ {job[c].place}]
    /\ pc' = [pc EXCEPT ![c] = "undrafted"]
    /\ UNCHANGED <<entered, captain, job>>

\* Bug: UndraftPlayer ends with the membership.
CommitUndraft_KeepsCaptain(c) ==
    /\ pc[c] = "removed"
    /\ \A m \in Matches : job[c].place \notin lineup[m]
    /\ Leave(c)
    /\ End(c)
    /\ UNCHANGED <<entered, captain, lineup>>

CommitUndraft(c) ==
    /\ pc[c] = "removed"
    /\ \A m \in Matches : job[c].place \notin lineup[m]
    /\ Leave(c)
    /\ pc' = [pc EXCEPT ![c] = "undrafted"]
    /\ UNCHANGED <<entered, captain, lineup, job>>

\* ClearCaptainForPlayer, a transaction of its own.
ClearCaptainForPlayer(c) ==
    LET place == job[c].place
    IN  /\ pc[c] = "undrafted"
        /\ captain' = IF captain[place.team] = place.player
                      THEN [captain EXCEPT ![place.team] = NoPlayer] ELSE captain
        /\ departed' = departed \ {place}
        /\ End(c)
        /\ UNCHANGED <<entered, member, lineup>>

(* ------------------------------ being ended ---------------------------- *)

\* PostgreSQL aborts one of the transactions that wait in a circle.
BreakDeadlock(c) ==
    /\ Blocked(c) /\ Deadlocked(c)
    /\ End(c)
    /\ UNCHANGED <<tables, departed>>

\* A cancelled context or a crash rolls back what is open, and ends the request.
Abandon(c) ==
    /\ pc[c] \in CutOffAt \ {"idle"}
    /\ End(c)
    /\ UNCHANGED <<tables, departed>>

\* One request's own steps, once it has begun.
Advance(c) ==
    \/ PlaceOne(c)
    \/ RefusePlace(c)
    \/ CommitLineup(c)
    \/ RefuseUndraft(c)
    \/ CommitUndraft(c)
    \/ ClearCaptainForPlayer(c)

Next ==
    \/ \E p \in Players : EnterPlayer(p)
    \/ \E p \in Players, t \in Teams : DraftPlayer(p, t) \/ SetCaptain(t, p)
    \/ \E t \in Teams : ClearCaptain(t)
    \/ \E c \in Clients :
          \/ \E m \in Matches, entries \in Lineups : BeginLineup(c, m, entries)
          \/ \E p \in Players, t \in Teams : DeleteMember(c, p, t)
          \/ Advance(c)
          \/ BreakDeadlock(c)
          \/ Abandon(c)

Spec == Init /\ [][Next]_vars

(***************************************************************************)
(* A request that is not cut off takes its next step when it can, and      *)
(* whoever waits for a row gets it in turn: PostgreSQL queues the waiters, *)
(* so a step that is enabled again and again is taken.  A deadlock is      *)
(* looked for once deadlock_timeout has passed.                            *)
(***************************************************************************)
Fairness ==
    \A c \in Clients :
        /\ SF_vars(Advance(c))
        /\ WF_vars(BreakDeadlock(c))

FairSpec == Spec /\ Fairness

-----------------------------------------------------------------------------
TypeOK ==
    /\ entered \subseteq Players
    /\ member \in [Players -> Teams \cup {NoTeam}]
    /\ captain \in [Teams -> Players \cup {NoPlayer}]
    /\ lineup \in [Matches -> SUBSET Participants]
    /\ pc \in [Clients -> Stages]
    /\ job \in [Clients -> [match : Matches \cup {NoMatch},
                            want : SUBSET Participants,
                            placed : SUBSET Participants,
                            place : Participants \cup {NoPlace}]]
    /\ departed \subseteq Participants

(***************************************************************************)
(* Everybody in a lineup is on the side she plays for, whatever drafts,    *)
(* undrafts and lineups run at once: "the rule is the reference itself"    *)
(* (DeleteTeamMember).  It rests on the two transactions locking the row   *)
(* they share, not on either's checks.                                     *)
(***************************************************************************)
LineupsAreDrafted ==
    \A m \in Matches : \A e \in lineup[m] : member[e.player] = e.team

(***************************************************************************)
(* A lineup once set stays whole: undrafting a player never leaves a match *)
(* a side short, "a lineup nothing can write and nobody can play"          *)
(* (migration 005).                                                        *)
(***************************************************************************)
LineupsStayWhole ==
    \A m \in Matches : lineup[m] # {} => LineupFits(lineup[m], Format[m])

(***************************************************************************)
(* A captain who leaves her side is still its captain only while the       *)
(* request that undrafted her is yet to clear the role: "so the role never *)
(* goes stale" (ClearCaptainForPlayer).                                    *)
(***************************************************************************)
RoleNeverStale ==
    \A place \in departed :
        \E c \in Clients : pc[c] = "undrafted" /\ job[c].place = place

(***************************************************************************)
(* Every request ends: a lineup and an undraft that each hold the row the  *)
(* other wants do not wait for ever (SetMatchLineup, DeleteTeamMember).    *)
(***************************************************************************)
EveryRequestEnds == \A c \in Clients : pc[c] # "idle" ~> pc[c] = "idle"
=============================================================================
