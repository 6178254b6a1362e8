---------------------------- MODULE RosterProofs ----------------------------
(***************************************************************************)
(* For any players, matches, lineups and number of concurrent requests,    *)
(* cut off or not: everybody in a lineup is on her side, lineups stay      *)
(* whole, and, when no request is cut off, no side keeps a captain who has *)
(* left it.                                                                *)
(*                                                                         *)
(* LineupsAreDrafted is not inductive: a lineup commits places it checked  *)
(* some steps earlier.  IInv adds what the row locks buy: a player a       *)
(* lineup has placed stays drafted until it commits (PlacingHolds), since  *)
(* the undraft that would remove her cannot share the row (RemovedHolds).  *)
(***************************************************************************)
EXTENDS Roster, TLAPS

PlacingHolds ==
    \A c \in Clients : pc[c] = "placing" =>
        /\ job[c].match \in Matches
        /\ LineupFits(job[c].want, Format[job[c].match])
        /\ \A e \in job[c].placed : member[e.player] = e.team
        /\ job[c].place = NoPlace => job[c].want \subseteq job[c].placed

RemovedHolds ==
    \A c \in Clients : pc[c] = "removed" =>
        /\ job[c].place \in Participants
        /\ member[job[c].place.player] = job[c].place.team
        /\ \A d \in Clients : ~SharedBy(d, job[c].place)
        /\ \A d \in Clients \ {c} : ~DeletedBy(d, job[c].place)

IInv ==
    /\ TypeOK
    /\ PlacingHolds
    /\ RemovedHolds
    /\ LineupsAreDrafted
    /\ LineupsStayWhole

-----------------------------------------------------------------------------
(* Places and the places still to come. *)

LEMMA SamePlace ==
    ASSUME NEW d \in Participants, NEW e \in Participants,
           d.player = e.player, d.team = e.team
    PROVE  d = e
  BY DEF Participants

LEMMA PlaceType ==
    ASSUME NEW p \in Players, NEW t \in Teams
    PROVE  Place(p, t) \in Participants /\ Place(p, t).player = p /\ Place(p, t).team = t
  BY DEF Place, Participants

LEMMA NextPlacesType ==
    ASSUME NEW rest \in SUBSET Participants, NEW place \in NextPlaces(rest)
    PROVE  /\ place \in Participants \cup {NoPlace}
           /\ place = NoPlace => rest = {}
  BY RosterAssumption DEF NextPlaces

LEMMA LineupType ==
    ASSUME NEW entries \in Lineups
    PROVE  entries \in SUBSET Participants
  BY RequestsAssumption DEF ValidLineup

-----------------------------------------------------------------------------
(* The steps. *)

LEMMA InitIInv == Init => IInv
<1> SUFFICES ASSUME Init PROVE IInv
  OBVIOUS
<1>1. TypeOK
  BY MatchDataAssumption DEF Init, TypeOK, Stages, Idle
<1>2. PlacingHolds /\ RemovedHolds
  BY DEF Init, PlacingHolds, RemovedHolds
<1>3. LineupsAreDrafted /\ LineupsStayWhole
  BY DEF Init, LineupsAreDrafted, LineupsStayWhole
<1> QED
  BY <1>1, <1>2, <1>3 DEF IInv

\* A request that ends and leaves the members and the lineups alone.
LEMMA EndStep ==
    ASSUME IInv, NEW c \in Clients, End(c),
           UNCHANGED <<entered, member, lineup>>,
           captain' \in [Teams -> Players \cup {NoPlayer}],
           departed' \subseteq departed
    PROVE  IInv'
<1>1. TypeOK'
  BY DEF IInv, TypeOK, End, Idle, Stages
<1>2. pc' = [pc EXCEPT ![c] = "idle"] /\ \A d \in Clients \ {c} : job'[d] = job[d]
  BY DEF End, IInv, TypeOK
<1>3. \A d \in Clients : pc'[d] # "idle" => d # c /\ pc'[d] = pc[d] /\ job'[d] = job[d]
  BY <1>2 DEF IInv, TypeOK
<1>4. PlacingHolds'
  BY <1>3 DEF IInv, PlacingHolds
<1>5. RemovedHolds'
  BY <1>3 DEF IInv, RemovedHolds, SharedBy, DeletedBy
<1>6. LineupsAreDrafted' /\ LineupsStayWhole'
  BY DEF IInv, LineupsAreDrafted, LineupsStayWhole
<1> QED
  BY <1>1, <1>4, <1>5, <1>6 DEF IInv

\* A step that touches no request and no lineup, and drafts at most.
LEMMA TableStep ==
    ASSUME IInv, UNCHANGED <<lineup, pc, job>>, TypeOK',
           \A p \in Players : member[p] # NoTeam => member'[p] = member[p]
    PROVE  IInv'
<1>1. \A e \in Participants : member[e.player] = e.team => member'[e.player] = e.team
  BY MatchPlayAssumption DEF Participants, Teams
<1>2. \A m \in Matches : lineup[m] \in SUBSET Participants
  BY DEF IInv, TypeOK
<1>3. \A c \in Clients : job[c].placed \in SUBSET Participants
  BY DEF IInv, TypeOK
<1>4. LineupsAreDrafted' /\ LineupsStayWhole'
  BY <1>1, <1>2 DEF IInv, LineupsAreDrafted, LineupsStayWhole
<1>5. PlacingHolds'
  BY <1>1, <1>3 DEF IInv, PlacingHolds
<1>6. RemovedHolds'
  BY <1>1 DEF IInv, RemovedHolds, SharedBy, DeletedBy
<1> QED
  BY <1>4, <1>5, <1>6 DEF IInv

LEMMA RosterStep ==
    ASSUME IInv, NEW p \in Players, NEW t \in Teams,
           EnterPlayer(p) \/ DraftPlayer(p, t) \/ SetCaptain(t, p) \/ ClearCaptain(t)
    PROVE  IInv'
<1>1. CASE EnterPlayer(p)
  <2>1. TypeOK'
    BY <1>1 DEF EnterPlayer, IInv, TypeOK
  <2> QED
    BY <1>1, <2>1, TableStep DEF EnterPlayer
<1>2. CASE DraftPlayer(p, t)
  <2>1. TypeOK'
    BY <1>2 DEF DraftPlayer, IInv, TypeOK
  <2>2. \A q \in Players : member[q] # NoTeam => member'[q] = member[q]
    BY <1>2 DEF DraftPlayer, IInv, TypeOK
  <2> QED
    BY <1>2, <2>1, <2>2, TableStep DEF DraftPlayer
<1>3. CASE SetCaptain(t, p)
  <2>1. TypeOK'
    BY <1>3 DEF SetCaptain, IInv, TypeOK
  <2> QED
    BY <1>3, <2>1, TableStep DEF SetCaptain
<1>4. CASE ClearCaptain(t)
  <2>1. TypeOK'
    BY <1>4 DEF ClearCaptain, IInv, TypeOK
  <2> QED
    BY <1>4, <2>1, TableStep DEF ClearCaptain
<1> QED
  BY <1>1, <1>2, <1>3, <1>4

LEMMA BeginLineupStep ==
    ASSUME IInv, NEW c \in Clients, NEW m \in Matches, NEW entries \in Lineups,
           BeginLineup(c, m, entries)
    PROVE  IInv'
<1>1. PICK place \in NextPlaces(entries) :
         job' = [job EXCEPT ![c] =
                    [match |-> m, want |-> entries, placed |-> {}, place |-> place]]
  BY DEF BeginLineup
<1>2. /\ entries \in SUBSET Participants
      /\ place \in Participants \cup {NoPlace}
      /\ place = NoPlace => entries = {}
  BY LineupType, NextPlacesType
<1>3. /\ pc[c] = "idle" /\ pc' = [pc EXCEPT ![c] = "placing"]
      /\ UNCHANGED <<entered, member, captain, lineup, departed>>
      /\ LineupFits(entries, Format[m])
  BY DEF BeginLineup, tables
<1>4. TypeOK'
  BY <1>1, <1>2, <1>3 DEF IInv, TypeOK, Stages
<1>5. /\ job'[c] = [match |-> m, want |-> entries, placed |-> {}, place |-> place]
      /\ pc'[c] = "placing"
      /\ \A d \in Clients \ {c} : job'[d] = job[d] /\ pc'[d] = pc[d]
  BY <1>1, <1>3 DEF IInv, TypeOK
<1>6. PlacingHolds'
  BY <1>2, <1>3, <1>5 DEF IInv, PlacingHolds
<1>7. RemovedHolds'
  BY <1>3, <1>5 DEF IInv, RemovedHolds, SharedBy, DeletedBy
<1>8. LineupsAreDrafted' /\ LineupsStayWhole'
  BY <1>3 DEF IInv, LineupsAreDrafted, LineupsStayWhole
<1> QED
  BY <1>4, <1>6, <1>7, <1>8 DEF IInv

\* The row it references is nobody's to delete from here on.
LEMMA PlaceOneStep ==
    ASSUME IInv, NEW c \in Clients, PlaceOne(c)
    PROVE  IInv'
<1> DEFINE placed == job[c].placed \cup {job[c].place}
<1>1. PICK place \in NextPlaces(job[c].want \ placed) :
         job' = [job EXCEPT ![c].placed = placed, ![c].place = place]
  BY DEF PlaceOne
<1>2. /\ pc[c] = "placing" /\ job[c].place # NoPlace /\ ~Blocked(c)
      /\ member[job[c].place.player] = job[c].place.team
      /\ UNCHANGED <<entered, member, captain, lineup, pc, departed>>
  BY DEF PlaceOne, tables
<1>3. job[c].place \in Participants /\ placed \in SUBSET Participants
      /\ job[c].want \in SUBSET Participants
  BY <1>2 DEF IInv, TypeOK
<1>4. /\ place \in Participants \cup {NoPlace}
      /\ place = NoPlace => job[c].want \ placed = {}
  BY <1>3, NextPlacesType
<1>5. /\ job'[c] = [match |-> job[c].match, want |-> job[c].want,
                    placed |-> placed, place |-> place]
      /\ \A d \in Clients \ {c} : job'[d] = job[d]
  BY <1>1 DEF IInv, TypeOK
<1> HIDE DEF placed
<1>6. TypeOK'
  BY <1>1, <1>2, <1>3, <1>4 DEF IInv, TypeOK
<1>7. PlacingHolds'
  <2>1. \A e \in placed : member[e.player] = e.team
    BY <1>2 DEF IInv, PlacingHolds, placed
  <2> QED
    BY <1>2, <1>4, <1>5, <2>1 DEF IInv, PlacingHolds
<1>8. RemovedHolds'
  <2> SUFFICES ASSUME NEW d \in Clients, pc[d] = "removed"
               PROVE  /\ job'[d].place \in Participants
                      /\ member[job'[d].place.player] = job'[d].place.team
                      /\ \A x \in Clients : ~SharedBy(x, job[d].place)'
                      /\ \A x \in Clients \ {d} : ~DeletedBy(x, job[d].place)'
    BY <1>2, <1>5 DEF RemovedHolds, SharedBy, DeletedBy
  <2>1. d # c /\ job'[d] = job[d]
    BY <1>2, <1>5
  <2>2. job[d].place # job[c].place
    BY <1>2 DEF Blocked, WaitsFor, DeletedBy
  <2>3. ~SharedBy(c, job[d].place)'
    BY <1>5, <2>1, <2>2, <1>2 DEF SharedBy, IInv, RemovedHolds, placed
  <2>4. \A x \in Clients \ {c} : ~SharedBy(x, job[d].place)'
    BY <1>2, <1>5, <2>1 DEF SharedBy, IInv, RemovedHolds
  <2>5. \A x \in Clients \ {d} : ~DeletedBy(x, job[d].place)'
    BY <1>2, <1>5, <2>1 DEF DeletedBy, IInv, RemovedHolds
  <2> QED
    BY <2>1, <2>3, <2>4, <2>5 DEF IInv, RemovedHolds
<1>9. LineupsAreDrafted' /\ LineupsStayWhole'
  BY <1>2 DEF IInv, LineupsAreDrafted, LineupsStayWhole
<1> QED
  BY <1>6, <1>7, <1>8, <1>9 DEF IInv

LEMMA CommitLineupStep ==
    ASSUME IInv, NEW c \in Clients, CommitLineup(c)
    PROVE  IInv'
<1>1. /\ pc[c] = "placing" /\ job[c].place = NoPlace /\ End(c)
      /\ lineup' = [lineup EXCEPT ![job[c].match] = job[c].want]
      /\ UNCHANGED <<entered, member, captain, departed>>
  BY DEF CommitLineup
<1>2. /\ job[c].match \in Matches
      /\ job[c].want \in SUBSET Participants
      /\ LineupFits(job[c].want, Format[job[c].match])
      /\ \A e \in job[c].want : member[e.player] = e.team
  BY <1>1 DEF IInv, TypeOK, PlacingHolds
<1>3. TypeOK'
  BY <1>1, <1>2 DEF IInv, TypeOK, End, Idle, Stages
<1>4. \A d \in Clients : pc'[d] # "idle" => d # c /\ pc'[d] = pc[d] /\ job'[d] = job[d]
  BY <1>1 DEF IInv, TypeOK, End
<1>5. PlacingHolds'
  BY <1>1, <1>4 DEF IInv, PlacingHolds
<1>6. RemovedHolds'
  BY <1>1, <1>4 DEF IInv, RemovedHolds, SharedBy, DeletedBy
<1>7. LineupsAreDrafted' /\ LineupsStayWhole'
  BY <1>1, <1>2 DEF IInv, TypeOK, LineupsAreDrafted, LineupsStayWhole
<1> QED
  BY <1>3, <1>5, <1>6, <1>7 DEF IInv

LEMMA DeleteMemberStep ==
    ASSUME IInv, NEW c \in Clients, NEW p \in Players, NEW t \in Teams,
           DeleteMember(c, p, t)
    PROVE  IInv'
<1>1. /\ pc[c] = "idle" /\ member[p] = t
      /\ \A d \in Clients : ~SharedBy(d, Place(p, t)) /\ ~DeletedBy(d, Place(p, t))
      /\ pc' = [pc EXCEPT ![c] = "removed"]
      /\ job' = [job EXCEPT ![c].place = Place(p, t)]
      /\ UNCHANGED <<entered, member, captain, lineup, departed>>
  BY DEF DeleteMember, tables
<1>2. Place(p, t) \in Participants /\ member[Place(p, t).player] = Place(p, t).team
  BY <1>1, PlaceType
<1>3. TypeOK'
  BY <1>1, <1>2 DEF IInv, TypeOK, Stages
<1>4. /\ pc'[c] = "removed" /\ job'[c].place = Place(p, t)
      /\ \A d \in Clients \ {c} : job'[d] = job[d] /\ pc'[d] = pc[d]
  BY <1>1 DEF IInv, TypeOK
<1>5. PlacingHolds'
  BY <1>1, <1>4 DEF IInv, PlacingHolds
<1>6. RemovedHolds'
  BY <1>1, <1>2, <1>4 DEF IInv, RemovedHolds, SharedBy, DeletedBy
<1>7. LineupsAreDrafted' /\ LineupsStayWhole'
  BY <1>1 DEF IInv, LineupsAreDrafted, LineupsStayWhole
<1> QED
  BY <1>3, <1>5, <1>6, <1>7 DEF IInv

\* Nobody references the row: no lineup by the check, no open one by its locks.
LEMMA CommitUndraftStep ==
    ASSUME IInv, NEW c \in Clients, CommitUndraft(c)
    PROVE  IInv'
<1> DEFINE gone == job[c].place
<1>1. /\ pc[c] = "removed"
      /\ \A m \in Matches : gone \notin lineup[m]
      /\ member' = [member EXCEPT ![gone.player] = NoTeam]
      /\ departed' = departed \cup {d \in {gone} : captain[gone.team] = gone.player}
      /\ pc' = [pc EXCEPT ![c] = "undrafted"]
      /\ UNCHANGED <<entered, captain, lineup, job>>
  BY DEF CommitUndraft, Leave
<1>2. /\ gone \in Participants /\ member[gone.player] = gone.team
      /\ \A d \in Clients : ~SharedBy(d, gone)
      /\ \A d \in Clients \ {c} : ~DeletedBy(d, gone)
  BY <1>1 DEF IInv, RemovedHolds
<1> HIDE DEF gone
<1>3. TypeOK'
  BY <1>1, <1>2 DEF IInv, TypeOK, Stages
<1>4. \A e \in Participants : e # gone /\ member[e.player] = e.team => member'[e.player] = e.team
  <2> SUFFICES ASSUME NEW e \in Participants, e # gone, member[e.player] = e.team
               PROVE  member'[e.player] = e.team
    OBVIOUS
  <2>1. e.player # gone.player
    BY <1>2, SamePlace
  <2> QED
    BY <1>1, <2>1 DEF Participants, IInv, TypeOK
<1>5. \A d \in Clients : pc'[d] # "undrafted" => d # c /\ pc'[d] = pc[d]
  BY <1>1 DEF IInv, TypeOK
<1>6. PlacingHolds'
  <2>1. \A d \in Clients : pc[d] = "placing" =>
            job[d].placed \in SUBSET Participants /\ gone \notin job[d].placed
    BY <1>2 DEF IInv, TypeOK, SharedBy
  <2> QED
    BY <1>1, <1>4, <1>5, <2>1 DEF IInv, PlacingHolds
<1>7. RemovedHolds'
  <2>1. \A d \in Clients \ {c} : pc[d] = "removed" => job[d].place # gone
    BY <1>2 DEF DeletedBy
  <2> QED
    BY <1>1, <1>4, <1>5, <2>1 DEF IInv, RemovedHolds, SharedBy, DeletedBy
<1>8. LineupsAreDrafted' /\ LineupsStayWhole'
  <2>1. \A m \in Matches : lineup[m] \in SUBSET Participants
    BY DEF IInv, TypeOK
  <2> QED
    BY <1>1, <1>4, <2>1 DEF IInv, LineupsAreDrafted, LineupsStayWhole
<1> QED
  BY <1>3, <1>6, <1>7, <1>8 DEF IInv

LEMMA OtherEnds ==
    ASSUME IInv, NEW c \in Clients,
           RefusePlace(c) \/ RefuseUndraft(c) \/ ClearCaptainForPlayer(c)
             \/ BreakDeadlock(c) \/ Abandon(c)
    PROVE  IInv'
<1>1. captain \in [Teams -> Players \cup {NoPlayer}]
  BY DEF IInv, TypeOK
<1>2. CASE RefusePlace(c) \/ RefuseUndraft(c) \/ BreakDeadlock(c) \/ Abandon(c)
  BY <1>1, <1>2, EndStep DEF RefusePlace, RefuseUndraft, BreakDeadlock, Abandon, tables
<1>3. CASE ClearCaptainForPlayer(c)
  <2>1. captain' \in [Teams -> Players \cup {NoPlayer}]
    BY <1>1, <1>3 DEF ClearCaptainForPlayer
  <2> QED
    BY <1>3, <2>1, EndStep DEF ClearCaptainForPlayer
<1> QED
  BY <1>2, <1>3

LEMMA NextIInv == IInv /\ [Next]_vars => IInv'
<1> SUFFICES ASSUME IInv, [Next]_vars PROVE IInv'
  OBVIOUS
<1>1. CASE UNCHANGED vars
  BY <1>1 DEF vars, tables, IInv, TypeOK, PlacingHolds, RemovedHolds, SharedBy, DeletedBy,
              LineupsAreDrafted, LineupsStayWhole
<1>2. ASSUME NEW p \in Players, EnterPlayer(p) PROVE IInv'
  <2>1. TeamA \in Teams
    BY DEF Teams
  <2> QED
    BY <1>2, <2>1, RosterStep
<1>3. ASSUME NEW p \in Players, NEW t \in Teams, DraftPlayer(p, t) \/ SetCaptain(t, p)
      PROVE  IInv'
  BY <1>3, RosterStep
<1>4. ASSUME NEW t \in Teams, ClearCaptain(t) PROVE IInv'
  <2>1. TypeOK'
    BY <1>4 DEF ClearCaptain, IInv, TypeOK
  <2> QED
    BY <1>4, <2>1, TableStep DEF ClearCaptain
<1>5. ASSUME NEW c \in Clients, Advance(c) PROVE IInv'
  BY <1>5, PlaceOneStep, CommitLineupStep, CommitUndraftStep, OtherEnds DEF Advance
<1> QED
  BY <1>1, <1>2, <1>3, <1>4, <1>5, BeginLineupStep, DeleteMemberStep, OtherEnds DEF Next

(***************************************************************************)
(* The inductive invariant holds, and with it its parts.                   *)
(***************************************************************************)
THEOREM RosterInvariant == Spec => []IInv
BY InitIInv, NextIInv, PTL DEF Spec

(***************************************************************************)
(* Every row the roster's requests leave has its table's shape, and a      *)
(* request knows what it is doing and to whom.                             *)
(***************************************************************************)
THEOREM RosterTypeCorrect == Spec => []TypeOK
<1>1. IInv => TypeOK
  BY DEF IInv
<1> QED
  BY <1>1, RosterInvariant, PTL

(***************************************************************************)
(* However many drafts, undrafts and lineups overlap, everybody in a       *)
(* lineup is on the side she plays for.                                    *)
(***************************************************************************)
THEOREM LineupsAlwaysDrafted == Spec => []LineupsAreDrafted
<1>1. IInv => LineupsAreDrafted
  BY DEF IInv
<1> QED
  BY <1>1, RosterInvariant, PTL

(***************************************************************************)
(* No undraft leaves a match a side short.                                 *)
(***************************************************************************)
THEOREM LineupsAlwaysWhole == Spec => []LineupsStayWhole
<1>1. IInv => LineupsStayWhole
  BY DEF IInv
<1> QED
  BY <1>1, RosterInvariant, PTL

-----------------------------------------------------------------------------
(* The captain's role. *)

\* A step that leaves the requests about to clear a role where they are.
LEMMA WitnessStays ==
    ASSUME RoleNeverStale, departed' \subseteq departed,
           \A d \in Clients : pc[d] = "undrafted" =>
               pc'[d] = "undrafted" /\ job'[d].place = job[d].place
    PROVE  RoleNeverStale'
  BY DEF RoleNeverStale

\* A step of a request that has no role to clear.
LEMMA OthersStay ==
    ASSUME IInv, RoleNeverStale, NEW c \in Clients, pc[c] # "undrafted",
           departed' \subseteq departed,
           \A d \in Clients \ {c} : pc'[d] = pc[d] /\ job'[d] = job[d]
    PROVE  RoleNeverStale'
  BY WitnessStays

\* No request is cut off between an undraft's two transactions.
NeverBetween == "undrafted" \notin CutOffAt

LEMMA NextRole == NeverBetween /\ IInv /\ RoleNeverStale /\ [Next]_vars => RoleNeverStale'
<1> SUFFICES ASSUME NeverBetween, IInv, RoleNeverStale, [Next]_vars PROVE RoleNeverStale'
  OBVIOUS
<1>1. CASE UNCHANGED vars
  BY <1>1, WitnessStays DEF vars
<1>2. ASSUME NEW p \in Players, NEW t \in Teams,
             EnterPlayer(p) \/ DraftPlayer(p, t) \/ SetCaptain(t, p)
      PROVE  RoleNeverStale'
  BY <1>2, WitnessStays DEF EnterPlayer, DraftPlayer, SetCaptain
<1>3. ASSUME NEW t \in Teams, ClearCaptain(t) PROVE RoleNeverStale'
  BY <1>3, WitnessStays DEF ClearCaptain
<1>4. ASSUME NEW c \in Clients, NEW m \in Matches, NEW entries \in Lineups,
             BeginLineup(c, m, entries)
      PROVE  RoleNeverStale'
  BY <1>4, OthersStay DEF BeginLineup, IInv, TypeOK
<1>5. ASSUME NEW c \in Clients, NEW p \in Players, NEW t \in Teams, DeleteMember(c, p, t)
      PROVE  RoleNeverStale'
  BY <1>5, OthersStay DEF DeleteMember, IInv, TypeOK
<1>6. ASSUME NEW c \in Clients, PlaceOne(c) PROVE RoleNeverStale'
  BY <1>6, OthersStay DEF PlaceOne, IInv, TypeOK
<1>7. ASSUME NEW c \in Clients, RefusePlace(c) \/ CommitLineup(c) \/ RefuseUndraft(c)
      PROVE  RoleNeverStale'
  BY <1>7, OthersStay DEF RefusePlace, CommitLineup, RefuseUndraft, End, IInv, TypeOK
<1>8. ASSUME NEW c \in Clients, CommitUndraft(c) PROVE RoleNeverStale'
  <2>1. /\ departed' \subseteq departed \cup {job[c].place}
        /\ pc'[c] = "undrafted" /\ job' = job
        /\ \A d \in Clients \ {c} : pc'[d] = pc[d]
    BY <1>8 DEF CommitUndraft, Leave, IInv, TypeOK
  <2> QED
    BY <2>1 DEF RoleNeverStale
<1>9. ASSUME NEW c \in Clients, ClearCaptainForPlayer(c) PROVE RoleNeverStale'
  <2>1. /\ departed' = departed \ {job[c].place}
        /\ \A d \in Clients \ {c} : pc'[d] = pc[d] /\ job'[d] = job[d]
    BY <1>9 DEF ClearCaptainForPlayer, End, IInv, TypeOK
  <2> QED
    BY <2>1 DEF RoleNeverStale
<1>10. ASSUME NEW c \in Clients, BreakDeadlock(c) PROVE RoleNeverStale'
  <2>1. pc[c] # "undrafted"
    BY <1>10 DEF BreakDeadlock, Blocked, WaitsFor
  <2>2. End(c) /\ departed' = departed
    BY <1>10 DEF BreakDeadlock
  <2> QED
    BY <2>1, <2>2, OthersStay DEF End, IInv, TypeOK
<1>11. ASSUME NEW c \in Clients, Abandon(c) PROVE RoleNeverStale'
  <2>1. pc[c] # "undrafted" /\ End(c) /\ departed' = departed
    BY <1>11 DEF Abandon, NeverBetween
  <2> QED
    BY <2>1, OthersStay DEF End, IInv, TypeOK
<1>12. ASSUME NEW p \in Players, EnterPlayer(p) PROVE RoleNeverStale'
  BY <1>12, WitnessStays DEF EnterPlayer
<1> QED
  BY <1>1, <1>2, <1>3, <1>4, <1>5, <1>6, <1>7, <1>8, <1>9, <1>10, <1>11, <1>12
     DEF Next, Advance

(***************************************************************************)
(* When no request is cut off between an undraft's two transactions, no    *)
(* side keeps a captain who has left it.  (MCStaleCaptain shows the        *)
(* premise is needed.)                                                     *)
(***************************************************************************)
THEOREM RoleFollowsMembership == NeverBetween /\ Spec => []RoleNeverStale
<1>1. Init => RoleNeverStale
  BY DEF Init, RoleNeverStale
<1>2. NeverBetween /\ IInv /\ RoleNeverStale /\ [Next]_vars => RoleNeverStale'
  BY NextRole
<1>3. CASE ~NeverBetween
  BY <1>3, PTL
<1>4. CASE NeverBetween
  <2>1. IInv /\ RoleNeverStale /\ [Next]_vars => RoleNeverStale'
    BY <1>2, <1>4
  <2> QED
    BY <1>1, <2>1, RosterInvariant, PTL DEF Spec
<1> QED
  BY <1>3, <1>4
=============================================================================
