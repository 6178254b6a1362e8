------------------------------- MODULE Setup -------------------------------
(***************************************************************************)
(* Setting cups up: a tenant's courses with their tee sets and holes, its  *)
(* players, and its tournaments with their teams, written by concurrent    *)
(* requests and by the advance seed (internal/app/seed.go), which plans a  *)
(* cup from a file and writes it in one transaction.                       *)
(*                                                                         *)
(* Nothing here takes a lock on purpose.  What keeps two writers apart is  *)
(* a unique key: an insert waits for a transaction that has inserted the   *)
(* same key and not ended, and is refused once that has committed.  The    *)
(* transactions of several statements that can wait, the seed and a tee    *)
(* set with its holes, run here statement by statement; the others are one *)
(* step, taken when nothing holds the key they need.                       *)
(*                                                                         *)
(* The tables hold what is committed.  What a transaction has inserted is  *)
(* in its job until it commits.                                            *)
(***************************************************************************)
EXTENDS Integers, FiniteSets, Sequences, SequencesExt, Relation

CONSTANTS
    Clients,            \* requests in progress at once
    NumHoles,           \* 18 in the code
    Courses, Colors,    \* the names a course and a tee colour can have
    Emails,             \* addresses as they are typed
    Folded,             \* lowercased and trimmed, an address again
    CupNames,           \* the (name, start, end) a tournament can have
    Files,              \* the seed files
    HoleLists,          \* the hole numbers a tee set request carries, in order
    Players, Cups,      \* the ids there are: bounds on the rows of each table
    NoPlayer, NoCup, NoAddress, NoFile, NoPair

Holes == 1..NumHoles
Teams == {"Red", "Blue"}
Pairs == Courses \X Colors

ASSUME SetupAssumption ==
    /\ NumHoles \in Nat \ {0}
    /\ Folded \in [Emails -> Emails]
    /\ \A e \in Emails : Folded[Folded[e]] = Folded[e]
    /\ \A f \in Files :
          /\ f.cup \in CupNames /\ f.course \in Courses /\ f.color \in Colors
          /\ f.roster \in Seq(Emails)
          /\ DOMAIN f.captains \subseteq Teams
          /\ \A t \in DOMAIN f.captains : f.captains[t] \in Emails
          /\ f.matches \in Nat
    /\ \A l \in HoleLists : l \in Seq(Int)
    /\ NoPlayer \notin Players /\ NoAddress \notin Emails /\ NoFile \notin Files
    /\ NoPair \notin Pairs

People == {Folded[e] : e \in Emails}

\* A tournament with its two teams and what the setup gives it.  seededBy is
\* history: the file it was written from, if one.
CupRows ==
    [name : CupNames, seededBy : Files \cup {NoFile}, teams : SUBSET Teams,
     entered : SUBSET Players, side : [Teams -> SUBSET Players],
     captain : [Teams -> Players \cup {NoPlayer}],
     matches : Nat, pair : Pairs \cup {NoPair}]

ASSUME AbsentCupAssumption == NoCup \notin CupRows

VARIABLES
    courses, colors,    \* courses and tee_colors, by their names
    teeSets,            \* tee_sets
    holes,              \* holes: the numbers there are of each pair
    player,             \* players: the address of each
    cup,                \* tournaments, with all that hangs on each
    pc,                 \* where each request is
    job                 \* what it is about and has written so far

tables == <<courses, colors, teeSets, holes, player, cup>>
vars == <<courses, colors, teeSets, holes, player, cup, pc, job>>

\* planned: the file is resolved and checked; seeding: the cup and its teams are
\* inserted; listing: a tee set is inserted and its holes are under way.
Stages == {"idle", "planned", "seeding", "listing"}

\* Bug: an address nobody has is taken for a player.
Unknown_Nil == [x \in People |-> NoAddress]

Unknown == [x \in People |-> NoPlayer]

\* known maps a folded address to a player, at is the next line of the roster or the
\* next hole of the list, and quiet is history: no other request has committed a
\* player's address since the players were read.
Idle == [file |-> NoFile, known |-> Unknown, made |-> {}, at |-> 1,
         pair |-> NoPair, list |-> <<>>, quiet |-> FALSE]

Init ==
    /\ courses = {} /\ colors = {} /\ teeSets = {}
    /\ holes = [p \in Pairs |-> {}]
    /\ player = [i \in Players |-> NoAddress]
    /\ cup = [k \in Cups |-> NoCup]
    /\ pc = [c \in Clients |-> "idle"]
    /\ job = [c \in Clients |-> Idle]

End(c) ==
    /\ pc' = [pc EXCEPT ![c] = "idle"]
    /\ job' = [job EXCEPT ![c] = Idle]

(* ------------------------------- the keys ------------------------------ *)

\* Keys inserted and not committed.
HoldsName(d, n) == pc[d] = "seeding" /\ job[d].file.cup = n
HoldsAddress(d, e) == \E m \in job[d].made : m.email = e
HoldsPair(d, p) == pc[d] = "listing" /\ job[d].pair = p

NameFree(n) == \A k \in Cups : cup[k] # NoCup => cup[k].name # n
AddressFree(e) == \A i \in Players : player[i] # e

\* An id no row has, committed or not.
SpareCups == {k \in Cups : cup[k] = NoCup}
SparePlayers ==
    {i \in Players : player[i] = NoAddress
                       /\ \A d \in Clients : \A m \in job[d].made : m.id # i}

\* The line a seed is at, and the address and the person it names.
Lines(c) == job[c].file.roster
Line(c) == Lines(c)[job[c].at]
Entering(c) == pc[c] = "seeding" /\ job[c].at <= Len(Lines(c))
IsNew(c) == job[c].known[Folded[Line(c)]] = NoPlayer

WaitsFor(c, d) ==
    /\ c # d
    /\ \/ pc[c] = "planned" /\ HoldsName(d, job[c].file.cup)
       \/ Entering(c) /\ IsNew(c) /\ HoldsAddress(d, Line(c))

Blocked(c) == \E d \in Clients : WaitsFor(c, d)

Deadlocked(c) ==
    TransitiveClosure([x, y \in Clients |-> WaitsFor(x, y)], Clients)[c, c]

\* Everybody who is reading loses the claim that nobody else has written an address.
Disturbed(others) ==
    [d \in Clients |-> IF d \in others THEN [job[d] EXCEPT !.quiet = FALSE] ELSE job[d]]

(* --------------------------- one-step requests ------------------------- *)

CreateTeeColor(x) ==
    /\ x \notin colors
    /\ colors' = colors \cup {x}
    /\ UNCHANGED <<courses, teeSets, holes, player, cup, pc, job>>

CreateCourse(x) ==
    /\ x \notin courses
    /\ courses' = courses \cup {x}
    /\ UNCHANGED <<colors, teeSets, holes, player, cup, pc, job>>

CreatePlayer(e) ==
    /\ AddressFree(e) /\ \A d \in Clients : ~HoldsAddress(d, e)
    /\ SparePlayers # {}
    /\ player' = [player EXCEPT ![CHOOSE i \in SparePlayers : TRUE] = e]
    /\ job' = Disturbed(Clients)
    /\ UNCHANGED <<courses, colors, teeSets, holes, cup, pc>>

\* The update also waits for a seed that has entered the player: a foreign key holds
\* her row, and her address is a key of it.
UpdatePlayer(i, e) ==
    /\ player[i] \notin {NoAddress, e}
    /\ AddressFree(e) /\ \A d \in Clients : ~HoldsAddress(d, e)
    /\ \A d \in Clients : pc[d] = "seeding" =>
          \A k \in 1..(job[d].at - 1) : job[d].known[Folded[Lines(d)[k]]] # i
    /\ player' = [player EXCEPT ![i] = e]
    /\ job' = Disturbed(Clients)
    /\ UNCHANGED <<courses, colors, teeSets, holes, cup, pc>>

Nobody == [t \in Teams |-> NoPlayer]

BareCup(n) ==
    [name |-> n, seededBy |-> NoFile, teams |-> Teams, entered |-> {},
     side |-> [t \in Teams |-> {}], captain |-> Nobody, matches |-> 0, pair |-> NoPair]

\* CreateTournamentWithTeams, in a transaction of its own.
CreateTournament(n) ==
    /\ NameFree(n) /\ \A d \in Clients : ~HoldsName(d, n)
    /\ SpareCups # {}
    /\ cup' = [cup EXCEPT ![CHOOSE k \in SpareCups : TRUE] = BareCup(n)]
    /\ UNCHANGED <<courses, colors, teeSets, holes, player, pc, job>>

(* ------------------------------ a tee set ------------------------------ *)

\* Bug: the holes are checked one by one and not counted.
ValidHoles_AnyCount(list) ==
    \A i, j \in DOMAIN list : list[i] \in Holes /\ (list[i] = list[j] => i = j)

\* CreateTeeSetRequest.Validate: every hole once.
ValidHoles(list) ==
    /\ Len(list) = NumHoles
    /\ \A i, j \in DOMAIN list : list[i] \in Holes /\ (list[i] = list[j] => i = j)

\* The course is looked up, the tee set inserted; its keys ask for the tee colour.
BeginTeeSet(c, p, list) ==
    /\ pc[c] = "idle"
    /\ ValidHoles(list)
    /\ p[1] \in courses /\ p[2] \in colors
    /\ p \notin teeSets /\ \A d \in Clients : ~HoldsPair(d, p)
    /\ pc' = [pc EXCEPT ![c] = "listing"]
    /\ job' = [job EXCEPT ![c] = [Idle EXCEPT !.pair = p, !.list = list]]
    /\ UNCHANGED tables

CreateHole(c) ==
    /\ pc[c] = "listing"
    /\ job[c].at <= Len(job[c].list)
    /\ job' = [job EXCEPT ![c].at = @ + 1]
    /\ UNCHANGED <<tables, pc>>

CommitTeeSet(c) ==
    /\ pc[c] = "listing"
    /\ job[c].at > Len(job[c].list)
    /\ teeSets' = teeSets \cup {job[c].pair}
    /\ holes' = [holes EXCEPT ![job[c].pair] = ToSet(job[c].list)]
    /\ End(c)
    /\ UNCHANGED <<courses, colors, player, cup>>

(* ------------------------------- the seed ------------------------------ *)

\* planRoster: nobody twice, by folded address.
RosterFits(f) ==
    \A i, j \in DOMAIN f.roster : Folded[f.roster[i]] = Folded[f.roster[j]] => i = j

Roster(f) == {Folded[e] : e \in ToSet(f.roster)}

\* planCaptains: each is in the roster.
CaptainsEntered(f) == \A t \in DOMAIN f.captains : Folded[f.captains[t]] \in Roster(f)

\* planSeed: every name resolved, every check made, nothing written.
PlanSeed(c, f) ==
    /\ pc[c] = "idle"
    /\ f.course \in courses /\ f.color \in colors
    /\ RosterFits(f) /\ CaptainsEntered(f)
    /\ pc' = [pc EXCEPT ![c] = "planned"]
    /\ job' = [job EXCEPT ![c] = [Idle EXCEPT !.file = f, !.pair = <<f.course, f.color>>]]
    /\ UNCHANGED tables

\* Bug: existing players are matched by the address as it is stored.
Recognised_Exact(x) == {i \in Players : player[i] = x}

\* seedPlayersByEmail: the players a folded address may stand for.  Where there are
\* several, the last one listed is kept: any of them.
Recognised(x) == {i \in Players : player[i] # NoAddress /\ Folded[player[i]] = x}

ReadPlayers ==
    {known \in [People -> Players \cup {NoPlayer}] :
        \A x \in People :
            known[x] \in IF Recognised(x) = {} THEN {NoPlayer} ELSE Recognised(x)}

\* Bug: the key on a tournament's name and dates is missing.
BeginSeed_NoKey(c) ==
    /\ pc[c] = "planned"
    /\ \E known \in ReadPlayers :
          job' = [job EXCEPT ![c].known = known, ![c].quiet = TRUE]
    /\ pc' = [pc EXCEPT ![c] = "seeding"]
    /\ UNCHANGED tables

\* The tournament and its teams inserted, the players read.
BeginSeed(c) ==
    /\ pc[c] = "planned"
    /\ ~Blocked(c)
    /\ NameFree(job[c].file.cup)
    /\ \E known \in ReadPlayers :
          job' = [job EXCEPT ![c].known = known, ![c].quiet = TRUE]
    /\ pc' = [pc EXCEPT ![c] = "seeding"]
    /\ UNCHANGED tables

\* A tournament of that name and dates is there: ErrConflict.
RefuseCup(c) ==
    /\ pc[c] = "planned"
    /\ ~Blocked(c)
    /\ ~NameFree(job[c].file.cup)
    /\ End(c)
    /\ UNCHANGED tables

\* A line of the roster whose player is known: she is entered.
EnterKnown(c) ==
    /\ Entering(c)
    /\ ~IsNew(c)
    /\ job' = [job EXCEPT ![c].at = @ + 1]
    /\ UNCHANGED <<tables, pc>>

\* One whose player is not: CreatePlayer, and she is entered.
EnterNew(c) ==
    /\ Entering(c) /\ IsNew(c)
    /\ ~Blocked(c)
    /\ AddressFree(Line(c))
    /\ SparePlayers # {}
    /\ LET id == CHOOSE i \in SparePlayers : TRUE
       IN  job' = [job EXCEPT ![c].made = @ \cup {[id |-> id, email |-> Line(c)]},
                              ![c].known[Folded[Line(c)]] = id,
                              ![c].at = @ + 1]
    /\ UNCHANGED <<tables, pc>>

\* Bug: the insert is tried again in the transaction its failure has aborted.
RefusePlayer_Retried(c) ==
    /\ Entering(c) /\ IsNew(c)
    /\ ~Blocked(c)
    /\ ~AddressFree(Line(c))
    /\ UNCHANGED vars

\* Somebody else has created her since the players were read: ErrConflict.
RefusePlayer(c) ==
    /\ Entering(c) /\ IsNew(c)
    /\ ~Blocked(c)
    /\ ~AddressFree(Line(c))
    /\ End(c)
    /\ UNCHANGED tables

Captain(c, t) == job[c].known[Folded[job[c].file.captains[t]]]

\* uq__team_members__tournament_id__player_id, which the plan does not look at.
CaptainsDiffer(c) ==
    \A s, t \in DOMAIN job[c].file.captains : Captain(c, s) = Captain(c, t) => s = t

\* fk__matches__course_id_tee_color_id__tee_sets, nor at this.
TeeSetConfigured(c) == job[c].file.matches = 0 \/ job[c].pair \in teeSets

SeededCup(c) ==
    LET f == job[c].file
    IN  [name |-> f.cup, seededBy |-> f, teams |-> Teams,
         entered |-> {job[c].known[x] : x \in Roster(f)},
         side |-> [t \in Teams |-> IF t \in DOMAIN f.captains THEN {Captain(c, t)} ELSE {}],
         captain |-> [t \in Teams |-> IF t \in DOMAIN f.captains THEN Captain(c, t)
                                      ELSE NoPlayer],
         matches |-> f.matches,
         pair |-> IF f.matches = 0 THEN NoPair ELSE job[c].pair]

MadeBy(c) ==
    [i \in Players |-> IF \E m \in job[c].made : m.id = i
                       THEN (CHOOSE m \in job[c].made : m.id = i).email ELSE player[i]]

\* Bug: the captains are drafted in a transaction after the one that commits the
\* cup, and it is refused.
CommitSeed_Apart(c) ==
    /\ pc[c] = "seeding" /\ ~Entering(c)
    /\ TeeSetConfigured(c)
    /\ SpareCups # {}
    /\ cup' = [cup EXCEPT ![CHOOSE k \in SpareCups : TRUE] =
                  IF CaptainsDiffer(c) THEN SeededCup(c)
                  ELSE [SeededCup(c) EXCEPT !.side = [t \in Teams |-> {}], !.captain = Nobody]]
    /\ player' = MadeBy(c)
    /\ pc' = [pc EXCEPT ![c] = "idle"]
    /\ job' = [Disturbed(Clients) EXCEPT ![c] = Idle]
    /\ UNCHANGED <<courses, colors, teeSets, holes>>

\* The captains, the matches and the COMMIT.
CommitSeed(c) ==
    /\ pc[c] = "seeding" /\ ~Entering(c)
    /\ CaptainsDiffer(c) /\ TeeSetConfigured(c)
    /\ SpareCups # {}
    /\ cup' = [cup EXCEPT ![CHOOSE k \in SpareCups : TRUE] = SeededCup(c)]
    /\ player' = MadeBy(c)
    /\ pc' = [pc EXCEPT ![c] = "idle"]
    /\ job' = [Disturbed(IF job[c].made = {} THEN {} ELSE Clients) EXCEPT ![c] = Idle]
    /\ UNCHANGED <<courses, colors, teeSets, holes>>

\* Either key refuses, and the whole setup is rolled back.
RefuseSeed(c) ==
    /\ pc[c] = "seeding" /\ ~Entering(c)
    /\ ~(CaptainsDiffer(c) /\ TeeSetConfigured(c))
    /\ End(c)
    /\ UNCHANGED tables

(* ------------------------------ being ended ---------------------------- *)

\* PostgreSQL aborts one of the transactions that wait in a circle.
BreakDeadlock(c) ==
    /\ Blocked(c) /\ Deadlocked(c)
    /\ End(c)
    /\ UNCHANGED tables

\* A cancelled context, a lost connection or a crash rolls back what is open.
Abandon(c) ==
    /\ pc[c] # "idle"
    /\ End(c)
    /\ UNCHANGED tables

Advance(c) ==
    \/ CreateHole(c) \/ CommitTeeSet(c)
    \/ BeginSeed(c) \/ RefuseCup(c)
    \/ EnterKnown(c) \/ EnterNew(c) \/ RefusePlayer(c)
    \/ CommitSeed(c) \/ RefuseSeed(c)

Next ==
    \/ \E x \in Colors : CreateTeeColor(x)
    \/ \E x \in Courses : CreateCourse(x)
    \/ \E e \in Emails : CreatePlayer(e) \/ \E i \in Players : UpdatePlayer(i, e)
    \/ \E n \in CupNames : CreateTournament(n)
    \/ \E c \in Clients :
          \/ \E p \in Pairs, list \in HoleLists : BeginTeeSet(c, p, list)
          \/ \E f \in Files : PlanSeed(c, f)
          \/ Advance(c)
          \/ BreakDeadlock(c)
          \/ Abandon(c)

Spec == Init /\ [][Next]_vars

(***************************************************************************)
(* A request takes its next statement when it can; waiters for a key are   *)
(* queued, so one that can proceed again and again does, and a deadlock is *)
(* looked for once deadlock_timeout has passed.                            *)
(***************************************************************************)
Fairness ==
    \A c \in Clients :
        /\ SF_vars(Advance(c))
        /\ WF_vars(BreakDeadlock(c))

FairSpec == Spec /\ Fairness

-----------------------------------------------------------------------------
TypeOK ==
    /\ courses \subseteq Courses /\ colors \subseteq Colors
    /\ teeSets \subseteq Pairs
    /\ holes \in [Pairs -> SUBSET Int]
    /\ player \in [Players -> Emails \cup {NoAddress}]
    /\ cup \in [Cups -> CupRows \cup {NoCup}]
    /\ pc \in [Clients -> Stages]
    /\ job \in [Clients -> [file : Files \cup {NoFile},
                            known : [People -> Players \cup {NoPlayer}],
                            made : SUBSET [id : Players, email : Emails],
                            at : Nat \ {0},
                            pair : Pairs \cup {NoPair},
                            list : HoleLists \cup {<<>>},
                            quiet : BOOLEAN]]

(***************************************************************************)
(* A seed "either all lands or none of it does" (SeedService.Seed): a cup  *)
(* written from a file has both teams, a player of its own for each line   *)
(* of the roster, each captain entered, on her side and on no other, and   *)
(* every match.  One player captain of both sides passes the plan and is   *)
(* refused by a key after most of the setup is written; a name, an address *)
(* or the tee set may refuse it at any statement.                          *)
(***************************************************************************)
Whole(k, f) ==
    /\ k.teams = Teams
    /\ Cardinality(k.entered) = Len(f.roster) /\ k.entered \subseteq Players
    /\ \A t \in DOMAIN f.captains :
          /\ k.captain[t] \in k.entered
          /\ k.side[t] = {k.captain[t]}
    /\ \A s, t \in Teams : k.side[s] \cap k.side[t] # {} => s = t
    /\ k.matches = f.matches

CupsAreWhole ==
    \A id \in Cups : cup[id] # NoCup =>
        /\ cup[id].teams = Teams
        /\ cup[id].seededBy # NoFile => Whole(cup[id], cup[id].seededBy)

(***************************************************************************)
(* Every match of a seeded cup is on a tee set that has all its holes: "a  *)
(* course's tee is never left with a partial hole list" (CreateTeeSet),    *)
(* and the pair is checked when the match is written, since the plan       *)
(* resolves the course and the colour apart.                               *)
(***************************************************************************)
MatchesHaveHoles ==
    /\ \A p \in teeSets : holes[p] = Holes
    /\ \A id \in Cups : cup[id] # NoCup /\ cup[id].matches > 0 => cup[id].pair \in teeSets

(***************************************************************************)
(* A cup is set up once, however often its file is run or its creation     *)
(* retried, and an address is one player's, whoever writes it: requests    *)
(* that overlap do not both insert a key (CreateTournament, CreatePlayer,  *)
(* UpdatePlayer, SeedTournament).                                          *)
(***************************************************************************)
SetUpOnce ==
    /\ \A j, k \in Cups : cup[j] # NoCup /\ cup[k] # NoCup /\ j # k =>
          cup[j].name # cup[k].name
    /\ \A i, j \in Players : player[i] # NoAddress /\ i # j => player[i] # player[j]

(***************************************************************************)
(* "Someone who plays every year is one player, not one a year"            *)
(* (SeedTournament): a seed during which nobody else wrote an address      *)
(* enters exactly the people of its roster, and makes no second player of  *)
(* anybody, however the addresses are spelled.                             *)
(***************************************************************************)
PersonOf(i, addresses) == Folded[addresses[i]]

SeedRecognises ==
    [][\A c \in Clients, k \in Cups :
          cup[k] = NoCup /\ cup'[k] # NoCup /\ job[c].quiet /\ job'[c] = Idle =>
              /\ {PersonOf(i, player') : i \in cup'[k].entered} = Roster(job[c].file)
              /\ \A m \in job[c].made : \A i \in Players :
                    player[i] # NoAddress => PersonOf(i, player) # Folded[m.email]]_vars

(***************************************************************************)
(* Every request ends: two seeds whose rosters name the same newcomers in  *)
(* opposite orders each hold an address the other waits for.               *)
(***************************************************************************)
EveryRequestEnds == \A c \in Clients : pc[c] # "idle" ~> pc[c] = "idle"
=============================================================================
