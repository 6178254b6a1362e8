---------------------------- MODULE SetupProofs -----------------------------
(***************************************************************************)
(* For any files, addresses, rosters and number of concurrent requests:    *)
(* a cup and an address are set up once, a seeded cup is whole, every      *)
(* match is on a tee set with all its holes, and a seed recognises who     *)
(* played before.                                                          *)
(*                                                                         *)
(* None is inductive, because a seed commits what it looked up and checked *)
(* many statements before.  IInv adds what the keys buy in between: a name *)
(* or an address that a transaction has inserted stays free of any other   *)
(* row (NameHeld, AddressHeld), and whom a seed has found or made stays a  *)
(* player of her own (PlayersKnown).  QuietKept adds, for a seed nobody    *)
(* disturbs, that what it has looked up stays so.                          *)
(***************************************************************************)
EXTENDS Setup, FiniteSetTheorems, TLAPS

\* A planned file is one its plan has checked.
PlanKept ==
    \A c \in Clients : pc[c] \in {"planned", "seeding"} =>
        /\ pc[c] = "planned" => job[c].at = 1
        /\ job[c].file \in Files /\ job[c].pair \in Pairs
        /\ RosterFits(job[c].file) /\ CaptainsEntered(job[c].file)

\* A tee set under way has a list that names every hole.
ListKept ==
    \A c \in Clients : pc[c] = "listing" =>
        job[c].pair \in Pairs /\ ToSet(job[c].list) = Holes

\* The name a seed has inserted is nobody else's, committed or not.
NameHeld ==
    \A c \in Clients : pc[c] = "seeding" =>
        /\ NameFree(job[c].file.cup)
        /\ \A d \in Clients : pc[d] = "seeding" /\ job[d].file.cup = job[c].file.cup => c = d

\* Nor is an address it has inserted, or the id of its row.
AddressHeld ==
    \A c \in Clients :
        /\ pc[c] # "seeding" => job[c].made = {}
        /\ \A m \in job[c].made :
              /\ player[m.id] = NoAddress /\ AddressFree(m.email)
              /\ job[c].known[Folded[m.email]] # NoPlayer
              /\ \A d \in Clients : \A n \in job[d].made :
                    m.id = n.id \/ m.email = n.email => c = d /\ m = n

\* A player there is, or one this seed has made.
Taken(c, i) == player[i] # NoAddress \/ \E m \in job[c].made : m.id = i

\* Two people are never one player, and whoever is entered is somebody.
PlayersKnown ==
    \A c \in Clients : pc[c] = "seeding" =>
        /\ \A x \in People : job[c].known[x] # NoPlayer =>
              /\ Taken(c, job[c].known[x])
              /\ \A y \in People : job[c].known[y] = job[c].known[x] => x = y
        /\ \A k \in DOMAIN Lines(c) :
              k < job[c].at => job[c].known[Folded[Lines(c)[k]]] # NoPlayer

Kept == PlanKept /\ ListKept /\ NameHeld /\ AddressHeld /\ PlayersKnown
Results == CupsAreWhole /\ MatchesHaveHoles /\ SetUpOnce
IInv == TypeOK /\ Kept /\ Results

Address == Emails \cup {NoAddress}
Job == [file : Files \cup {NoFile}, known : [People -> Players \cup {NoPlayer}],
        made : SUBSET [id : Players, email : Emails], at : Nat \ {0},
        pair : Pairs \cup {NoPair}, list : HoleLists \cup {<<>>}, quiet : BOOLEAN]

-----------------------------------------------------------------------------
(* What a file, a request and a row are made of. *)

\* A folded address is one, folds to itself, and is somebody.
LEMMA FoldedType ==
    ASSUME NEW e \in Emails
    PROVE  Folded[e] \in Emails /\ Folded[e] \in People /\ Folded[Folded[e]] = Folded[e]
  BY SetupAssumption DEF People

\* The parts of a seed file.
LEMMA FileType ==
    ASSUME NEW f \in Files
    PROVE  /\ f.cup \in CupNames /\ f.course \in Courses /\ f.color \in Colors
           /\ <<f.course, f.color>> \in Pairs
           /\ f.roster \in Seq(Emails) /\ Len(f.roster) \in Nat
           /\ DOMAIN f.roster = 1..Len(f.roster)
           /\ \A k \in 1..Len(f.roster) : f.roster[k] \in Emails
           /\ DOMAIN f.captains \subseteq Teams
           /\ \A t \in DOMAIN f.captains : f.captains[t] \in Emails
           /\ f.matches \in Nat
<1>1. /\ f.cup \in CupNames /\ f.course \in Courses /\ f.color \in Colors
      /\ f.roster \in Seq(Emails)
      /\ DOMAIN f.captains \subseteq Teams
      /\ \A t \in DOMAIN f.captains : f.captains[t] \in Emails
      /\ f.matches \in Nat
  BY SetupAssumption
<1>2. <<f.course, f.color>> \in Pairs
  BY <1>1 DEF Pairs
<1> QED
  BY <1>1, <1>2

\* The variables, each with its type.
LEMMA Types ==
    ASSUME TypeOK
    PROVE  /\ player \in [Players -> Address] /\ cup \in [Cups -> CupRows \cup {NoCup}]
           /\ pc \in [Clients -> Stages] /\ job \in [Clients -> Job]
           /\ holes \in [Pairs -> SUBSET Int] /\ teeSets \subseteq Pairs
           /\ courses \subseteq Courses /\ colors \subseteq Colors
  BY DEF TypeOK, Job, Address

LEMMA IdleType == Idle \in Job
<1>1. Unknown \in [People -> Players \cup {NoPlayer}]
  BY DEF Unknown
<1> QED
  BY <1>1 DEF Idle, Job

\* The people a roster names are people.
LEMMA RosterType ==
    ASSUME NEW f \in Files
    PROVE  Roster(f) = {Folded[f.roster[k]] : k \in 1..Len(f.roster)} /\ Roster(f) \subseteq People
<1>1. Roster(f) = {Folded[f.roster[k]] : k \in 1..Len(f.roster)}
  BY FileType DEF Roster, ToSet
<1> QED
  BY <1>1, FileType, FoldedType

-----------------------------------------------------------------------------
LEMMA InitIInv == Init => IInv
<1> SUFFICES ASSUME Init PROVE IInv
  OBVIOUS
<1>1. TypeOK
  BY IdleType DEF Init, TypeOK, Job, Stages
<1>2. PlanKept /\ ListKept /\ NameHeld /\ PlayersKnown
  BY DEF Init, PlanKept, ListKept, NameHeld, PlayersKnown
<1>3. AddressHeld
  BY DEF Init, AddressHeld, Idle
<1>4. Results
  BY DEF Init, Results, CupsAreWhole, MatchesHaveHoles, SetUpOnce
<1> QED
  BY <1>1, <1>2, <1>3, <1>4 DEF IInv, Kept

-----------------------------------------------------------------------------
(* The steps. *)

\* A request that ends leaves nothing behind.
LEMMA EndStep ==
    ASSUME IInv, NEW c \in Clients, End(c), UNCHANGED tables
    PROVE  IInv'
<1> USE DEF IInv, Kept, Results, tables
<1>1. /\ pc'[c] = "idle" /\ job'[c] = Idle
      /\ \A d \in Clients : d # c => pc'[d] = pc[d] /\ job'[d] = job[d]
  BY Types DEF End
<1>2. TypeOK'
  BY Types, IdleType DEF End, TypeOK, Job, Stages
<1>3. PlanKept' /\ ListKept'
  BY <1>1 DEF PlanKept, ListKept
<1>4. NameHeld'
  BY <1>1 DEF NameHeld, NameFree
<1>5. AddressHeld'
  BY <1>1 DEF AddressHeld, AddressFree, Idle
<1>6. PlayersKnown'
  BY <1>1 DEF PlayersKnown, Taken, Lines
<1>7. Results'
  BY DEF CupsAreWhole, MatchesHaveHoles, SetUpOnce, NameFree, AddressFree
<1> QED
  BY <1>2, <1>3, <1>4, <1>5, <1>6, <1>7

\* A tee colour or a course is created: nothing relies on its being absent.
LEMMA NamesStep ==
    ASSUME IInv, courses' \subseteq Courses, colors' \subseteq Colors,
           UNCHANGED <<teeSets, holes, player, cup, pc, job>>
    PROVE  IInv'
<1> USE DEF IInv, Kept, Results
<1>1. TypeOK'
  BY DEF TypeOK
<1>2. Kept'
  BY DEF PlanKept, ListKept, NameHeld, NameFree, AddressHeld, AddressFree,
     PlayersKnown, Taken, Lines
<1>3. Results'
  BY DEF CupsAreWhole, MatchesHaveHoles, SetUpOnce
<1> QED
  BY <1>1, <1>2, <1>3

\* Telling a request that an address was written changes nothing else of it.
LEMMA DisturbedStep ==
    ASSUME TypeOK, NEW others
    PROVE  /\ Disturbed(others) \in [Clients -> Job]
           /\ \A d \in Clients :
                 /\ Disturbed(others)[d].file = job[d].file
                 /\ Disturbed(others)[d].known = job[d].known
                 /\ Disturbed(others)[d].made = job[d].made
                 /\ Disturbed(others)[d].at = job[d].at
                 /\ Disturbed(others)[d].pair = job[d].pair
                 /\ Disturbed(others)[d].list = job[d].list
  BY Types DEF Disturbed, Job

\* A player gets an address nobody has, and nobody is about to have.
LEMMA AddressStep ==
    ASSUME IInv, NEW i \in Players, NEW e \in Emails,
           AddressFree(e), \A d \in Clients : ~HoldsAddress(d, e),
           \A d \in Clients : \A m \in job[d].made : m.id # i,
           player' = [player EXCEPT ![i] = e], job' = Disturbed(Clients),
           UNCHANGED <<courses, colors, teeSets, holes, cup, pc>>
    PROVE  IInv'
<1> USE DEF IInv, Kept, Results
<1>1. \A d \in Clients :
         /\ job'[d].file = job[d].file /\ job'[d].known = job[d].known
         /\ job'[d].made = job[d].made /\ job'[d].at = job[d].at
         /\ job'[d].pair = job[d].pair /\ job'[d].list = job[d].list
  BY DisturbedStep
<1>2. player'[i] = e /\ \A j \in Players : j # i => player'[j] = player[j]
  BY Types
<1>3. TypeOK'
  BY DisturbedStep DEF TypeOK, Job
<1>4. PlanKept' /\ ListKept'
  BY <1>1 DEF PlanKept, ListKept
<1>5. NameHeld'
  BY <1>1 DEF NameHeld, NameFree
<1>6. \A d \in Clients : \A m \in job[d].made : m.id \in Players /\ m.email # e
  BY Types DEF HoldsAddress, Job
<1>7. AddressHeld'
  BY <1>1, <1>2, <1>6 DEF AddressHeld, AddressFree
<1>8. PlayersKnown'
  <2> SUFFICES ASSUME NEW c \in Clients, pc[c] = "seeding"
               PROVE  \A x \in People : job[c].known[x] # NoPlayer => Taken(c, job[c].known[x])'
    BY <1>1 DEF PlayersKnown, Lines
  <2> SUFFICES ASSUME NEW x \in People, job[c].known[x] # NoPlayer
               PROVE  Taken(c, job[c].known[x])'
    OBVIOUS
  <2>1. job[c].known[x] \in Players /\ Taken(c, job[c].known[x])
    BY Types DEF PlayersKnown, Job
  <2>2. e # NoAddress
    BY SetupAssumption
  <2> QED
    BY <1>1, <1>2, <2>1, <2>2 DEF Taken
<1>9. Results'
  <2>1. CupsAreWhole' /\ MatchesHaveHoles'
    BY DEF CupsAreWhole, MatchesHaveHoles
  <2>2. SetUpOnce'
    BY <1>2, Types DEF SetUpOnce, AddressFree
  <2> QED
    BY <2>1, <2>2
<1> QED
  BY <1>3, <1>4, <1>5, <1>7, <1>8, <1>9

LEMMA CreatePlayerStep ==
    ASSUME IInv, NEW e \in Emails, CreatePlayer(e)
    PROVE  IInv'
<1> DEFINE i == CHOOSE i \in SparePlayers : TRUE
<1>1. i \in SparePlayers
  BY DEF CreatePlayer
<1>2. i \in Players /\ \A d \in Clients : \A m \in job[d].made : m.id # i
  BY <1>1 DEF SparePlayers
<1>3. player' = [player EXCEPT ![i] = e]
  BY DEF CreatePlayer
<1> HIDE DEF i
<1> QED
  BY <1>2, <1>3, AddressStep DEF CreatePlayer

LEMMA UpdatePlayerStep ==
    ASSUME IInv, NEW i \in Players, NEW e \in Emails, UpdatePlayer(i, e)
    PROVE  IInv'
<1>1. \A d \in Clients : \A m \in job[d].made : m.id # i
  BY DEF UpdatePlayer, IInv, Kept, AddressHeld
<1> QED
  BY <1>1, AddressStep DEF UpdatePlayer

\* A tournament gets a name nobody has, and nobody is about to have.
LEMMA CreateTournamentStep ==
    ASSUME IInv, NEW n \in CupNames, CreateTournament(n)
    PROVE  IInv'
<1> USE DEF IInv, Kept, Results
<1> DEFINE k == CHOOSE k \in SpareCups : TRUE
<1>1. k \in Cups /\ cup[k] = NoCup
  BY DEF CreateTournament, SpareCups
<1>2. cup' = [cup EXCEPT ![k] = BareCup(n)]
  BY DEF CreateTournament
<1> HIDE DEF k
<1>3. /\ cup'[k] = BareCup(n) /\ \A j \in Cups : j # k => cup'[j] = cup[j]
      /\ UNCHANGED <<courses, colors, teeSets, holes, player, pc, job>>
  BY <1>1, <1>2, Types DEF CreateTournament
<1>4. /\ BareCup(n) \in CupRows /\ BareCup(n) # NoCup
      /\ BareCup(n).name = n /\ BareCup(n).teams = Teams
      /\ BareCup(n).seededBy = NoFile /\ BareCup(n).matches = 0
  BY AbsentCupAssumption DEF BareCup, CupRows, Nobody
<1>5. TypeOK'
  BY <1>1, <1>2, <1>3, <1>4, Types DEF TypeOK
<1>6. PlanKept' /\ ListKept' /\ AddressHeld' /\ PlayersKnown'
  BY <1>3 DEF PlanKept, ListKept, AddressHeld, AddressFree, PlayersKnown, Taken, Lines
<1>7. NameHeld'
  <2>1. \A d \in Clients : pc[d] = "seeding" => job[d].file.cup # n
    BY DEF CreateTournament, HoldsName
  <2> QED
    BY <1>1, <1>3, <1>4, <2>1 DEF NameHeld, NameFree
<1>8. CupsAreWhole' /\ MatchesHaveHoles'
  BY <1>1, <1>3, <1>4 DEF CupsAreWhole, MatchesHaveHoles
<1>9. SetUpOnce'
  BY <1>1, <1>3, <1>4 DEF SetUpOnce, CreateTournament, NameFree
<1> QED
  BY <1>5, <1>6, <1>7, <1>8, <1>9

-----------------------------------------------------------------------------
(* A tee set. *)

\* As many holes as there are, none twice and none beside them, are all of them.
LEMMA ValidHolesAreAll ==
    ASSUME NEW list \in HoleLists, ValidHoles(list)
    PROVE  ToSet(list) = Holes
<1>1. list \in Seq(Int) /\ NumHoles \in Nat \ {0}
  BY SetupAssumption
<1>2. list \in Injection(Holes, Holes)
  BY <1>1 DEF ValidHoles, Injection, IsInjective, Holes
<1>3. IsFiniteSet(Holes)
  BY <1>1, FS_Interval DEF Holes
<1>4. list \in Surjection(Holes, Holes)
  BY <1>2, <1>3, FS_Injection
<1>5. DOMAIN list = Holes /\ \A h \in Holes : list[h] \in Holes
  BY <1>2 DEF Injection
<1>6. \A h \in Holes : \E k \in Holes : list[k] = h
  BY <1>4 DEF Surjection
<1> QED
  BY <1>5, <1>6 DEF ToSet

\* A request that writes nothing and is not about to write a key.
LEMMA PrivateStep ==
    ASSUME IInv, NEW c \in Clients, UNCHANGED tables,
           NEW stage \in Stages, stage # "seeding", pc[c] # "seeding",
           pc' = [pc EXCEPT ![c] = stage],
           job' \in [Clients -> Job], \A d \in Clients : d # c => job'[d] = job[d],
           job'[c].made = {},
           stage = "planned" => /\ job'[c].at = 1
                                /\ job'[c].file \in Files /\ job'[c].pair \in Pairs
                                /\ RosterFits(job'[c].file) /\ CaptainsEntered(job'[c].file),
           stage = "listing" => job'[c].pair \in Pairs /\ ToSet(job'[c].list) = Holes
    PROVE  IInv'
<1> USE DEF IInv, Kept, Results, tables
<1>1. pc'[c] = stage /\ \A d \in Clients : d # c => pc'[d] = pc[d]
  BY Types
<1>2. TypeOK'
  BY Types DEF TypeOK, Job, Stages
<1>3. PlanKept' /\ ListKept'
  BY <1>1 DEF PlanKept, ListKept
<1>4. NameHeld'
  BY <1>1 DEF NameHeld, NameFree
<1>5. AddressHeld'
  BY <1>1 DEF AddressHeld, AddressFree
<1>6. PlayersKnown'
  BY <1>1 DEF PlayersKnown, Taken, Lines
<1>7. Results'
  BY DEF CupsAreWhole, MatchesHaveHoles, SetUpOnce
<1> QED
  BY <1>2, <1>3, <1>4, <1>5, <1>6, <1>7

LEMMA BeginTeeSetStep ==
    ASSUME IInv, NEW c \in Clients, NEW p \in Pairs, NEW list \in HoleLists,
           BeginTeeSet(c, p, list)
    PROVE  IInv'
<1> DEFINE j == [Idle EXCEPT !.pair = p, !.list = list]
<1>1. j \in Job /\ j.made = {} /\ j.pair = p /\ j.list = list
  BY IdleType DEF Idle, Job
<1>2. job' = [job EXCEPT ![c] = j] /\ pc' = [pc EXCEPT ![c] = "listing"] /\ pc[c] = "idle"
  BY DEF BeginTeeSet
<1> HIDE DEF j
<1>3. /\ job' \in [Clients -> Job] /\ job'[c] = j
      /\ \A d \in Clients : d # c => job'[d] = job[d]
  BY <1>1, <1>2, Types DEF IInv
<1>4. ToSet(list) = Holes
  BY ValidHolesAreAll DEF BeginTeeSet
<1> QED
  BY <1>1, <1>2, <1>3, <1>4, PrivateStep DEF BeginTeeSet, Stages

LEMMA PlanSeedStep ==
    ASSUME IInv, NEW c \in Clients, NEW f \in Files, PlanSeed(c, f)
    PROVE  IInv'
<1> DEFINE j == [Idle EXCEPT !.file = f, !.pair = <<f.course, f.color>>]
<1>1. j \in Job /\ j.made = {} /\ j.at = 1 /\ j.file = f /\ j.pair \in Pairs
  BY IdleType, FileType DEF Idle, Job
<1>2. job' = [job EXCEPT ![c] = j] /\ pc' = [pc EXCEPT ![c] = "planned"] /\ pc[c] = "idle"
  BY DEF PlanSeed
<1> HIDE DEF j
<1>3. /\ job' \in [Clients -> Job] /\ job'[c] = j
      /\ \A d \in Clients : d # c => job'[d] = job[d]
  BY <1>1, <1>2, Types DEF IInv
<1> QED
  BY <1>1, <1>2, <1>3, PrivateStep DEF PlanSeed, Stages

LEMMA CreateHoleStep ==
    ASSUME IInv, NEW c \in Clients, CreateHole(c)
    PROVE  IInv'
<1> DEFINE j == [job[c] EXCEPT !.at = @ + 1]
<1>1. /\ j \in Job /\ j.made = job[c].made /\ j.pair = job[c].pair /\ j.list = job[c].list
      /\ job' = [job EXCEPT ![c] = j]
  <2>1. job[c] \in Job
    BY Types DEF IInv
  <2>2. j \in Job /\ j.made = job[c].made /\ j.pair = job[c].pair /\ j.list = job[c].list
    BY <2>1 DEF Job
  <2>3. job' = [job EXCEPT ![c] = j]
    BY DEF CreateHole
  <2> QED
    BY <2>2, <2>3
<1>2. pc[c] = "listing" /\ pc' = [pc EXCEPT ![c] = "listing"]
  BY Types DEF CreateHole, IInv
<1> HIDE DEF j
<1>3. /\ job' \in [Clients -> Job] /\ job'[c] = j
      /\ \A d \in Clients : d # c => job'[d] = job[d]
  BY <1>1, Types DEF IInv
<1>4. j.made = {} /\ j.pair \in Pairs /\ ToSet(j.list) = Holes
  BY <1>1, <1>2 DEF IInv, Kept, AddressHeld, ListKept
<1> QED
  BY <1>2, <1>3, <1>4, PrivateStep DEF CreateHole, Stages

LEMMA CommitTeeSetStep ==
    ASSUME IInv, NEW c \in Clients, CommitTeeSet(c)
    PROVE  IInv'
<1> USE DEF IInv, Kept, Results
<1> DEFINE p == job[c].pair
<1>1. p \in Pairs /\ ToSet(job[c].list) = Holes /\ job[c].made = {}
  BY DEF CommitTeeSet, ListKept, AddressHeld
<1>2. teeSets' = teeSets \cup {p} /\ holes' = [holes EXCEPT ![p] = Holes]
  BY <1>1 DEF CommitTeeSet
<1>3. /\ pc'[c] = "idle" /\ job'[c] = Idle
      /\ \A d \in Clients : d # c => pc'[d] = pc[d] /\ job'[d] = job[d]
      /\ UNCHANGED <<courses, colors, player, cup>>
  BY Types DEF CommitTeeSet, End
<1> HIDE DEF p
<1>4. TypeOK'
  BY <1>1, <1>2, <1>3, Types, IdleType, SetupAssumption
     DEF CommitTeeSet, End, TypeOK, Job, Stages, Holes
<1>5. PlanKept' /\ ListKept'
  BY <1>3 DEF PlanKept, ListKept
<1>6. NameHeld'
  BY <1>3 DEF NameHeld, NameFree
<1>7. AddressHeld'
  BY <1>3 DEF AddressHeld, AddressFree, Idle
<1>8. PlayersKnown'
  BY <1>3 DEF PlayersKnown, Taken, Lines
<1>9. Results'
  BY <1>1, <1>2, <1>3, Types DEF CupsAreWhole, MatchesHaveHoles, SetUpOnce
<1> QED
  BY <1>4, <1>5, <1>6, <1>7, <1>8, <1>9

-----------------------------------------------------------------------------
(* The seed. *)

\* What a seed may have made and found without meeting another's keys.
MadeApart(c, j) ==
    \A m \in j.made :
        /\ player[m.id] = NoAddress /\ AddressFree(m.email)
        /\ j.known[Folded[m.email]] # NoPlayer
        /\ \A n \in j.made : m.id = n.id \/ m.email = n.email => m = n
        /\ \A d \in Clients \ {c} : \A n \in job[d].made : m.id # n.id /\ m.email # n.email

Found(j) ==
    /\ \A x \in People : j.known[x] # NoPlayer =>
          /\ player[j.known[x]] # NoAddress \/ \E m \in j.made : m.id = j.known[x]
          /\ \A y \in People : j.known[y] = j.known[x] => x = y
    /\ \A k \in DOMAIN j.file.roster : k < j.at => j.known[Folded[j.file.roster[k]]] # NoPlayer

\* A statement of a seed that commits nothing.
LEMMA SeedingStep ==
    ASSUME IInv, NEW c \in Clients, UNCHANGED tables,
           pc[c] \in {"planned", "seeding"}, pc' = [pc EXCEPT ![c] = "seeding"],
           NEW j \in Job, job' = [job EXCEPT ![c] = j],
           j.file = job[c].file, j.pair = job[c].pair,
           NameFree(j.file.cup),
           \A d \in Clients \ {c} : pc[d] = "seeding" => job[d].file.cup # j.file.cup,
           MadeApart(c, j), Found(j)
    PROVE  IInv'
<1> USE DEF IInv, Kept, Results, tables
<1>1. /\ pc'[c] = "seeding" /\ job'[c] = j
      /\ \A d \in Clients : d # c => pc'[d] = pc[d] /\ job'[d] = job[d]
  BY Types
<1>2. TypeOK'
  BY Types DEF TypeOK, Job, Stages
<1>3. PlanKept' /\ ListKept'
  BY <1>1 DEF PlanKept, ListKept
<1>4. NameHeld'
  BY <1>1 DEF NameHeld, NameFree
<1>5. AddressHeld'
  <2> SUFFICES ASSUME NEW a \in Clients
               PROVE  /\ pc'[a] # "seeding" => job'[a].made = {}
                      /\ \A m \in job'[a].made :
                            /\ player[m.id] = NoAddress /\ AddressFree(m.email)
                            /\ job'[a].known[Folded[m.email]] # NoPlayer
                            /\ \A d \in Clients : \A n \in job'[d].made :
                                  m.id = n.id \/ m.email = n.email => a = d /\ m = n
    BY DEF AddressHeld, AddressFree
  <2>1. CASE a = c
    BY <1>1, <2>1 DEF MadeApart
  <2>2. CASE a # c
    BY <1>1, <2>2 DEF MadeApart, AddressHeld
  <2> QED
    BY <2>1, <2>2
<1>6. PlayersKnown'
  BY <1>1 DEF PlayersKnown, Taken, Lines, Found
<1>7. Results'
  BY DEF CupsAreWhole, MatchesHaveHoles, SetUpOnce
<1> QED
  BY <1>2, <1>3, <1>4, <1>5, <1>6, <1>7

\* Players are listed once: one for each person who has any.
LEMMA ReadPlayersFind ==
    ASSUME TypeOK, NEW known \in ReadPlayers
    PROVE  /\ known \in [People -> Players \cup {NoPlayer}]
           /\ \A x \in People : known[x] # NoPlayer =>
                 /\ player[known[x]] # NoAddress
                 /\ \A y \in People : known[y] = known[x] => x = y
<1>1. \A x \in People : known[x] # NoPlayer => known[x] \in Recognised(x)
  BY DEF ReadPlayers
<1> QED
  BY <1>1 DEF ReadPlayers, Recognised

LEMMA BeginSeedStep ==
    ASSUME IInv, NEW c \in Clients, BeginSeed(c)
    PROVE  IInv'
<1>1. PICK known \in ReadPlayers :
         job' = [job EXCEPT ![c].known = known, ![c].quiet = TRUE]
  BY DEF BeginSeed
<1> DEFINE j == [job[c] EXCEPT !.known = known, !.quiet = TRUE]
<1>2. job[c] \in Job /\ known \in [People -> Players \cup {NoPlayer}]
  BY Types, ReadPlayersFind DEF IInv
<1>3. /\ j \in Job /\ j.known = known /\ j.made = job[c].made /\ j.at = job[c].at
      /\ j.file = job[c].file /\ j.pair = job[c].pair
  BY <1>2 DEF Job
<1>4. job' = [job EXCEPT ![c] = j]
  BY <1>1, <1>2, Types DEF IInv, Job
<1> HIDE DEF j
<1>5. pc[c] = "planned" /\ j.made = {} /\ j.at = 1 /\ j.file \in Files
  BY <1>3 DEF BeginSeed, IInv, Kept, AddressHeld, PlanKept
<1>6. \A d \in Clients \ {c} : pc[d] = "seeding" => job[d].file.cup # j.file.cup
  BY <1>3 DEF BeginSeed, Blocked, WaitsFor, HoldsName
<1>7. MadeApart(c, j)
  BY <1>5 DEF MadeApart
<1>8. Found(j)
  <2>1. \A k \in DOMAIN j.file.roster : ~(k < j.at)
    <3>1. DOMAIN j.file.roster = 1..Len(j.file.roster) /\ Len(j.file.roster) \in Nat
      BY <1>5, FileType
    <3> QED
      BY <1>5, <3>1
  <2>2. \A x \in People : known[x] # NoPlayer =>
           /\ player[known[x]] # NoAddress
           /\ \A y \in People : known[y] = known[x] => x = y
    BY ReadPlayersFind DEF IInv
  <2> QED
    BY <1>3, <2>1, <2>2 DEF Found
<1> QED
  BY <1>3, <1>4, <1>5, <1>6, <1>7, <1>8, SeedingStep DEF BeginSeed, IInv

\* What a seed under way relies on.
LEMMA Seeding ==
    ASSUME IInv, NEW c \in Clients, pc[c] = "seeding"
    PROVE  /\ job[c] \in Job /\ job[c].file \in Files /\ job[c].at \in Nat \ {0}
           /\ job[c].pair \in Pairs /\ NameFree(job[c].file.cup)
           /\ \A d \in Clients \ {c} : pc[d] = "seeding" => job[d].file.cup # job[c].file.cup
           /\ MadeApart(c, job[c]) /\ Found(job[c])
<1> USE DEF IInv, Kept
<1>1. job[c] \in Job /\ job[c].file \in Files /\ job[c].at \in Nat \ {0}
  BY Types DEF PlanKept, Job
<1>2. /\ NameFree(job[c].file.cup) /\ job[c].pair \in Pairs
      /\ \A d \in Clients \ {c} : pc[d] = "seeding" => job[d].file.cup # job[c].file.cup
  BY DEF NameHeld, PlanKept
<1>3. MadeApart(c, job[c])
  BY DEF AddressHeld, MadeApart
<1>4. Found(job[c])
  BY DEF PlayersKnown, Found, Taken, Lines
<1> QED
  BY <1>1, <1>2, <1>3, <1>4

LEMMA EnterKnownStep ==
    ASSUME IInv, NEW c \in Clients, EnterKnown(c)
    PROVE  IInv'
<1> DEFINE j == [job[c] EXCEPT !.at = @ + 1]
<1>1. pc[c] = "seeding" /\ job[c].known[Folded[Line(c)]] # NoPlayer
  BY DEF EnterKnown, Entering, IsNew
<1>2. job' = [job EXCEPT ![c] = j] /\ pc' = [pc EXCEPT ![c] = "seeding"]
  BY <1>1, Types DEF EnterKnown, IInv
<1>3. /\ j \in Job /\ j.known = job[c].known /\ j.made = job[c].made /\ j.at = job[c].at + 1
      /\ j.file = job[c].file /\ j.pair = job[c].pair
  BY <1>1, Seeding DEF Job
<1> HIDE DEF j
<1>4. MadeApart(c, j)
  BY <1>1, <1>3, Seeding DEF MadeApart
<1>5. Found(j)
  <2>1. job[c].file \in Files /\ job[c].at \in Nat /\ Found(job[c])
    BY <1>1, Seeding
  <2>2. ASSUME NEW k \in DOMAIN j.file.roster, k < j.at
        PROVE  j.known[Folded[j.file.roster[k]]] # NoPlayer
    <3>1. k \in Int
      <4>1. DOMAIN j.file.roster = 1..Len(j.file.roster) /\ Len(j.file.roster) \in Nat
        BY <1>3, <2>1, FileType
      <4> QED
        BY <2>2, <4>1
    <3>2. k < job[c].at \/ k = job[c].at
      BY <1>3, <2>1, <2>2, <3>1
    <3> QED
      BY <1>1, <1>3, <2>1, <3>2 DEF Found, Line, Lines
  <2> QED
    BY <1>3, <2>1, <2>2 DEF Found
<1>6. /\ NameFree(j.file.cup)
      /\ \A d \in Clients \ {c} : pc[d] = "seeding" => job[d].file.cup # j.file.cup
  BY <1>1, <1>3, Seeding
<1>7. UNCHANGED tables
  BY DEF EnterKnown, tables
<1> QED
  BY <1>1, <1>2, <1>3, <1>4, <1>5, <1>6, <1>7, SeedingStep

\* A new player's id is no row's and no seed's, her address nobody's.
LEMMA EnterNewStep ==
    ASSUME IInv, NEW c \in Clients, EnterNew(c)
    PROVE  IInv'
<1> DEFINE id == CHOOSE i \in SparePlayers : TRUE
           x == Folded[Line(c)]
           row == [id |-> id, email |-> Line(c)]
           j == [job[c] EXCEPT !.made = @ \cup {row}, !.known[x] = id, !.at = @ + 1]
<1>1. /\ pc[c] = "seeding" /\ job[c].at <= Len(Lines(c))
      /\ job[c].known[x] = NoPlayer /\ AddressFree(Line(c))
      /\ \A d \in Clients \ {c} : ~HoldsAddress(d, Line(c))
  BY DEF EnterNew, Entering, IsNew, Blocked, WaitsFor
<1>2. /\ job[c] \in Job /\ job[c].file \in Files /\ job[c].at \in Nat \ {0}
      /\ NameFree(job[c].file.cup)
      /\ \A d \in Clients \ {c} : pc[d] = "seeding" => job[d].file.cup # job[c].file.cup
      /\ MadeApart(c, job[c]) /\ Found(job[c])
  BY <1>1, Seeding
<1>3. /\ id \in Players /\ player[id] = NoAddress
      /\ \A d \in Clients : \A m \in job[d].made : m.id # id
  <2>1. id \in SparePlayers
    BY DEF EnterNew
  <2> QED
    BY <2>1 DEF SparePlayers
<1>4. Line(c) \in Emails
  <2>1. /\ DOMAIN job[c].file.roster = 1..Len(job[c].file.roster)
        /\ \A k \in 1..Len(job[c].file.roster) : job[c].file.roster[k] \in Emails
        /\ Len(job[c].file.roster) \in Nat
    BY <1>2, FileType
  <2> QED
    BY <1>1, <1>2, <2>1 DEF Line, Lines
<1>5. x \in People
  BY <1>4, FoldedType
<1>6. job' = [job EXCEPT ![c] = j] /\ pc' = [pc EXCEPT ![c] = "seeding"] /\ UNCHANGED tables
  BY <1>1, Types DEF EnterNew, IInv, tables
<1> HIDE DEF id
<1>7. row \in [id : Players, email : Emails] /\ row.id = id /\ row.email = Line(c)
  BY <1>3, <1>4
<1> HIDE DEF row
<1>8. job[c].known \in [People -> Players \cup {NoPlayer}]
  BY <1>2 DEF Job
<1>9. [job[c].known EXCEPT ![x] = id] \in [People -> Players \cup {NoPlayer}]
  BY <1>3, <1>8
<1> HIDE DEF x
<1>10. /\ j \in Job /\ j.known = [job[c].known EXCEPT ![x] = id]
       /\ j.made = job[c].made \cup {row} /\ j.at = job[c].at + 1
       /\ j.file = job[c].file /\ j.pair = job[c].pair
  <2> DEFINE kn == [job[c].known EXCEPT ![x] = id]
             mk == job[c].made \cup {row}
             at == job[c].at + 1
  <2>1. /\ mk \in SUBSET [id : Players, email : Emails] /\ at \in Nat \ {0}
        /\ kn \in [People -> Players \cup {NoPlayer}]
    BY <1>2, <1>7, <1>9 DEF Job
  <2>2. j = [job[c] EXCEPT !.made = mk, !.known = kn, !.at = at]
    BY <1>2 DEF Job
  <2> HIDE DEF kn, mk, at, j
  <2>3. j \in Job /\ j.known = kn /\ j.made = mk /\ j.at = at
        /\ j.file = job[c].file /\ j.pair = job[c].pair
    BY <1>2, <2>1, <2>2 DEF Job
  <2> QED
    BY <2>3 DEF kn, mk, at
<1> HIDE DEF j
<1>11. /\ j.known[x] = id /\ id # NoPlayer
       /\ \A y \in People : y # x => j.known[y] = job[c].known[y]
  BY <1>3, <1>5, <1>8, <1>10, SetupAssumption
<1>12. \A d \in Clients : \A m \in job[d].made :
          m.id \in Players /\ m.email \in Emails /\ Folded[m.email] \in People
  BY Types, FoldedType DEF IInv, Job
<1>13. MadeApart(c, j)
  <2>1. \A m \in job[c].made : m.id # id /\ m.email # Line(c)
    BY <1>1, <1>2, <1>3 DEF MadeApart, x
  <2>2. \A d \in Clients \ {c} : \A n \in job[d].made : n.id # id /\ n.email # Line(c)
    BY <1>1, <1>3 DEF HoldsAddress
  <2>3. \A m \in j.made : j.known[Folded[m.email]] # NoPlayer
    BY <1>2, <1>7, <1>10, <1>11, <1>12 DEF MadeApart, x
  <2>4. ASSUME NEW m \in j.made, NEW n \in j.made, m.id = n.id \/ m.email = n.email
        PROVE  m = n
    <3>1. CASE m \in job[c].made /\ n \in job[c].made
      BY <1>2, <2>4, <3>1 DEF MadeApart
    <3>2. CASE m = row \/ n = row
      BY <1>7, <1>10, <2>1, <2>4, <3>2
    <3> QED
      BY <1>10, <3>1, <3>2
  <2>5. ASSUME NEW m \in j.made
        PROVE  /\ player[m.id] = NoAddress /\ AddressFree(m.email)
               /\ \A d \in Clients \ {c} : \A n \in job[d].made : m.id # n.id /\ m.email # n.email
    <3>1. CASE m \in job[c].made
      BY <1>2, <3>1 DEF MadeApart
    <3>2. CASE m = row
      BY <1>1, <1>3, <1>7, <2>2, <3>2
    <3> QED
      BY <1>10, <3>1, <3>2
  <2> QED
    BY <2>3, <2>4, <2>5 DEF MadeApart
<1>14. Found(j)
  <2>1. ASSUME NEW y \in People, j.known[y] # NoPlayer
        PROVE  /\ player[j.known[y]] # NoAddress \/ \E m \in j.made : m.id = j.known[y]
               /\ \A z \in People : j.known[z] = j.known[y] => y = z
    <3>1. \A z \in People : z # x => job[c].known[z] # id
      <4> SUFFICES ASSUME NEW z \in People, job[c].known[z] = id PROVE FALSE
        OBVIOUS
      <4> QED
        BY <1>2, <1>3, <1>11 DEF Found
    <3>2. CASE y = x
      BY <1>7, <1>10, <1>11, <3>1, <3>2
    <3>3. CASE y # x
      BY <1>2, <1>10, <1>11, <2>1, <3>1, <3>3 DEF Found
    <3> QED
      BY <3>2, <3>3
  <2>2. ASSUME NEW k \in DOMAIN j.file.roster, k < j.at
        PROVE  j.known[Folded[j.file.roster[k]]] # NoPlayer
    <3>1. /\ k \in Int /\ j.file.roster[k] \in Emails
      <4>1. /\ DOMAIN j.file.roster = 1..Len(j.file.roster) /\ Len(j.file.roster) \in Nat
            /\ \A n \in 1..Len(j.file.roster) : j.file.roster[n] \in Emails
        BY <1>2, <1>10, FileType
      <4> QED
        BY <2>2, <4>1
    <3>2. Folded[j.file.roster[k]] \in People
      BY <3>1, FoldedType
    <3>3. CASE k = job[c].at
      BY <1>10, <1>11, <3>3 DEF Line, Lines, x
    <3>4. CASE k < job[c].at
      BY <1>2, <1>10, <1>11, <2>2, <3>2, <3>4 DEF Found
    <3> QED
      BY <1>2, <1>10, <2>2, <3>1, <3>3, <3>4
  <2> QED
    BY <2>1, <2>2 DEF Found
<1> QED
  BY <1>1, <1>2, <1>6, <1>10, <1>13, <1>14, SeedingStep

\* The roster entered, a seed has a player for everybody on it.
LEMMA EverybodyEntered ==
    ASSUME IInv, NEW c \in Clients, pc[c] = "seeding", ~Entering(c)
    PROVE  /\ \A x \in Roster(job[c].file) : job[c].known[x] \in Players
           /\ \A t \in DOMAIN job[c].file.captains :
                 /\ Captain(c, t) \in Players
                 /\ Captain(c, t) \in {job[c].known[x] : x \in Roster(job[c].file)}
<1> DEFINE f == job[c].file
<1>1. f \in Files /\ job[c].at \in Nat /\ Found(job[c]) /\ job[c] \in Job
  BY Seeding
<1>2. /\ Len(f.roster) \in Nat /\ DOMAIN f.roster = 1..Len(f.roster)
      /\ DOMAIN f.captains \subseteq Teams
  BY <1>1, FileType
<1>3. \A k \in 1..Len(f.roster) : k < job[c].at
  BY <1>1, <1>2 DEF Entering, Lines
<1>4. \A k \in 1..Len(f.roster) : job[c].known[Folded[f.roster[k]]] # NoPlayer
  BY <1>1, <1>2, <1>3 DEF Found
<1>5. Roster(f) = {Folded[f.roster[k]] : k \in 1..Len(f.roster)} /\ Roster(f) \subseteq People
  BY <1>1, RosterType
<1>6. \A x \in Roster(f) : job[c].known[x] \in Players
  BY <1>1, <1>4, <1>5 DEF Job
<1>7. \A t \in DOMAIN f.captains : Folded[f.captains[t]] \in Roster(f)
  BY DEF IInv, Kept, PlanKept, CaptainsEntered
<1> QED
  BY <1>6, <1>7 DEF Captain

\* As many players as lines: no two lines are one person, nor two people one player.
LEMMA OnePlayerALine ==
    ASSUME IInv, NEW c \in Clients, pc[c] = "seeding", ~Entering(c)
    PROVE  Cardinality({job[c].known[x] : x \in Roster(job[c].file)}) = Len(job[c].file.roster)
<1> DEFINE f == job[c].file
           n == Len(f.roster)
           S == {job[c].known[x] : x \in Roster(f)}
           g == [k \in 1..n |-> job[c].known[Folded[f.roster[k]]]]
<1>1. f \in Files /\ Found(job[c])
  BY Seeding
<1>2. n \in Nat /\ DOMAIN f.roster = 1..n
  BY <1>1, FileType
<1>3. Roster(f) = {Folded[f.roster[k]] : k \in 1..n} /\ Roster(f) \subseteq People
  BY <1>1, RosterType
<1>4. \A x \in Roster(f) : job[c].known[x] \in Players
  BY EverybodyEntered
<1>5. RosterFits(f)
  BY DEF IInv, Kept, PlanKept
<1>6. g \in [1..n -> S]
  BY <1>3
<1>7. ASSUME NEW k \in 1..n, NEW l \in 1..n, g[k] = g[l] PROVE k = l
  <2>1. Folded[f.roster[k]] \in Roster(f) /\ Folded[f.roster[l]] \in Roster(f)
    BY <1>3
  <2>2. Folded[f.roster[k]] = Folded[f.roster[l]]
    BY <1>1, <1>3, <1>4, <1>7, <2>1, SetupAssumption DEF Found
  <2> QED
    BY <1>2, <1>5, <2>2 DEF RosterFits
<1>8. \A s \in S : \E k \in 1..n : g[k] = s
  BY <1>3
<1> HIDE DEF g, S, n
<1>9. g \in Bijection(1..n, S)
  BY <1>6, <1>7, <1>8 DEF Bijection, Injection, IsInjective, Surjection
<1>10. IsFiniteSet(1..n) /\ Cardinality(1..n) = n
  BY <1>2, FS_Interval
<1>11. Cardinality(S) = n
  BY <1>9, <1>10, FS_Bijection DEF ExistsBijection
<1> QED
  BY <1>11 DEF S, n

\* What the commit adds is a cup, with all of its setup.
LEMMA SeededCupWhole ==
    ASSUME IInv, NEW c \in Clients, CommitSeed(c)
    PROVE  /\ SeededCup(c) \in CupRows /\ SeededCup(c) # NoCup
           /\ SeededCup(c).name = job[c].file.cup /\ SeededCup(c).teams = Teams
           /\ SeededCup(c).seededBy = job[c].file
           /\ Whole(SeededCup(c), job[c].file)
           /\ SeededCup(c).matches > 0 => SeededCup(c).pair \in teeSets
<1> DEFINE f == job[c].file
           k == SeededCup(c)
<1>1. pc[c] = "seeding" /\ ~Entering(c) /\ CaptainsDiffer(c) /\ TeeSetConfigured(c)
  BY DEF CommitSeed
<1>2. f \in Files /\ job[c].pair \in Pairs
  BY <1>1, Seeding
<1>3. /\ f.cup \in CupNames /\ f.matches \in Nat /\ DOMAIN f.captains \subseteq Teams
  BY <1>2, FileType
<1>4. /\ \A x \in Roster(f) : job[c].known[x] \in Players
      /\ \A t \in DOMAIN f.captains :
            Captain(c, t) \in Players /\ Captain(c, t) \in {job[c].known[x] : x \in Roster(f)}
  BY <1>1, EverybodyEntered
<1>5. /\ k.name = f.cup /\ k.seededBy = f /\ k.teams = Teams /\ k.matches = f.matches
      /\ k.entered = {job[c].known[x] : x \in Roster(f)}
      /\ k.side = [t \in Teams |-> IF t \in DOMAIN f.captains THEN {Captain(c, t)} ELSE {}]
      /\ k.captain = [t \in Teams |-> IF t \in DOMAIN f.captains THEN Captain(c, t) ELSE NoPlayer]
      /\ k.pair = (IF f.matches = 0 THEN NoPair ELSE job[c].pair)
  BY DEF SeededCup
<1>6. k \in CupRows
  <2>1. k.entered \subseteq Players
    BY <1>4, <1>5
  <2>2. k.side \in [Teams -> SUBSET Players] /\ k.captain \in [Teams -> Players \cup {NoPlayer}]
    BY <1>4, <1>5
  <2>3. k.pair \in Pairs \cup {NoPair}
    BY <1>2, <1>5
  <2>4. k = [name |-> k.name, seededBy |-> k.seededBy, teams |-> k.teams,
             entered |-> k.entered, side |-> k.side, captain |-> k.captain,
             matches |-> k.matches, pair |-> k.pair]
    BY DEF SeededCup
  <2>5. k.name \in CupNames /\ k.seededBy \in Files /\ k.teams \in SUBSET Teams /\ k.matches \in Nat
    BY <1>2, <1>3, <1>5
  <2> HIDE DEF k
  <2> QED
    BY <2>1, <2>2, <2>3, <2>4, <2>5 DEF CupRows
<1>7. Cardinality(k.entered) = Len(f.roster)
  BY <1>1, <1>5, OnePlayerALine
<1> HIDE DEF k
<1>8. Whole(k, f)
  <2>1. k.entered \subseteq Players
    BY <1>4, <1>5
  <2>2. \A t \in DOMAIN f.captains : k.captain[t] \in k.entered /\ k.side[t] = {k.captain[t]}
    BY <1>3, <1>4, <1>5
  <2>3. \A s, t \in Teams : k.side[s] \cap k.side[t] # {} => s = t
    BY <1>1, <1>5 DEF CaptainsDiffer
  <2> QED
    BY <1>5, <1>7, <2>1, <2>2, <2>3 DEF Whole
<1>9. k.matches > 0 => k.pair \in teeSets
  BY <1>1, <1>3, <1>5 DEF TeeSetConfigured
<1> QED
  BY <1>5, <1>6, <1>8, <1>9, AbsentCupAssumption DEF k

\* The newcomers' rows, beside everybody else's.
LEMMA MadeByType ==
    ASSUME IInv, NEW c \in Clients, pc[c] = "seeding"
    PROVE  /\ MadeBy(c) \in [Players -> Address]
           /\ \A m \in job[c].made : m.id \in Players /\ MadeBy(c)[m.id] = m.email
           /\ \A i \in Players : (\A m \in job[c].made : m.id # i) => MadeBy(c)[i] = player[i]
<1>1. job[c] \in Job /\ MadeApart(c, job[c])
  BY Seeding
<1>2. player \in [Players -> Address]
  BY Types DEF IInv
<1>3. \A m \in job[c].made : m.id \in Players /\ m.email \in Emails
  BY <1>1 DEF Job
<1>4. ASSUME NEW i \in Players, NEW m \in job[c].made, m.id = i
      PROVE  (CHOOSE n \in job[c].made : n.id = i) = m
  BY <1>1, <1>4 DEF MadeApart
<1>5. \A m \in job[c].made : MadeBy(c)[m.id] = m.email
  BY <1>3, <1>4 DEF MadeBy
<1>6. \A i \in Players : (\A m \in job[c].made : m.id # i) => MadeBy(c)[i] = player[i]
  BY DEF MadeBy
<1>7. \A i \in Players : MadeBy(c)[i] \in Address
  BY <1>2, <1>3, <1>5, <1>6 DEF Address
<1> QED
  BY <1>3, <1>5, <1>6, <1>7 DEF MadeBy

LEMMA CommitSeedStep ==
    ASSUME IInv, NEW c \in Clients, CommitSeed(c)
    PROVE  IInv'
<1> USE DEF IInv, Kept, Results
<1> DEFINE k == CHOOSE k \in SpareCups : TRUE
           new == SeededCup(c)
           others == IF job[c].made = {} THEN {} ELSE Clients
<1>1. pc[c] = "seeding"
  BY DEF CommitSeed
<1>2. /\ job[c] \in Job /\ job[c].file \in Files /\ NameFree(job[c].file.cup)
      /\ \A d \in Clients \ {c} : pc[d] = "seeding" => job[d].file.cup # job[c].file.cup
      /\ MadeApart(c, job[c])
  BY <1>1, Seeding
<1>3. k \in Cups /\ cup[k] = NoCup /\ cup' = [cup EXCEPT ![k] = new]
  BY DEF CommitSeed, SpareCups
<1>4. /\ new \in CupRows /\ new # NoCup /\ new.name = job[c].file.cup /\ new.teams = Teams
      /\ new.seededBy = job[c].file /\ Whole(new, job[c].file)
      /\ new.matches > 0 => new.pair \in teeSets
  BY SeededCupWhole
<1>5. /\ player' \in [Players -> Address]
      /\ \A m \in job[c].made : m.id \in Players /\ player'[m.id] = m.email
      /\ \A i \in Players : (\A m \in job[c].made : m.id # i) => player'[i] = player[i]
  BY <1>1, MadeByType DEF CommitSeed
<1>6. /\ pc'[c] = "idle" /\ job'[c] = Idle
      /\ \A d \in Clients : d # c => pc'[d] = pc[d] /\ job'[d] = Disturbed(others)[d]
      /\ job' \in [Clients -> Job]
      /\ UNCHANGED <<courses, colors, teeSets, holes>>
  BY DisturbedStep, IdleType, Types DEF CommitSeed
<1>7. \A d \in Clients : d # c =>
         /\ job'[d].file = job[d].file /\ job'[d].known = job[d].known
         /\ job'[d].made = job[d].made /\ job'[d].at = job[d].at
         /\ job'[d].pair = job[d].pair /\ job'[d].list = job[d].list
  BY <1>6, DisturbedStep
<1> HIDE DEF k, new, others
<1>8. cup'[k] = new /\ \A j \in Cups : j # k => cup'[j] = cup[j]
  BY <1>3, Types
<1>9. TypeOK'
  <2>1. cup' \in [Cups -> CupRows \cup {NoCup}]
    BY <1>3, <1>4, Types
  <2>2. pc' \in [Clients -> Stages]
    BY Types DEF CommitSeed, Stages
  <2> QED
    BY <1>5, <1>6, <2>1, <2>2 DEF TypeOK, Job, Address
<1>10. PlanKept' /\ ListKept'
  BY <1>6, <1>7 DEF PlanKept, ListKept
<1>11. NameHeld'
  <2> SUFFICES ASSUME NEW d \in Clients, pc'[d] = "seeding"
               PROVE  /\ \A j \in Cups : cup'[j] # NoCup => cup'[j].name # job'[d].file.cup
                      /\ \A e \in Clients : pc'[e] = "seeding"
                            /\ job'[e].file.cup = job'[d].file.cup => d = e
    BY DEF NameHeld, NameFree
  <2>1. d # c /\ pc[d] = "seeding" /\ job'[d].file = job[d].file
    BY <1>6, <1>7
  <2>2. \A j \in Cups : cup'[j] # NoCup => cup'[j].name # job'[d].file.cup
    BY <1>2, <1>4, <1>8, <2>1 DEF NameHeld, NameFree
  <2>3. \A e \in Clients : pc'[e] = "seeding" /\ job'[e].file.cup = job'[d].file.cup => d = e
    BY <1>6, <1>7, <2>1 DEF NameHeld
  <2> QED
    BY <2>2, <2>3
<1>12. \A i \in Players : \/ player'[i] = player[i]
                          \/ \E m \in job[c].made : m.id = i /\ player'[i] = m.email
  BY <1>5
<1>13. \A d \in Clients : \A m \in job[d].made : m.id \in Players /\ m.email \in Emails
  BY Types DEF Job
<1>14. AddressHeld'
  <2>1. ASSUME NEW d \in Clients, d # c, NEW m \in job[d].made
        PROVE  player'[m.id] = NoAddress /\ \A i \in Players : player'[i] # m.email
    <3>1. \A n \in job[c].made : n.id # m.id /\ n.email # m.email
      BY <1>2, <2>1 DEF MadeApart
    <3>2. player[m.id] = NoAddress /\ \A i \in Players : player[i] # m.email
      BY DEF AddressHeld, AddressFree
    <3> QED
      BY <1>12, <1>13, <3>1, <3>2
  <2> QED
    BY <1>6, <1>7, <2>1 DEF AddressHeld, AddressFree, Idle
<1>15. PlayersKnown'
  <2> SUFFICES ASSUME NEW d \in Clients, d # c, pc[d] = "seeding",
                      NEW x \in People, job[d].known[x] # NoPlayer
               PROVE  player'[job[d].known[x]] # NoAddress
                        \/ \E m \in job[d].made : m.id = job[d].known[x]
    BY <1>6, <1>7 DEF PlayersKnown, Taken, Lines
  <2>1. job[d].known[x] \in Players
    BY Types DEF Job
  <2>2. player[job[d].known[x]] # NoAddress \/ \E m \in job[d].made : m.id = job[d].known[x]
    BY DEF PlayersKnown, Taken
  <2> QED
    BY <1>12, <1>13, <2>1, <2>2, SetupAssumption
<1>16. CupsAreWhole'
  BY <1>4, <1>8 DEF CupsAreWhole
<1>17. MatchesHaveHoles'
  BY <1>4, <1>6, <1>8 DEF MatchesHaveHoles
<1>18. SetUpOnce'
  <2>1. \A i, j \in Cups : cup'[i] # NoCup /\ cup'[j] # NoCup /\ i # j => cup'[i].name # cup'[j].name
    BY <1>2, <1>4, <1>8 DEF SetUpOnce, NameFree
  <2>2. ASSUME NEW i \in Players, NEW j \in Players, player'[i] # NoAddress, i # j
        PROVE  player'[i] # player'[j]
    <3>1. CASE player'[i] = player[i] /\ player'[j] = player[j]
      BY <2>2, <3>1 DEF SetUpOnce
    <3>2. CASE \E m \in job[c].made : m.id = i /\ player'[i] = m.email
      BY <1>2, <1>12, <2>2, <3>2 DEF MadeApart, AddressFree
    <3>3. CASE \E m \in job[c].made : m.id = j /\ player'[j] = m.email
      BY <1>2, <1>12, <2>2, <3>3 DEF MadeApart, AddressFree
    <3> QED
      BY <1>12, <3>1, <3>2, <3>3
  <2> QED
    BY <2>1, <2>2 DEF SetUpOnce
<1> QED
  BY <1>9, <1>10, <1>11, <1>14, <1>15, <1>16, <1>17, <1>18

-----------------------------------------------------------------------------
LEMMA NextIInv == IInv /\ [Next]_vars => IInv'
<1> SUFFICES ASSUME IInv, [Next]_vars PROVE IInv'
  OBVIOUS
<1>1. CASE UNCHANGED vars
  BY <1>1, NamesStep DEF vars, IInv, TypeOK
<1>2. ASSUME NEW x \in Colors, CreateTeeColor(x) PROVE IInv'
  BY <1>2, NamesStep DEF CreateTeeColor, IInv, TypeOK
<1>3. ASSUME NEW x \in Courses, CreateCourse(x) PROVE IInv'
  BY <1>3, NamesStep DEF CreateCourse, IInv, TypeOK
<1>4. ASSUME NEW c \in Clients, RefuseCup(c) \/ RefusePlayer(c) \/ RefuseSeed(c)
                                \/ BreakDeadlock(c) \/ Abandon(c)
      PROVE  IInv'
  BY <1>4, EndStep DEF RefuseCup, RefusePlayer, RefuseSeed, BreakDeadlock, Abandon
<1>5. ASSUME NEW c \in Clients, Advance(c) PROVE IInv'
  BY <1>4, <1>5, CreateHoleStep, CommitTeeSetStep, BeginSeedStep, EnterKnownStep,
     EnterNewStep, CommitSeedStep DEF Advance
<1> QED
  BY <1>1, <1>2, <1>3, <1>4, <1>5, CreatePlayerStep, UpdatePlayerStep, CreateTournamentStep,
     BeginTeeSetStep, PlanSeedStep DEF Next

LEMMA Invariance == Spec => []IInv
<1> QED
  BY InitIInv, NextIInv, PTL DEF Spec

(***************************************************************************)
(* Every table keeps its shape, and so does what a request has read and    *)
(* written (all of the setup's requests).                                  *)
(***************************************************************************)
THEOREM SetupTypeCorrect == Spec => []TypeOK
<1>1. IInv => TypeOK
  BY DEF IInv
<1> QED
  BY <1>1, Invariance, PTL

(***************************************************************************)
(* A seed "either all lands or none of it does" (SeedService.Seed): a cup  *)
(* has both teams, and one written from a file a player for each line of   *)
(* it, its captains on their sides and all its matches.                    *)
(***************************************************************************)
THEOREM CupsAlwaysWhole == Spec => []CupsAreWhole
<1>1. IInv => CupsAreWhole
  BY DEF IInv, Results
<1> QED
  BY <1>1, Invariance, PTL

(***************************************************************************)
(* A tee set has all its holes (CreateTeeSet), and a match of a seeded cup *)
(* is on one there is.                                                     *)
(***************************************************************************)
THEOREM MatchesAlwaysHaveHoles == Spec => []MatchesHaveHoles
<1>1. IInv => MatchesHaveHoles
  BY DEF IInv, Results
<1> QED
  BY <1>1, Invariance, PTL

(***************************************************************************)
(* No two tournaments have one name and dates, no two players one address, *)
(* whoever writes them at once (CreateTournament, CreatePlayer,            *)
(* UpdatePlayer, SeedTournament).                                          *)
(***************************************************************************)
THEOREM SetUpOnlyOnce == Spec => []SetUpOnce
<1>1. IInv => SetUpOnce
  BY DEF IInv, Results
<1> QED
  BY <1>1, Invariance, PTL

-----------------------------------------------------------------------------
(* A seed nobody disturbs. *)

\* What this seed has looked up is still so, and whom it has made was nobody.
Undisturbed(c) ==
    /\ pc[c] = "seeding"
    /\ \A m \in job[c].made : Recognised(Folded[m.email]) = {}
    /\ \A x \in People :
          IF job[c].known[x] = NoPlayer
          THEN Recognised(x) = {}
          ELSE \/ \E m \in job[c].made : m.id = job[c].known[x] /\ Folded[m.email] = x
               \/ job[c].known[x] \in Recognised(x)

\* So it is as long as nobody else has written an address since it read the players.
QuietKept == \A c \in Clients : job[c].quiet => Undisturbed(c)

LEMMA InitQuiet == Init => QuietKept
  BY DEF Init, QuietKept, Idle

\* Everybody whose players may have moved has lost the claim.
LEMMA DisturbedQuiet ==
    ASSUME IInv, NEW d \in Clients
    PROVE  Disturbed(Clients)[d].quiet = FALSE
<1>1. job[d] \in Job
  BY Types DEF IInv
<1> QED
  BY <1>1 DEF Disturbed, Job

\* What it claims depends on no more than the players and what it knows.
LEMMA CarriedOver ==
    ASSUME NEW c \in Clients, Undisturbed(c), player' = player, pc'[c] = pc[c],
           job'[c].made = job[c].made, job'[c].known = job[c].known
    PROVE  Undisturbed(c)'
<1>1. \A x : Recognised(x)' = Recognised(x)
  BY DEF Recognised
<1> QED
  BY <1>1 DEF Undisturbed

\* A step that writes no address, and leaves each claim and what it is about as
\* it was or drops it.
LEMMA QuietStep ==
    ASSUME QuietKept, player' = player,
           \A c \in Clients : job'[c].quiet =>
              /\ job[c].quiet /\ pc'[c] = pc[c]
              /\ job'[c].made = job[c].made /\ job'[c].known = job[c].known
    PROVE  QuietKept'
  BY CarriedOver DEF QuietKept

\* BeginSeed reads the players as they are.
LEMMA BeginSeedQuiet ==
    ASSUME IInv, QuietKept, NEW c \in Clients, BeginSeed(c)
    PROVE  QuietKept'
<1> USE DEF IInv, Kept
<1>1. PICK known \in ReadPlayers :
         job' = [job EXCEPT ![c].known = known, ![c].quiet = TRUE]
  BY DEF BeginSeed
<1>2. /\ player' = player /\ pc' = [pc EXCEPT ![c] = "seeding"] /\ job \in [Clients -> Job]
      /\ pc \in [Clients -> Stages] /\ pc[c] = "planned"
  BY Types DEF BeginSeed, tables
<1>3. job[c].made = {}
  BY <1>2 DEF AddressHeld
<1>4. /\ job'[c].known = known /\ job'[c].made = {}
      /\ \A d \in Clients \ {c} : job'[d] = job[d]
  BY <1>1, <1>2, <1>3 DEF Job
<1>5. \A x : Recognised(x)' = Recognised(x)
  BY <1>2 DEF Recognised
<1>6. \A x \in People : /\ known[x] = NoPlayer => Recognised(x) = {}
                        /\ known[x] # NoPlayer => known[x] \in Recognised(x)
  BY SetupAssumption DEF ReadPlayers, Recognised
<1>7. Undisturbed(c)'
  BY <1>2, <1>4, <1>5, <1>6 DEF Undisturbed
<1>8. \A d \in Clients \ {c} : Undisturbed(d) => Undisturbed(d)'
  BY <1>2, <1>4, CarriedOver
<1> QED
  BY <1>4, <1>7, <1>8 DEF QuietKept

\* EnterNew makes a player of somebody no player was.
LEMMA EnterNewQuiet ==
    ASSUME IInv, QuietKept, NEW c \in Clients, EnterNew(c)
    PROVE  QuietKept'
<1> USE DEF IInv, Kept
<1> DEFINE id == CHOOSE i \in SparePlayers : TRUE
           p == Folded[Line(c)]
           new == [id |-> id, email |-> Line(c)]
<1>1. /\ job' = [job EXCEPT ![c].made = @ \cup {new}, ![c].known[p] = id, ![c].at = @ + 1]
      /\ pc' = pc /\ player' = player /\ pc[c] = "seeding" /\ job[c].known[p] = NoPlayer
      /\ SparePlayers # {} /\ job[c].at <= Len(Lines(c))
  BY DEF EnterNew, Entering, IsNew, tables
<1>2. id \in Players
  BY <1>1 DEF SparePlayers
<1>3. p \in People
  <2>1. job[c].file \in Files /\ job[c].at \in Nat \ {0}
    BY <1>1, Seeding
  <2>2. /\ DOMAIN job[c].file.roster = 1..Len(job[c].file.roster)
        /\ \A k \in 1..Len(job[c].file.roster) : job[c].file.roster[k] \in Emails
        /\ Len(job[c].file.roster) \in Nat
    BY <2>1, FileType
  <2>3. job[c].at <= Len(job[c].file.roster)
    BY DEF EnterNew, Entering, Lines
  <2>4. job[c].at \in 1..Len(job[c].file.roster)
    BY <2>1, <2>2, <2>3
  <2> QED
    BY <2>2, <2>4, FoldedType DEF Line, Lines
<1>4. job \in [Clients -> Job] /\ job[c].known \in [People -> Players \cup {NoPlayer}]
  BY Types DEF Job
<1>5. new.id = id /\ Folded[new.email] = p
  OBVIOUS
<1> HIDE DEF id, p, new
<1>6. /\ job'[c].known = [job[c].known EXCEPT ![p] = id] /\ job'[c].made = job[c].made \cup {new}
      /\ job'[c].quiet = job[c].quiet
      /\ \A d \in Clients \ {c} : job'[d] = job[d]
  BY <1>1, <1>4 DEF Job
<1>7. \A x : Recognised(x)' = Recognised(x)
  BY <1>1 DEF Recognised
<1>8. \A d \in Clients \ {c} : Undisturbed(d) => Undisturbed(d)'
  BY <1>1, <1>6, CarriedOver
<1>9. ASSUME Undisturbed(c) PROVE Undisturbed(c)'
  <2>1. \A m \in job'[c].made : Recognised(Folded[m.email])' = {}
    BY <1>1, <1>3, <1>5, <1>6, <1>7, <1>9 DEF Undisturbed
  <2>2. /\ id # NoPlayer /\ job'[c].known[p] = id
        /\ \A x \in People \ {p} : job'[c].known[x] = job[c].known[x]
    BY <1>2, <1>3, <1>4, <1>6, SetupAssumption
  <2>3. \A x \in People :
           IF job'[c].known[x] = NoPlayer
           THEN Recognised(x)' = {}
           ELSE \/ \E m \in job'[c].made : m.id = job'[c].known[x] /\ Folded[m.email] = x
                \/ job'[c].known[x] \in Recognised(x)'
    <3> SUFFICES ASSUME NEW x \in People
                 PROVE  IF job'[c].known[x] = NoPlayer
                        THEN Recognised(x) = {}
                        ELSE \/ \E m \in job'[c].made : m.id = job'[c].known[x] /\ Folded[m.email] = x
                             \/ job'[c].known[x] \in Recognised(x)
      BY <1>7
    <3>1. CASE x = p
      BY <1>5, <1>6, <2>2, <3>1
    <3>2. CASE x # p
      BY <1>6, <1>9, <2>2, <3>2 DEF Undisturbed
    <3> QED
      BY <3>1, <3>2
  <2> QED
    BY <1>1, <2>1, <2>3 DEF Undisturbed
<1> QED
  BY <1>6, <1>8, <1>9 DEF QuietKept

\* A commit writes the addresses of the newcomers, and only then moves anybody's players.
LEMMA CommitSeedQuiet ==
    ASSUME IInv, QuietKept, NEW c \in Clients, CommitSeed(c)
    PROVE  QuietKept'
<1> DEFINE others == IF job[c].made = {} THEN {} ELSE Clients
<1>1. /\ player' = MadeBy(c) /\ pc' = [pc EXCEPT ![c] = "idle"]
      /\ job' = [Disturbed(others) EXCEPT ![c] = Idle]
  BY DEF CommitSeed
<1>2. /\ job'[c].quiet = FALSE
      /\ \A d \in Clients \ {c} : pc'[d] = pc[d] /\ job'[d] = Disturbed(others)[d]
  <2>1. Disturbed(others) \in [Clients -> Job] /\ pc \in [Clients -> Stages]
    BY DisturbedStep, Types DEF IInv
  <2> HIDE DEF others
  <2> QED
    BY <1>1, <2>1 DEF Idle
<1>3. CASE job[c].made = {}
  <2>1. player' = player
    <3>1. \A i \in Players : MadeBy(c)[i] = player[i]
      BY <1>3 DEF MadeBy
    <3>2. player \in [Players -> Address] /\ MadeBy(c) \in [Players -> Address]
      BY Types, MadeByType DEF IInv, CommitSeed
    <3> QED
      BY <1>1, <3>1, <3>2
  <2>2. \A d \in Clients \ {c} : pc'[d] = pc[d] /\ job'[d] = job[d]
    BY <1>2, <1>3 DEF Disturbed
  <2> QED
    BY <1>2, <2>1, <2>2, QuietStep
<1>4. CASE job[c].made # {}
  <2>1. \A d \in Clients : job'[d].quiet = FALSE
    BY <1>2, <1>4, DisturbedQuiet
  <2> QED
    BY <2>1 DEF QuietKept
<1> QED
  BY <1>3, <1>4

\* The other statements of a request.
LEMMA StatementQuiet ==
    ASSUME IInv, QuietKept, NEW c \in Clients, player' = player,
           NEW j, job' = [job EXCEPT ![c] = j],
           \A d \in Clients \ {c} : pc'[d] = pc[d],
           j.quiet => /\ job[c].quiet /\ pc'[c] = pc[c]
                      /\ j.made = job[c].made /\ j.known = job[c].known
    PROVE  QuietKept'
<1>1. job'[c] = j /\ \A d \in Clients \ {c} : job'[d] = job[d]
  BY Types DEF IInv
<1> QED
  BY <1>1, QuietStep

LEMMA EndQuiet ==
    ASSUME IInv, QuietKept, NEW c \in Clients, End(c), player' = player
    PROVE  QuietKept'
<1>1. \A d \in Clients \ {c} : pc'[d] = pc[d]
  BY Types DEF End, IInv
<1> QED
  BY <1>1, StatementQuiet DEF End, Idle

LEMMA AdvanceQuiet ==
    ASSUME IInv, QuietKept, NEW c \in Clients, Advance(c)
    PROVE  QuietKept'
<1> USE DEF tables
<1>1. job[c] \in Job
  BY Types DEF IInv
<1>2. CASE CreateHole(c) \/ EnterKnown(c)
  <2> DEFINE j == [job[c] EXCEPT !.at = @ + 1]
  <2>1. job' = [job EXCEPT ![c] = j] /\ player' = player /\ pc' = pc
    BY <1>2 DEF CreateHole, EnterKnown
  <2>2. j.quiet = job[c].quiet /\ j.made = job[c].made /\ j.known = job[c].known
    BY <1>1 DEF Job
  <2> HIDE DEF j
  <2> QED
    BY <2>1, <2>2, StatementQuiet
<1>3. CASE CommitTeeSet(c) \/ RefuseCup(c) \/ RefusePlayer(c) \/ RefuseSeed(c)
  BY <1>3, EndQuiet DEF CommitTeeSet, RefuseCup, RefusePlayer, RefuseSeed
<1> QED
  BY <1>2, <1>3, BeginSeedQuiet, EnterNewQuiet, CommitSeedQuiet DEF Advance

LEMMA NextQuiet == IInv /\ QuietKept /\ [Next]_vars => QuietKept'
<1> SUFFICES ASSUME IInv, QuietKept, [Next]_vars PROVE QuietKept'
  OBVIOUS
<1>1. CASE UNCHANGED vars
  BY <1>1, QuietStep DEF vars
<1>2. ASSUME NEW x, CreateTeeColor(x) \/ CreateCourse(x) \/ CreateTournament(x)
      PROVE  QuietKept'
  BY <1>2, QuietStep DEF CreateTeeColor, CreateCourse, CreateTournament
<1>3. ASSUME NEW e \in Emails, CreatePlayer(e) \/ \E i \in Players : UpdatePlayer(i, e)
      PROVE  QuietKept'
  <2>1. job' = Disturbed(Clients)
    BY <1>3 DEF CreatePlayer, UpdatePlayer
  <2> QED
    BY <2>1, DisturbedQuiet DEF QuietKept
<1>4. ASSUME NEW c \in Clients, NEW p \in Pairs, NEW list \in HoleLists, BeginTeeSet(c, p, list)
      PROVE  QuietKept'
  <2> DEFINE j == [Idle EXCEPT !.pair = p, !.list = list]
  <2>1. job' = [job EXCEPT ![c] = j] /\ player' = player /\ \A d \in Clients \ {c} : pc'[d] = pc[d]
    BY <1>4, Types DEF BeginTeeSet, tables, IInv
  <2>2. j.quiet = FALSE
    BY DEF Idle
  <2> HIDE DEF j
  <2> QED
    BY <2>1, <2>2, StatementQuiet
<1>5. ASSUME NEW c \in Clients, NEW f \in Files, PlanSeed(c, f)
      PROVE  QuietKept'
  <2> DEFINE j == [Idle EXCEPT !.file = f, !.pair = <<f.course, f.color>>]
  <2>1. job' = [job EXCEPT ![c] = j] /\ player' = player /\ \A d \in Clients \ {c} : pc'[d] = pc[d]
    BY <1>5, Types DEF PlanSeed, tables, IInv
  <2>2. j.quiet = FALSE
    BY DEF Idle
  <2> HIDE DEF j
  <2> QED
    BY <2>1, <2>2, StatementQuiet
<1>6. ASSUME NEW c \in Clients, BreakDeadlock(c) \/ Abandon(c)
      PROVE  QuietKept'
  BY <1>6, EndQuiet DEF BreakDeadlock, Abandon, tables
<1> QED
  BY <1>1, <1>2, <1>3, <1>4, <1>5, <1>6, AdvanceQuiet DEF Next

-----------------------------------------------------------------------------
(* Whom a seed recognises. *)

\* The players an undisturbed seed enters are its roster's people.
LEMMA EntersItsRoster ==
    ASSUME IInv, NEW c \in Clients, CommitSeed(c), Undisturbed(c)
    PROVE  {PersonOf(i, player') : i \in SeededCup(c).entered} = Roster(job[c].file)
<1> DEFINE f == job[c].file
<1>1. pc[c] = "seeding" /\ ~Entering(c) /\ player' = MadeBy(c)
  BY DEF CommitSeed
<1>2. SeededCup(c).entered = {job[c].known[x] : x \in Roster(f)}
  BY DEF SeededCup
<1>3. \A x \in Roster(f) : job[c].known[x] \in Players
  BY <1>1, EverybodyEntered
<1>4. Roster(f) \subseteq People
  BY <1>1, Seeding, RosterType
<1>5. /\ \A m \in job[c].made : m.id \in Players /\ MadeBy(c)[m.id] = m.email
      /\ \A i \in Players : (\A m \in job[c].made : m.id # i) => MadeBy(c)[i] = player[i]
  BY <1>1, MadeByType
<1>6. \A m \in job[c].made : player[m.id] = NoAddress
  BY DEF IInv, Kept, AddressHeld
<1>7. ASSUME NEW x \in Roster(f)
      PROVE  PersonOf(job[c].known[x], player') = x
  <2>1. job[c].known[x] \in Players /\ job[c].known[x] # NoPlayer /\ x \in People
    BY <1>3, <1>4, SetupAssumption
  <2>2. CASE \E m \in job[c].made : m.id = job[c].known[x] /\ Folded[m.email] = x
    BY <1>1, <1>5, <2>2 DEF PersonOf
  <2>3. CASE job[c].known[x] \in Recognised(x)
    <3>1. player[job[c].known[x]] # NoAddress /\ Folded[player[job[c].known[x]]] = x
      BY <2>3 DEF Recognised
    <3>2. \A m \in job[c].made : m.id # job[c].known[x]
      BY <1>6, <3>1
    <3> QED
      BY <1>1, <1>5, <2>1, <3>1, <3>2 DEF PersonOf
  <2> QED
    BY <2>1, <2>2, <2>3 DEF Undisturbed
<1> HIDE DEF f
<1> QED
  BY <1>2, <1>7 DEF f

\* Nor does it make a player of anybody who is one.
LEMMA MakesNobodyTwice ==
    ASSUME NEW c \in Clients, Undisturbed(c), NEW m \in job[c].made, NEW i \in Players,
           player[i] # NoAddress
    PROVE  PersonOf(i, player) # Folded[m.email]
<1>1. Recognised(Folded[m.email]) = {}
  BY DEF Undisturbed
<1> QED
  BY <1>1 DEF Recognised, PersonOf

\* A step that adds the cup of a request that is quiet and ends is its commit.
LEMMA CupIsCommitted ==
    ASSUME IInv, QuietKept, [Next]_vars, NEW c \in Clients, NEW k \in Cups,
           cup[k] = NoCup, cup'[k] # NoCup, job[c].quiet, job'[c] = Idle
    PROVE  CommitSeed(c) /\ cup'[k] = SeededCup(c) /\ Undisturbed(c)
<1>1. Undisturbed(c) /\ pc[c] = "seeding"
  BY DEF QuietKept, Undisturbed
<1>2. job[c].file # NoFile /\ Idle.file = NoFile /\ Idle.quiet = FALSE
  BY <1>1, Seeding, SetupAssumption DEF Idle
<1>3. cup' # cup
  OBVIOUS
<1>4. (\E n \in CupNames : CreateTournament(n)) \/ \E d \in Clients : CommitSeed(d)
  <2>1. ~UNCHANGED vars
    BY <1>3 DEF vars
  <2>2. /\ \A x : ~CreateTeeColor(x) /\ ~CreateCourse(x) /\ ~CreatePlayer(x)
        /\ \A i, e : ~UpdatePlayer(i, e)
    BY <1>3 DEF CreateTeeColor, CreateCourse, CreatePlayer, UpdatePlayer
  <2>3. /\ \A d, p, list : ~BeginTeeSet(d, p, list)
        /\ \A d, f : ~PlanSeed(d, f)
        /\ \A d : ~BreakDeadlock(d) /\ ~Abandon(d)
    BY <1>3 DEF BeginTeeSet, PlanSeed, BreakDeadlock, Abandon, tables
  <2>4. \A d : ~CreateHole(d) /\ ~CommitTeeSet(d) /\ ~EnterKnown(d) /\ ~EnterNew(d)
    BY <1>3 DEF CreateHole, CommitTeeSet, EnterKnown, EnterNew, tables
  <2>5. \A d : ~BeginSeed(d) /\ ~RefuseCup(d) /\ ~RefusePlayer(d) /\ ~RefuseSeed(d)
    BY <1>3 DEF BeginSeed, RefuseCup, RefusePlayer, RefuseSeed, tables
  <2> QED
    BY <2>1, <2>2, <2>3, <2>4, <2>5 DEF Next, Advance
<1>5. ~\E n \in CupNames : CreateTournament(n)
  BY <1>2 DEF CreateTournament
<1>6. PICK d \in Clients : CommitSeed(d)
  BY <1>4, <1>5
<1>7. d = c
  <2> SUFFICES ASSUME d # c PROVE FALSE
    OBVIOUS
  <2>1. Disturbed(IF job[d].made = {} THEN {} ELSE Clients)[c].file = job[c].file
    BY DisturbedStep DEF IInv
  <2>2. job'[c] = Disturbed(IF job[d].made = {} THEN {} ELSE Clients)[c]
    BY <1>6 DEF CommitSeed, Disturbed
  <2> QED
    BY <1>2, <2>1, <2>2
<1>8. cup' = [cup EXCEPT ![CHOOSE s \in SpareCups : TRUE] = SeededCup(c)]
  BY <1>6, <1>7 DEF CommitSeed
<1>9. cup'[k] = SeededCup(c)
  BY <1>8, Types DEF IInv
<1> QED
  BY <1>1, <1>6, <1>7, <1>9

\* What SeedRecognises asks of a step.
SeedStep ==
    \A c \in Clients, k \in Cups :
          cup[k] = NoCup /\ cup'[k] # NoCup /\ job[c].quiet /\ job'[c] = Idle =>
              /\ {PersonOf(i, player') : i \in cup'[k].entered} = Roster(job[c].file)
              /\ \A m \in job[c].made : \A i \in Players :
                    player[i] # NoAddress => PersonOf(i, player) # Folded[m.email]

THEOREM SeedsRecogniseEverybody == Spec => SeedRecognises
<1>1. IInv /\ QuietKept /\ [Next]_vars => SeedStep
  <2> SUFFICES ASSUME IInv, QuietKept, [Next]_vars, NEW c \in Clients, NEW k \in Cups,
                      cup[k] = NoCup, cup'[k] # NoCup, job[c].quiet, job'[c] = Idle
               PROVE  /\ {PersonOf(i, player') : i \in cup'[k].entered} = Roster(job[c].file)
                      /\ \A m \in job[c].made : \A i \in Players :
                            player[i] # NoAddress => PersonOf(i, player) # Folded[m.email]
    BY DEF SeedStep
  <2>1. CommitSeed(c) /\ cup'[k] = SeededCup(c) /\ Undisturbed(c)
    BY CupIsCommitted
  <2>2. {PersonOf(i, player') : i \in cup'[k].entered} = Roster(job[c].file)
    BY <2>1, EntersItsRoster
  <2>3. \A m \in job[c].made : \A i \in Players :
           player[i] # NoAddress => PersonOf(i, player) # Folded[m.email]
    BY <2>1, MakesNobodyTwice
  <2> QED
    BY <2>2, <2>3
<1>2. Spec => []QuietKept
  BY InitQuiet, NextQuiet, Invariance, PTL DEF Spec
<1> QED
  BY <1>1, <1>2, Invariance, PTL DEF Spec, SeedRecognises, SeedStep
=============================================================================
