-------------------------- MODULE ScoreCardProofs --------------------------
(***************************************************************************)
(* The engine is match play: for any number of holes, any balls on either  *)
(* side and any order of entry, the walk of ComputeMatchProgress closes a  *)
(* match out exactly when the rest of it cannot change who wins, at a      *)
(* margin that reads as a golf score.                                      *)
(*                                                                         *)
(* Two facts carry it.  Once a side leads by more holes than are left, the *)
(* rest moves the lead by no more than one a hole (SettledWalk); while it  *)
(* does not, giving the rest to one side or to the other ends differently  *)
(* (OpenWalk).                                                             *)
(***************************************************************************)
EXTENDS ScoreCard, MatchPlayProofs

Winners == Teams \cup {NoTeam}

\* The ways of playing the whole match that agree with the holes in play.
Completes(played, c) ==
    c \in [Holes -> Winners] /\ \A h \in DOMAIN played : c[h] = played[h]

LEMMA CompletionsAre ==
    ASSUME OnTheCard(rows)
    PROVE  \A c : c \in Completions <=> Completes(HolesPlayed(rows), c)
<1> DEFINE played == HolesPlayed(rows)
<1>1. DOMAIN played \in SUBSET Holes /\ played \in [DOMAIN played -> Winners]
  BY HolesPlayedType DEF Winners
<1> HIDE DEF played
<1>2. Completions = {[h \in Holes |-> IF h \in DOMAIN played THEN played[h] ELSE c[h]] :
                        c \in [Holes \ DOMAIN played -> Winners]}
  BY DEF Completions, Winners, played
<1>3. ASSUME NEW c \in Completions PROVE Completes(played, c)
  BY <1>1, <1>2, <1>3 DEF Completes
<1>4. ASSUME NEW c, Completes(played, c) PROVE c \in Completions
  <2> DEFINE d == [h \in Holes \ DOMAIN played |-> c[h]]
  <2>1. d \in [Holes \ DOMAIN played -> Winners]
    BY <1>4 DEF Completes
  <2>2. c = [h \in Holes |-> IF h \in DOMAIN played THEN played[h] ELSE d[h]]
    BY <1>1, <1>4 DEF Completes
  <2> HIDE DEF d
  <2> QED
    BY <1>2, <2>1, <2>2
<1> QED
  BY <1>3, <1>4 DEF played

LEMMA WinnerIs ==
    ASSUME NEW c \in [Holes -> Winners]
    PROVE  Winner(c) = Leader(LeadIn(Holes, c)) /\ LeadIn(Holes, c) \in Int
<1>1. Winner(c) = Leader(LeadIn(Holes, c))
  BY DEF Winner, HolesWon, LeadIn, WonIn
<1>2. LeadIn(Holes, c) \in Int
  BY LeadMoves
<1> QED
  BY <1>1, <1>2

\* The lead over a set of holes is the same on functions that agree there.
LEMMA LeadAgrees ==
    ASSUME NEW S, NEW c, NEW d, \A h \in S : c[h] = d[h]
    PROVE  LeadIn(S, c) = LeadIn(S, d)
<1>1. \A t : WonIn(S, c, t) = WonIn(S, d, t)
  BY DEF WonIn
<1> QED
  BY <1>1 DEF LeadIn

\* A decided match ends as it was decided, however the rest of it is played.
LEMMA SettledWalk ==
    ASSUME NEW D \in SUBSET Holes, NEW played, DOMAIN played = D, NEW h \in D,
           DecidedAt(played, h), NEW c, Completes(played, c)
    PROVE  Winner(c) = Leader(SignedLead(played, h))
<1> DEFINE X == Counted(played, h)
           s == LeadIn(X, played)
           n == Cardinality(X)
<1>1. X \in SUBSET D /\ X \in SUBSET Holes /\ SignedLead(played, h) = s /\ Decided(Abs(s), n)
  BY WalkState
<1>2. LeadIn(X, c) = s
  BY <1>1, LeadAgrees DEF Completes
<1> HIDE DEF X
<1>3. /\ s \in Int /\ n \in 0..NumHoles /\ NumHoles \in Nat
      /\ LeadIn(Holes, c) = s + LeadIn(Holes \ X, c) /\ LeadIn(Holes \ X, c) \in Int
      /\ LeadIn(Holes \ X, c) <= NumHoles - n
      /\ -(NumHoles - n) <= LeadIn(Holes \ X, c)
  <2>1. Holes \ X \in SUBSET Holes
    OBVIOUS
  <2> QED
    BY <1>1, <1>2, <2>1, LeadMoves, HolesAreFinite
<1>4. Leader(LeadIn(Holes, c)) = Leader(s)
  <2> HIDE DEF s, n
  <2>1. CASE Abs(s) > NumHoles - n
    BY <1>3, <2>1 DEF Abs, Leader
  <2>2. CASE n = NumHoles
    BY <1>3, <2>2
  <2> QED
    BY <1>1, <2>1, <2>2 DEF Decided
<1> QED
  BY <1>1, <1>4, WinnerIs DEF Completes

\* While no hole has decided it, the rest given to either side ends differently.
LEMMA OpenWalk ==
    ASSUME NEW D \in SUBSET Holes, NEW played \in [D -> Winners],
           \A h \in D : ~DecidedAt(played, h)
    PROVE  \E c, d : Completes(played, c) /\ Completes(played, d) /\ Winner(c) # Winner(d)
<1> DEFINE s == LeadIn(D, played)
           n == Cardinality(D)
           All(t) == [h \in Holes |-> IF h \in D THEN played[h] ELSE t]
           rest == Holes \ D
<1>1. /\ s \in Int /\ n \in 0..NumHoles /\ NumHoles \in Nat \ {0}
      /\ Cardinality(rest) = NumHoles - n
  BY LeadMoves, HolesAreFinite, MatchPlayAssumption
<1>2. Abs(s) <= NumHoles - n /\ n < NumHoles
  <2>1. CASE D = {}
    <3>1. n = 0 /\ s = 0
      <4>1. \A t : WonIn(D, played, t) = {}
        BY <2>1 DEF WonIn
      <4> QED
        BY <2>1, <4>1, FS_EmptySet DEF LeadIn
    <3> QED
      BY <1>1, <3>1 DEF Abs
  <2>2. CASE D # {}
    <3> DEFINE m == Max(D)
    <3>1. m \in D /\ \A h \in D : h <= m
      <4>1. D \in SUBSET (0..NumHoles) /\ NumHoles \in Nat
        BY HolesAreFinite DEF Holes
      <4> QED
        BY <2>2, <4>1, GreatestExists
    <3> HIDE DEF m
    <3>2. Counted(played, m) = D
      BY <3>1 DEF Counted
    <3>3. ~Decided(Abs(s), n)
      BY <3>1, <3>2, WalkState
    <3> HIDE DEF s, n
    <3> QED
      BY <1>1, <3>3 DEF Decided, Abs
  <2> QED
    BY <2>1, <2>2
<1>3. ASSUME NEW t \in Teams
      PROVE  /\ All(t) \in [Holes -> Winners] /\ Completes(played, All(t))
             /\ LeadIn(Holes, All(t)) = s + LeadIn(rest, All(t))
             /\ LeadIn(rest, All(t)) = IF t = TeamA THEN NumHoles - n ELSE n - NumHoles
  <2>1. All(t) \in [Holes -> Winners] /\ Completes(played, All(t))
    BY DEF Completes, Winners
  <2>2. LeadIn(D, All(t)) = s
    <3>1. \A h \in D : All(t)[h] = played[h]
      OBVIOUS
    <3> HIDE DEF All
    <3> QED
      BY <3>1, LeadAgrees
  <2>3. LeadIn(Holes, All(t)) = s + LeadIn(rest, All(t))
    <3> HIDE DEF All
    <3>1. Holes \in SUBSET Holes /\ D \in SUBSET Holes
      OBVIOUS
    <3>2. LeadIn(Holes, All(t)) = LeadIn(D, All(t)) + LeadIn(rest, All(t))
      BY <3>1, LeadMoves
    <3> QED
      BY <2>2, <3>2
  <2>4. WonIn(rest, All(t), t) = rest /\ \A u \in Teams \ {t} : WonIn(rest, All(t), u) = {}
    BY DEF WonIn
  <2>5. LeadIn(rest, All(t)) = IF t = TeamA THEN NumHoles - n ELSE n - NumHoles
    <3>1. CASE t = TeamA
      <4>1. LeadIn(rest, All(t)) = Cardinality(rest) - Cardinality({})
        BY <2>4, <3>1, MatchPlayAssumption DEF LeadIn, Teams
      <4> QED
        BY <1>1, <3>1, <4>1, FS_EmptySet
    <3>2. CASE t = TeamB
      <4>1. LeadIn(rest, All(t)) = Cardinality({}) - Cardinality(rest)
        BY <2>4, <3>2, MatchPlayAssumption DEF LeadIn, Teams
      <4>2. t # TeamA
        BY <3>2, MatchPlayAssumption
      <4> HIDE DEF All, rest, n
      <4> QED
        BY <1>1, <4>1, <4>2, FS_EmptySet
    <3> QED
      BY <3>1, <3>2 DEF Teams
  <2> QED
    BY <2>1, <2>3, <2>5
<1> HIDE DEF All, s, n, rest
<1>4. /\ LeadIn(Holes, All(TeamA)) = s + (NumHoles - n)
      /\ LeadIn(Holes, All(TeamB)) = s + (n - NumHoles)
      /\ All(TeamA) \in [Holes -> Winners] /\ All(TeamB) \in [Holes -> Winners]
      /\ Completes(played, All(TeamA)) /\ Completes(played, All(TeamB))
  BY <1>3, MatchPlayAssumption DEF Teams
<1>5. Leader(s + (NumHoles - n)) # Leader(s + (n - NumHoles))
  BY <1>1, <1>2, MatchPlayAssumption DEF Abs, Leader
<1> QED
  BY <1>4, <1>5, WinnerIs

-----------------------------------------------------------------------------
(* The cards the program can hold. *)

Cards == {r \in [hole : Holes, ball : Balls, team : Teams, strokes : Nat] :
             r.team = BallTeam[r.ball]}

\* The stored outcome is the engine's, and every row is its ball's.
IInv == rows \in SUBSET Cards /\ result = ComputeStoredResult(rows)

LEMMA CardsOnTheCard == ASSUME rows \in SUBSET Cards PROVE OnTheCard(rows)
  BY DEF Cards, OnTheCard

LEMMA SubmitType ==
    ASSUME IInv, NEW b \in Balls, NEW h \in BallHoles[b], NEW n \in 1..MaxStrokes,
           Submit(h, b, n)
    PROVE  IInv'
<1>1. h \in Holes /\ BallTeam[b] \in Teams /\ n \in Nat
  BY ScoreCardAssumption
<1>2. [hole |-> h, ball |-> b, team |-> BallTeam[b], strokes |-> n] \in Cards
  BY <1>1 DEF Cards
<1> QED
  BY <1>2 DEF Submit, Upsert, IInv

LEMMA EngineInvariant == Spec => []IInv
<1>1. Init => IInv
  <2>1. HolesInPlay({}) = {}
    BY DEF HolesInPlay, HolesScoredBy
  <2> QED
    BY <2>1, NothingInPlay DEF Init, IInv
<1>2. IInv /\ [Next]_vars => IInv'
  <2> SUFFICES ASSUME IInv, [Next]_vars PROVE IInv'
    OBVIOUS
  <2>1. CASE ResetMatch
    <3>1. HolesInPlay({}) = {}
      BY DEF HolesInPlay, HolesScoredBy
    <3> QED
      BY <2>1, <3>1, NothingInPlay DEF ResetMatch, IInv
  <2>2. CASE UNCHANGED vars
    BY <2>2 DEF IInv, vars
  <2> QED
    BY <2>1, <2>2, SubmitType DEF Next
<1> QED
  BY <1>1, <1>2, PTL DEF Spec

LEMMA OneOrTwo ==
    ASSUME NEW S, IsFiniteSet(S), NEW x \in S, NEW y \in S, x # y
    PROVE  Cardinality(S) > 1
<1>1. {x} \in SUBSET S /\ {x} # S /\ IsFiniteSet({x}) /\ Cardinality({x}) = 1
  BY FS_Singleton
<1>2. Cardinality({x}) <= Cardinality(S) /\ Cardinality({x}) # Cardinality(S)
  BY <1>1, FS_Subset
<1> QED
  BY <1>1, <1>2, FS_CardinalityType

\* Closed out exactly when settled, on any card.
LEMMA SettledCard == ASSUME IInv PROVE FinishedIffSettled
<1> DEFINE played == HolesPlayed(rows)
           D == HolesInPlay(rows)
           winners == {Winner(c) : c \in Completions}
<1>1. /\ OnTheCard(rows) /\ D \in SUBSET Holes
      /\ played \in [D -> Winners] /\ DOMAIN played = D
  BY CardsOnTheCard, HolesPlayedType DEF IInv, Winners
<1>2. \A c : c \in Completions <=> Completes(played, c)
  BY <1>1, CompletionsAre
<1> HIDE DEF played, D
<1>3. \E c : Completes(played, c)
  <2> DEFINE c0 == [h \in Holes |-> IF h \in D THEN played[h] ELSE NoTeam]
  <2>1. Completes(played, c0)
    BY <1>1 DEF Completes, Winners
  <2> QED
    BY <2>1
\* Where the walk stopped without a decision, no hole has made one.
<1>4. ASSUME \A h \in D : ~DecidedAt(played, h)
      PROVE  Cardinality(winners) > 1
  <2>1. PICK c, d : Completes(played, c) /\ Completes(played, d) /\ Winner(c) # Winner(d)
    BY <1>1, <1>4, OpenWalk
  <2>2. Winner(c) \in winners /\ Winner(d) \in winners
    BY <1>2, <2>1
  <2>3. winners \in SUBSET Winners
    BY DEF Winner, Leader, Winners, Teams
  <2>4. IsFiniteSet(Winners)
    <3>1. IsFiniteSet({TeamA} \cup {TeamB})
      BY FS_Singleton, FS_AddElement
    <3>2. IsFiniteSet(({TeamA} \cup {TeamB}) \cup {NoTeam})
      BY <3>1, FS_AddElement
    <3>3. Winners = ({TeamA} \cup {TeamB}) \cup {NoTeam}
      BY DEF Winners, Teams
    <3> QED
      BY <3>2, <3>3
  <2> HIDE DEF winners
  <2>5. IsFiniteSet(winners)
    BY <2>3, <2>4, FS_Subset
  <2> QED
    BY <2>1, <2>2, <2>5, OneOrTwo
<1>5. CASE D = {}
  <2>1. ~result.finished
    BY <1>5, NothingInPlay DEF IInv, D, UnplayedResult
  <2> QED
    BY <1>4, <1>5, <2>1 DEF FinishedIffSettled
<1>6. CASE D # {}
  <2>1. PICK h \in D :
            /\ StopsAt(played, h)
            /\ result.finished = DecidedAt(played, h)
            /\ result.leader = Leader(SignedLead(played, h))
    BY <1>1, <1>6, WalkStops DEF IInv, played, D
  <2>2. CASE DecidedAt(played, h)
    <3>1. \A c \in Completions : Winner(c) = result.leader
      BY <1>1, <1>2, <2>1, <2>2, SettledWalk
    <3>2. winners = {result.leader}
      BY <1>2, <1>3, <3>1
    <3> QED
      BY <2>1, <2>2, <3>2 DEF FinishedIffSettled
  <2>3. CASE ~DecidedAt(played, h)
    <3>1. \A g \in D : ~DecidedAt(played, g)
      <4>1. \A g \in D : g < h \/ g = h
        BY <1>1, <2>1, <2>3 DEF StopsAt, Holes
      <4> QED
        BY <1>1, <2>1, <2>3, <4>1 DEF StopsAt
    <3> QED
      BY <1>4, <2>1, <2>3, <3>1 DEF FinishedIffSettled
  <2> QED
    BY <2>2, <2>3
<1> QED
  BY <1>5, <1>6

(***************************************************************************)
(* ComputeMatchProgress is match play: the stored outcome of any card the  *)
(* program can hold is finished exactly when no way of playing the rest    *)
(* changes the winner, and it names that winner.                           *)
(***************************************************************************)
THEOREM EngineSettles == Spec => []FinishedIffSettled
  BY EngineInvariant, SettledCard, PTL

-----------------------------------------------------------------------------
(* The margin, and the holes listed beside it. *)

LEMMA MarginOfCard == ASSUME IInv PROVE MarginIsAScoreline
<1> SUFFICES ASSUME result.finished PROVE MarginIsAScoreline
  BY DEF MarginIsAScoreline
<1> DEFINE played == HolesPlayed(rows)
           D == HolesInPlay(rows)
<1>1. OnTheCard(rows) /\ D \in SUBSET Holes /\ DOMAIN played = D /\ D # {}
  <2>1. D # {}
    BY NothingInPlay DEF IInv, UnplayedResult
  <2> QED
    BY <2>1, CardsOnTheCard, HolesPlayedType DEF IInv
<1> HIDE DEF played, D
<1>2. PICK h \in D :
          /\ StopsAt(played, h)
          /\ DecidedAt(played, h)
          /\ result.lead = Abs(SignedLead(played, h))
          /\ result.holesRemaining = NumHoles - Cardinality(Counted(played, h))
  BY <1>1, WalkStops DEF IInv, played, D
<1> DEFINE X == Counted(played, h)
           Y == X \ {h}
           s == LeadIn(X, played)
           before == LeadIn(Y, played)
           n == Cardinality(X)
<1>3. X \in SUBSET Holes /\ Y \in SUBSET Holes /\ h \in X /\ Decided(Abs(s), n) /\ result.lead = Abs(s)
  <2>1. h \in X
    BY <1>1, <1>2 DEF Counted, Holes
  <2> QED
    BY <1>1, <1>2, <2>1, WalkState
\* The hole that decided it moved the lead by one.
<1>4. /\ s \in Int /\ before \in Int /\ n \in 1..NumHoles /\ Cardinality(Y) = n - 1
      /\ s - before \in {-1, 0, 1} /\ NumHoles \in Nat \ {0}
  <2>1. Y \in SUBSET X /\ X \ Y = {h}
    BY <1>3
  <2>2. Cardinality({h}) = 1
    BY FS_Singleton
  <2> HIDE DEF X, Y
  <2>3. /\ s \in Int /\ before \in Int /\ s = before + LeadIn({h}, played)
        /\ 1 = n - Cardinality(Y) /\ n \in 0..NumHoles /\ Cardinality(Y) \in 0..NumHoles
        /\ LeadIn({h}, played) <= 1 /\ -1 <= LeadIn({h}, played)
    <3>1. X \in SUBSET Holes /\ Y \in SUBSET X
      BY <1>3, <2>1
    <3>2. /\ LeadIn(X, played) \in Int /\ LeadIn(Y, played) \in Int
          /\ LeadIn(X, played) = LeadIn(Y, played) + LeadIn(X \ Y, played)
          /\ Cardinality(X \ Y) = Cardinality(X) - Cardinality(Y)
          /\ Cardinality(X) \in 0..NumHoles /\ Cardinality(Y) \in 0..NumHoles
          /\ LeadIn(X \ Y, played) <= Cardinality(X \ Y)
          /\ -Cardinality(X \ Y) <= LeadIn(X \ Y, played)
      BY <3>1, LeadMoves
    <3> QED
      BY <2>1, <2>2, <3>2
  <2>4. {h} \in SUBSET Holes /\ {} \in SUBSET {h}
    BY <1>3, <2>1
  <2>5. LeadIn({h}, played) \in Int
    BY <2>4, LeadMoves
  <2> HIDE DEF s, before, n
  <2> QED
    BY <2>3, <2>5, MatchPlayAssumption
\* Before it the match was open.
<1>5. Abs(before) <= NumHoles - (n - 1)
  <2>1. CASE Y = {}
    <3>1. \A t : WonIn(Y, played, t) = {}
      BY <2>1 DEF WonIn
    <3>2. before = 0
      BY <3>1, FS_EmptySet DEF LeadIn
    <3> HIDE DEF before, n
    <3> QED
      BY <1>4, <3>2 DEF Abs
  <2>2. CASE Y # {}
    <3> DEFINE m == Max(Y)
    <3>1. m \in Y /\ \A g \in Y : g <= m
      <4>1. Y \in SUBSET (0..NumHoles) /\ NumHoles \in Nat
        BY <1>3, HolesAreFinite DEF Holes
      <4> HIDE DEF Y
      <4> QED
        BY <2>2, <4>1, GreatestExists
    <3> HIDE DEF m
    <3>2. m \in D /\ m < h /\ m \in Nat /\ h \in Nat
      <4>1. D \in SUBSET Nat /\ NumHoles \in Nat
        BY <1>1, HolesAreFinite DEF Holes
      <4>2. m \in D /\ m <= h /\ m # h
        BY <1>1, <3>1 DEF Counted
      <4> QED
        BY <4>1, <4>2
    <3>3. Counted(played, m) = Y
      <4>1. D \in SUBSET Nat
        BY <1>1, HolesAreFinite DEF Holes
      <4>2. \A g \in D : g \in Y <=> g <= h /\ g # h
        BY <1>1 DEF Counted
      <4>3. \A g \in D : g <= m <=> g \in Y
        <5> HIDE DEF Y
        <5> QED
          BY <3>1, <3>2, <4>1, <4>2
      <4>4. Y \in SUBSET D
        BY <1>1 DEF Counted
      <4> HIDE DEF Y
      <4> QED
        BY <1>1, <4>3, <4>4 DEF Counted
    <3>4. ~DecidedAt(played, m)
      BY <1>1, <1>2, <3>2 DEF StopsAt
    <3>5. ~Decided(Abs(before), n - 1)
      BY <1>1, <1>4, <3>2, <3>3, <3>4, WalkState
    <3> HIDE DEF before, n, Y
    <3> QED
      BY <1>4, <3>5 DEF Decided, Abs
  <2> QED
    BY <2>1, <2>2
<1>6. \/ Abs(s) - (NumHoles - n) \in {1, 2}
      \/ Abs(s) = 0 /\ NumHoles - n = 0
  <2> HIDE DEF s, before, n
  <2> QED
    BY <1>3, <1>4, <1>5 DEF Decided, Abs
<1>7. result.lead = Abs(s) /\ result.holesRemaining = NumHoles - n
  BY <1>2, <1>3
<1> QED
  BY <1>6, <1>7 DEF MarginIsAScoreline

LEMMA WinnersOfCard == ASSUME IInv PROVE HoleWinnersAddUp
<1> DEFINE played == HolesPlayed(rows)
           D == HolesInPlay(rows)
           w == HoleWinners(rows)
<1>1. /\ OnTheCard(rows) /\ D \in SUBSET Holes /\ DOMAIN played = D
      /\ DOMAIN w = DOMAIN ComputeMatchProgress(rows)
      /\ \A h \in DOMAIN w : w[h] = played[h]
  BY CardsOnTheCard, HolesPlayedType DEF IInv, HoleWinners, ComputeMatchProgress
<1> HIDE DEF played, D, w
<1>2. /\ HolesWon(w, TeamA) - HolesWon(w, TeamB) = LeadIn(DOMAIN w, w)
      /\ LeadIn(DOMAIN w, w) = LeadIn(DOMAIN w, played)
  <2>1. LeadIn(DOMAIN w, w) = LeadIn(DOMAIN w, played)
    BY <1>1, LeadAgrees
  <2> QED
    BY <2>1 DEF HolesWon, LeadIn, WonIn
<1>3. CASE D = {}
  <2>1. DOMAIN w = {} /\ result = UnplayedResult
    BY <1>1, <1>3, NothingInPlay DEF IInv, D
  <2>2. LeadIn({}, played) = 0
    <3>1. \A t : WonIn({}, played, t) = {}
      BY DEF WonIn
    <3> QED
      BY <3>1, FS_EmptySet DEF LeadIn
  <2> QED
    BY <1>2, <2>1, <2>2, FS_EmptySet, HolesAreFinite
       DEF HoleWinnersAddUp, w, UnplayedResult, Winner, Abs, Leader
<1>4. CASE D # {}
  <2>1. PICK h \in D :
            /\ DOMAIN w = Counted(played, h)
            /\ result.lead = Abs(SignedLead(played, h))
            /\ result.leader = Leader(SignedLead(played, h))
            /\ result.holesRemaining = NumHoles - Cardinality(Counted(played, h))
    BY <1>1, <1>4, WalkStops DEF IInv, played, D
  <2>2. SignedLead(played, h) = LeadIn(DOMAIN w, played) /\ DOMAIN w \in SUBSET Holes
    BY <1>1, <2>1, WalkState
  <2>3. Cardinality(DOMAIN w) = NumHoles - result.holesRemaining
    BY <2>1, <2>2, HolesAreFinite
  <2> QED
    BY <1>2, <2>1, <2>2, <2>3 DEF HoleWinnersAddUp, w, Winner
<1> QED
  BY <1>3, <1>4

(***************************************************************************)
(* A finished match reads as a golf score, for any number of holes: the    *)
(* walk stops at the hole that decided it.                                 *)
(***************************************************************************)
THEOREM MarginsAreScorelines == Spec => []MarginIsAScoreline
  BY EngineInvariant, MarginOfCard, PTL

(***************************************************************************)
(* The hole winners listed beside an outcome add up to it.                 *)
(***************************************************************************)
THEOREM HoleWinnersAgree == Spec => []HoleWinnersAddUp
  BY EngineInvariant, WinnersOfCard, PTL
-----------------------------------------------------------------------------
(* What one submission can do to a card. *)

\* What is known of a card in any state, to be read before and after a step.
CardFacts ==
    /\ IInv
    /\ FinishedIffSettled
    /\ \A c : c \in Completions <=> Completes(HolesPlayed(rows), c)

LEMMA CardInvariant == Spec => []CardFacts
<1>1. IInv => CardFacts
  BY SettledCard, CompletionsAre, CardsOnTheCard DEF CardFacts, IInv
<1> QED
  BY <1>1, EngineInvariant, PTL

\* A submission takes no hole out of play: the row it replaces was for the same
\* ball, so for the same side.
LEMMA SubmitKeepsHoles ==
    ASSUME IInv, NEW b \in Balls, NEW h \in BallHoles[b], NEW n \in 1..MaxStrokes,
           Submit(h, b, n)
    PROVE  HolesInPlay(rows) \in SUBSET HolesInPlay(rows')
<1> DEFINE new == [hole |-> h, ball |-> b, team |-> BallTeam[b], strokes |-> n]
<1>1. rows' = {r \in rows : ~(r.hole = h /\ r.ball = b)} \cup {new}
  BY DEF Submit, Upsert
<1>2. ASSUME NEW r \in rows
      PROVE  \E q \in rows' : q.hole = r.hole /\ q.team = r.team
  <2>1. CASE r.hole = h /\ r.ball = b
    <3>1. r.team = BallTeam[b]
      BY <2>1 DEF IInv, Cards
    <3>2. new \in rows' /\ new.hole = r.hole /\ new.team = r.team
      BY <1>1, <2>1, <3>1
    <3> QED
      BY <3>2
  <2>2. CASE ~(r.hole = h /\ r.ball = b)
    BY <1>1, <2>2
  <2> QED
    BY <2>1, <2>2
<1>3. ASSUME NEW t PROVE HolesScoredBy(rows, t) \in SUBSET HolesScoredBy(rows', t)
  BY <1>2 DEF HolesScoredBy
<1> QED
  BY <1>3 DEF HolesInPlay

LateEntry ==
    /\ result.finished
    /\ rows' # {}
    /\ \A h \in HolesInPlay(rows) : HoleWinner(rows', h) = HoleWinner(rows, h)
    => result'.finished /\ result'.leader = result.leader

\* The ways left of playing the match only become fewer, so its winner stands.
LEMMA LateEntryStep == ASSUME CardFacts, CardFacts', [Next]_vars PROVE LateEntry
<1> SUFFICES ASSUME result.finished, rows' # {},
                    \A h \in HolesInPlay(rows) : HoleWinner(rows', h) = HoleWinner(rows, h)
             PROVE  result'.finished /\ result'.leader = result.leader
  BY DEF LateEntry
<1>1. CASE UNCHANGED vars
  BY <1>1 DEF vars
<1>2. ASSUME NEW b \in Balls, NEW h \in BallHoles[b], NEW n \in 1..MaxStrokes, Submit(h, b, n)
      PROVE  result'.finished /\ result'.leader = result.leader
  <2>1. HolesInPlay(rows) \in SUBSET HolesInPlay(rows')
    BY <1>2, SubmitKeepsHoles DEF CardFacts
  <2>2. \A c : Completes(HolesPlayed(rows'), c) => Completes(HolesPlayed(rows), c)
    BY <2>1 DEF Completes, HolesPlayed
  <2>3. Completions' \in SUBSET Completions
    BY <2>2 DEF CardFacts
  <2> DEFINE before == {Winner(c) : c \in Completions}
             after == {Winner(c) : c \in Completions'}
  <2>4. before = {result.leader}
    BY DEF CardFacts, FinishedIffSettled
  <2>5. after \in SUBSET before
    BY <2>3
  <2>6. IF result'.finished THEN after = {result'.leader} ELSE Cardinality(after) > 1
    BY DEF CardFacts, FinishedIffSettled, Winner, HolesWon
  <2> HIDE DEF before, after
  <2>7. Cardinality(after) \in {0, 1}
    <3>1. IsFiniteSet(before) /\ Cardinality(before) = 1
      BY <2>4, FS_Singleton
    <3>2. Cardinality(after) \in Nat /\ Cardinality(after) <= 1
      BY <2>5, <3>1, FS_Subset, FS_CardinalityType
    <3> QED
      BY <3>2
  <2>8. result'.finished /\ after = {result'.leader}
    BY <2>6, <2>7
  <2> QED
    BY <2>4, <2>5, <2>8
<1> QED
  BY <1>1, <1>2 DEF Next, ResetMatch

(***************************************************************************)
(* The entry a finished match still takes cannot change who won it, for    *)
(* any number of holes and balls.                                          *)
(***************************************************************************)
THEOREM LateEntriesKeepTheWinner == Spec => LateEntryKeepsWinner
<1>1. CardFacts /\ CardFacts' /\ [Next]_vars => [LateEntry]_vars
  BY LateEntryStep
<1>2. Spec => [][LateEntry]_vars
  BY <1>1, CardInvariant, PTL DEF Spec
<1> QED
  BY <1>2 DEF LateEntryKeepsWinner, LateEntry

\* A ball's first score on a hole leaves the other side's strokes alone and can
\* only lower its own side's.
LEMMA PartnerScores ==
    ASSUME NEW card, NEW r, card \cup {r} \in SUBSET Cards, r.hole \in HolesInPlay(card),
           NEW t \in Teams
    PROVE  /\ TeamStrokes(card, t, r.hole) \in Nat
           /\ TeamStrokes(card \cup {r}, t, r.hole) \in Nat
           /\ TeamStrokes(card \cup {r}, t, r.hole) <= TeamStrokes(card, t, r.hole)
           /\ t # r.team =>
                 TeamStrokes(card \cup {r}, t, r.hole) = TeamStrokes(card, t, r.hole)
<1> DEFINE h == r.hole
           S == {q.strokes : q \in {x \in card : x.team = t /\ x.hole = h}}
           T == {q.strokes : q \in {x \in card \cup {r} : x.team = t /\ x.hole = h}}
<1>1. S \in SUBSET Nat /\ T \in SUBSET Nat /\ S \in SUBSET T /\ (t # r.team => T = S)
  BY DEF Cards
<1>2. S # {}
  <2>1. h \in HolesScoredBy(card, t)
    BY DEF HolesInPlay, Teams
  <2>2. PICK q \in card : q.team = t /\ q.hole = h
    BY <2>1 DEF HolesScoredBy
  <2> QED
    BY <2>2
<1>3. TeamStrokes(card, t, h) = Min(S) /\ TeamStrokes(card \cup {r}, t, h) = Min(T)
  BY DEF TeamStrokes
<1> HIDE DEF S, T
<1>4. Min(S) \in S /\ Min(T) \in T /\ \A x \in T : Min(T) <= x
  BY <1>1, <1>2, LeastExists
<1> QED
  BY <1>1, <1>3, <1>4

PartnerHelps ==
    \A r \in rows' \ rows :
      LET h == r.hole
      IN  h \in HolesInPlay(rows) /\ ~HasBall(rows, h, r.ball) =>
            /\ HoleWinner(rows, h) = r.team => HoleWinner(rows', h) = r.team
            /\ HoleWinner(rows', h) \in {r.team, NoTeam, HoleWinner(rows, h)}

LEMMA PartnerStep == ASSUME IInv, IInv', [Next]_vars PROVE PartnerHelps
<1> SUFFICES ASSUME NEW r \in rows' \ rows, r.hole \in HolesInPlay(rows),
                    ~HasBall(rows, r.hole, r.ball)
             PROVE  /\ HoleWinner(rows, r.hole) = r.team => HoleWinner(rows', r.hole) = r.team
                    /\ HoleWinner(rows', r.hole) \in {r.team, NoTeam, HoleWinner(rows, r.hole)}
  BY DEF PartnerHelps
<1>1. rows' = rows \cup {r}
  <2>1. PICK b \in Balls : \E h \in BallHoles[b], n \in 1..MaxStrokes : Submit(h, b, n)
    BY DEF Next, ResetMatch, vars
  <2>2. PICK h \in BallHoles[b], n \in 1..MaxStrokes : Submit(h, b, n)
    BY <2>1
  <2>3. r = [hole |-> h, ball |-> b, team |-> BallTeam[b], strokes |-> n]
    BY <2>2 DEF Submit, Upsert
  <2>4. {q \in rows : ~(q.hole = h /\ q.ball = b)} = rows
    BY <2>3 DEF HasBall
  <2> QED
    BY <2>2, <2>3, <2>4 DEF Submit, Upsert
<1>2. rows \cup {r} \in SUBSET Cards /\ r.team \in Teams
  BY <1>1 DEF IInv, Cards
<1> DEFINE a == TeamStrokes(rows, TeamA, r.hole)
           b == TeamStrokes(rows, TeamB, r.hole)
           a1 == TeamStrokes(rows', TeamA, r.hole)
           b1 == TeamStrokes(rows', TeamB, r.hole)
<1>3. /\ a \in Nat /\ a1 \in Nat /\ a1 <= a /\ (TeamA # r.team => a1 = a)
      /\ b \in Nat /\ b1 \in Nat /\ b1 <= b /\ (TeamB # r.team => b1 = b)
  BY <1>1, <1>2, PartnerScores DEF Teams
<1>4. /\ HoleWinner(rows, r.hole) = CASE a < b -> TeamA [] b < a -> TeamB [] OTHER -> NoTeam
      /\ HoleWinner(rows', r.hole) = CASE a1 < b1 -> TeamA [] b1 < a1 -> TeamB [] OTHER -> NoTeam
  BY DEF HoleWinner
<1> HIDE DEF a, b, a1, b1
<1> QED
  BY <1>2, <1>3, <1>4, MatchPlayAssumption DEF Teams

(***************************************************************************)
(* Best ball: a partner's first score on a hole never costs the side the   *)
(* hole, or a half of it, on any card.                                     *)
(***************************************************************************)
THEOREM PartnersOnlyHelp == Spec => PartnerCanOnlyHelp
<1>1. IInv /\ IInv' /\ [Next]_vars => [PartnerHelps]_vars
  BY PartnerStep
<1>2. Spec => [][PartnerHelps]_vars
  BY <1>1, EngineInvariant, PTL DEF Spec
<1> QED
  BY <1>2 DEF PartnerCanOnlyHelp, PartnerHelps
=============================================================================
