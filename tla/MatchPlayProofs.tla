--------------------------- MODULE MatchPlayProofs ---------------------------
(***************************************************************************)
(* Lemmas about the match-play engine, for any number of holes.            *)
(***************************************************************************)
EXTENDS MatchPlay, FiniteSetTheorems, TLAPS

\* A nonempty set of naturals with an upper bound has a greatest element, so
\* the last hole of a progression exists.
LEMMA GreatestExists ==
    ASSUME NEW n \in Nat, NEW S \in SUBSET (0..n), S # {}
    PROVE  Max(S) \in S /\ \A x \in S : x <= Max(S)
<1> DEFINE T == {n - x : x \in S}
<1> DEFINE Less == OpToRel(<, Nat)
<1>1. \A x \in S : n - x \in Nat /\ x \in Int
  BY SMT
<1>2. T \subseteq Nat /\ T # {}
  BY <1>1
<1>3. Less = {ss \in Nat \X Nat : ss[1] < ss[2]}
  BY DEF OpToRel
<1>4. IsWellFoundedOn(Less, Nat)
  BY NatLessThanWellFounded
<1> HIDE DEF Less, T
<1>5. PICK t \in T : \A u \in T : <<u, t>> \notin Less
  BY <1>2, <1>4, WFMin
<1>6. PICK x \in S : t = n - x
  BY DEF T
<1>7. \A y \in S : y <= x
  <2> SUFFICES ASSUME NEW y \in S, y > x PROVE FALSE
    BY <1>1
  <2>1. n - y \in T
    BY DEF T
  <2>2. <<n - y, t>> \in Less
    BY <1>1, <1>3, <1>6
  <2> QED
    BY <2>1, <2>2, <1>5
<1> QED
  BY <1>1, <1>7 DEF Max
LEMMA HolesAreFinite ==
    /\ NumHoles \in Nat
    /\ IsFiniteSet(Holes) /\ Cardinality(Holes) = NumHoles
    /\ \A S \in SUBSET Holes : IsFiniteSet(S) /\ Cardinality(S) \in 0..NumHoles
<1>1. NumHoles \in Nat
  BY MatchPlayAssumption
<1>2. IsFiniteSet(Holes) /\ Cardinality(Holes) = NumHoles
  BY <1>1, FS_Interval DEF Holes
<1>3. ASSUME NEW S \in SUBSET Holes
      PROVE  IsFiniteSet(S) /\ Cardinality(S) \in 0..NumHoles
  <2>1. IsFiniteSet(S) /\ Cardinality(S) <= NumHoles
    BY <1>2, FS_Subset
  <2> QED
    BY <1>1, <2>1, FS_CardinalityType
<1> QED
  BY <1>1, <1>2, <1>3

LEMMA LeadBounds ==
    ASSUME NEW D \in SUBSET Holes, NEW played \in [D -> Teams \cup {NoTeam}],
           NEW h \in Holes
    PROVE  /\ SignedLead(played, h) \in Int
           /\ Abs(SignedLead(played, h)) \in 0..NumHoles
           /\ Cardinality(Counted(played, h)) \in 0..NumHoles
<1> DEFINE won(t) == {g \in Counted(played, h) : played[g] = t}
<1>1. Counted(played, h) \in SUBSET Holes
  BY DEF Counted
<1>2. won(TeamA) \in SUBSET Holes /\ won(TeamB) \in SUBSET Holes
  BY <1>1
<1>3. /\ Cardinality(won(TeamA)) \in 0..NumHoles
      /\ Cardinality(won(TeamB)) \in 0..NumHoles
      /\ Cardinality(Counted(played, h)) \in 0..NumHoles
      /\ NumHoles \in Nat
  BY <1>1, <1>2, HolesAreFinite
<1>4. SignedLead(played, h) = Cardinality(won(TeamA)) - Cardinality(won(TeamB))
  BY DEF SignedLead
<1> HIDE DEF won
<1> QED
  BY <1>3, <1>4 DEF Abs

\* Rows on the match's holes.
OnTheCard(rows) == \A r \in rows : r.hole \in Holes

LEMMA HolesPlayedType ==
    ASSUME NEW rows, OnTheCard(rows)
    PROVE  /\ HolesInPlay(rows) \in SUBSET Holes
           /\ HolesPlayed(rows) \in [HolesInPlay(rows) -> Teams \cup {NoTeam}]
<1>1. HolesInPlay(rows) \in SUBSET Holes
  BY DEF OnTheCard, HolesInPlay, HolesScoredBy
<1>2. \A h : HoleWinner(rows, h) \in Teams \cup {NoTeam}
  BY DEF HoleWinner, Teams
<1> QED
  BY <1>1, <1>2 DEF HolesPlayed

\* Every entry of a progression is well formed.
LEMMA ProgressType ==
    ASSUME NEW rows, OnTheCard(rows)
    PROVE  LET progress == ComputeMatchProgress(rows)
           IN  /\ DOMAIN progress \in SUBSET Holes
               /\ \A h \in DOMAIN progress :
                    /\ progress[h].leader \in Teams \cup {NoTeam}
                    /\ progress[h].lead \in 0..NumHoles
                    /\ progress[h].holesRemaining \in 0..NumHoles
                    /\ progress[h].decided \in BOOLEAN
<1> DEFINE played == HolesPlayed(rows)
           progress == ComputeMatchProgress(rows)
<1>1. /\ DOMAIN played \in SUBSET Holes
      /\ played \in [DOMAIN played -> Teams \cup {NoTeam}]
  BY HolesPlayedType
<1>2. DOMAIN progress \in SUBSET DOMAIN played
  BY DEF ComputeMatchProgress
<1>3. ASSUME NEW h \in DOMAIN progress
      PROVE  /\ progress[h].leader \in Teams \cup {NoTeam}
             /\ progress[h].lead \in 0..NumHoles
             /\ progress[h].holesRemaining \in 0..NumHoles
             /\ progress[h].decided \in BOOLEAN
  <2>1. /\ progress[h].leader = Leader(SignedLead(played, h))
        /\ progress[h].lead = Abs(SignedLead(played, h))
        /\ progress[h].holesRemaining = NumHoles - Cardinality(Counted(played, h))
        /\ progress[h].decided = DecidedAt(played, h)
    BY DEF ComputeMatchProgress
  <2>2. h \in Holes
    BY <1>1, <1>2
  <2> HIDE DEF played, progress
  <2>3. /\ progress[h].lead \in 0..NumHoles
        /\ progress[h].holesRemaining \in 0..NumHoles
    BY <1>1, <2>1, <2>2, LeadBounds, HolesAreFinite
  <2>4. progress[h].leader \in Teams \cup {NoTeam}
    BY <2>1 DEF Leader, Teams
  <2>5. progress[h].decided \in BOOLEAN
    BY <2>1 DEF DecidedAt, Decided
  <2> QED
    BY <2>3, <2>4, <2>5
<1> QED
  BY <1>1, <1>2, <1>3

\* The outcome of any rows on the card is a well-formed result.
LEMMA StoredResultType ==
    ASSUME NEW rows, OnTheCard(rows)
    PROVE  ComputeStoredResult(rows) \in Results
<1> DEFINE progress == ComputeMatchProgress(rows)
<1>1. CASE DOMAIN progress = {}
  <2>1. ComputeStoredResult(rows) = UnplayedResult
    BY <1>1 DEF ComputeStoredResult
  <2> QED
    BY <2>1, HolesAreFinite DEF UnplayedResult, Results
<1>2. CASE DOMAIN progress # {}
  <2> DEFINE last == progress[Max(DOMAIN progress)]
  <2>1. ComputeStoredResult(rows) =
            [finished |-> last.decided, leader |-> last.leader,
             lead |-> last.lead, holesRemaining |-> last.holesRemaining]
    BY <1>2 DEF ComputeStoredResult
  <2>2. DOMAIN progress \in SUBSET (0..NumHoles) /\ NumHoles \in Nat
    BY ProgressType, HolesAreFinite DEF Holes
  <2>3. Max(DOMAIN progress) \in DOMAIN progress
    BY <1>2, <2>2, GreatestExists
  <2> QED
    BY <2>1, <2>3, ProgressType DEF Results
<1> QED
  BY <1>1, <1>2

-----------------------------------------------------------------------------
(* The walk: how the lead moves from hole to hole, and where it stops. *)

\* A nonempty set of naturals has a least element.
LEMMA LeastExists ==
    ASSUME NEW S \in SUBSET Nat, S # {}
    PROVE  Min(S) \in S /\ \A x \in S : Min(S) <= x
<1> DEFINE Less == OpToRel(<, Nat)
<1>1. Less = {ss \in Nat \X Nat : ss[1] < ss[2]}
  BY DEF OpToRel
<1>2. IsWellFoundedOn(Less, Nat)
  BY NatLessThanWellFounded
<1> HIDE DEF Less
<1>3. PICK x \in S : \A y \in S : <<y, x>> \notin Less
  BY <1>2, WFMin
<1>4. \A y \in S : x <= y
  <2> SUFFICES ASSUME NEW y \in S, y < x PROVE FALSE
    OBVIOUS
  <2>1. <<y, x>> \in Less
    BY <1>1
  <2> QED
    BY <2>1, <1>3
<1> QED
  BY <1>3, <1>4 DEF Min

\* The holes of some set that a side has won, and its lead over them.
WonIn(S, c, t) == {g \in S : c[g] = t}
LeadIn(S, c) == Cardinality(WonIn(S, c, TeamA)) - Cardinality(WonIn(S, c, TeamB))

\* A hole moves the lead by one at most, whoever wins it.
LEMMA LeadMoves ==
    ASSUME NEW S \in SUBSET Holes, NEW X \in SUBSET S, NEW c
    PROVE  /\ LeadIn(S, c) \in Int /\ LeadIn(X, c) \in Int
           /\ LeadIn(S, c) = LeadIn(X, c) + LeadIn(S \ X, c)
           /\ Cardinality(S \ X) = Cardinality(S) - Cardinality(X)
           /\ Cardinality(S \ X) \in Nat /\ Cardinality(S) \in 0..NumHoles
           /\ Cardinality(X) \in 0..NumHoles
           /\ LeadIn(S \ X, c) <= Cardinality(S \ X)
           /\ -Cardinality(S \ X) <= LeadIn(S \ X, c)
<1>1. /\ S \in SUBSET Holes /\ X \in SUBSET Holes /\ S \ X \in SUBSET Holes
      /\ IsFiniteSet(S) /\ IsFiniteSet(X) /\ IsFiniteSet(S \ X)
      /\ Cardinality(S) \in 0..NumHoles /\ Cardinality(X) \in 0..NumHoles
      /\ Cardinality(S \ X) \in 0..NumHoles /\ NumHoles \in Nat
  BY HolesAreFinite
<1>2. Cardinality(S \ X) = Cardinality(S) - Cardinality(X)
  <2>1. S \cap X = X
    OBVIOUS
  <2> QED
    BY <1>1, <2>1, FS_Difference
<1>3. ASSUME NEW t
      PROVE  /\ Cardinality(WonIn(S, c, t)) =
                   Cardinality(WonIn(X, c, t)) + Cardinality(WonIn(S \ X, c, t))
             /\ Cardinality(WonIn(X, c, t)) \in Nat
             /\ Cardinality(WonIn(S \ X, c, t)) \in Nat
             /\ Cardinality(WonIn(S \ X, c, t)) <= Cardinality(S \ X)
  <2>1. /\ WonIn(S, c, t) = WonIn(X, c, t) \cup WonIn(S \ X, c, t)
        /\ WonIn(X, c, t) \cap WonIn(S \ X, c, t) = {}
        /\ WonIn(X, c, t) \in SUBSET Holes /\ WonIn(S \ X, c, t) \in SUBSET (S \ X)
        /\ WonIn(S \ X, c, t) \in SUBSET Holes
    BY <1>1 DEF WonIn
  <2>2. /\ IsFiniteSet(WonIn(X, c, t)) /\ Cardinality(WonIn(X, c, t)) \in Nat
        /\ IsFiniteSet(WonIn(S \ X, c, t)) /\ Cardinality(WonIn(S \ X, c, t)) \in Nat
    BY <2>1, HolesAreFinite
  <2>3. Cardinality(WonIn(S, c, t)) =
            Cardinality(WonIn(X, c, t)) + Cardinality(WonIn(S \ X, c, t)) - Cardinality({})
    BY <2>1, <2>2, FS_Union
  <2>4. Cardinality(WonIn(S \ X, c, t)) <= Cardinality(S \ X)
    BY <1>1, <2>1, FS_Subset
  <2> QED
    BY <2>2, <2>3, <2>4, FS_EmptySet
<1> DEFINE a(T) == Cardinality(WonIn(T, c, TeamA))
           b(T) == Cardinality(WonIn(T, c, TeamB))
<1>4. /\ a(S) = a(X) + a(S \ X) /\ a(X) \in Nat /\ a(S \ X) \in Nat
      /\ a(S \ X) <= Cardinality(S \ X)
  BY <1>3
<1>5. /\ b(S) = b(X) + b(S \ X) /\ b(X) \in Nat /\ b(S \ X) \in Nat
      /\ b(S \ X) <= Cardinality(S \ X)
  BY <1>3
<1>6. /\ LeadIn(S, c) = a(S) - b(S) /\ LeadIn(X, c) = a(X) - b(X)
      /\ LeadIn(S \ X, c) = a(S \ X) - b(S \ X)
  BY DEF LeadIn
<1> HIDE DEF a, b
<1> QED
  BY <1>1, <1>2, <1>4, <1>5, <1>6

\* What the running state of the walk is made of.
LEMMA WalkState ==
    ASSUME NEW D \in SUBSET Holes, NEW played, DOMAIN played = D, NEW h \in D
    PROVE  /\ Counted(played, h) \in SUBSET D
           /\ SignedLead(played, h) = LeadIn(Counted(played, h), played)
           /\ DecidedAt(played, h) <=>
                 Decided(Abs(LeadIn(Counted(played, h), played)), Cardinality(Counted(played, h)))
  BY DEF Counted, SignedLead, LeadIn, WonIn, DecidedAt

(***************************************************************************)
(* storedResultFrom reads the state at the hole where the walk stops: the  *)
(* first to decide the match, or the last in play.                         *)
(***************************************************************************)
StopsAt(played, h) ==
    /\ h \in DOMAIN played
    /\ \A g \in DOMAIN played : g < h => ~DecidedAt(played, g)
    /\ DecidedAt(played, h) \/ \A g \in DOMAIN played : g <= h

LEMMA WalkStops ==
    ASSUME NEW rows, OnTheCard(rows), HolesInPlay(rows) # {}
    PROVE  LET played == HolesPlayed(rows)
           IN  \E h \in HolesInPlay(rows) :
                 /\ StopsAt(played, h)
                 /\ DOMAIN ComputeMatchProgress(rows) = Counted(played, h)
                 /\ ComputeStoredResult(rows) =
                      [finished |-> DecidedAt(played, h),
                       leader |-> Leader(SignedLead(played, h)),
                       lead |-> Abs(SignedLead(played, h)),
                       holesRemaining |-> NumHoles - Cardinality(Counted(played, h))]
<1> DEFINE played == HolesPlayed(rows)
           D == HolesInPlay(rows)
           progress == ComputeMatchProgress(rows)
           shown == DOMAIN progress
           h == Max(shown)
<1>1. D \in SUBSET Holes /\ DOMAIN played = D /\ D \in SUBSET (0..NumHoles) /\ NumHoles \in Nat
  BY HolesPlayedType, HolesAreFinite DEF Holes, HolesPlayed
<1>2. shown = {k \in D : \A g \in D : g < k => ~DecidedAt(played, g)}
  BY <1>1 DEF ComputeMatchProgress
<1>3. shown # {}
  <2>1. Min(D) \in D /\ \A g \in D : Min(D) <= g
    BY <1>1, LeastExists
  <2>2. Min(D) \in shown
    BY <1>1, <1>2, <2>1
  <2> QED
    BY <2>2
<1>4. h \in shown /\ \A g \in shown : g <= h
  <2>1. shown \in SUBSET (0..NumHoles)
    BY <1>1, <1>2
  <2> HIDE DEF shown
  <2> QED
    BY <1>1, <1>3, <2>1, GreatestExists
<1> HIDE DEF shown, h
<1>5. shown = Counted(played, h)
  BY <1>1, <1>2, <1>4 DEF Counted
<1>6. DecidedAt(played, h) \/ \A g \in D : g <= h
  <2> SUFFICES ASSUME ~DecidedAt(played, h), NEW g0 \in D, g0 > h PROVE FALSE
    BY <1>1, <1>2, <1>4
  <2> DEFINE Above == {g \in D : g > h}
  <2>1. Min(Above) \in Above /\ \A g \in Above : Min(Above) <= g
    BY <1>1, LeastExists
  <2> HIDE DEF Above
  <2>2. Min(Above) \in D /\ Min(Above) > h
    BY <2>1 DEF Above
  <2>3. ASSUME NEW g \in D, g < Min(Above) PROVE g <= h
    <3>1. h \in Nat /\ g \in Nat /\ Min(Above) \in Nat
      BY <1>1, <1>2, <1>4, <2>2
    <3>2. g > h => g \in Above
      BY DEF Above
    <3> QED
      BY <2>1, <2>3, <3>1, <3>2
  <2>4. \A g \in D : g < Min(Above) => ~DecidedAt(played, g)
    BY <1>1, <1>2, <1>4, <2>3
  <2>5. Min(Above) \in shown
    BY <1>2, <2>2, <2>4
  <2> QED
    BY <1>1, <1>2, <1>4, <2>2, <2>5
<1>7. StopsAt(played, h)
  BY <1>1, <1>2, <1>4, <1>6 DEF StopsAt
<1>8. ComputeStoredResult(rows) =
          [finished |-> DecidedAt(played, h), leader |-> Leader(SignedLead(played, h)),
           lead |-> Abs(SignedLead(played, h)),
           holesRemaining |-> NumHoles - Cardinality(Counted(played, h))]
  <2>1. ComputeStoredResult(rows) =
            [finished |-> progress[h].decided, leader |-> progress[h].leader,
             lead |-> progress[h].lead, holesRemaining |-> progress[h].holesRemaining]
    BY <1>3 DEF ComputeStoredResult, shown, h
  <2>2. h \in DOMAIN progress
    BY <1>4 DEF shown
  <2>3. /\ progress[h].decided = DecidedAt(played, h)
        /\ progress[h].leader = Leader(SignedLead(played, h))
        /\ progress[h].lead = Abs(SignedLead(played, h))
        /\ progress[h].holesRemaining = NumHoles - Cardinality(Counted(played, h))
    BY <2>2 DEF ComputeMatchProgress
  <2> QED
    BY <2>1, <2>3
<1> QED
  BY <1>2, <1>4, <1>5, <1>7, <1>8 DEF shown

LEMMA NothingInPlay ==
    ASSUME NEW rows, HolesInPlay(rows) = {}
    PROVE  DOMAIN ComputeMatchProgress(rows) = {} /\ ComputeStoredResult(rows) = UnplayedResult
<1>1. DOMAIN ComputeMatchProgress(rows) = {}
  BY DEF ComputeMatchProgress, HolesPlayed
<1> QED
  BY <1>1 DEF ComputeStoredResult
=============================================================================
