-------------------------- MODULE GameRoundsProofs ---------------------------
(***************************************************************************)
(* What the operators of GameRounds do to a game, for any players, rounds  *)
(* and scores: the totals stay the sums of the guesses, and closing a      *)
(* round opens the next one or ends the game.                              *)
(*                                                                         *)
(* Totals are folds over sets, so the first half is about those sums: a    *)
(* sum is defined for every finite set, does not depend on the order in    *)
(* which its summands are taken, and changes by what one summand changes.  *)
(* Induction is by the least counterexample (WFMin).                       *)
(***************************************************************************)
EXTENDS GameRounds, FiniteSetTheorems, NaturalsInduction, TLAPS

(* Every nonempty set of natural numbers has a least element.               *)
LEMMA LeastNumber ==
    ASSUME NEW T \in SUBSET Nat, T # {}
    PROVE  \E n \in T : \A m \in T : n <= m
<1>1. PICK n \in T : \A m \in T : ~(<<m, n>> \in OpToRel(<, Nat))
  BY NatLessThanWellFounded, WFMin
<1>2. \A m \in T : ~(m < n)
  BY <1>1 DEF OpToRel
<1>. QED  BY <1>2

(* The greater and the lesser of two numbers.                               *)
LEMMA GreaterOfTwo ==
    ASSUME NEW m \in Int, NEW n \in Int PROVE Max({m, n}) = IF m >= n THEN m ELSE n
<1>1. PICK k \in {m, n} : \A o \in {m, n} : k >= o
  <2>1. m >= n \/ n >= m
    OBVIOUS
  <2>2. m >= m /\ n >= n
    OBVIOUS
  <2>. QED  BY <2>1, <2>2
<1>2. PICK j : j = Max({m, n})
  OBVIOUS
<1>3. j \in {m, n} /\ \A o \in {m, n} : j >= o
  BY <1>1, <1>2 DEF Max
<1>4. j >= m /\ j >= n
  BY <1>3
<1>. QED  BY <1>2, <1>3, <1>4

LEMMA LesserOfTwo ==
    ASSUME NEW m \in Int, NEW n \in Int PROVE Min({m, n}) = IF m <= n THEN m ELSE n
<1>1. PICK k \in {m, n} : \A o \in {m, n} : k <= o
  <2>1. m <= n \/ n <= m
    OBVIOUS
  <2>2. m <= m /\ n <= n
    OBVIOUS
  <2>. QED  BY <2>1, <2>2
<1>2. PICK j : j = Min({m, n})
  OBVIOUS
<1>3. j \in {m, n} /\ \A o \in {m, n} : j <= o
  BY <1>1, <1>2 DEF Min
<1>4. j <= m /\ j <= n
  BY <1>3
<1>. QED  BY <1>2, <1>3, <1>4

(* A set that has 0 and the successors of its members has all numbers.      *)
LEMMA NumbersInductively ==
    ASSUME NEW T, 0 \in T, \A n \in Nat : n \in T => n + 1 \in T
    PROVE  Nat \subseteq T
<1>. SUFFICES ASSUME Nat \ T # {} PROVE FALSE
  OBVIOUS
<1>1. PICK n \in Nat \ T : \A m \in Nat \ T : n <= m
  BY LeastNumber
<1>. QED  BY <1>1, n - 1 \in Nat \/ n = 0

(* What follows for a set from the sets with one element less holds for all *)
(* subsets of a finite set.                                                 *)
LEMMA SetsInductively ==
    ASSUME NEW S, IsFiniteSet(S), NEW T,
           \A U \in SUBSET S : (\A x \in U : U \ {x} \in T) => U \in T
    PROVE  SUBSET S \subseteq T
<1>. DEFINE N == {n \in Nat : \A U \in SUBSET S : Cardinality(U) = n => U \in T}
<1>1. \A U \in SUBSET S : IsFiniteSet(U) /\ Cardinality(U) \in Nat
  BY FS_Subset, FS_CardinalityType
<1>2. 0 \in N
  <2>. SUFFICES ASSUME NEW U \in SUBSET S, Cardinality(U) = 0 PROVE U \in T
    OBVIOUS
  <2>1. U = {}
    BY <1>1, FS_EmptySet
  <2>. QED  BY <2>1
<1>3. ASSUME NEW n \in Nat, n \in N PROVE n + 1 \in N
  <2>. SUFFICES ASSUME NEW U \in SUBSET S, Cardinality(U) = n + 1, NEW x \in U PROVE U \ {x} \in T
    OBVIOUS
  <2>1. Cardinality(U \ {x}) = n
    BY <1>1, FS_RemoveElement
  <2>. QED  BY <1>3, <2>1
<1>4. Nat \subseteq N
  <2>. HIDE DEF N
  <2>. QED  BY <1>2, <1>3, NumbersInductively
<1>. QED  BY <1>1, <1>4

-----------------------------------------------------------------------------
Pick(s) == CHOOSE x \in s : TRUE

(* g sums f over every subset of S, taking the elements as they are chosen. *)
Unfolds(f, S, g) == g = [s \in SUBSET S |-> IF s = {} THEN 0 ELSE f[Pick(s)] + g[s \ {Pick(s)}]]

(* The fold of the library is such a g, if there is one.                    *)
LEMMA SumIsUnfolded ==
    ASSUME NEW f, NEW S
    PROVE  SumFunctionOnSet(f, S) = (CHOOSE g : Unfolds(f, S, g))[S]
BY DEF SumFunctionOnSet, FoldFunctionOnSet, MapThenFoldSet, Unfolds, Pick

(* The same for the subsets of at most n elements.                          *)
Upto(S, n) == {s \in SUBSET S : Cardinality(s) <= n}

UnfoldsUpto(f, S, n, g) ==
    g = [s \in Upto(S, n) |-> IF s = {} THEN 0 ELSE f[Pick(s)] + g[s \ {Pick(s)}]]

(* There is one: it is built from the small subsets up.                     *)
LEMMA UnfoldingExists ==
    ASSUME NEW f, NEW S, IsFiniteSet(S)
    PROVE  \E g : Unfolds(f, S, g)
<1>. DEFINE N == {n \in Nat : \E g : UnfoldsUpto(f, S, n, g)}
<1>1. \A s \in SUBSET S : IsFiniteSet(s) /\ Cardinality(s) \in Nat
  BY FS_Subset, FS_CardinalityType
<1>2. 0 \in N
  <2>1. Upto(S, 0) = {{}}
    <3>1. \A s \in SUBSET S : Cardinality(s) <= 0 <=> s = {}
      BY <1>1, FS_EmptySet
    <3>. QED  BY <3>1 DEF Upto
  <2>2. UnfoldsUpto(f, S, 0, [s \in {{}} |-> 0])
    BY <2>1 DEF UnfoldsUpto
  <2>. QED  BY <2>2
<1>3. ASSUME NEW n \in Nat, n \in N PROVE n + 1 \in N
  <2>1. PICK g : UnfoldsUpto(f, S, n, g)
    BY <1>3
  <2>. DEFINE h == [s \in Upto(S, n + 1) |-> IF s = {} THEN 0 ELSE f[Pick(s)] + g[s \ {Pick(s)}]]
  <2>2. \A s \in Upto(S, n) : h[s] = g[s]
    <3>1. Upto(S, n) \subseteq Upto(S, n + 1)
      BY <1>1 DEF Upto
    <3>. QED  BY <2>1, <3>1 DEF UnfoldsUpto
  <2>3. ASSUME NEW s \in Upto(S, n + 1), s # {} PROVE s \ {Pick(s)} \in Upto(S, n)
    <3>1. Pick(s) \in s
      BY <2>3 DEF Pick
    <3>2. Cardinality(s \ {Pick(s)}) = Cardinality(s) - 1
      BY <1>1, <3>1, FS_RemoveElement DEF Upto
    <3>. QED  BY <1>1, <3>2 DEF Upto
  <2>4. \A s \in Upto(S, n + 1) : s # {} => h[s \ {Pick(s)}] = g[s \ {Pick(s)}]
    BY <2>2, <2>3
  <2>5. UnfoldsUpto(f, S, n + 1, h)
    BY <2>4 DEF UnfoldsUpto
  <2>. HIDE DEF h
  <2>. QED  BY <2>5
<1>4. Nat \subseteq N
  <2>. HIDE DEF N
  <2>. QED  BY <1>2, <1>3, NumbersInductively
<1>5. Upto(S, Cardinality(S)) = SUBSET S
  <2>1. \A s \in SUBSET S : Cardinality(s) <= Cardinality(S)
    BY FS_Subset
  <2>. QED  BY <2>1 DEF Upto
<1>6. PICK g : UnfoldsUpto(f, S, Cardinality(S), g)
  BY <1>1, <1>4
<1>. QED  BY <1>5, <1>6 DEF UnfoldsUpto, Unfolds

(* A sum over a set does not depend on the set it is part of.               *)
LEMMA UnfoldingUnique ==
    ASSUME NEW f, NEW S, IsFiniteSet(S), NEW U \in SUBSET S,
           NEW g, Unfolds(f, S, g), NEW h, Unfolds(f, U, h)
    PROVE  h[U] = g[U]
<1>. DEFINE T == {s \in SUBSET U : h[s] = g[s]}
<1>1. \A s \in SUBSET U : g[s] = IF s = {} THEN 0 ELSE f[Pick(s)] + g[s \ {Pick(s)}]
  BY DEF Unfolds
<1>2. \A s \in SUBSET U : h[s] = IF s = {} THEN 0 ELSE f[Pick(s)] + h[s \ {Pick(s)}]
  BY DEF Unfolds
<1>3. ASSUME NEW s \in SUBSET U, \A x \in s : s \ {x} \in T PROVE s \in T
  <2>1. s # {} => Pick(s) \in s
    BY DEF Pick
  <2>. QED  BY <1>1, <1>2, <1>3, <2>1
<1>4. U \in T
  <2>1. IsFiniteSet(U)
    BY FS_Subset
  <2>. HIDE DEF T
  <2>. QED  BY <1>3, <2>1, SetsInductively
<1>. QED  BY <1>4

(* The sum satisfies the equation it is defined by.                         *)
LEMMA SumUnfolds ==
    ASSUME NEW f, NEW S, IsFiniteSet(S)
    PROVE  SumFunctionOnSet(f, S) = IF S = {} THEN 0
                                    ELSE f[Pick(S)] + SumFunctionOnSet(f, S \ {Pick(S)})
<1>. DEFINE g == CHOOSE q : Unfolds(f, S, q)
            R == S \ {Pick(S)}
            h == CHOOSE q : Unfolds(f, R, q)
<1>1. Unfolds(f, S, g)
  BY UnfoldingExists
<1>2. IsFiniteSet(R) /\ R \in SUBSET S
  BY FS_Subset
<1>3. Unfolds(f, R, h)
  BY <1>2, UnfoldingExists
<1>4. SumFunctionOnSet(f, S) = g[S] /\ SumFunctionOnSet(f, R) = h[R]
  BY SumIsUnfolded
<1>5. h[R] = g[R]
  <2>. HIDE DEF g, h, R
  <2>. QED  BY <1>1, <1>2, <1>3, UnfoldingUnique
<1>6. g[S] = IF S = {} THEN 0 ELSE f[Pick(S)] + g[R]
  <2>. HIDE DEF g
  <2>. QED  BY <1>1 DEF Unfolds
<1>. QED  BY <1>4, <1>5, <1>6

(* The same for every part of a finite set.                                 *)
LEMMA PartsUnfold ==
    ASSUME NEW f, NEW S, IsFiniteSet(S)
    PROVE  \A U \in SUBSET S :
              /\ U = {} => SumFunctionOnSet(f, U) = 0
              /\ U # {} => /\ Pick(U) \in U
                           /\ SumFunctionOnSet(f, U) = f[Pick(U)] + SumFunctionOnSet(f, U \ {Pick(U)})
<1>1. \A U \in SUBSET S : IsFiniteSet(U)
  BY FS_Subset
<1>. QED  BY <1>1, SumUnfolds DEF Pick

(* The sum of nothing is zero.                                              *)
LEMMA SumOfNothing == ASSUME NEW f PROVE SumFunctionOnSet(f, {}) = 0
BY SumUnfolds, FS_EmptySet

(* Sums of integers are integers, ...                                       *)
LEMMA SumIsInt ==
    ASSUME NEW S, IsFiniteSet(S), NEW f, \A x \in S : f[x] \in Int
    PROVE  SumFunctionOnSet(f, S) \in Int
<1>. DEFINE T == {U \in SUBSET S : SumFunctionOnSet(f, U) \in Int}
<1>1. ASSUME NEW U \in SUBSET S, \A x \in U : U \ {x} \in T PROVE U \in T
  <2>1. /\ U = {} => SumFunctionOnSet(f, U) = 0
        /\ U # {} => /\ Pick(U) \in U
                     /\ SumFunctionOnSet(f, U) = f[Pick(U)] + SumFunctionOnSet(f, U \ {Pick(U)})
    BY PartsUnfold
  <2>9. U # {} => U \ {Pick(U)} \in T
    BY <1>1, <2>1
  <2>. QED  BY <2>1, <2>9
<1>. HIDE DEF T
<1>2. S \in T
  BY <1>1, SetsInductively
<1>. QED  BY <1>2 DEF T

(* ... of natural numbers natural numbers, ...                              *)
LEMMA SumIsNat ==
    ASSUME NEW S, IsFiniteSet(S), NEW f, \A x \in S : f[x] \in Nat
    PROVE  SumFunctionOnSet(f, S) \in Nat
<1>. DEFINE T == {U \in SUBSET S : SumFunctionOnSet(f, U) \in Nat}
<1>1. ASSUME NEW U \in SUBSET S, \A x \in U : U \ {x} \in T PROVE U \in T
  <2>1. /\ U = {} => SumFunctionOnSet(f, U) = 0
        /\ U # {} => /\ Pick(U) \in U
                     /\ SumFunctionOnSet(f, U) = f[Pick(U)] + SumFunctionOnSet(f, U \ {Pick(U)})
    BY PartsUnfold
  <2>9. U # {} => U \ {Pick(U)} \in T
    BY <1>1, <2>1
  <2>. QED  BY <2>1, <2>9
<1>. HIDE DEF T
<1>2. S \in T
  BY <1>1, SetsInductively
<1>. QED  BY <1>2 DEF T

(* The sum may be taken in any order.                                       *)
LEMMA SumTakesOut ==
    ASSUME NEW S, IsFiniteSet(S), NEW f, \A x \in S : f[x] \in Int, NEW a \in S
    PROVE  SumFunctionOnSet(f, S) = f[a] + SumFunctionOnSet(f, S \ {a})
<1>. DEFINE Sum(U) == SumFunctionOnSet(f, U)
            T == {U \in SUBSET S : \A x \in U : Sum(U) = f[x] + Sum(U \ {x})}
<1>1. \A U \in SUBSET S : IsFiniteSet(U)
  BY FS_Subset
<1>2. \A U \in SUBSET S : U # {} => Pick(U) \in U /\ Sum(U) = f[Pick(U)] + Sum(U \ {Pick(U)})
  BY PartsUnfold
<1>3. \A U \in SUBSET S : Sum(U) \in Int
  BY <1>1, SumIsInt
<1>4. ASSUME NEW U \in SUBSET S, \A x \in U : U \ {x} \in T PROVE U \in T
  <2>. SUFFICES ASSUME NEW x \in U, x # Pick(U) PROVE Sum(U) = f[x] + Sum(U \ {x})
    BY <1>2
  <2>. DEFINE c == Pick(U)
              R == U \ {c, x}
  <2>1. c \in U /\ Sum(U) = f[c] + Sum(U \ {c})
    BY <1>2
  <2>2. (U \ {c}) \ {x} = R /\ (U \ {x}) \ {c} = R
    OBVIOUS
  <2>3. Sum(U \ {c}) = f[x] + Sum(R)
    BY <1>4, <2>1, <2>2
  <2>4. Sum(U \ {x}) = f[c] + Sum(R)
    BY <1>4, <2>1, <2>2
  <2>5. f[x] \in Int /\ f[c] \in Int /\ Sum(R) \in Int
    BY <1>3, <2>1
  <2>. HIDE DEF c, R, Sum
  <2>. QED  BY <2>1, <2>3, <2>4, <2>5
<1>5. S \in T
  <2>. HIDE DEF T
  <2>. QED  BY <1>4, SetsInductively
<1>. QED  BY <1>5

(* Equal summands have equal sums, ...                                      *)
LEMMA SumsAgree ==
    ASSUME NEW S, IsFiniteSet(S), NEW f, NEW g, \A x \in S : f[x] = g[x]
    PROVE  SumFunctionOnSet(f, S) = SumFunctionOnSet(g, S)
<1>. DEFINE T == {U \in SUBSET S : SumFunctionOnSet(f, U) = SumFunctionOnSet(g, U)}
<1>1. ASSUME NEW U \in SUBSET S, \A x \in U : U \ {x} \in T PROVE U \in T
  <2>1. /\ U = {} => SumFunctionOnSet(f, U) = 0
        /\ U # {} => /\ Pick(U) \in U
                     /\ SumFunctionOnSet(f, U) = f[Pick(U)] + SumFunctionOnSet(f, U \ {Pick(U)})
    BY PartsUnfold
  <2>2. /\ U = {} => SumFunctionOnSet(g, U) = 0
        /\ U # {} => /\ Pick(U) \in U
                     /\ SumFunctionOnSet(g, U) = g[Pick(U)] + SumFunctionOnSet(g, U \ {Pick(U)})
    BY PartsUnfold
  <2>9. U # {} => U \ {Pick(U)} \in T
    BY <1>1, <2>1
  <2>. QED  BY <2>1, <2>2, <2>9
<1>. HIDE DEF T
<1>2. S \in T
  BY <1>1, SetsInductively
<1>. QED  BY <1>2 DEF T

(* ... and zeros have the sum zero.                                         *)
LEMMA SumOfZeros ==
    ASSUME NEW S, IsFiniteSet(S), NEW f, \A x \in S : f[x] = 0
    PROVE  SumFunctionOnSet(f, S) = 0
<1>. DEFINE T == {U \in SUBSET S : SumFunctionOnSet(f, U) = 0}
<1>1. ASSUME NEW U \in SUBSET S, \A x \in U : U \ {x} \in T PROVE U \in T
  <2>1. /\ U = {} => SumFunctionOnSet(f, U) = 0
        /\ U # {} => /\ Pick(U) \in U
                     /\ SumFunctionOnSet(f, U) = f[Pick(U)] + SumFunctionOnSet(f, U \ {Pick(U)})
    BY PartsUnfold
  <2>9. U # {} => U \ {Pick(U)} \in T
    BY <1>1, <2>1
  <2>. QED  BY <2>1, <2>9
<1>. HIDE DEF T
<1>2. S \in T
  BY <1>1, SetsInductively
<1>. QED  BY <1>2 DEF T

(* A sum changes by what one summand changes.                               *)
LEMMA SumChanges ==
    ASSUME NEW S, IsFiniteSet(S), NEW a \in S, NEW f, NEW g,
           \A x \in S : f[x] \in Int /\ g[x] \in Int, \A x \in S \ {a} : g[x] = f[x]
    PROVE  SumFunctionOnSet(g, S) = SumFunctionOnSet(f, S) + g[a] - f[a]
<1>1. IsFiniteSet(S \ {a})
  BY FS_Subset
<1>2. /\ SumFunctionOnSet(f, S) = f[a] + SumFunctionOnSet(f, S \ {a})
      /\ SumFunctionOnSet(g, S) = g[a] + SumFunctionOnSet(g, S \ {a})
  BY SumTakesOut
<1>3. SumFunctionOnSet(g, S \ {a}) = SumFunctionOnSet(f, S \ {a})
  BY <1>1, SumsAgree
<1>4. SumFunctionOnSet(f, S \ {a}) \in Int
  BY <1>1, SumIsInt
<1>. QED  BY <1>2, <1>3, <1>4
-----------------------------------------------------------------------------
(* Games.                                                                   *)

(* The totals of a game are the sums of the guesses.                        *)
Summed(g) == \A p \in Players : g.total[p] = ScoredBy(g, p)

LEMMA TotalType ==
    ASSUME NEW g \in Games, NEW T \in SUBSET Players
    PROVE  TotalOf(g, T) \in Nat
<1>1. IsFiniteSet(T)
  BY PlayersAssumption, FS_Subset
<1>2. \A p \in T : g.total[p] \in Nat
  BY DEF Games
<1>. QED  BY <1>1, <1>2, SumIsNat DEF TotalOf

LEMMA RoundsAreFinite == IsFiniteSet(1..Rounds)
BY RoundsAssumption, FS_Interval

(* What a player scored, as a sum over the rounds.                          *)
LEMMA ScoredByRounds ==
    ASSUME NEW g, NEW p
    PROVE  ScoredBy(g, p) = SumFunctionOnSet([r \in 1..Rounds |-> Points(g.guess[r][p])], 1..Rounds)
BY DEF ScoredBy, SumFunction

LEMMA PointsType == ASSUME NEW x \in -2..MaxScore PROVE Points(x) \in 0..MaxScore
BY ScoreAssumption DEF Points

(* A new game has totals of zero and one active round.                      *)
LEMMA NewGameFacts ==
    ASSUME NEW P \in SUBSET Players, NEW ph \in {"countdown", "open", "due"}
    PROVE  LET g == NewGame(P, ph) IN
           /\ g \in Games /\ Summed(g)
           /\ g.status = "active" /\ ActiveRounds(g) = {1}
           /\ \A T \in SUBSET Players : TotalOf(g, T) = 0
<1>. DEFINE g == NewGame(P, ph)
<1>1. g \in Games
  BY RoundsAssumption, ScoreAssumption DEF NewGame, Games, GameStatuses, RoundStatuses, PlayerStatuses, NoGuess
<1>2. g.status = "active" /\ ActiveRounds(g) = {1}
  BY RoundsAssumption DEF NewGame, ActiveRounds
<1>3. ASSUME NEW p \in Players PROVE g.total[p] = ScoredBy(g, p)
  <2>1. \A r \in 1..Rounds : [q \in 1..Rounds |-> Points(g.guess[q][p])][r] = 0
    BY DEF NewGame, Points, NoGuess
  <2>2. ScoredBy(g, p) = 0
    <3>. HIDE DEF g
    <3>. QED  BY <2>1, RoundsAreFinite, SumOfZeros, ScoredByRounds
  <2>. QED  BY <2>2 DEF NewGame
<1>4. ASSUME NEW T \in SUBSET Players PROVE TotalOf(g, T) = 0
  <2>1. IsFiniteSet(T)
    BY PlayersAssumption, FS_Subset
  <2>2. \A p \in T : g.total[p] = 0
    BY DEF NewGame
  <2>. HIDE DEF g
  <2>. QED  BY <2>1, <2>2, SumOfZeros DEF TotalOf
<1>. QED  BY <1>1, <1>2, <1>3, <1>4 DEF Summed

(* A player's first guess in a round adds its points to the player's total  *)
(* and to the total of every side the player is on.                         *)
LEMMA InsertGuessFacts ==
    ASSUME NEW g \in Games, Summed(g), NEW r \in 1..Rounds, NEW p \in Players,
           NEW s \in 0..MaxScore, p \notin Submitted(g, r)
    PROVE  LET h == InsertGuess(g, r, p, s) IN
           /\ h \in Games /\ Summed(h)
           /\ h.status = g.status /\ h.round = g.round /\ h.player = g.player /\ h.phase = g.phase
           /\ \A T \in SUBSET Players :
                 TotalOf(h, T) = IF p \in T THEN TotalOf(g, T) + s ELSE TotalOf(g, T)
           /\ \A q \in 1..Rounds :
                 /\ Submitted(h, q) = IF q = r THEN Submitted(g, q) \cup {p} ELSE Submitted(g, q)
                 /\ q # r => h.guess[q] = g.guess[q]
<1>. DEFINE h == InsertGuess(g, r, p, s)
<1>0. g.guess \in [1..Rounds -> [Players -> -2..MaxScore]] /\ g.total \in [Players -> Nat]
  BY DEF Games
<1>1. s \in Nat /\ Points(s) = s /\ s \in -2..MaxScore /\ s # NoGuess
  BY ScoreAssumption DEF Points, NoGuess
<1>2. h.guess = [g.guess EXCEPT ![r] = [@ EXCEPT ![p] = s]] /\ h.total = [g.total EXCEPT ![p] = @ + s]
  BY <1>1 DEF InsertGuess, Games
<1>3. /\ h.status = g.status /\ h.round = g.round /\ h.player = g.player /\ h.phase = g.phase
      /\ h \in Games
  <2>1. h = [g EXCEPT !.guess = h.guess, !.total = h.total]
    BY DEF InsertGuess, Games
  <2>2. h.guess \in [1..Rounds -> [Players -> -2..MaxScore]] /\ h.total \in [Players -> Nat]
    <3>1. [g.guess[r] EXCEPT ![p] = s] \in [Players -> -2..MaxScore]
      BY <1>0, <1>1
    <3>2. g.total[p] + s \in Nat
      BY <1>0, <1>1
    <3>. HIDE DEF h
    <3>. QED  BY <1>0, <1>2, <3>1, <3>2
  <2>. HIDE DEF h
  <2>. QED  BY <2>1, <2>2 DEF Games
<1>4. /\ \A q \in 1..Rounds, u \in Players : h.guess[q][u] = IF q = r /\ u = p THEN s ELSE g.guess[q][u]
      /\ \A u \in Players : h.total[u] = IF u = p THEN g.total[u] + s ELSE g.total[u]
  <2>. HIDE DEF h
  <2>1. \A q \in 1..Rounds : h.guess[q] = IF q = r THEN [g.guess[r] EXCEPT ![p] = s] ELSE g.guess[q]
    BY <1>0, <1>2
  <2>2. \A u \in Players : g.guess[r] \in [Players -> -2..MaxScore] /\
                          [g.guess[r] EXCEPT ![p] = s][u] = IF u = p THEN s ELSE g.guess[r][u]
    BY <1>0
  <2>3. \A u \in Players : h.total[u] = IF u = p THEN g.total[u] + s ELSE g.total[u]
    BY <1>0, <1>2
  <2>. QED  BY <2>1, <2>2, <2>3
<1>5. g.guess[r][p] = NoGuess /\ Points(NoGuess) = 0
  BY DEF Submitted, Points, NoGuess
<1>6. /\ \A q \in 1..Rounds, u \in Players : Points(g.guess[q][u]) \in Nat /\ Points(h.guess[q][u]) \in Nat
      /\ \A u \in Players : g.total[u] \in Nat /\ h.total[u] \in Nat
  <2>1. h.guess \in [1..Rounds -> [Players -> -2..MaxScore]] /\ h.total \in [Players -> Nat]
    BY <1>3 DEF Games
  <2>2. \A x \in -2..MaxScore : Points(x) \in Nat
    BY PointsType, ScoreAssumption
  <2>3. \A q \in 1..Rounds, u \in Players : g.guess[q][u] \in -2..MaxScore /\ h.guess[q][u] \in -2..MaxScore
    BY ZenonT(30), <1>0, <2>1
  <2>. QED  BY <1>0, <2>1, <2>2, <2>3
<1>10. \A q \in 1..Rounds : q # r => h.guess[q] = g.guess[q]
  <2>. HIDE DEF h
  <2>. QED  BY <1>0, <1>2
<1>. HIDE DEF h
<1>7. ASSUME NEW u \in Players PROVE h.total[u] = ScoredBy(h, u)
  <2>. DEFINE old == [q \in 1..Rounds |-> Points(g.guess[q][u])]
              new == [q \in 1..Rounds |-> Points(h.guess[q][u])]
  <2>1. \A q \in 1..Rounds : old[q] \in Int /\ new[q] \in Int
    BY <1>6
  <2>2. ScoredBy(g, u) = SumFunctionOnSet(old, 1..Rounds) /\ ScoredBy(h, u) = SumFunctionOnSet(new, 1..Rounds)
    BY ScoredByRounds
  <2>3. g.total[u] = SumFunctionOnSet(old, 1..Rounds)
    BY <2>2 DEF Summed
  <2>4. CASE u = p
    <3>1. \A q \in (1..Rounds) \ {r} : new[q] = old[q]
      BY <1>4
    <3>2. old[r] = 0 /\ new[r] = s
      BY <1>1, <1>4, <1>5, <2>4
    <3>. HIDE DEF old, new
    <3>3. SumFunctionOnSet(new, 1..Rounds) = SumFunctionOnSet(old, 1..Rounds) + new[r] - old[r]
      BY ZenonT(30), <2>1, <3>1, RoundsAreFinite, SumChanges
    <3>. QED  BY <1>1, <1>4, <1>6, <2>2, <2>3, <2>4, <3>2, <3>3
  <2>5. CASE u # p
    <3>1. \A q \in 1..Rounds : new[q] = old[q]
      BY <1>4, <2>5
    <3>. HIDE DEF old, new
    <3>2. SumFunctionOnSet(new, 1..Rounds) = SumFunctionOnSet(old, 1..Rounds)
      BY <3>1, RoundsAreFinite, SumsAgree
    <3>. QED  BY <1>4, <2>2, <2>3, <2>5, <3>2
  <2>. QED  BY <2>4, <2>5
<1>8. ASSUME NEW T \in SUBSET Players
      PROVE  TotalOf(h, T) = IF p \in T THEN TotalOf(g, T) + s ELSE TotalOf(g, T)
  <2>1. IsFiniteSet(T) /\ \A u \in T : g.total[u] \in Int /\ h.total[u] \in Int
    BY <1>6, PlayersAssumption, FS_Subset
  <2>2. CASE p \in T
    <3>1. \A u \in T \ {p} : h.total[u] = g.total[u]
      BY <1>4
    <3>2. SumFunctionOnSet(h.total, T) = SumFunctionOnSet(g.total, T) + h.total[p] - g.total[p]
      BY <2>1, <2>2, <3>1, SumChanges
    <3>3. SumFunctionOnSet(g.total, T) \in Int
      BY <2>1, SumIsInt
    <3>. QED  BY <1>1, <1>4, <1>6, <2>2, <3>2, <3>3 DEF TotalOf
  <2>3. CASE p \notin T
    <3>1. \A u \in T : h.total[u] = g.total[u]
      BY <1>4, <2>3
    <3>. QED  BY <2>1, <2>3, <3>1, SumsAgree DEF TotalOf
  <2>. QED  BY <2>2, <2>3
<1>9. ASSUME NEW q \in 1..Rounds
      PROVE  Submitted(h, q) = IF q = r THEN Submitted(g, q) \cup {p} ELSE Submitted(g, q)
  BY <1>1, <1>4 DEF Submitted
<1>. QED  BY <1>3, <1>7, <1>8, <1>9, <1>10 DEF Summed, h

(* Zeros for players without a guess change no total.                       *)
LEMMA ZeroFillFacts ==
    ASSUME NEW g \in Games, Summed(g), NEW r \in 1..Rounds, NEW M \in SUBSET Players,
           M \cap Submitted(g, r) = {}
    PROVE  LET h == ZeroFill(g, r, M) IN
           /\ h \in Games /\ Summed(h)
           /\ h.status = g.status /\ h.round = g.round /\ h.player = g.player /\ h.phase = g.phase
           /\ h.total = g.total
           /\ \A q \in 1..Rounds : q # r => h.guess[q] = g.guess[q]
<1>. DEFINE h == ZeroFill(g, r, M)
<1>1. /\ h.status = g.status /\ h.round = g.round /\ h.player = g.player /\ h.phase = g.phase
      /\ h.total = g.total
      /\ h.guess = [g.guess EXCEPT ![r] = [p \in Players |-> IF p \in M THEN TimedOut ELSE @[p]]]
  BY DEF ZeroFill, Games
<1>2. h \in Games
  <2>. DEFINE row == [p \in Players |-> IF p \in M THEN TimedOut ELSE g.guess[r][p]]
  <2>1. row \in [Players -> -2..MaxScore]
    <3>1. g.guess \in [1..Rounds -> [Players -> -2..MaxScore]]
      BY DEF Games
    <3>2. TimedOut \in -2..MaxScore
      BY ScoreAssumption DEF TimedOut
    <3>. QED  BY <3>1, <3>2
  <2>2. h = [g EXCEPT !.guess[r] = row]
    BY DEF ZeroFill
  <2>. HIDE DEF row, h
  <2>. QED  BY <2>1, <2>2 DEF Games
<1>3. ASSUME NEW q \in 1..Rounds, NEW u \in Players PROVE Points(h.guess[q][u]) = Points(g.guess[q][u])
  <2>1. h.guess[q][u] = IF q = r /\ u \in M THEN TimedOut ELSE g.guess[q][u]
    <3>1. g.guess \in [1..Rounds -> [Players -> -2..MaxScore]]
      BY DEF Games
    <3>2. h.guess[q] = IF q = r THEN [p \in Players |-> IF p \in M THEN TimedOut ELSE g.guess[r][p]]
                       ELSE g.guess[q]
      BY <1>1, <3>1
    <3>. QED  BY <3>2
  <2>2. q = r /\ u \in M => g.guess[q][u] = NoGuess
    BY DEF Submitted
  <2>. QED  BY <2>1, <2>2 DEF Points, TimedOut, NoGuess
<1>5. \A q \in 1..Rounds : q # r => h.guess[q] = g.guess[q]
  <2>1. g.guess \in [1..Rounds -> [Players -> -2..MaxScore]]
    BY DEF Games
  <2>. HIDE DEF h
  <2>. QED  BY <1>1, <2>1
<1>. HIDE DEF h
<1>4. ASSUME NEW u \in Players PROVE h.total[u] = ScoredBy(h, u)
  <2>1. [q \in 1..Rounds |-> Points(h.guess[q][u])] = [q \in 1..Rounds |-> Points(g.guess[q][u])]
    BY <1>3
  <2>. QED  BY <1>1, <2>1, ScoredByRounds DEF Summed
<1>. QED  BY <1>1, <1>2, <1>4, <1>5 DEF Summed, h

(* Of several open rounds one is the first.                                 *)
LEMMA FirstRound ==
    ASSUME NEW S \in SUBSET (1..Rounds), S # {}
    PROVE  Min(S) \in S /\ Min(S) \in 1..Rounds
<1>1. S \subseteq Nat
  BY RoundsAssumption
<1>2. \E x \in S : \A y \in S : x <= y
  BY <1>1, LeastNumber
<1>. QED  BY <1>2 DEF Min

(* Closing the only active round opens the next one, or ends the game with  *)
(* no round open.                                                           *)
LEMMA CompleteRoundFacts ==
    ASSUME NEW g \in Games, Summed(g), g.status = "active", NEW r, ActiveRounds(g) = {r}
    PROVE  LET h == CompleteRound(g, r) IN
           /\ h \in Games /\ Summed(h)
           /\ h.guess = g.guess /\ h.total = g.total /\ h.player = g.player
           /\ h.round[r] = "completed"
           /\ \A q \in 1..Rounds : /\ g.round[q] = "completed" => h.round[q] = "completed"
                                   /\ h.round[q] = "cancelled" => g.round[q] = "cancelled"
           /\ PendingRounds(g) = {} => /\ h.status = "completed"
                                       /\ ActiveRounds(h) = {} /\ PendingRounds(h) = {}
           /\ PendingRounds(g) # {} => h.status = "active" /\ ActiveRounds(h) = {Min(PendingRounds(g))}
<1>. DEFINE h == CompleteRound(g, r)
            done == [g EXCEPT !.round[r] = "completed"]
<1>1. r \in 1..Rounds /\ g.round[r] = "active" /\ \A q \in 1..Rounds : g.round[q] = "active" => q = r
  BY DEF ActiveRounds
<1>2. /\ done.round = [g.round EXCEPT ![r] = "completed"] /\ done.status = g.status
      /\ done.guess = g.guess /\ done.total = g.total /\ done.player = g.player
      /\ done \in Games
  BY DEF Games, RoundStatuses
<1>3. PendingRounds(done) = PendingRounds(g)
  <2>1. \A q \in 1..Rounds : done.round[q] = "pending" <=> g.round[q] = "pending"
    BY <1>1, <1>2 DEF Games
  <2>. QED  BY <2>1 DEF PendingRounds
<1>4. CASE PendingRounds(g) = {}
  <2>1. h = [done EXCEPT !.status = "completed"]
    BY <1>3, <1>4 DEF CompleteRound
  <2>2. /\ h \in Games /\ h.guess = g.guess /\ h.total = g.total /\ h.player = g.player
        /\ h.status = "completed" /\ h.round = [g.round EXCEPT ![r] = "completed"]
    <3>. HIDE DEF h, done
    <3>. QED  BY <1>2, <2>1 DEF Games, GameStatuses
  <2>. HIDE DEF h, done
  <2>3. ActiveRounds(h) = {} /\ PendingRounds(h) = {}
    <3>1. \A q \in 1..Rounds : h.round[q] = IF q = r THEN "completed" ELSE g.round[q]
      BY <2>2 DEF Games
    <3>2. \A q \in 1..Rounds : g.round[q] # "pending"
      BY <1>4 DEF PendingRounds
    <3>. QED  BY <1>1, <3>1, <3>2 DEF ActiveRounds, PendingRounds
  <2>4. Summed(h)
    BY <2>2 DEF Summed, ScoredBy
  <2>5. /\ h.round[r] = "completed"
        /\ \A q \in 1..Rounds : /\ g.round[q] = "completed" => h.round[q] = "completed"
                                /\ h.round[q] = "cancelled" => g.round[q] = "cancelled"
    BY <1>1, <2>2 DEF Games
  <2>. QED  BY <1>4, <2>2, <2>3, <2>4, <2>5 DEF h
<1>5. CASE PendingRounds(g) # {}
  <2>. DEFINE n == Min(PendingRounds(g))
  <2>1. h = [done EXCEPT !.round[n] = "active", !.phase = "open"]
    BY <1>3, <1>5 DEF CompleteRound
  <2>2. n \in PendingRounds(g) /\ n \in 1..Rounds
    BY <1>5, FirstRound DEF PendingRounds
  <2>. HIDE DEF n
  <2>3. n # r /\ g.round[n] = "pending"
    BY <1>1, <2>2 DEF PendingRounds
  <2>4. /\ h.guess = g.guess /\ h.total = g.total /\ h.player = g.player /\ h.status = "active"
        /\ h.round = [done.round EXCEPT ![n] = "active"] /\ h \in Games
    <3>. HIDE DEF h, done
    <3>. QED  BY <1>2, <2>1, <2>2 DEF Games, RoundStatuses
  <2>5. \A q \in 1..Rounds : h.round[q] = IF q = n THEN "active" ELSE IF q = r THEN "completed" ELSE g.round[q]
    BY <1>2, <2>4 DEF Games
  <2>. HIDE DEF h, done
  <2>6. ActiveRounds(h) = {n}
    BY <1>1, <2>2, <2>5 DEF ActiveRounds
  <2>7. Summed(h)
    BY <2>4 DEF Summed, ScoredBy
  <2>. QED  BY <1>1, <1>5, <2>3, <2>4, <2>5, <2>6, <2>7 DEF h, n
<1>. QED  BY <1>4, <1>5

(* An abandoned game keeps its scores and has no round open.                *)
LEMMA AbandonGameFacts ==
    ASSUME NEW g \in Games, Summed(g), g.status \in {"pending", "active"}
    PROVE  LET h == AbandonGame(g) IN
           /\ h \in Games /\ Summed(h)
           /\ h.guess = g.guess /\ h.total = g.total /\ h.player = g.player
           /\ h.status = "abandoned" /\ ActiveRounds(h) = {} /\ PendingRounds(h) = {}
           /\ \A q \in 1..Rounds : g.round[q] = "completed" <=> h.round[q] = "completed"
<1>. DEFINE h == AbandonGame(g)
<1>1. /\ h.guess = g.guess /\ h.total = g.total /\ h.player = g.player /\ h.status = "abandoned"
      /\ h.round = [r \in 1..Rounds |-> IF g.round[r] \in {"pending", "active"} THEN "cancelled" ELSE g.round[r]]
      /\ h \in Games
  BY DEF AbandonGame, Games, GameStatuses, RoundStatuses
<1>. HIDE DEF h
<1>2. ActiveRounds(h) = {} /\ PendingRounds(h) = {}
  BY <1>1 DEF ActiveRounds, PendingRounds
<1>3. Summed(h)
  BY <1>1 DEF Summed, ScoredBy
<1>. QED  BY <1>1, <1>2, <1>3 DEF h
=============================================================================
