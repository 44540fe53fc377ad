------------------------------ MODULE FoldFacts ------------------------------
(***************************************************************************)
(* What a fold over a sequence preserves.  The passes of the baseline      *)
(* policies are folds of their own steps, so the step Op(p, x, e), from x  *)
(* by the element e in the setting p, and what is to be shown of x after i *)
(* elements, Good(p, x, i), are parameters.                                *)
(***************************************************************************)
EXTENDS Integers, Sequences, Capacity, Folds, FiniteSetTheorems, WellFoundedInduction,
        TLAPS

CONSTANTS Op(_, _, _), Good(_, _, _)

\* s from its first element to its last.
Fold(p, b, s) ==
    MapThenFoldSet(LAMBDA e, x : Op(p, x, e), b, LAMBDA i : s[i], Greatest, DOMAIN s)

\* A set of positions is finite.
LEMMA PositionsFinite ==
    ASSUME NEW n \in Nat, NEW S \in SUBSET (1..n)
    PROVE  IsFiniteSet(S) /\ Cardinality(S) \in Nat /\ Cardinality(S) <= n
<1>1. IsFiniteSet(1..n)
  BY FS_Interval
<1>2. Cardinality(1..n) = IF 1 > n THEN 0 ELSE n - 1 + 1
  BY FS_Interval
<1>3. Cardinality(1..n) = n
  BY <1>2
<1>4. IsFiniteSet(S) /\ Cardinality(S) <= Cardinality(1..n)
  BY <1>1, FS_Subset
<1>5. Cardinality(S) \in Nat
  BY <1>4, FS_CardinalityType
<1> QED
  BY <1>3, <1>4, <1>5

\* The greatest element of a non-empty finite set of integers.
LEMMA MaxProperty ==
    ASSUME NEW n \in Nat, NEW S \in SUBSET (1..n), S # {}
    PROVE  Greatest(S) \in S /\ \A x \in S : x <= Greatest(S)
\* A largest of the intervals 1..x that the elements x of S stand for; its
\* complement in 1..n is a smallest.
<1> DEFINE T == {(x + 1)..n : x \in S}
<1>1. T \subseteq FiniteSubsetsOf(1..n) /\ T # {}
  <2>1. ASSUME NEW x \in S PROVE (x + 1)..n \in FiniteSubsetsOf(1..n)
    <3>1. x \in 1..n
      OBVIOUS
    <3>2. IsFiniteSet((x + 1)..n)
      BY <3>1, FS_Interval
    <3>3. (x + 1)..n \in SUBSET (1..n)
      BY <3>1
    <3> QED
      BY <3>2, <3>3 DEF FiniteSubsetsOf
  <2> QED
    BY <2>1
<1>2. IsWellFoundedOn(StrictSubsetOrdering(1..n), FiniteSubsetsOf(1..n))
  BY FS_StrictSubsetOrderingWellFounded
<1> HIDE DEF T
<1>3. PICK I \in T : \A J \in T : ~(<<J, I>> \in StrictSubsetOrdering(1..n))
  BY <1>1, <1>2, WFMin
<1>4. PICK m \in S : I = (m + 1)..n
  BY <1>3 DEF T
<1>5. ASSUME NEW y \in S PROVE y <= m
  <2> SUFFICES ASSUME m < y PROVE FALSE
    OBVIOUS
  <2> DEFINE J == (y + 1)..n
  <2>1. m \in 1..n /\ y \in 1..n
    OBVIOUS
  <2>2. J \in T
    BY DEF T
  <2>3. J \in SUBSET (1..n) /\ I \in SUBSET (1..n)
    BY <1>4, <2>1
  <2>4. J \subseteq I /\ y \in I /\ y \notin J
    BY <1>4, <2>1
  <2> HIDE DEF J
  <2>5. <<J, I>> \in StrictSubsetOrdering(1..n)
    BY <2>3, <2>4 DEF StrictSubsetOrdering
  <2> QED
    BY <1>3, <2>2, <2>5
<1> QED
  BY <1>5 DEF Greatest

\* One step of the recursion: by its last element to what the others gave.
Unfolded(p, b, s, g, S) ==
    IF S = {} THEN b ELSE Op(p, g[S \ {Greatest(S)}], s[Greatest(S)])

\* The recursion of FoldLeft has a solution on sets of at most k elements.
SolvedUpTo(p, b, s, n, k) ==
    \E g : /\ DOMAIN g = {S \in SUBSET (1..n) : Cardinality(S) <= k}
           /\ \A S \in DOMAIN g : g[S] = Unfolded(p, b, s, g, S)

\* The equations are solved for the empty set,
LEMMA SolvedAtZero ==
    ASSUME NEW p, NEW b, NEW s, NEW n \in Nat PROVE SolvedUpTo(p, b, s, n, 0)
<1> DEFINE D == {S \in SUBSET (1..n) : Cardinality(S) <= 0}
           g == [S \in D |-> b]
<1>1. ASSUME NEW S \in D PROVE S = {}
  <2>1. IsFiniteSet(S)
    BY PositionsFinite
  <2>2. Cardinality(S) \in Nat
    BY <2>1, FS_CardinalityType
  <2> QED
    BY <2>1, <2>2, FS_EmptySet
<1>2. DOMAIN g = D /\ \A S \in D : g[S] = b
  OBVIOUS
<1> HIDE DEF g
<1> QED
  BY <1>1, <1>2 DEF SolvedUpTo, Unfolded

\* and if for k positions, then for one more.
LEMMA SolvedOneMore ==
    ASSUME NEW p, NEW b, NEW s, NEW n \in Nat, NEW k \in Nat,
           SolvedUpTo(p, b, s, n, k)
    PROVE  SolvedUpTo(p, b, s, n, k + 1)
<1> DEFINE D == {S \in SUBSET (1..n) : Cardinality(S) <= k}
           E == {S \in SUBSET (1..n) : Cardinality(S) <= k + 1}
<1>1. PICK g : /\ DOMAIN g = D
               /\ \A S \in D : g[S] = Unfolded(p, b, s, g, S)
  BY DEF SolvedUpTo
<1> DEFINE h == [S \in E |-> Unfolded(p, b, s, g, S)]
<1>2. ASSUME NEW S \in E, S # {} PROVE S \ {Greatest(S)} \in D
  <2>1. IsFiniteSet(S)
    BY PositionsFinite
  <2>2. Greatest(S) \in S
    BY <1>2, MaxProperty
  <2>3. /\ Cardinality(S \ {Greatest(S)}) = Cardinality(S) - 1
        /\ Cardinality(S) \in Nat
    BY <2>1, <2>2, FS_RemoveElement, FS_CardinalityType
  <2>4. Cardinality(S) <= k + 1
    OBVIOUS
  <2>5. Cardinality(S \ {Greatest(S)}) <= k
    BY <2>3, <2>4
  <2> QED
    BY <2>5
<1>3. ASSUME NEW S \in D PROVE S \in E /\ h[S] = g[S]
  <2>1. IsFiniteSet(S)
    BY PositionsFinite
  <2>2. Cardinality(S) \in Nat
    BY <2>1, FS_CardinalityType
  <2>3. S \in E
    BY <2>2
  <2> QED
    BY <1>1, <2>3
<1>4. ASSUME NEW S \in E PROVE h[S] = Unfolded(p, b, s, h, S)
  <2>1. h[S] = Unfolded(p, b, s, g, S)
    OBVIOUS
  <2>2. CASE S = {}
    BY <2>1, <2>2 DEF Unfolded
  <2>3. CASE S # {}
    <3>1. h[S \ {Greatest(S)}] = g[S \ {Greatest(S)}]
      BY <1>2, <1>3, <2>3
    <3> HIDE DEF h
    <3> QED
      BY <2>1, <3>1 DEF Unfolded
  <2> QED
    BY <2>2, <2>3
<1>5. DOMAIN h = E
  OBVIOUS
<1> HIDE DEF h
<1> QED
  BY <1>4, <1>5 DEF SolvedUpTo

\* Hence on all subsets of the domain.
LEMMA Solved ==
    ASSUME NEW p, NEW b, NEW s, NEW n \in Nat
    PROVE  \A S \in SUBSET (1..n) : SolvedUpTo(p, b, s, n, Cardinality(S))
<1> SUFFICES ASSUME NEW Z \in SUBSET (1..n),
                    ~SolvedUpTo(p, b, s, n, Cardinality(Z))
             PROVE  FALSE
  OBVIOUS
<1> DEFINE T == {S \in SUBSET (1..n) : ~SolvedUpTo(p, b, s, n, Cardinality(S))}
<1>0. \A S \in SUBSET (1..n) : IsFiniteSet(S) /\ Cardinality(S) \in Nat
  BY PositionsFinite
<1>1. T \subseteq FiniteSubsetsOf(1..n) /\ T # {}
  BY <1>0 DEF FiniteSubsetsOf
<1>2. IsWellFoundedOn(StrictSubsetOrdering(1..n), FiniteSubsetsOf(1..n))
  BY FS_StrictSubsetOrderingWellFounded
<1> HIDE DEF T
<1>3. PICK X \in T : \A Y \in T : ~(<<Y, X>> \in StrictSubsetOrdering(1..n))
  BY <1>1, <1>2, WFMin
<1>4. X \in SUBSET (1..n) /\ ~SolvedUpTo(p, b, s, n, Cardinality(X))
  BY <1>3 DEF T
<1>5. X # {}
  BY <1>4, SolvedAtZero, FS_EmptySet
<1> DEFINE x == Greatest(X)
           Y == X \ {x}
<1>6. x \in X
  BY <1>4, <1>5, MaxProperty
<1> HIDE DEF x
<1>7. Cardinality(Y) = Cardinality(X) - 1 /\ Cardinality(Y) \in Nat
  BY <1>0, <1>4, <1>6, FS_RemoveElement
<1>8. Y \in SUBSET (1..n) /\ Y \subseteq X /\ X # Y
  BY <1>4, <1>6
<1> HIDE DEF Y
<1>9. Y \notin T
  BY <1>3, <1>4, <1>8 DEF StrictSubsetOrdering
<1>10. SolvedUpTo(p, b, s, n, Cardinality(Y))
  BY <1>8, <1>9 DEF T
<1>11. SolvedUpTo(p, b, s, n, Cardinality(Y) + 1)
  BY <1>7, <1>10, SolvedOneMore
<1>12. Cardinality(Y) + 1 = Cardinality(X)
  BY <1>0, <1>4, <1>7
<1> QED
  BY <1>4, <1>11, <1>12

\* The function that FoldLeft chooses obeys its recursion.
Chosen(p, b, s) ==
    CHOOSE g : g = [S \in SUBSET (DOMAIN s) |-> Unfolded(p, b, s, g, S)]

\* So the chosen function solves them for all positions,
LEMMA ChosenUnfolds ==
    ASSUME NEW p, NEW b, NEW s, NEW n \in Nat, DOMAIN s = 1..n
    PROVE  \A S \in SUBSET (1..n) :
               Chosen(p, b, s)[S] = Unfolded(p, b, s, Chosen(p, b, s), S)
<1>1. SolvedUpTo(p, b, s, n, n)
  <2>1. Cardinality(1..n) = IF 1 > n THEN 0 ELSE n - 1 + 1
    BY FS_Interval
  <2>2. 1..n \in SUBSET (1..n) /\ Cardinality(1..n) = n
    BY <2>1
  <2> QED
    BY <2>2, Solved
<1>2. {S \in SUBSET (1..n) : Cardinality(S) <= n} = SUBSET (1..n)
  <2>1. ASSUME NEW S \in SUBSET (1..n) PROVE Cardinality(S) <= n
    BY PositionsFinite
  <2> QED
    BY <2>1
<1>3. PICK g : /\ DOMAIN g = SUBSET (1..n)
               /\ \A S \in SUBSET (1..n) : g[S] = Unfolded(p, b, s, g, S)
  BY <1>1, <1>2 DEF SolvedUpTo
<1> DEFINE h == [S \in SUBSET (1..n) |-> g[S]]
<1>4. \A S \in SUBSET (1..n) : h[S] = Unfolded(p, b, s, h, S)
  <2> TAKE S \in SUBSET (1..n)
  <2>1. h[S] = g[S] /\ h[S \ {Greatest(S)}] = g[S \ {Greatest(S)}]
    OBVIOUS
  <2> HIDE DEF h
  <2> QED
    BY <1>3, <2>1 DEF Unfolded
<1>5. h = [S \in SUBSET (DOMAIN s) |-> Unfolded(p, b, s, h, S)]
  BY <1>4
<1> HIDE DEF h
<1>6. Chosen(p, b, s) =
          [S \in SUBSET (DOMAIN s) |-> Unfolded(p, b, s, Chosen(p, b, s), S)]
  BY <1>5 DEF Chosen
<1> QED
  BY <1>6

\* and the fold is its value.
LEMMA FoldChosen ==
    ASSUME NEW p, NEW b, NEW s
    PROVE  Fold(p, b, s) = Chosen(p, b, s)[DOMAIN s]
BY DEF Fold, Chosen, Unfolded, MapThenFoldSet

\* What has come of the first i elements: nothing yet of none, and a step more
\* of each.
After(p, b, s, i) == Chosen(p, b, s)[1..i]

Stepwise(p, b, s, n) ==
    /\ After(p, b, s, 0) = b
    /\ \A i \in 1..n : After(p, b, s, i) = Op(p, After(p, b, s, i - 1), s[i])
    /\ Fold(p, b, s) = After(p, b, s, n)

\* The fold is made step by step.
LEMMA AfterSteps ==
    ASSUME NEW p, NEW b, NEW s, NEW n \in Nat, DOMAIN s = 1..n
    PROVE  Stepwise(p, b, s, n)
<1>1. \A S \in SUBSET (1..n) :
          Chosen(p, b, s)[S] = Unfolded(p, b, s, Chosen(p, b, s), S)
  BY ChosenUnfolds
<1>2. After(p, b, s, 0) = b
  <2>1. 1..0 = {} /\ 1..0 \in SUBSET (1..n)
    OBVIOUS
  <2> QED
    BY <1>1, <2>1 DEF Unfolded, After
<1>3. ASSUME NEW i \in 1..n PROVE After(p, b, s, i) = Op(p, After(p, b, s, i - 1), s[i])
  <2>1. 1..i \in SUBSET (1..n) /\ 1..i # {} /\ i \in 1..i
    OBVIOUS
  <2>2. Greatest(1..i) = i
    <3>1. Greatest(1..i) \in 1..i /\ \A x \in 1..i : x <= Greatest(1..i)
      BY <2>1, MaxProperty
    <3> QED
      BY <2>1, <3>1
  <2>3. (1..i) \ {i} = 1..(i - 1)
    OBVIOUS
  <2> QED
    BY <1>1, <2>1, <2>2, <2>3 DEF Unfolded, After
<1>4. Fold(p, b, s) = After(p, b, s, n)
  BY FoldChosen DEF After
<1> QED
  BY <1>2, <1>3, <1>4 DEF Stepwise

\* What holds of the base and is preserved by every step holds of the fold.
LEMMA FoldKeeps ==
    ASSUME NEW p, NEW b, NEW s, NEW n \in Nat, DOMAIN s = 1..n,
           Good(p, b, 0),
           \A i \in 1..n : \A x : Good(p, x, i - 1) => Good(p, Op(p, x, s[i]), i)
    PROVE  Good(p, Fold(p, b, s), n)
<1> DEFINE T == {1..i : i \in {j \in 0..n : ~Good(p, After(p, b, s, j), j)}}
<1>0. Stepwise(p, b, s, n)
  BY AfterSteps
<1>1. Fold(p, b, s) = After(p, b, s, n)
  BY <1>0 DEF Stepwise
<1>2. After(p, b, s, 0) = b
  BY <1>0 DEF Stepwise
<1>3. ASSUME NEW i \in 1..n PROVE After(p, b, s, i) = Op(p, After(p, b, s, i - 1), s[i])
  BY <1>0 DEF Stepwise
<1>4. ASSUME NEW Z \in 0..n, ~Good(p, After(p, b, s, Z), Z) PROVE FALSE
  <2>1. T \subseteq FiniteSubsetsOf(1..n) /\ T # {}
    <3>1. ASSUME NEW i \in 0..n PROVE 1..i \in FiniteSubsetsOf(1..n)
      <4>1. IsFiniteSet(1..i)
        BY FS_Interval
      <4>2. 1..i \in SUBSET (1..n)
        OBVIOUS
      <4> QED
        BY <4>1, <4>2 DEF FiniteSubsetsOf
    <3> QED
      BY <1>4, <3>1
  <2>2. IsWellFoundedOn(StrictSubsetOrdering(1..n), FiniteSubsetsOf(1..n))
    BY FS_StrictSubsetOrderingWellFounded
  <2> HIDE DEF T
  <2>3. PICK X \in T : \A Y \in T : ~(<<Y, X>> \in StrictSubsetOrdering(1..n))
    BY <2>1, <2>2, WFMin
  <2>4. PICK i \in 0..n : X = 1..i /\ ~Good(p, After(p, b, s, i), i)
    BY <2>3 DEF T
  <2>5. i # 0
    BY <1>2, <2>4
  <2>6. i \in 1..n /\ i - 1 \in 0..n
    BY <2>5
  <2>7. 1..(i - 1) \notin T
    <3>1. /\ 1..(i - 1) \in SUBSET (1..n) /\ 1..i \in SUBSET (1..n)
          /\ 1..(i - 1) \subseteq 1..i /\ i \in 1..i /\ i \notin 1..(i - 1)
      BY <2>6
    <3>2. <<1..(i - 1), 1..i>> \in StrictSubsetOrdering(1..n)
      BY <3>1 DEF StrictSubsetOrdering
    <3> QED
      BY <2>3, <2>4, <3>2
  <2>8. Good(p, After(p, b, s, i - 1), i - 1)
    BY <2>6, <2>7 DEF T
  <2> QED
    BY <1>3, <2>4, <2>6, <2>8
<1>5. Good(p, After(p, b, s, n), n)
  BY <1>4
<1> QED
  BY <1>1, <1>5
=============================================================================
