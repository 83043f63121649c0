---------------------------- MODULE FirstGreatest ----------------------------
(***************************************************************************)
(* What a loop finds.  `if best == nil || x > best { best = x }` keeps the *)
(* first of the elements with the greatest value: pkg/identity's Resolve   *)
(* and pkg/status's scanForNewestAnchor are such loops, and what is proved *)
(* of them rests on the lemma that they do find an element.                *)
(*                                                                         *)
(* A loop that takes one step after another computes a sequence of values, *)
(* which exists (IntervalRecursion), and what each step keeps is so at the *)
(* end (IntervalInduction): pkg/leaf's encoders, which append field to     *)
(* field, and pkg/provenance's Linearize, which walks a chain.             *)
(***************************************************************************)
EXTENDS Integers, FiniteSetTheorems, WellFoundedInduction, TLAPS

\* Position i is the first of those in S at which f is greatest.
IsFirstGreatest(i, S, f) ==
  i \in S /\ \A j \in S : f[j] < f[i] \/ (f[j] = f[i] /\ i <= j)

\* A non-empty finite set of positions has one: in a smallest set without
\* one, take an element away and compare it with the rest's.
LEMMA FirstGreatestExists ==
  ASSUME NEW S, IsFiniteSet(S), S \subseteq Nat, S # {}, NEW f \in [S -> Nat]
  PROVE  \E i \in S : IsFirstGreatest(i, S, f)
  <1> DEFINE Lacking == {T \in FiniteSubsetsOf(S) :
                           T # {} /\ ~ \E i \in T : IsFirstGreatest(i, T, f)}
  <1>1. S \in FiniteSubsetsOf(S)
    BY DEF FiniteSubsetsOf
  <1>2. SUFFICES ASSUME Lacking # {}
                 PROVE  FALSE
    BY <1>1
  <1>3. IsWellFoundedOn(StrictSubsetOrdering(S), FiniteSubsetsOf(S))
    BY FS_StrictSubsetOrderingWellFounded
  <1>4. PICK T \in Lacking :
          \A U \in Lacking : <<U, T>> \notin StrictSubsetOrdering(S)
    <2>1. Lacking \subseteq FiniteSubsetsOf(S)
      OBVIOUS
    <2> HIDE DEF Lacking
    <2> QED
      BY <1>2, <1>3, <2>1, WFMin, Zenon
  <1>5. PICK x \in T : TRUE
    OBVIOUS
  <1> DEFINE rest == T \ {x}
  <1>6. rest \in FiniteSubsetsOf(S)
    <2>1. IsFiniteSet(T) /\ T \in SUBSET S
      BY DEF FiniteSubsetsOf
    <2> QED
      BY <2>1, FS_Subset DEF FiniteSubsetsOf
  <1>7. rest \notin Lacking
    <2>1. <<rest, T>> \in StrictSubsetOrdering(S)
      BY <1>5, <1>6 DEF StrictSubsetOrdering, FiniteSubsetsOf
    <2> QED
      BY <1>4, <2>1
  <1>8. T \subseteq Nat /\ f \in [S -> Nat] /\ T \subseteq S
    BY DEF FiniteSubsetsOf
  <1>9. CASE rest = {}
    <2>1. IsFirstGreatest(x, T, f)
      BY <1>5, <1>8, <1>9 DEF IsFirstGreatest
    <2> QED
      BY <1>5, <2>1
  <1>10. CASE rest # {}
    <2>1. PICK i \in rest : IsFirstGreatest(i, rest, f)
      BY <1>6, <1>7, <1>10
    <2>2. IsFirstGreatest(i, T, f) \/ IsFirstGreatest(x, T, f)
      BY <1>5, <1>8, <2>1 DEF IsFirstGreatest
    <2> QED
      BY <1>5, <2>1, <2>2
  <1> QED
    BY <1>9, <1>10

\* There is only one.
LEMMA FirstGreatestUnique ==
  ASSUME NEW S, S \subseteq Nat, NEW f \in [S -> Nat], NEW i, NEW j,
         IsFirstGreatest(i, S, f), IsFirstGreatest(j, S, f)
  PROVE  i = j
  BY DEF IsFirstGreatest

\* A non-empty set of positions has a first.
LEMMA FirstExists ==
  ASSUME NEW n \in Nat, NEW S, S \subseteq 1..n, S # {}
  PROVE  \E i \in S : \A j \in S : i <= j
  <1> DEFINE zero == [i \in S |-> 0]
  <1>1. IsFiniteSet(S)
    <2>1. IsFiniteSet(1..n) /\ S \in SUBSET (1..n)
      BY FS_Interval
    <2> QED
      BY <2>1, FS_Subset
  <1>2. S \subseteq Nat /\ zero \in [S -> Nat]
    OBVIOUS
  <1>3. PICK i \in S : IsFirstGreatest(i, S, zero)
    <2> HIDE DEF zero
    <2> QED
      BY <1>1, <1>2, FirstGreatestExists
  <1> QED
    BY <1>3 DEF IsFirstGreatest

----------------------------------------------------------------------------
(* Induction and recursion over the numbers up to n, from the least        *)
(* element of a set: the library's theorems on them take an operator.      *)

\* A non-empty set of natural numbers has a least.
LEMMA LeastExists ==
  ASSUME NEW S, S \subseteq Nat, S # {}
  PROVE  \E i \in S : \A j \in S : i <= j
  <1>1. PICK s \in S : TRUE
    OBVIOUS
  <1> DEFINE upTo == {i + 1 : i \in {j \in S : j <= s}}
  <1>2. upTo \subseteq 1..(s + 1) /\ s + 1 \in upTo
    BY <1>1
  <1>3. PICK k \in upTo : \A j \in upTo : k <= j
    <2> HIDE DEF upTo
    <2>1. s + 1 \in Nat
      BY <1>1
    <2> QED
      BY <1>2, <2>1, FirstExists
  <1>4. k - 1 \in S /\ k - 1 <= s
    BY <1>3
  <1>5. \A j \in S : j <= s => j + 1 \in upTo
    OBVIOUS
  <1>6. k \in Nat
    BY <1>2, <1>3
  <1> HIDE DEF upTo
  <1>7. ASSUME NEW j \in S PROVE k - 1 <= j
    <2>1. CASE j <= s
      <3>1. k <= j + 1
        BY <1>3, <1>5, <2>1
      <3> QED
        BY <1>6, <3>1
    <2>2. CASE ~(j <= s)
      BY <1>4, <1>6, <2>2
    <2> QED
      BY <2>1, <2>2
  <1> QED
    BY <1>4, <1>7

\* Induction up to n, for a property given as the set of those that have it.
LEMMA IntervalInduction ==
  ASSUME NEW n \in Nat, NEW S, 0 \in S,
         \A k \in 0..n : k # n /\ k \in S => k + 1 \in S
  PROVE  \A k \in 0..n : k \in S
  <1> DEFINE lacking == {k \in 0..n : k \notin S}
  <1>1. SUFFICES ASSUME lacking # {} PROVE FALSE
    OBVIOUS
  <1>2. PICK k \in lacking : \A j \in lacking : k <= j
    <2>1. lacking \subseteq Nat
      OBVIOUS
    <2> HIDE DEF lacking
    <2> QED
      BY <1>1, <2>1, LeastExists
  <1>3. k \in 0..n /\ k # 0 /\ k \notin S
    BY <1>2
  <1>4. k - 1 \in 0..n /\ k - 1 # n /\ k - 1 \in S
    BY <1>2, <1>3
  <1>5. (k - 1) + 1 = k
    BY <1>3
  <1> QED
    BY <1>3, <1>4, <1>5

\* A sequence that each step makes greater grows.
LEMMA StepsGrow ==
  ASSUME NEW n \in Nat, NEW f \in [1..n -> Nat],
         \A k \in 1..n : k # n => f[k] < f[k + 1]
  PROVE  \A i, j \in 1..n : i < j => f[i] < f[j]
  <1> DEFINE S == {d \in 0..n : \A i \in 1..n : i + d + 1 <= n => f[i] < f[i + d + 1]}
  <1>1. 0 \in S
    OBVIOUS
  <1>2. ASSUME NEW d \in 0..n, d # n, d \in S
        PROVE  d + 1 \in S
    <2> SUFFICES ASSUME NEW i \in 1..n, i + (d + 1) + 1 <= n
                 PROVE  f[i] < f[i + (d + 1) + 1]
      BY <1>2
    <2>1. f[i] < f[i + d + 1]
      BY <1>2
    <2>2. i + d + 1 \in 1..n /\ i + d + 1 # n /\ i + (d + 1) + 1 = (i + d + 1) + 1
      BY <1>2
    <2>3. f[i + d + 1] < f[(i + d + 1) + 1]
      BY <2>2
    <2>4. f[i] \in Nat /\ f[i + d + 1] \in Nat /\ f[(i + d + 1) + 1] \in Nat
      BY <2>2
    <2> QED
      BY <2>1, <2>2, <2>3, <2>4
  <1>3. \A d \in 0..n : d \in S
    <2> HIDE DEF S
    <2> QED
      BY <1>1, <1>2, IntervalInduction
  <1> SUFFICES ASSUME NEW i \in 1..n, NEW j \in 1..n, i < j
               PROVE  f[i] < f[j]
    OBVIOUS
  <1>4. (j - i) - 1 \in 0..n /\ i + ((j - i) - 1) + 1 = j
    OBVIOUS
  <1>5. PICK d \in S : i + d + 1 = j
    <2> HIDE DEF S
    <2> QED
      BY <1>3, <1>4
  <1>6. f[i] < f[i + d + 1]
    BY <1>5
  <1> QED
    BY <1>5, <1>6

\* f[k] is what the first k of the steps make of base.
Repeats(f, n, base, step) ==
  f[0] = base /\ \A k \in 0..n : k # n => f[k + 1] = step[k][f[k]]

LEMMA IntervalRecursion ==
  ASSUME NEW n \in Nat, NEW D, NEW base \in D, NEW step \in [0..n -> [D -> D]]
  PROVE  \E f \in [0..n -> D] : Repeats(f, n, base, step)
  <1> DEFINE Up(f, m) == /\ f \in [0..m -> D] /\ f[0] = base
                         /\ \A k \in 0..m : k # m => f[k + 1] = step[k][f[k]]
             S == {m \in 0..n : \E f : Up(f, m)}
  <1>1. 0 \in S
    <2> DEFINE g == [k \in 0..0 |-> base]
    <2>1. Up(g, 0)
      OBVIOUS
    <2>2. 0 \in 0..n
      OBVIOUS
    <2> HIDE DEF Up, g
    <2> QED
      BY <2>1, <2>2
  <1>2. ASSUME NEW m \in 0..n, m # n, m \in S
        PROVE  m + 1 \in S
    <2>1. PICK f : Up(f, m)
      BY <1>2
    <2> DEFINE g == [k \in 0..(m + 1) |-> IF k = m + 1 THEN step[m][f[m]] ELSE f[k]]
    <2>2. step[m][f[m]] \in D
      BY <2>1
    <2>3. g \in [0..(m + 1) -> D]
      BY <2>1, <2>2
    <2>4. g[0] = base
      BY <2>1
    <2>5. ASSUME NEW k \in 0..(m + 1), k # m + 1
          PROVE  g[k + 1] = step[k][g[k]]
      <3>1. CASE k = m
        BY <3>1
      <3>2. CASE k # m
        BY <2>1, <2>5, <3>2
      <3> QED
        BY <3>1, <3>2
    <2> HIDE DEF g
    <2>6. Up(g, m + 1)
      BY <2>3, <2>4, <2>5
    <2> QED
      BY <1>2, <2>6
  <1>3. n \in S
    <2> HIDE DEF S
    <2>1. \A k \in 0..n : k \in S
      BY <1>1, <1>2, IntervalInduction
    <2> QED
      BY <2>1
  <1> QED
    BY <1>3 DEF Repeats
=============================================================================
