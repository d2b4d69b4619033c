---------------------------- MODULE SumTheorems ----------------------------
(***************************************************************************)
(* Lemmas on SumFunctionOnSet, for functions to the natural numbers.  The  *)
(* community module defines it by recursion over the subsets of a set:     *)
(* first, that there is such a function; then that a sum is split at any   *)
(* element; then what the sums over 0 .. n - 1 are, which is how many      *)
(* requests were admitted in the last n ticks.                             *)
(*                                                                         *)
(* Induction is over a set of numbers, not over a formula.                 *)
(***************************************************************************)
EXTENDS Integers, Functions, FiniteSetTheorems, WellFoundedInduction, TLAPS

\* A set that has 0 and every successor has every number.
LEMMA SetInduction ==
    ASSUME NEW S, 0 \in S, \A n \in Nat : n \in S => n + 1 \in S
    PROVE  Nat \subseteq S
<1> DEFINE Missing == Nat \ S
<1>1. ASSUME Missing # {} PROVE FALSE
  <2>1. PICK x \in Missing : \A y \in Missing : ~(<<y, x>> \in OpToRel(<, Nat))
    BY <1>1, NatLessThanWellFounded, WFMin
  <2>2. \A y \in Missing : ~(y < x)
    BY <2>1, Zenon DEF OpToRel
  <2>3. x \in Nat /\ x # 0 /\ x \notin S
    OBVIOUS
  <2>4. x - 1 \in Nat /\ x - 1 < x
    BY <2>3
  <2>5. x - 1 \in S
    BY <2>2, <2>4
  <2> QED
    BY <2>3, <2>4, <2>5
<1> QED
  BY <1>1

-----------------------------------------------------------------------------
(* The recursion.                                                           *)

First(s) == CHOOSE x \in s : TRUE

\* A step of the recursion for the set s, and a function that is a solution.
SumStep(f, g, s) == IF s = {} THEN 0 ELSE f[First(s)] + g[s \ {First(s)}]

Sums(f, S, g) == g = [s \in SUBSET S |-> SumStep(f, g, s)]

LEMMA SumIsChosen ==
    ASSUME NEW f, NEW S
    PROVE  SumFunctionOnSet(f, S) = (CHOOSE g : Sums(f, S, g))[S]
  BY DEF SumFunctionOnSet, FoldFunctionOnSet, MapThenFoldSet, Sums, SumStep, First

LEMMA FirstIn == ASSUME NEW s, s # {} PROVE First(s) \in s
  BY DEF First

\* A subset of a finite set with an element less.
LEMMA OneLess ==
    ASSUME NEW S, IsFiniteSet(S), NEW s \in SUBSET S, NEW x \in s
    PROVE  /\ IsFiniteSet(s) /\ Cardinality(s) \in Nat
           /\ s \ {x} \in SUBSET S
           /\ Cardinality(s \ {x}) = Cardinality(s) - 1 /\ Cardinality(s) >= 1
<1>1. IsFiniteSet(s) /\ Cardinality(s) \in Nat
  BY FS_Subset, FS_CardinalityType
<1>2. Cardinality(s \ {x}) = Cardinality(s) - 1 /\ IsFiniteSet(s \ {x})
  BY <1>1, FS_RemoveElement
<1>3. Cardinality(s \ {x}) \in Nat
  BY <1>2, FS_CardinalityType
<1> QED
  BY <1>1, <1>2, <1>3

\* There is a solution: one that is right for the sets of up to n elements is,
\* after a step of the recursion, right for those of n + 1.
LEMMA SumsExist ==
    ASSUME NEW S, IsFiniteSet(S), NEW f \in [S -> Nat]
    PROVE  \E g \in [SUBSET S -> Nat] : Sums(f, S, g)
<1> DEFINE Upto(n, g) == \A s \in SUBSET S : Cardinality(s) <= n => g[s] = SumStep(f, g, s)
           Reached == {n \in Nat : \E g \in [SUBSET S -> Nat] : Upto(n, g)}
<1>1. ASSUME NEW g \in [SUBSET S -> Nat], NEW s \in SUBSET S
      PROVE  SumStep(f, g, s) \in Nat
  <2>1. CASE s = {}
    BY <2>1 DEF SumStep
  <2>2. CASE s # {}
    <3>1. First(s) \in S /\ s \ {First(s)} \in SUBSET S
      BY <2>2, FirstIn
    <3> QED
      BY <2>2, <3>1 DEF SumStep
  <2> QED
    BY <2>1, <2>2
<1>2. 0 \in Reached
  <2> DEFINE g == [s \in SUBSET S |-> 0]
  <2>1. g \in [SUBSET S -> Nat]
    OBVIOUS
  <2>2. ASSUME NEW s \in SUBSET S, Cardinality(s) <= 0 PROVE g[s] = SumStep(f, g, s)
    <3>1. s = {}
      BY <2>2, FS_Subset, FS_CardinalityType, FS_EmptySet
    <3> QED
      BY <3>1 DEF SumStep
  <2> HIDE DEF g
  <2> QED
    BY <2>1, <2>2
<1>3. ASSUME NEW n \in Nat, n \in Reached PROVE n + 1 \in Reached
  <2>1. PICK g \in [SUBSET S -> Nat] : Upto(n, g)
    BY <1>3
  <2> DEFINE h == [s \in SUBSET S |-> SumStep(f, g, s)]
  <2>2. h \in [SUBSET S -> Nat]
    BY <1>1
  <2>3. \A s \in SUBSET S : h[s] = SumStep(f, g, s)
    OBVIOUS
  <2> HIDE DEF h
  <2>4. ASSUME NEW s \in SUBSET S, Cardinality(s) <= n + 1 PROVE h[s] = SumStep(f, h, s)
    <3>1. CASE s = {}
      BY <2>3, <3>1 DEF SumStep
    <3>2. CASE s # {}
      <4> DEFINE rest == s \ {First(s)}
      <4>1. First(s) \in s
        BY <3>2, FirstIn
      <4>2. rest \in SUBSET S /\ Cardinality(rest) <= n
        BY <2>4, <4>1, OneLess
      <4>3. h[rest] = g[rest]
        BY <2>1, <2>3, <4>2
      <4> QED
        BY <2>3, <3>2, <4>3 DEF SumStep
    <3> QED
      BY <3>1, <3>2
  <2> QED
    BY <2>2, <2>4
<1>4. Nat \subseteq Reached
  <2> HIDE DEF Reached
  <2> QED
    BY <1>2, <1>3, SetInduction
<1>5. Cardinality(S) \in Nat
  BY FS_CardinalityType
<1>6. PICK g \in [SUBSET S -> Nat] : Upto(Cardinality(S), g)
  BY <1>4, <1>5
<1>7. \A s \in SUBSET S : g[s] = SumStep(f, g, s)
  BY <1>6, FS_Subset
<1>8. g = [s \in SUBSET S |-> SumStep(f, g, s)]
  BY <1>7
<1> QED
  BY <1>8 DEF Sums

\* A sum over a part of S is what any solution for S has for it.
LEMMA SumOfPart ==
    ASSUME NEW S, IsFiniteSet(S), NEW f, NEW g, Sums(f, S, g), NEW T \in SUBSET S
    PROVE  SumFunctionOnSet(f, T) = g[T]
<1> DEFINE r == [s \in SUBSET T |-> g[s]]
           k == CHOOSE h : Sums(f, T, h)
<1>1. \A s \in SUBSET S : g[s] = SumStep(f, g, s)
  BY DEF Sums
<1>2. Sums(f, T, r)
  <2>1. ASSUME NEW s \in SUBSET T PROVE g[s] = SumStep(f, r, s)
    <3>1. CASE s = {}
      BY <1>1, <3>1 DEF SumStep
    <3>2. CASE s # {}
      <4>1. s \ {First(s)} \in SUBSET T /\ s \in SUBSET S
        OBVIOUS
      <4>2. r[s \ {First(s)}] = g[s \ {First(s)}]
        BY <4>1
      <4> QED
        BY <1>1, <3>2, <4>1, <4>2 DEF SumStep
    <3> QED
      BY <3>1, <3>2
  <2> QED
    BY <2>1 DEF Sums
<1>3. Sums(f, T, k)
  <2> HIDE DEF r
  <2> QED
    BY <1>2
<1> HIDE DEF r, k
<1>4. \A s \in SUBSET T : k[s] = SumStep(f, k, s)
  BY <1>3 DEF Sums
<1> DEFINE Agree == {n \in Nat : \A s \in SUBSET T : Cardinality(s) <= n => k[s] = g[s]}
<1>5. IsFiniteSet(T) /\ Cardinality(T) \in Nat
  BY FS_Subset, FS_CardinalityType
<1>6. 0 \in Agree
  <2>1. ASSUME NEW s \in SUBSET T, Cardinality(s) <= 0 PROVE k[s] = g[s]
    <3>1. s = {}
      BY <1>5, <2>1, FS_Subset, FS_CardinalityType, FS_EmptySet
    <3> QED
      BY <1>1, <1>4, <3>1 DEF SumStep
  <2> QED
    BY <2>1
<1>7. ASSUME NEW n \in Nat, n \in Agree PROVE n + 1 \in Agree
  <2>1. ASSUME NEW s \in SUBSET T, Cardinality(s) <= n + 1 PROVE k[s] = g[s]
    <3>1. CASE s = {}
      BY <1>1, <1>4, <3>1 DEF SumStep
    <3>2. CASE s # {}
      <4> DEFINE rest == s \ {First(s)}
      <4>1. First(s) \in s
        BY <3>2, FirstIn
      <4>2. rest \in SUBSET T /\ Cardinality(rest) <= n
        BY <1>5, <2>1, <4>1, OneLess
      <4>3. k[rest] = g[rest]
        BY <1>7, <4>2
      <4> QED
        BY <1>1, <1>4, <3>2, <4>3 DEF SumStep
    <3> QED
      BY <3>1, <3>2
  <2> QED
    BY <2>1
<1>8. Nat \subseteq Agree
  <2> HIDE DEF Agree
  <2> QED
    BY <1>6, <1>7, SetInduction
<1>9. k[T] = g[T]
  BY <1>5, <1>8
<1> QED
  BY <1>9, SumIsChosen DEF k

\* A sum is a number; that of nothing is 0; and it is split at any element.
LEMMA SumSplit ==
    ASSUME NEW S, IsFiniteSet(S), NEW f \in [S -> Nat], NEW T \in SUBSET S
    PROVE  /\ SumFunctionOnSet(f, T) \in Nat
           /\ T = {} => SumFunctionOnSet(f, T) = 0
           /\ \A y \in T : SumFunctionOnSet(f, T) = f[y] + SumFunctionOnSet(f, T \ {y})
<1>1. PICK g \in [SUBSET S -> Nat] : Sums(f, S, g)
  BY SumsExist
<1>2. \A s \in SUBSET S : SumFunctionOnSet(f, s) = g[s]
  BY <1>1, SumOfPart
<1>3. \A s \in SUBSET S : g[s] = SumStep(f, g, s) /\ g[s] \in Nat
  BY <1>1 DEF Sums
<1>4. \A x \in S : f[x] \in Nat
  OBVIOUS
<1> DEFINE Split == {n \in Nat : \A s \in SUBSET S : Cardinality(s) <= n =>
                                  \A y \in s : g[s] = f[y] + g[s \ {y}]}
<1>5. 0 \in Split
  <2>1. ASSUME NEW s \in SUBSET S, Cardinality(s) <= 0, NEW y \in s PROVE FALSE
    <3>1. Cardinality(s) \in Nat /\ Cardinality(s) >= 1
      BY OneLess
    <3> HIDE DEF Split
    <3> QED
      BY <2>1, <3>1
  <2> QED
    BY <2>1
<1>6. ASSUME NEW n \in Nat, n \in Split PROVE n + 1 \in Split
  <2>1. ASSUME NEW s \in SUBSET S, Cardinality(s) <= n + 1, NEW y \in s
        PROVE  g[s] = f[y] + g[s \ {y}]
    <3> DEFINE x == First(s)
    <3>1. x \in s /\ g[s] = f[x] + g[s \ {x}]
      BY <1>3, FirstIn DEF SumStep
    <3> HIDE DEF x
    <3>2. CASE y = x
      BY <3>1, <3>2
    <3>3. CASE y # x
      <4>1. /\ s \ {x} \in SUBSET S /\ Cardinality(s \ {x}) <= n /\ y \in s \ {x}
            /\ s \ {y} \in SUBSET S /\ Cardinality(s \ {y}) <= n /\ x \in s \ {y}
        BY <2>1, <3>1, <3>3, OneLess
      <4>2. /\ g[s \ {x}] = f[y] + g[(s \ {x}) \ {y}]
            /\ g[s \ {y}] = f[x] + g[(s \ {y}) \ {x}]
        BY <1>6, <4>1
      <4>3. (s \ {x}) \ {y} = (s \ {y}) \ {x} /\ (s \ {x}) \ {y} \in SUBSET S
        OBVIOUS
      <4>4. PICK a \in Nat, b \in Nat, c \in Nat :
              a = f[x] /\ b = f[y] /\ c = g[(s \ {x}) \ {y}]
        BY <1>3, <1>4, <3>1, <4>3
      <4>5. g[s \ {x}] = b + c /\ g[s \ {y}] = a + c
        BY <4>2, <4>3, <4>4
      <4>6. g[s] = a + (b + c)
        BY <3>1, <4>4, <4>5
      <4>7. a + (b + c) = b + (a + c)
        OBVIOUS
      <4> QED
        BY <4>4, <4>5, <4>6, <4>7
    <3> QED
      BY <3>2, <3>3
  <2> QED
    BY <2>1
<1>7. Nat \subseteq Split
  <2> HIDE DEF Split
  <2> QED
    BY <1>5, <1>6, SetInduction
<1>8. Cardinality(T) \in Nat
  BY FS_Subset, FS_CardinalityType
<1>9. \A y \in T : g[T] = f[y] + g[T \ {y}]
  BY <1>7, <1>8
<1>10. T = {} => g[T] = 0
  BY <1>3 DEF SumStep
<1> QED
  BY <1>2, <1>3, <1>9, <1>10

-----------------------------------------------------------------------------
(* Sums over the first numbers.                                             *)

SumBelow(f, n) == SumFunctionOnSet(f, 0 .. n - 1)

\* The sum grows by one value at a time.
LEMMA SumBelowNext ==
    ASSUME NEW N \in Nat, NEW f \in [0 .. N - 1 -> Nat]
    PROVE  /\ SumBelow(f, 0) = 0
           /\ \A n \in 0 .. N : SumBelow(f, n) \in Nat
           /\ \A n \in 0 .. N - 1 : SumBelow(f, n + 1) = SumBelow(f, n) + f[n]
<1> DEFINE S == 0 .. N - 1
<1>1. IsFiniteSet(S)
  BY FS_Interval
<1>2. 0 .. 0 - 1 = {} /\ 0 .. 0 - 1 \in SUBSET S
  OBVIOUS
<1>3. SumBelow(f, 0) = 0
  BY <1>1, <1>2, SumSplit DEF SumBelow
<1>4. ASSUME NEW n \in 0 .. N PROVE SumBelow(f, n) \in Nat
  <2>1. 0 .. n - 1 \in SUBSET S
    OBVIOUS
  <2> QED
    BY <1>1, <2>1, SumSplit DEF SumBelow
<1>5. ASSUME NEW n \in 0 .. N - 1 PROVE SumBelow(f, n + 1) = SumBelow(f, n) + f[n]
  <2> DEFINE T == 0 .. (n + 1) - 1
  <2>1. T \in SUBSET S /\ n \in T /\ T \ {n} = 0 .. n - 1
    OBVIOUS
  <2>2. SumFunctionOnSet(f, T) = f[n] + SumFunctionOnSet(f, T \ {n})
    <3> HIDE DEF S, T
    <3>1. f \in [S -> Nat]
      BY DEF S
    <3>2. \A y \in T : SumFunctionOnSet(f, T) = f[y] + SumFunctionOnSet(f, T \ {y})
      BY <1>1, <2>1, <3>1, SumSplit
    <3> QED
      BY <2>1, <3>2
  <2>3. SumBelow(f, n + 1) = f[n] + SumBelow(f, n)
    BY <2>1, <2>2 DEF SumBelow
  <2>4. SumBelow(f, n) \in Nat /\ f[n] \in Nat
    BY <1>4
  <2> QED
    BY <2>3, <2>4
<1> QED
  BY <1>3, <1>4, <1>5

\* A longer sum is at least as large.
LEMMA SumBelowMonotone ==
    ASSUME NEW N \in Nat, NEW f \in [0 .. N - 1 -> Nat], NEW m \in 0 .. N
    PROVE  \A n \in m .. N : SumBelow(f, m) <= SumBelow(f, n)
<1> DEFINE Holds == {k \in Nat : m + k <= N => SumBelow(f, m) <= SumBelow(f, m + k)}
<1>1. /\ \A n \in 0 .. N : SumBelow(f, n) \in Nat
      /\ \A n \in 0 .. N - 1 : SumBelow(f, n + 1) = SumBelow(f, n) + f[n]
  BY SumBelowNext
<1>2. 0 \in Holds
  <2>1. m + 0 = m /\ SumBelow(f, m) \in Nat
    BY <1>1
  <2> QED
    BY <2>1
<1>3. ASSUME NEW k \in Nat, k \in Holds PROVE k + 1 \in Holds
  <2>1. ASSUME m + (k + 1) <= N PROVE SumBelow(f, m) <= SumBelow(f, m + (k + 1))
    <3>1. SumBelow(f, m) <= SumBelow(f, m + k) /\ m + k \in 0 .. N - 1
      BY <1>3, <2>1
    <3>2. SumBelow(f, m + k) \in Nat /\ SumBelow(f, m) \in Nat /\ f[m + k] \in Nat
      BY <1>1, <3>1
    <3>3. SumBelow(f, (m + k) + 1) = SumBelow(f, m + k) + f[m + k]
      BY <1>1, <3>1
    <3>4. (m + k) + 1 = m + (k + 1)
      OBVIOUS
    <3>5. SumBelow(f, m + (k + 1)) = SumBelow(f, m + k) + f[m + k]
      BY <3>3, <3>4
    <3> HIDE DEF Holds
    <3> QED
      BY <3>1, <3>2, <3>5
  <2> QED
    BY <2>1
<1>4. Nat \subseteq Holds
  <2> HIDE DEF Holds
  <2> QED
    BY <1>2, <1>3, SetInduction
<1>5. ASSUME NEW n \in m .. N PROVE SumBelow(f, m) <= SumBelow(f, n)
  <2>1. n - m \in Nat /\ m + (n - m) = n
    OBVIOUS
  <2> QED
    BY <1>4, <2>1
<1> QED
  BY <1>5

\* Values that move up by one place take their sums with them.
LEMMA SumBelowShift ==
    ASSUME NEW N \in Nat, NEW f \in [0 .. N - 1 -> Nat], NEW h \in [0 .. N - 1 -> Nat],
           \A i \in 0 .. N - 1 : h[i] = IF i = 0 THEN 0 ELSE f[i - 1]
    PROVE  \A n \in 0 .. N - 1 : SumBelow(h, n + 1) = SumBelow(f, n)
<1> DEFINE Holds == {n \in Nat : n <= N - 1 => SumBelow(h, n + 1) = SumBelow(f, n)}
<1>1. /\ SumBelow(f, 0) = 0 /\ SumBelow(h, 0) = 0
      /\ \A n \in 0 .. N : SumBelow(f, n) \in Nat /\ SumBelow(h, n) \in Nat
      /\ \A n \in 0 .. N - 1 : SumBelow(f, n + 1) = SumBelow(f, n) + f[n]
      /\ \A n \in 0 .. N - 1 : SumBelow(h, n + 1) = SumBelow(h, n) + h[n]
  BY SumBelowNext
<1>2. 0 \in Holds
  <2>1. ASSUME 0 <= N - 1 PROVE SumBelow(h, 0 + 1) = SumBelow(f, 0)
    <3>1. SumBelow(h, 0 + 1) = SumBelow(h, 0) + h[0] /\ h[0] = 0
      BY <1>1, <2>1
    <3> QED
      BY <1>1, <3>1
  <2> QED
    BY <2>1
<1>3. ASSUME NEW n \in Nat, n \in Holds PROVE n + 1 \in Holds
  <2>1. ASSUME n + 1 <= N - 1 PROVE SumBelow(h, (n + 1) + 1) = SumBelow(f, n + 1)
    <3>1. n \in 0 .. N - 1 /\ n + 1 \in 0 .. N - 1
      BY <2>1
    <3>2. SumBelow(h, n + 1) = SumBelow(f, n)
      BY <1>3, <3>1
    <3>3. h[n + 1] = f[n]
      BY <3>1
    <3>4. SumBelow(h, (n + 1) + 1) = SumBelow(h, n + 1) + h[n + 1]
      BY <1>1, <3>1
    <3>5. SumBelow(f, n + 1) = SumBelow(f, n) + f[n]
      BY <1>1, <3>1
    <3> HIDE DEF Holds
    <3> QED
      BY <3>2, <3>3, <3>4, <3>5
  <2> QED
    BY <2>1
<1>4. Nat \subseteq Holds
  <2> HIDE DEF Holds
  <2> QED
    BY <1>2, <1>3, SetInduction
<1> QED
  BY <1>4

\* One more at 0 is one more in every sum but the empty one.
LEMMA SumBelowCount ==
    ASSUME NEW N \in Nat, NEW f \in [0 .. N - 1 -> Nat], NEW h \in [0 .. N - 1 -> Nat],
           \A i \in 0 .. N - 1 : h[i] = IF i = 0 THEN f[0] + 1 ELSE f[i]
    PROVE  \A n \in 0 .. N - 1 : SumBelow(h, n + 1) = SumBelow(f, n + 1) + 1
<1> DEFINE Holds == {n \in Nat : n <= N - 1 => SumBelow(h, n + 1) = SumBelow(f, n + 1) + 1}
<1>1. /\ SumBelow(f, 0) = 0 /\ SumBelow(h, 0) = 0
      /\ \A n \in 0 .. N : SumBelow(f, n) \in Nat /\ SumBelow(h, n) \in Nat
      /\ \A n \in 0 .. N - 1 : SumBelow(f, n + 1) = SumBelow(f, n) + f[n]
      /\ \A n \in 0 .. N - 1 : SumBelow(h, n + 1) = SumBelow(h, n) + h[n]
  BY SumBelowNext
<1>2. 0 \in Holds
  <2>1. ASSUME 0 <= N - 1 PROVE SumBelow(h, 0 + 1) = SumBelow(f, 0 + 1) + 1
    <3>1. 0 \in 0 .. N - 1 /\ f[0] \in Nat /\ h[0] = f[0] + 1
      BY <2>1
    <3>2. SumBelow(h, 0 + 1) = 0 + h[0] /\ SumBelow(f, 0 + 1) = 0 + f[0]
      BY <1>1, <3>1
    <3> QED
      BY <3>1, <3>2
  <2> QED
    BY <2>1
<1>3. ASSUME NEW n \in Nat, n \in Holds PROVE n + 1 \in Holds
  <2>1. ASSUME n + 1 <= N - 1 PROVE SumBelow(h, (n + 1) + 1) = SumBelow(f, (n + 1) + 1) + 1
    <3>1. n + 1 \in 0 .. N - 1 /\ n \in 0 .. N - 1 /\ n + 1 \in 0 .. N
      BY <2>1
    <3>2. SumBelow(h, n + 1) = SumBelow(f, n + 1) + 1
      BY <1>3, <3>1
    <3>3. h[n + 1] = f[n + 1] /\ f[n + 1] \in Nat /\ SumBelow(f, n + 1) \in Nat
      BY <1>1, <3>1
    <3>4. SumBelow(h, (n + 1) + 1) = SumBelow(h, n + 1) + h[n + 1]
      BY <1>1, <3>1
    <3>5. SumBelow(f, (n + 1) + 1) = SumBelow(f, n + 1) + f[n + 1]
      BY <1>1, <3>1
    <3> HIDE DEF Holds
    <3> QED
      BY <3>2, <3>3, <3>4, <3>5
  <2> QED
    BY <2>1
<1>4. Nat \subseteq Holds
  <2> HIDE DEF Holds
  <2> QED
    BY <1>2, <1>3, SetInduction
<1> QED
  BY <1>4

\* The sum of a function whose values are all 0 is 0.
LEMMA SumBelowNothing ==
    ASSUME NEW N \in Nat, NEW f \in [0 .. N - 1 -> Nat],
           \A i \in 0 .. N - 1 : f[i] = 0
    PROVE  \A n \in 0 .. N : SumBelow(f, n) = 0
<1> DEFINE Holds == {n \in Nat : n <= N => SumBelow(f, n) = 0}
<1>1. /\ SumBelow(f, 0) = 0
      /\ \A n \in 0 .. N - 1 : SumBelow(f, n + 1) = SumBelow(f, n) + f[n]
  BY SumBelowNext
<1>2. 0 \in Holds
  BY <1>1
<1>3. ASSUME NEW n \in Nat, n \in Holds PROVE n + 1 \in Holds
  <2>1. ASSUME n + 1 <= N PROVE SumBelow(f, n + 1) = 0
    <3>1. n \in 0 .. N - 1 /\ f[n] = 0 /\ SumBelow(f, n) = 0
      BY <1>3, <2>1
    <3> QED
      BY <1>1, <3>1
  <2> QED
    BY <2>1
<1>4. Nat \subseteq Holds
  <2> HIDE DEF Holds
  <2> QED
    BY <1>2, <1>3, SetInduction
<1> QED
  BY <1>4
=============================================================================
