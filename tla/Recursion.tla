----------------------------- MODULE Recursion ------------------------------
(***************************************************************************)
(* Facts about natural numbers and recursive functions that the proofs of  *)
(* this project share.  Induction takes the form of the least natural      *)
(* number that is a counterexample, and what recursion passes on is given  *)
(* by functions, so that the facts can be cited by name.                   *)
(***************************************************************************)
EXTENDS Integers, FiniteSetsExt, WellFoundedInduction, FiniteSetTheorems, TLAPS

\* A set of natural numbers has a least element.
LEMMA LeastNatural ==
  ASSUME NEW T \in SUBSET Nat, T # {}
  PROVE  \E n \in T : \A m \in T : n <= m
<1> DEFINE less == {ss \in Nat \X Nat : ss[1] < ss[2]}
<1>1. IsWellFoundedOn(less, Nat)
  BY NatLessThanWellFounded DEF OpToRel
<1>2. PICK n \in T : \A m \in T : ~(<<m, n>> \in less)
  <2> HIDE DEF less
  <2> QED
    BY <1>1, WFMin
<1>3. \A m \in T : ~(m < n)
  BY <1>2
<1> QED
  BY <1>3

\* A nonempty set of natural numbers has a smallest element, which is Min's.
LEMMA MinInSet ==
  ASSUME NEW S \in SUBSET Nat, S # {}
  PROVE  Min(S) \in S /\ \A y \in S : Min(S) <= y
<1>1. PICK x \in S : \A y \in S : x <= y
  BY LeastNatural
<1> QED
  BY <1>1 DEF Min

\* A nonempty bounded set of natural numbers has a greatest element, Max's.
LEMMA MaxInSet ==
  ASSUME NEW S \in SUBSET Nat, S # {}, NEW n \in Nat, \A y \in S : y <= n
  PROVE  Max(S) \in S /\ \A y \in S : y <= Max(S)
<1> DEFINE B == {b \in Nat : \A y \in S : y <= b}
<1>1. B \in SUBSET Nat /\ B # {}
  OBVIOUS
<1>2. Min(B) \in B /\ \A b \in B : Min(B) <= b
  BY <1>1, MinInSet
<1>3. PICK m \in Nat : m = Min(B)
  BY <1>2
<1>4. m \in S
  <2> SUFFICES ASSUME m \notin S PROVE FALSE
    OBVIOUS
  <2>1. \A y \in S : y <= m - 1
    BY <1>2, <1>3
  <2>2. PICK y \in S : y <= m - 1
    BY <2>1
  <2>3. m - 1 \in B
    BY <2>1, <2>2
  <2> QED
    BY <2>3, <1>2, <1>3
<1>5. \A y \in S : y <= m
  BY <1>2, <1>3
<1> QED
  BY <1>4, <1>5 DEF Max

\* A set that has every number up to N if it has all greater ones has them all.
LEMMA Downwards ==
  ASSUME NEW N \in Nat, NEW S,
         \A n \in 0..N : (\A m \in 0..N : m > n => m \in S) => n \in S
  PROVE  0..N \subseteq S
<1> SUFFICES ASSUME NEW b \in 0..N, b \notin S
             PROVE  FALSE
  OBVIOUS
<1> DEFINE T == {j \in Nat : j <= N /\ (N - j) \notin S}
<1>1. N - b \in T
  OBVIOUS
<1>2. PICK j \in T : \A i \in T : j <= i
  <2> HIDE DEF T
  <2>1. T \in SUBSET Nat
    BY DEF T
  <2> QED
    BY <1>1, <2>1, LeastNatural
<1>3. ASSUME NEW m \in 0..N, m > N - j PROVE m \in S
  <2>1. N - m \in Nat /\ N - m < j /\ N - (N - m) = m
    BY <1>2, <1>3
  <2> QED
    BY <1>2, <2>1
<1>4. N - j \in 0..N
  BY <1>2
<1> QED
  BY <1>2, <1>3, <1>4

\* Induction along a measure.
LEMMA MeasuredInduction ==
  ASSUME NEW D, NEW measure \in [D -> Nat], NEW S,
         \A x \in D :
           (\A y \in D : measure[y] < measure[x] => y \in S) => x \in S
  PROVE  D \subseteq S
<1> SUFFICES ASSUME NEW b \in D, b \notin S PROVE FALSE
  OBVIOUS
<1> DEFINE T == {i \in Nat : \E x \in D : measure[x] = i /\ x \notin S}
<1>1. PICK i \in T : \A j \in T : i <= j
  <2>1. measure[b] \in T
    OBVIOUS
  <2>2. T \in SUBSET Nat /\ T # {}
    BY <2>1
  <2> HIDE DEF T
  <2> QED
    BY <2>2, LeastNatural
<1>2. PICK x \in D : measure[x] = i /\ x \notin S
  BY <1>1
<1>3. ASSUME NEW y \in D, measure[y] < measure[x] PROVE y \in S
  <2> SUFFICES ASSUME y \notin S PROVE FALSE
    OBVIOUS
  <2>1. measure[y] \in T /\ measure[y] \in Nat /\ measure[x] \in Nat
    OBVIOUS
  <2> QED
    BY <1>1, <1>2, <1>3, <2>1
<1> QED
  BY <1>2, <1>3

\* f follows next from everything in D until it is in stop.
Follows(f, D, stop, next, base, step) ==
    f = [n \in D |-> IF n \in stop THEN base[n] ELSE step[n][f[next[n]]]]

\* next lowers a measure.
Falls(D, stop, next, measure) ==
    \A n \in D : n \notin stop =>
        next[n] \in D /\ measure[next[n]] < measure[n]

\* next leads upwards.
Upward(D, stop, next) ==
    \A n \in D : n \notin stop => next[n] \in D /\ next[n] > n

\* What R says is true of base and passed on by step.
Passes(D, stop, next, base, step, R) ==
    /\ \A n \in D : n \in stop => base[n] \in R[n]
    /\ \A n \in D : n \notin stop =>
         \A x \in R[next[n]] : step[n][x] \in R[n]

\* Such a function exists, and what base and step pass on is true of it.
LEMMA MeasuredRecursion ==
  ASSUME NEW N \in Nat, NEW D, NEW measure \in [D -> 0..N],
         NEW stop, NEW next, NEW base, NEW step, NEW R,
         Falls(D, stop, next, measure), Passes(D, stop, next, base, step, R)
  PROVE  /\ \E f : Follows(f, D, stop, next, base, step)
         /\ \A f : Follows(f, D, stop, next, base, step) =>
              \A n \in D : f[n] \in R[n]
<1>1. ASSUME NEW f, Follows(f, D, stop, next, base, step)
      PROVE  \A n \in D : f[n] \in R[n]
  <2> DEFINE S == {n \in D : f[n] \in R[n]}
  <2>1. ASSUME NEW n \in D, \A y \in D : measure[y] < measure[n] => y \in S
        PROVE  n \in S
    <3>1. f[n] = IF n \in stop THEN base[n] ELSE step[n][f[next[n]]]
      BY <1>1 DEF Follows
    <3>2. CASE n \in stop
      BY <3>1, <3>2 DEF Passes
    <3>3. CASE n \notin stop
      <4>1. next[n] \in D /\ measure[next[n]] < measure[n]
        BY <3>3 DEF Falls
      <4>2. f[next[n]] \in R[next[n]]
        BY <2>1, <4>1
      <4> QED
        BY <3>1, <3>3, <4>2 DEF Passes
    <3> QED
      BY <3>2, <3>3
  <2>2. measure \in [D -> Nat]
    OBVIOUS
  <2>3. D \subseteq S
    <3> HIDE DEF S
    <3> QED
      BY <2>1, <2>2, MeasuredInduction
  <2> QED
    BY <2>3
<1>2. \E f : Follows(f, D, stop, next, base, step)
  <2> DEFINE Below(m) == {n \in D : measure[n] < m}
             Part(f, m) ==
               f = [n \in Below(m) |->
                      IF n \in stop THEN base[n] ELSE step[n][f[next[n]]]]
  <2>1. \A m \in Nat : \E f : Part(f, m)
    <3> SUFFICES ASSUME NEW b \in Nat, ~\E f : Part(f, b) PROVE FALSE
      OBVIOUS
    <3> DEFINE T == {m \in Nat : ~\E f : Part(f, m)}
    <3>1. PICK m \in T : \A j \in T : m <= j
      <4> HIDE DEF Part
      <4>1. b \in T /\ T \in SUBSET Nat
        OBVIOUS
      <4> HIDE DEF T
      <4> QED
        BY <4>1, LeastNatural
    <3>2. m \in Nat
      OBVIOUS
    <3>3. m # 0
      <4> SUFFICES ASSUME m = 0 PROVE FALSE
        OBVIOUS
      <4> DEFINE empty == [n \in {} |-> 0]
      <4>1. Below(m) = {}
        OBVIOUS
      <4>2. Part(empty, m)
        BY <4>1
      <4> HIDE DEF Part
      <4> QED
        BY <4>2
    <3>4. PICK f : Part(f, m - 1)
      <4>1. m - 1 \in Nat /\ ~(m <= m - 1)
        BY <3>2, <3>3
      <4>2. m - 1 \notin T
        BY <3>1, <4>1
      <4> HIDE DEF Part
      <4> QED
        BY <4>1, <4>2
    <3> DEFINE g == [n \in Below(m) |->
                       IF n \in stop THEN base[n] ELSE step[n][f[next[n]]]]
    <3>5. ASSUME NEW n \in Below(m), n \notin stop
          PROVE  g[next[n]] = f[next[n]]
      <4>1. /\ next[n] \in D /\ measure[next[n]] < measure[n]
            /\ measure[next[n]] \in Nat /\ measure[n] \in Nat /\ measure[n] < m
        BY <3>5 DEF Falls
      <4>2. measure[next[n]] < m /\ measure[next[n]] < m - 1
        BY <3>2, <4>1
      <4>3. next[n] \in Below(m) /\ next[n] \in Below(m - 1)
        BY <4>1, <4>2
      <4>4. f[next[n]] = IF next[n] \in stop THEN base[next[n]]
                           ELSE step[next[n]][f[next[next[n]]]]
        BY <3>4, <4>3
      <4> QED
        BY <4>3, <4>4
    <3>6. Part(g, m)
      BY <3>5
    <3>7. \E h : Part(h, m)
      BY <3>6
    <3> HIDE DEF Part
    <3> QED
      BY <3>7
  <2>2. PICK f : Part(f, N + 1)
    <3> HIDE DEF Part
    <3> QED
      BY <2>1
  <2>3. Below(N + 1) = D
    OBVIOUS
  <2> QED
    BY <2>2, <2>3 DEF Follows
<1> QED
  BY <1>1, <1>2

\* In particular when D is a set of numbers up to N and next leads upwards.
LEMMA UpwardRecursion ==
  ASSUME NEW N \in Nat, NEW D \in SUBSET (0..N),
         NEW stop, NEW next, NEW base, NEW step, NEW R,
         Upward(D, stop, next), Passes(D, stop, next, base, step, R)
  PROVE  /\ \E f : Follows(f, D, stop, next, base, step)
         /\ \A f : Follows(f, D, stop, next, base, step) =>
              \A n \in D : f[n] \in R[n]
<1> DEFINE measure == [n \in D |-> N - n]
<1>1. measure \in [D -> 0..N]
  OBVIOUS
<1>2. Falls(D, stop, next, measure)
  <2> SUFFICES ASSUME NEW n \in D, n \notin stop
               PROVE  next[n] \in D /\ measure[next[n]] < measure[n]
    BY DEF Falls
  <2>1. next[n] \in D /\ next[n] > n
    BY DEF Upward
  <2>2. n \in 0..N /\ next[n] \in 0..N
    BY <2>1
  <2> QED
    BY <2>1, <2>2
<1> HIDE DEF measure
<1> QED
  BY <1>1, <1>2, MeasuredRecursion

-----------------------------------------------------------------------------
(* Loops that count from 1 to N.                                           *)

\* A set that has 0, and every number up to N if it has the one before.
LEMMA Upwards ==
  ASSUME NEW N \in Nat, NEW S, 0 \in S, \A n \in 1..N : n - 1 \in S => n \in S
  PROVE  0..N \subseteq S
<1> DEFINE D == 0..N
           measure == [n \in D |-> n]
<1>1. measure \in [D -> Nat]
  OBVIOUS
<1>2. ASSUME NEW x \in D, \A y \in D : measure[y] < measure[x] => y \in S
      PROVE  x \in S
  <2>1. CASE x = 0
    BY <2>1
  <2>2. CASE x # 0
    <3>1. x \in 1..N /\ x - 1 \in D /\ x - 1 < x
      BY <2>2
    <3> QED
      BY <1>2, <3>1
  <2> QED
    BY <2>1, <2>2
<1> HIDE DEF D, measure
<1>3. D \subseteq S
  BY <1>1, <1>2, MeasuredInduction
<1> QED
  BY <1>3 DEF D

\* f has the results of a loop's first n rounds, for every n up to N.
LoopValues(f, N, base, step) ==
    f = [n \in 0..N |-> IF n = 0 THEN base ELSE step[n][f[n - 1]]]

\* There is such a function, with its values in X.
LEMMA LoopResults ==
  ASSUME NEW N \in Nat, NEW X, NEW base \in X, NEW step \in [1..N -> [X -> X]]
  PROVE  \E f \in [0..N -> X] : LoopValues(f, N, base, step)
<1> DEFINE D == 0..N
           measure == [n \in D |-> n]
           stop == {0}
           next == [n \in D |-> n - 1]
           first == [n \in D |-> base]
           R == [n \in D |-> X]
<1>1. measure \in [D -> 0..N] /\ D \subseteq Nat
  OBVIOUS
<1>2. \A n \in D : n # 0 => n \in 1..N /\ n - 1 \in D /\ n - 1 < n
  OBVIOUS
<1>3. Falls(D, stop, next, measure)
  BY <1>2 DEF Falls
<1>4. Passes(D, stop, next, first, step, R)
  BY <1>2 DEF Passes
<1>5. ASSUME NEW f
      PROVE  Follows(f, D, stop, next, first, step) <=>
               LoopValues(f, N, base, step)
  <2>1. \A n \in D : IF n \in stop THEN first[n] = base /\ n = 0
                                   ELSE n # 0 /\ next[n] = n - 1
    OBVIOUS
  <2>2. [n \in D |-> IF n \in stop THEN first[n] ELSE step[n][f[next[n]]]]
          = [n \in D |-> IF n = 0 THEN base ELSE step[n][f[n - 1]]]
    BY <2>1
  <2> QED
    BY <2>2 DEF Follows, LoopValues
<1>6. ASSUME NEW f, LoopValues(f, N, base, step), \A n \in D : f[n] \in R[n]
      PROVE  f \in [0..N -> X]
  <2>1. f = [n \in D |-> f[n]]
    BY <1>6 DEF LoopValues
  <2> QED
    BY <1>6, <2>1
<1> HIDE DEF D, measure, stop, next, first, R
<1>7. /\ \E f : Follows(f, D, stop, next, first, step)
      /\ \A f : Follows(f, D, stop, next, first, step) =>
           \A n \in D : f[n] \in R[n]
  BY <1>1, <1>3, <1>4, MeasuredRecursion
<1> QED
  BY <1>5, <1>6, <1>7

-----------------------------------------------------------------------------
(* Finite sets in a strict total order R, a set of pairs.                  *)

TotalOrder(R, S) ==
    /\ \A x \in S : <<x, x>> \notin R
    /\ \A x, y \in S : x = y \/ <<x, y>> \in R \/ <<y, x>> \in R
    /\ \A x, y, z \in S : <<x, y>> \in R /\ <<y, z>> \in R => <<x, z>> \in R

\* The elements of S, in order.
Enumerates(f, S, R) ==
    /\ f \in [1..Cardinality(S) -> S]
    /\ \A i, j \in 1..Cardinality(S) : i < j => <<f[i], f[j]>> \in R

\* m comes last among the elements of S.
Greatest(m, S, R) == m \in S /\ \A x \in S \ {m} : <<x, m>> \in R

\* A finite set that is not empty has a greatest element.
LEMMA GreatestElement ==
  ASSUME NEW R, NEW S, IsFiniteSet(S), S # {}, TotalOrder(R, S)
  PROVE  \E m : Greatest(m, S, R)
<1> DEFINE D == {x \in SUBSET S : x # {}}
           measure == [x \in D |-> Cardinality(x)]
           Good == {x \in D : \E m \in x : \A y \in x \ {m} : <<y, m>> \in R}
<1>1. \A x \in SUBSET S : IsFiniteSet(x) /\ Cardinality(x) \in Nat
  BY FS_Subset, FS_CardinalityType
<1>2. measure \in [D -> Nat]
  BY <1>1
<1>3. ASSUME NEW x \in D, \A y \in D : measure[y] < measure[x] => y \in Good
      PROVE  x \in Good
  <2>1. PICK a \in x : TRUE
    OBVIOUS
  <2>2. PICK y : y = x \ {a}
    OBVIOUS
  <2>3. CASE y = {}
    BY <2>1, <2>2, <2>3
  <2>4. CASE y # {}
    <3>1. y \in D
      BY <2>2, <2>4
    <3>2. Cardinality(y) = Cardinality(x) - 1
      BY <1>1, <2>1, <2>2, FS_RemoveElement
    <3>3. measure[y] < measure[x]
      BY <1>1, <3>1, <3>2
    <3>4. PICK m \in y : \A z \in y \ {m} : <<z, m>> \in R
      BY <1>3, <3>1, <3>3
    <3>5. a \in S /\ m \in S /\ m # a /\ \A z \in y : z \in S
      BY <2>1, <2>2, <3>4
    <3>6. CASE <<a, m>> \in R
      BY <2>2, <3>4, <3>6
    <3>7. CASE <<m, a>> \in R
      <4>1. \A z \in y : <<z, a>> \in R
        BY <3>4, <3>5, <3>7 DEF TotalOrder
      <4> QED
        BY <2>1, <2>2, <4>1
    <3> QED
      BY <3>5, <3>6, <3>7 DEF TotalOrder
  <2> QED
    BY <2>3, <2>4
<1>4. D \subseteq Good
  <2> HIDE DEF D, measure, Good
  <2> QED
    BY <1>2, <1>3, MeasuredInduction
<1>5. S \in D
  OBVIOUS
<1> QED
  BY <1>4, <1>5 DEF Greatest

\* A finite set can be put in order, ...
LEMMA Enumeration ==
  ASSUME NEW R, NEW S, IsFiniteSet(S), TotalOrder(R, S)
  PROVE  \E f : Enumerates(f, S, R)
<1> DEFINE D == SUBSET S
           measure == [x \in D |-> Cardinality(x)]
           Good == {x \in D : \E f : Enumerates(f, x, R)}
<1>1. \A x \in D : IsFiniteSet(x) /\ Cardinality(x) \in Nat
  BY FS_Subset, FS_CardinalityType
<1>2. measure \in [D -> Nat]
  BY <1>1
<1>3. ASSUME NEW x \in D, \A y \in D : measure[y] < measure[x] => y \in Good
      PROVE  x \in Good
  <2>1. CASE x = {}
    <3>1. 1..Cardinality(x) = {}
      BY <2>1, FS_EmptySet
    <3>2. Enumerates([i \in {} |-> 0], x, R)
      BY <3>1 DEF Enumerates
    <3> QED
      BY <3>2
  <2>2. CASE x # {}
    <3>1. PICK m \in x : \A z \in x \ {m} : <<z, m>> \in R
      <4>1. TotalOrder(R, x)
        BY DEF TotalOrder
      <4> QED
        BY <1>1, <2>2, <4>1, GreatestElement DEF Greatest
    <3>2. PICK y : y = x \ {m}
      OBVIOUS
    <3>3. PICK n \in Nat : n = Cardinality(x)
      BY <1>1
    <3>4. n # 0 /\ Cardinality(y) = n - 1 /\ y \in D
      BY <1>1, <2>2, <3>1, <3>2, <3>3, FS_RemoveElement, FS_EmptySet
    <3>5. PICK f : Enumerates(f, y, R)
      <4>1. measure[y] < measure[x]
        BY <3>3, <3>4
      <4>2. y \in Good
        BY <1>3, <3>4, <4>1
      <4> HIDE DEF Enumerates
      <4> QED
        BY <4>2
    <3> DEFINE g == [i \in 1..n |-> IF i = n THEN m ELSE f[i]]
    <3>6. \A i \in 1..n : i # n => i \in 1..n - 1 /\ f[i] \in y
      BY <3>4, <3>5 DEF Enumerates
    <3>7. g \in [1..n -> x]
      BY <3>1, <3>2, <3>6
    <3>8. ASSUME NEW i \in 1..n, NEW j \in 1..n, i < j
          PROVE  <<g[i], g[j]>> \in R
      <4>1. i # n /\ i \in 1..n - 1 /\ f[i] \in y
        BY <3>6, <3>8
      <4>2. CASE j = n
        BY <3>1, <3>2, <4>1, <4>2
      <4>3. CASE j # n
        BY <3>4, <3>5, <3>6, <3>8, <4>1, <4>3 DEF Enumerates
      <4> QED
        BY <4>2, <4>3
    <3>9. Enumerates(g, x, R)
      BY <3>3, <3>7, <3>8 DEF Enumerates
    <3> QED
      BY <3>9
  <2> QED
    BY <2>1, <2>2
<1>4. D \subseteq Good
  <2> HIDE DEF D, measure, Good
  <2> QED
    BY <1>2, <1>3, MeasuredInduction
<1> QED
  BY <1>4

\* ... and then none of its elements is missing.
LEMMA EnumeratesAll ==
  ASSUME NEW R, NEW S, IsFiniteSet(S), TotalOrder(R, S), NEW f,
         Enumerates(f, S, R)
  PROVE  \A x \in S : \E i \in 1..Cardinality(S) : f[i] = x
<1>1. PICK n \in Nat : n = Cardinality(S)
  BY FS_CardinalityType
<1>2. ASSUME NEW i \in 1..n, NEW j \in 1..n, f[i] = f[j]
      PROVE  i = j
  <2>1. ~(i < j) /\ ~(j < i)
    BY <1>1, <1>2 DEF Enumerates, TotalOrder
  <2> QED
    BY <2>1
<1>3. f \in Injection(1..n, S)
  BY <1>1, <1>2 DEF Injection, IsInjective, Enumerates
<1>4. Cardinality(1..n) = n
  BY FS_Interval
<1>5. f \in Surjection(1..n, S)
  BY <1>1, <1>3, <1>4, FS_Injection
<1> QED
  BY <1>1, <1>5 DEF Surjection

=============================================================================
