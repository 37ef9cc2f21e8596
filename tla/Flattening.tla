----------------------------- MODULE Flattening -----------------------------
(***************************************************************************)
(* Facts about FlattenSeq, with which Replay puts the records of the       *)
(* segments together and the Iterator the entries of the blocks.           *)
(***************************************************************************)
EXTENDS Integers, Sequences, SequencesExt, Recursion

\* f holds the first i of seqs put together, for every i.
Flattens(f, seqs) ==
    /\ f = [i \in 0..Len(seqs) |-> f[i]]
    /\ f[0] = << >>
    /\ \A i \in 1..Len(seqs) : f[i] = f[i - 1] \o seqs[i]

\* The recursive function in the definition of FlattenSeq.
FlattenLoop(f, seqs, n) ==
    f = [i \in 1..n |-> IF i = 1 THEN seqs[i] ELSE f[i - 1] \o seqs[i]]

\* There is such a function.
LEMMA LoopExists ==
  ASSUME NEW seqs, NEW N \in Nat
  PROVE  \E f : FlattenLoop(f, seqs, N)
<1> DEFINE T == {n \in Nat : ~\E f : FlattenLoop(f, seqs, n)}
<1>1. SUFFICES ASSUME N \in T
               PROVE  FALSE
  <2> HIDE DEF FlattenLoop
  <2> QED
    OBVIOUS
<1>2. PICK n \in T : \A m \in T : n <= m
  <2>1. T \in SUBSET Nat /\ T # {}
    BY <1>1
  <2> HIDE DEF T
  <2> QED
    BY <2>1, LeastNatural
<1>3. n \in Nat /\ ~\E f : FlattenLoop(f, seqs, n)
  BY <1>2
<1>4. n # 0
  <2>1. FlattenLoop([i \in 1..0 |-> 0], seqs, 0)
    BY DEF FlattenLoop
  <2> QED
    BY <1>3, <2>1
<1>5. PICK f : FlattenLoop(f, seqs, n - 1)
  <2>1. n - 1 \in Nat /\ ~(n <= n - 1)
    BY <1>3, <1>4
  <2> HIDE DEF FlattenLoop
  <2> QED
    BY <1>2, <2>1
<1> DEFINE g == [i \in 1..n |-> IF i = 1 THEN seqs[i] ELSE f[i - 1] \o seqs[i]]
<1>6. ASSUME NEW i \in 1..n, i # 1
      PROVE  g[i - 1] = f[i - 1]
  <2>1. i - 1 \in 1..n /\ i - 1 \in 1..n - 1
    BY <1>3, <1>6
  <2>2. f[i - 1] = IF i - 1 = 1 THEN seqs[i - 1]
                   ELSE f[i - 1 - 1] \o seqs[i - 1]
    BY <1>5, <2>1 DEF FlattenLoop
  <2> QED
    BY <2>1, <2>2
<1>7. FlattenLoop(g, seqs, n)
  BY <1>6 DEF FlattenLoop
<1> QED
  BY <1>3, <1>7

\* FlattenSeq puts the sequences together one by one.
LEMMA FlattenSteps ==
  ASSUME NEW X, NEW seqs \in Seq(Seq(X))
  PROVE  \E f : Flattens(f, seqs) /\ FlattenSeq(seqs) = f[Len(seqs)]
<1>1. PICK n \in Nat : n = Len(seqs)
  OBVIOUS
<1>2. CASE n = 0
  <2> DEFINE f == [i \in 0..0 |-> << >>]
  <2>1. FlattenSeq(seqs) = seqs
    BY <1>1, <1>2 DEF FlattenSeq
  <2>2. seqs = << >>
    <3>1. ASSUME NEW S, NEW s \in Seq(S), Len(s) = 0
          PROVE  s = << >>
      BY <3>1
    <3> QED
      BY <1>1, <1>2, <3>1
  <2>3. Flattens(f, seqs)
    BY <1>1, <1>2 DEF Flattens
  <2> QED
    BY <1>1, <1>2, <2>1, <2>2, <2>3
<1>3. CASE n # 0
  <2> DEFINE h == CHOOSE h : FlattenLoop(h, seqs, n)
             f == [i \in 0..n |-> IF i = 0 THEN << >> ELSE h[i]]
  <2>1. FlattenLoop(h, seqs, n)
    <3> HIDE DEF FlattenLoop
    <3> QED
      BY LoopExists
  <2>2. FlattenSeq(seqs) = h[n]
    BY <1>1, <1>3 DEF FlattenSeq, FlattenLoop
  <2> HIDE DEF h
  <2>3. ASSUME NEW i \in 1..n
        PROVE  f[i] = f[i - 1] \o seqs[i]
    <3>1. seqs[i] \in Seq(X)
      BY <1>1
    <3>2. h[i] = IF i = 1 THEN seqs[i] ELSE h[i - 1] \o seqs[i]
      BY <2>1 DEF FlattenLoop
    <3>3. << >> \o seqs[i] = seqs[i]
      BY <3>1
    <3>4. i - 1 \in 0..n /\ i \in 0..n /\ i # 0
      BY <1>1
    <3>5. f[i] = h[i]
      BY <3>4
    <3>6. f[i - 1] = IF i = 1 THEN << >> ELSE h[i - 1]
      BY <3>4
    <3> HIDE DEF f
    <3>7. CASE i = 1
      BY <3>2, <3>3, <3>5, <3>6, <3>7
    <3>8. CASE i # 1
      BY <3>2, <3>5, <3>6, <3>8
    <3> QED
      BY <3>7, <3>8
  <2>4. f = [i \in 0..n |-> f[i]] /\ f[0] = << >>
    BY <1>1
  <2>5. Flattens(f, seqs)
    <3> HIDE DEF f
    <3> QED
      BY <1>1, <2>3, <2>4 DEF Flattens
  <2> QED
    BY <1>1, <1>3, <2>2, <2>5
<1> QED
  BY <1>2, <1>3

\* Induction: what R says of the empty sequence and what every sequence that is
\* added passes on is true of FlattenSeq.
LEMMA FlattenInduction ==
  ASSUME NEW X, NEW seqs \in Seq(Seq(X)), NEW R,
         << >> \in R[0],
         \A i \in 1..Len(seqs) : \A q \in R[i - 1] : q \o seqs[i] \in R[i]
  PROVE  FlattenSeq(seqs) \in R[Len(seqs)]
<1>1. PICK f : Flattens(f, seqs) /\ FlattenSeq(seqs) = f[Len(seqs)]
  BY FlattenSteps
<1>2. PICK n \in Nat : n = Len(seqs)
  OBVIOUS
<1> DEFINE T == {i \in Nat : i <= n /\ f[i] \notin R[i]}
<1> SUFFICES ASSUME T # {}
             PROVE  FALSE
  BY <1>1, <1>2
<1>3. PICK i \in T : \A j \in T : i <= j
  <2>1. T \in SUBSET Nat
    OBVIOUS
  <2> HIDE DEF T
  <2> QED
    BY <2>1, LeastNatural
<1>4. i # 0
  BY <1>1, <1>3 DEF Flattens
<1>5. i \in 1..n /\ i - 1 \in Nat /\ i - 1 <= n /\ ~(i <= i - 1)
  BY <1>2, <1>3, <1>4
<1>6. f[i - 1] \in R[i - 1]
  BY <1>3, <1>5
<1>7. f[i] = f[i - 1] \o seqs[i]
  BY <1>1, <1>2, <1>5 DEF Flattens
<1> QED
  BY <1>2, <1>3, <1>5, <1>6, <1>7

\* One more sequence is put behind the others.
LEMMA FlattenAppend ==
  ASSUME NEW X, NEW seqs \in Seq(Seq(X)), NEW x \in Seq(X)
  PROVE  FlattenSeq(Append(seqs, x)) = FlattenSeq(seqs) \o x
<1>1. PICK n \in Nat : n = Len(seqs)
  OBVIOUS
<1>2. PICK more : more = Append(seqs, x)
  OBVIOUS
<1>3. /\ more \in Seq(Seq(X)) /\ Len(more) = n + 1
      /\ more[n + 1] = x /\ \A i \in 1..n : more[i] = seqs[i]
  <2>1. ASSUME NEW S, NEW q \in Seq(S), NEW y \in S
        PROVE  /\ Append(q, y) \in Seq(S) /\ Len(Append(q, y)) = Len(q) + 1
               /\ Append(q, y)[Len(q) + 1] = y
               /\ \A i \in 1..Len(q) : Append(q, y)[i] = q[i]
    OBVIOUS
  <2> QED
    BY <1>1, <1>2, <2>1
<1>4. PICK f : Flattens(f, seqs) /\ FlattenSeq(seqs) = f[n]
  BY <1>1, FlattenSteps
<1>5. PICK g : Flattens(g, more) /\ FlattenSeq(more) = g[n + 1]
  BY <1>3, FlattenSteps
<1> DEFINE S == {i \in 0..n : f[i] = g[i]}
<1>6. 0 \in S
  BY <1>1, <1>4, <1>5 DEF Flattens
<1>7. ASSUME NEW i \in 1..n, i - 1 \in S
      PROVE  i \in S
  <2>1. i \in 1..n + 1 /\ i \in 0..n
    BY <1>1
  <2>2. f[i] = f[i - 1] \o seqs[i] /\ g[i] = g[i - 1] \o more[i]
    BY <1>1, <1>3, <1>4, <1>5, <2>1 DEF Flattens
  <2> QED
    BY <1>3, <1>7, <2>1, <2>2
<1>8. f[n] = g[n]
  <2>1. 0..n \subseteq S
    <3> HIDE DEF S
    <3> QED
      BY <1>6, <1>7, Upwards
  <2> QED
    BY <1>1, <2>1
<1>9. n + 1 \in 1..n + 1 /\ n + 1 - 1 = n
  BY <1>1
<1>10. g[n + 1] = g[n] \o x
  <2>1. \A i \in 1..n + 1 : g[i] = g[i - 1] \o more[i]
    BY <1>3, <1>5 DEF Flattens
  <2>2. PICK m \in 1..n + 1 : m = n + 1 /\ m - 1 = n
    BY <1>9
  <2>3. g[m] = g[m - 1] \o more[m]
    BY <2>1
  <2> QED
    BY <1>3, <2>2, <2>3
<1> QED
  BY <1>2, <1>4, <1>5, <1>8, <1>10

=============================================================================
