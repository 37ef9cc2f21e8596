---------------------------- MODULE MergeProofs -----------------------------
(***************************************************************************)
(* Proofs about flushes, compactions and scans, for any keys, values,      *)
(* block size, hash function and number of tables.  MergeInv: entries come *)
(* out in order whatever reads and writes fail.  ExactInv: of the blocks   *)
(* that the iterators give none is missing, and none comes twice.          *)
(* FileInv: the output file is all that was written, complete, spoilt for  *)
(* good, or not there.  From these follow the properties of Merge.         *)
(***************************************************************************)
EXTENDS Merge, Flattening

-----------------------------------------------------------------------------
(* The sources.                                                            *)

\* An entry in a source.
Pair == Key \X Entry

\* The entries es are in the order of their keys, and no key is twice.
Ascending(es) == \A i, j \in DOMAIN es : i < j => KeyLess(es[i][1], es[j][1])

\* All keys of es are before those of fs.
Precedes(es, fs) ==
    \A i \in DOMAIN es, j \in DOMAIN fs : KeyLess(es[i][1], fs[j][1])

\* Blocks, none empty, whose entries are in order.
Sorted(bs) ==
    /\ bs \in Seq(Seq(Pair))
    /\ \A b \in DOMAIN bs : bs[b] # << >> /\ Ascending(bs[b])
    /\ \A b, c \in DOMAIN bs : b < c => Precedes(bs[b], bs[c])

\* The entries of a layer.
CellsOf(a) == {<<k, a[k]>> : k \in {k \in Key : a[k] # Absent}}

\* The entries in the blocks bs.
EntriesIn(bs) == UNION {Range(bs[b]) : b \in DOMAIN bs}

\* Keys are in a strict total order.
LEMMA KeyOrder ==
  /\ \A k \in Key : ~KeyLess(k, k)
  /\ \A k, m \in Key : k = m \/ KeyLess(k, m) \/ KeyLess(m, k)
  /\ \A k, m \in Key : KeyLess(k, m) => ~KeyLess(m, k)
  /\ \A k, m, n \in Key : KeyLess(k, m) /\ KeyLess(m, n) => KeyLess(k, n)
<1>1. \A k \in Key : k \in Nat \X Int
  BY KeyAssumption
<1>2. \A k \in Key : k[1] \in Int /\ k[2] \in Int /\ k = <<k[1], k[2]>>
  BY <1>1
<1> QED
  BY <1>2 DEF KeyLess, SeriesID, Timestamp

\* Entries are put in order.
LEMMA EntriesRight ==
  ASSUME NEW a \in Layer
  PROVE  /\ Entries(a) \in Seq(Pair) /\ Ascending(Entries(a))
         /\ Range(Entries(a)) = CellsOf(a)
<1> DEFINE ks == {k \in Key : a[k] # Absent}
           R == {p \in Key \X Key : KeyLess(p[1], p[2])}
<1>1. IsFiniteSet(ks)
  BY KeyAssumption, FS_Subset
<1>2. PICK n \in Nat : n = Cardinality(ks)
  BY <1>1, FS_CardinalityType
<1>3. \A k, m \in Key : <<k, m>> \in R <=> KeyLess(k, m)
  OBVIOUS
<1>4. TotalOrder(R, ks)
  <2> HIDE DEF R
  <2> QED
    BY <1>3, KeyOrder DEF TotalOrder
<1>5. ASSUME NEW q
      PROVE  Enumerates(q, ks, R) <=>
               /\ q \in [1..n -> ks]
               /\ \A i, j \in DOMAIN q : i < j => KeyLess(q[i], q[j])
  <2>1. CASE q \in [1..n -> ks]
    <3>1. DOMAIN q = 1..n /\ \A i \in 1..n : q[i] \in Key
      BY <2>1
    <3> HIDE DEF ks, R
    <3> QED
      BY <1>2, <1>3, <2>1, <3>1 DEF Enumerates
  <2>2. CASE q \notin [1..n -> ks]
    <3> HIDE DEF ks, R
    <3> QED
      BY <1>2, <2>2 DEF Enumerates
  <2> QED
    BY <2>1, <2>2
<1>6. PICK sorted : sorted = CHOOSE q \in [1..Cardinality(ks) -> ks] :
                      \A i, j \in DOMAIN q : i < j => KeyLess(q[i], q[j])
  OBVIOUS
<1>7. Entries(a) = [i \in 1..n |-> <<sorted[i], a[sorted[i]]>>]
  BY <1>2, <1>6 DEF Entries
<1>8. \A k \in ks : k \in Key /\ a[k] \in Entry
  BY DEF Layer
<1>9. /\ sorted \in [1..n -> ks]
      /\ \A i, j \in 1..n : i < j => KeyLess(sorted[i], sorted[j])
      /\ \A k \in ks : \E i \in 1..n : sorted[i] = k
  <2> HIDE DEF ks, R
  <2>1. \E q : Enumerates(q, ks, R)
    BY <1>1, <1>4, Enumeration
  <2>2. \E q \in [1..n -> ks] :
          \A i, j \in DOMAIN q : i < j => KeyLess(q[i], q[j])
    BY <1>5, <2>1
  <2>3. /\ sorted \in [1..n -> ks]
        /\ \A i, j \in DOMAIN sorted : i < j => KeyLess(sorted[i], sorted[j])
    BY <1>2, <1>6, <2>2
  <2>4. Enumerates(sorted, ks, R)
    BY <1>5, <2>3
  <2>5. \A k \in ks : \E i \in 1..n : sorted[i] = k
    BY <1>1, <1>2, <1>4, <2>4, EnumeratesAll
  <2> QED
    BY <2>3, <2>5
<1> HIDE DEF ks
<1>10. Entries(a) \in Seq(Pair)
  <2>1. Entries(a) \in [1..n -> Pair]
    BY <1>7, <1>8, <1>9 DEF Pair
  <2> QED
    BY <2>1
<1>11. Ascending(Entries(a))
  BY <1>7, <1>9 DEF Ascending
<1>12. Range(Entries(a)) = {<<k, a[k]>> : k \in ks}
  <2>1. DOMAIN Entries(a) = 1..n
    BY <1>7
  <2>2. ASSUME NEW i \in 1..n
        PROVE  Entries(a)[i] \in {<<k, a[k]>> : k \in ks}
    BY <1>7, <1>9
  <2>3. ASSUME NEW k \in ks
        PROVE  <<k, a[k]>> \in Range(Entries(a))
    <3>1. PICK i \in 1..n : sorted[i] = k
      BY <1>9
    <3>2. Entries(a)[i] = <<k, a[k]>>
      BY <1>7, <3>1
    <3> QED
      BY <2>1, <3>2 DEF Range
  <2> QED
    BY <2>1, <2>2, <2>3 DEF Range
<1> QED
  BY <1>10, <1>11, <1>12 DEF ks, CellsOf

\* Entries that are in order stay in order with a greater one behind them.
LEMMA AppendAscends ==
  ASSUME NEW es \in Seq(Pair), NEW e \in Pair, Ascending(es),
         \A f \in Range(es) : KeyLess(f[1], e[1])
  PROVE  /\ Append(es, e) \in Seq(Pair) /\ Ascending(Append(es, e))
         /\ Range(Append(es, e)) = Range(es) \cup {e}
         /\ Append(es, e) # << >>
<1>1. PICK n \in Nat : n = Len(es) /\ DOMAIN es = 1..n
  OBVIOUS
<1>2. PICK q : q = Append(es, e)
  OBVIOUS
<1>3. /\ q \in Seq(Pair) /\ Len(q) = n + 1 /\ DOMAIN q = 1..n + 1
      /\ q[n + 1] = e /\ \A i \in 1..n : q[i] = es[i]
  BY <1>1, <1>2
<1>4. \A i \in 1..n + 1 : i \in 1..n \/ i = n + 1
  BY <1>1
<1>5. n + 1 \in 1..n + 1 /\ \A i \in 1..n : i \in 1..n + 1
  BY <1>1
<1>6. Ascending(q)
  <2> SUFFICES ASSUME NEW i \in 1..n + 1, NEW j \in 1..n + 1, i < j
               PROVE  KeyLess(q[i][1], q[j][1])
    BY <1>3 DEF Ascending
  <2>1. i \in 1..n
    BY <1>1
  <2>2. CASE j \in 1..n
    BY <1>1, <1>3, <2>1, <2>2 DEF Ascending
  <2>3. CASE j = n + 1
    <3>1. es[i] \in Range(es)
      BY <1>1, <2>1 DEF Range
    <3> QED
      BY <1>3, <2>1, <2>3, <3>1
  <2> QED
    BY <1>4, <2>2, <2>3
<1>7. Range(q) = Range(es) \cup {e}
  BY <1>1, <1>3, <1>4, <1>5 DEF Range
<1>8. q # << >>
  BY <1>3
<1> QED
  BY <1>2, <1>3, <1>6, <1>7, <1>8

\* So do blocks with an entry put behind them, in the last one or a new one.
LEMMA AddToBlocksRight ==
  ASSUME NEW bs, Sorted(bs), NEW e \in Pair,
         \A f \in EntriesIn(bs) : KeyLess(f[1], e[1])
  PROVE  /\ Sorted(AddToBlocks(bs, e))
         /\ EntriesIn(AddToBlocks(bs, e)) = EntriesIn(bs) \cup {e}
<1>1. PICK n \in Nat : n = Len(bs) /\ DOMAIN bs = 1..n
  BY DEF Sorted
<1>2. bs \in Seq(Seq(Pair)) /\ \A b \in 1..n : bs[b] \in Seq(Pair)
  <2>1. ASSUME NEW S, NEW q \in Seq(S), NEW i \in 1..Len(q)
        PROVE  q[i] \in S
    OBVIOUS
  <2> QED
    BY <1>1, <2>1 DEF Sorted
<1>3. ASSUME NEW b \in 1..n, NEW f \in Range(bs[b])
      PROVE  KeyLess(f[1], e[1])
  BY <1>1, <1>3 DEF EntriesIn
<1>4. PICK new : new = AddToBlocks(bs, e)
  OBVIOUS
<1>5. /\ << >> \in Seq(Pair) /\ Ascending(<< >>) /\ Range(<< >>) = {}
      /\ Append(<< >>, e) = <<e>>
  BY DEF Ascending, Range
<1>6. /\ <<e>> \in Seq(Pair) /\ Ascending(<<e>>) /\ Range(<<e>>) = {e}
      /\ <<e>> # << >>
  BY <1>5, AppendAscends
<1>7. PICK last, m :
        /\ m \in 1..n + 1 /\ n <= m
        /\ new \in Seq(Seq(Pair)) /\ DOMAIN new = 1..m
        /\ last = new[m] /\ \A b \in 1..n : b # m => new[b] = bs[b]
        /\ last \in Seq(Pair) /\ last # << >> /\ Ascending(last)
        /\ IF m \in 1..n THEN Range(last) = Range(bs[m]) \cup {e}
                         ELSE Range(last) = {e}
  <2>1. CASE bs = << >> \/ BlockFull(Last(bs), e)
    <3>1. new = Append(bs, <<e>>)
      BY <1>4, <2>1 DEF AddToBlocks
    <3>2. ASSUME NEW S, NEW q \in Seq(S), NEW x \in S
          PROVE  /\ Append(q, x) \in Seq(S)
                 /\ DOMAIN Append(q, x) = 1..Len(q) + 1
                 /\ Append(q, x)[Len(q) + 1] = x
                 /\ \A i \in 1..Len(q) : Append(q, x)[i] = q[i]
      OBVIOUS
    <3>3. /\ new \in Seq(Seq(Pair)) /\ DOMAIN new = 1..n + 1
          /\ new[n + 1] = <<e>> /\ \A b \in 1..n : new[b] = bs[b]
      BY <1>1, <1>2, <1>6, <3>1, <3>2
    <3>4. n + 1 \in 1..n + 1 /\ n <= n + 1 /\ n + 1 \notin 1..n
      BY <1>1
    <3> QED
      BY <1>6, <3>3, <3>4
  <2>2. CASE ~(bs = << >> \/ BlockFull(Last(bs), e))
    <3>1. n # 0
      <4>1. ASSUME NEW S, NEW q \in Seq(S), Len(q) = 0
            PROVE  q = << >>
        BY <4>1
      <4> QED
        BY <1>1, <1>2, <2>2, <4>1
    <3>2. n \in 1..n /\ n \in 1..n + 1 /\ n <= n
      BY <1>1, <3>1
    <3>3. PICK q : q = Append(bs[n], e)
      OBVIOUS
    <3>4. /\ q \in Seq(Pair) /\ Ascending(q) /\ q # << >>
          /\ Range(q) = Range(bs[n]) \cup {e}
      BY <1>1, <1>2, <1>3, <3>2, <3>3, AppendAscends DEF Sorted
    <3>5. new = [bs EXCEPT ![n] = q]
      BY <1>1, <1>4, <2>2, <3>3 DEF AddToBlocks
    <3>6. ASSUME NEW S, NEW p \in Seq(S), NEW i \in 1..Len(p), NEW x \in S
          PROVE  /\ [p EXCEPT ![i] = x] \in Seq(S)
                 /\ DOMAIN [p EXCEPT ![i] = x] = 1..Len(p)
      OBVIOUS
    <3>7. new \in Seq(Seq(Pair)) /\ DOMAIN new = 1..n
      BY <1>1, <1>2, <3>2, <3>4, <3>5, <3>6
    <3>8. new[n] = q /\ \A b \in 1..n : b # n => new[b] = bs[b]
      BY <1>1, <3>2, <3>5
    <3> QED
      BY <3>2, <3>4, <3>7, <3>8
  <2> QED
    BY <2>1, <2>2
<1>8. \A b \in 1..m : b = m \/ b \in 1..n
  BY <1>1, <1>7
<1>9. \A b \in 1..m : new[b] # << >> /\ Ascending(new[b])
  BY <1>1, <1>7, <1>8 DEF Sorted
<1>10. ASSUME NEW b \in 1..m, NEW f \in Range(new[b])
       PROVE  \/ f = e /\ b = m
              \/ b \in 1..n /\ f \in Range(bs[b])
  <2>1. CASE b = m
    BY <1>7, <1>10, <2>1
  <2>2. CASE b # m
    BY <1>7, <1>8, <1>10, <2>2
  <2> QED
    BY <2>1, <2>2
<1>11. ASSUME NEW b \in 1..m, NEW c \in 1..m, b < c
       PROVE  Precedes(new[b], new[c])
  <2> SUFFICES ASSUME NEW i \in DOMAIN new[b], NEW j \in DOMAIN new[c]
               PROVE  KeyLess(new[b][i][1], new[c][j][1])
    BY DEF Precedes
  <2>1. new[b][i] \in Range(new[b]) /\ new[c][j] \in Range(new[c])
    BY DEF Range
  <2>2. b \in 1..n /\ b # m
    BY <1>1, <1>7, <1>8, <1>11
  <2>3. new[b] = bs[b]
    BY <1>7, <2>2
  <2>4. CASE new[c][j] = e
    BY <1>3, <2>1, <2>2, <2>3, <2>4
  <2>5. CASE c \in 1..n /\ new[c][j] \in Range(bs[c])
    <3>1. PICK k \in DOMAIN bs[c] : new[c][j] = bs[c][k]
      BY <2>5 DEF Range
    <3>2. Precedes(bs[b], bs[c])
      BY <1>1, <1>11, <2>2, <2>5 DEF Sorted
    <3> QED
      BY <2>3, <3>1, <3>2 DEF Precedes
  <2> QED
    BY <1>10, <2>1, <2>4, <2>5
<1>12. Sorted(new)
  BY <1>7, <1>9, <1>11 DEF Sorted
<1>13. ASSUME NEW b \in 1..n
       PROVE  b \in 1..m /\ Range(bs[b]) \subseteq Range(new[b])
  <2>1. b \in 1..m
    BY <1>1, <1>7
  <2>2. CASE b = m
    BY <1>7, <2>2
  <2>3. CASE b # m
    BY <1>7, <2>3
  <2> QED
    BY <2>1, <2>2, <2>3
<1>14. m \in 1..m /\ e \in Range(new[m])
  <2>1. m \in 1..m
    BY <1>1, <1>7
  <2>2. e \in Range(last)
    BY <1>7
  <2> QED
    BY <1>7, <2>1, <2>2
<1>15. EntriesIn(new) = EntriesIn(bs) \cup {e}
  <2>1. ASSUME NEW f
        PROVE  f \in EntriesIn(new) <=> \E b \in 1..m : f \in Range(new[b])
    BY <1>7 DEF EntriesIn
  <2>2. ASSUME NEW f
        PROVE  f \in EntriesIn(bs) <=> \E b \in 1..n : f \in Range(bs[b])
    BY <1>1 DEF EntriesIn
  <2> QED
    BY <1>10, <1>13, <1>14, <2>1, <2>2
<1> QED
  BY <1>4, <1>12, <1>15

\* The blocks with one more entry are blocks.
LEMMA AddToBlocksType ==
  ASSUME NEW bs \in Seq(Seq(Pair)), NEW e \in Pair
  PROVE  AddToBlocks(bs, e) \in Seq(Seq(Pair))
<1>1. ASSUME NEW S, NEW q \in Seq(S), NEW x \in S
      PROVE  /\ Append(q, x) \in Seq(S)
             /\ \A i \in 1..Len(q) :
                  q[i] \in S /\ [q EXCEPT ![i] = x] \in Seq(S)
             /\ q # << >> => Len(q) \in 1..Len(q)
  OBVIOUS
<1>2. <<e>> \in Seq(Pair) /\ << >> \in Seq(Pair)
  OBVIOUS
<1>3. CASE bs = << >> \/ BlockFull(Last(bs), e)
  BY <1>1, <1>2, <1>3 DEF AddToBlocks
<1>4. CASE ~(bs = << >> \/ BlockFull(Last(bs), e))
  <2>1. PICK n : n = Len(bs) /\ n \in 1..Len(bs)
    BY <1>1, <1>2, <1>4
  <2>2. bs[n] \in Seq(Pair)
    BY <1>1, <1>2, <2>1
  <2>3. PICK q : q = Append(bs[n], e)
    OBVIOUS
  <2>4. q \in Seq(Pair)
    BY <1>1, <2>2, <2>3
  <2>5. AddToBlocks(bs, e) = [bs EXCEPT ![n] = q]
    BY <1>4, <2>1, <2>3 DEF AddToBlocks
  <2> QED
    BY <1>1, <2>1, <2>4, <2>5
<1> QED
  BY <1>3, <1>4

\* The loop in the definition of Blocks.
BlockLoop(f, es) ==
    f = [n \in 0..Len(es) |->
           IF n = 0 THEN << >> ELSE AddToBlocks(f[n - 1], es[n])]

\* A Writer that is given entries in order has them all in sorted blocks.
LEMMA BlocksRight ==
  ASSUME NEW es \in Seq(Pair), Ascending(es)
  PROVE  /\ Sorted(Blocks(es))
         /\ EntriesIn(Blocks(es)) = Range(es)
<1>1. PICK N \in Nat : N = Len(es) /\ DOMAIN es = 1..N
  OBVIOUS
<1>2. \A i \in 1..N : es[i] \in Pair
  BY <1>1
<1>3. PICK X : X = Seq(Seq(Pair))
  OBVIOUS
<1>4. PICK f : BlockLoop(f, es)
  <2> DEFINE step == [n \in 1..N |-> [bs \in X |-> AddToBlocks(bs, es[n])]]
  <2>1. << >> \in X
    BY <1>3
  <2>2. \A n \in 1..N, bs \in X : AddToBlocks(bs, es[n]) \in X
    BY <1>2, <1>3, AddToBlocksType
  <2>3. step \in [1..N -> [X -> X]]
    BY <2>2
  <2>4. \A n \in 1..N, bs \in X : step[n][bs] = AddToBlocks(bs, es[n])
    OBVIOUS
  <2> HIDE DEF step
  <2>5. PICK f \in [0..N -> X] : LoopValues(f, N, << >>, step)
    BY <2>1, <2>3, LoopResults
  <2>6. f = [n \in 0..N |-> IF n = 0 THEN << >> ELSE step[n][f[n - 1]]]
    BY <2>5 DEF LoopValues
  <2>7. \A n \in 0..N : n # 0 => n \in 1..N /\ n - 1 \in 0..N
    BY <1>1
  <2>8. \A n \in 0..N :
          n # 0 => step[n][f[n - 1]] = AddToBlocks(f[n - 1], es[n])
    BY <2>4, <2>5, <2>7
  <2>9. f = [n \in 0..N |->
               IF n = 0 THEN << >> ELSE AddToBlocks(f[n - 1], es[n])]
    BY <2>6, <2>8
  <2> QED
    BY <1>1, <2>9 DEF BlockLoop
<1>5. PICK g : BlockLoop(g, es) /\ Blocks(es) = g[Len(es)]
  <2>1. Blocks(es) = (CHOOSE h : BlockLoop(h, es))[Len(es)]
    BY DEF Blocks, BlockLoop
  <2>2. BlockLoop(CHOOSE h : BlockLoop(h, es), es)
    BY <1>4
  <2> QED
    BY <2>1, <2>2
<1>6. /\ g[0] = << >>
      /\ \A n \in 1..N : g[n] = AddToBlocks(g[n - 1], es[n])
  BY <1>1, <1>5 DEF BlockLoop
<1> DEFINE S == {n \in 0..N : /\ Sorted(g[n])
                              /\ EntriesIn(g[n]) = {es[i] : i \in 1..n}}
<1>7. 0 \in S
  <2>1. << >> \in Seq(Seq(Pair)) /\ DOMAIN << >> = {}
    OBVIOUS
  <2>2. Sorted(<< >>) /\ EntriesIn(<< >>) = {}
    BY <2>1 DEF Sorted, EntriesIn
  <2>3. {es[i] : i \in 1..0} = {}
    OBVIOUS
  <2> QED
    BY <1>1, <1>6, <2>2, <2>3
<1>8. ASSUME NEW n \in 1..N, n - 1 \in S
      PROVE  n \in S
  <2>1. PICK bs : bs = g[n - 1]
    OBVIOUS
  <2>2. Sorted(bs) /\ EntriesIn(bs) = {es[i] : i \in 1..n - 1}
    BY <1>8, <2>1
  <2>3. ASSUME NEW h \in EntriesIn(bs)
        PROVE  KeyLess(h[1], es[n][1])
    <3>1. PICK i \in 1..n - 1 : h = es[i]
      BY <2>2, <2>3
    <3>2. i \in 1..N /\ i < n
      BY <1>1
    <3> QED
      BY <1>1, <3>1, <3>2 DEF Ascending
  <2>4. /\ Sorted(AddToBlocks(bs, es[n]))
        /\ EntriesIn(AddToBlocks(bs, es[n])) = EntriesIn(bs) \cup {es[n]}
    BY <1>2, <2>2, <2>3, AddToBlocksRight
  <2>5. {es[i] : i \in 1..n} = {es[i] : i \in 1..n - 1} \cup {es[n]}
    <3>1. \A i : i \in 1..n <=> i \in 1..n - 1 \/ i = n
      BY <1>1
    <3> QED
      BY <3>1
  <2>6. g[n] = AddToBlocks(bs, es[n])
    BY <1>6, <2>1
  <2>7. n \in 0..N
    BY <1>1
  <2> QED
    BY <2>2, <2>4, <2>5, <2>6, <2>7
<1>9. N \in S
  <2> HIDE DEF S
  <2>1. 0..N \subseteq S
    BY <1>7, <1>8, Upwards
  <2> QED
    BY <1>1, <2>1
<1>10. {es[i] : i \in 1..N} = Range(es)
  BY <1>1 DEF Range
<1> QED
  BY <1>1, <1>5, <1>9, <1>10

\* The loop in the definition of SizeOf.
SizeLoop(f, es) ==
    f = [n \in 0..Len(es) |->
           IF n = 0 THEN 0 ELSE f[n - 1] + EntrySize(es[n])]

\* It has a result.
LEMMA SizeResults ==
  ASSUME NEW es \in Seq(Pair)
  PROVE  \E f \in [0..Len(es) -> Nat] :
           SizeLoop(f, es) /\ SizeOf(es) = f[Len(es)]
<1>1. PICK N \in Nat : N = Len(es) /\ DOMAIN es = 1..N
  OBVIOUS
<1>2. \A n \in 1..N : EntrySize(es[n]) \in Nat
  BY FormatAssumption DEF EntrySize
<1>3. PICK f : SizeLoop(f, es)
  <2> DEFINE step == [n \in 1..N |-> [s \in Nat |-> s + EntrySize(es[n])]]
  <2>1. step \in [1..N -> [Nat -> Nat]]
    <3> HIDE DEF EntrySize
    <3> QED
      BY <1>2
  <2>2. \A n \in 1..N, s \in Nat : step[n][s] = s + EntrySize(es[n])
    OBVIOUS
  <2> HIDE DEF step
  <2>3. PICK f \in [0..N -> Nat] : LoopValues(f, N, 0, step)
    BY <2>1, LoopResults
  <2>4. f = [n \in 0..N |-> IF n = 0 THEN 0 ELSE step[n][f[n - 1]]]
    BY <2>3 DEF LoopValues
  <2>5. \A n \in 0..N : n # 0 => n \in 1..N /\ n - 1 \in 0..N
    BY <1>1
  <2>6. \A n \in 0..N :
          n # 0 => step[n][f[n - 1]] = f[n - 1] + EntrySize(es[n])
    BY <2>2, <2>3, <2>5
  <2>7. f = [n \in 0..N |-> IF n = 0 THEN 0 ELSE f[n - 1] + EntrySize(es[n])]
    BY <2>4, <2>6
  <2> QED
    BY <1>1, <2>7 DEF SizeLoop
<1>4. PICK g : SizeLoop(g, es) /\ SizeOf(es) = g[Len(es)]
  <2>1. SizeOf(es) = (CHOOSE h : SizeLoop(h, es))[Len(es)]
    BY DEF SizeOf, SizeLoop
  <2>2. SizeLoop(CHOOSE h : SizeLoop(h, es), es)
    BY <1>3
  <2> QED
    BY <2>1, <2>2
<1>5. /\ g[0] = 0 /\ g = [n \in 0..N |-> g[n]]
      /\ \A n \in 1..N : g[n] = g[n - 1] + EntrySize(es[n])
  BY <1>1, <1>4 DEF SizeLoop
<1> DEFINE S == {n \in 0..N : g[n] \in Nat}
<1>6. 0 \in S /\ \A n \in 1..N : n - 1 \in S => n \in S
  <2>1. 0 \in S
    BY <1>1, <1>5
  <2>2. ASSUME NEW n \in 1..N, n - 1 \in S
        PROVE  n \in S
    <3>1. g[n - 1] \in Nat /\ n \in 0..N
      BY <1>1, <2>2
    <3>2. EntrySize(es[n]) \in Nat /\ g[n] = g[n - 1] + EntrySize(es[n])
      BY <1>2, <1>5
    <3>3. \A x, y \in Nat : x + y \in Nat
      OBVIOUS
    <3> QED
      BY <3>1, <3>2, <3>3
  <2> QED
    BY <2>1, <2>2
<1>7. 0..N \subseteq S
  <2> HIDE DEF S
  <2> QED
    BY <1>6, Upwards
<1>8. g \in [0..N -> Nat]
  BY <1>5, <1>7
<1> QED
  BY <1>1, <1>4, <1>8

\* The size of a block grows by that of the entry it is given.
LEMMA SizeGrows ==
  ASSUME NEW es \in Seq(Pair), NEW e \in Pair
  PROVE  /\ SizeOf(es) \in Nat
         /\ SizeOf(Append(es, e)) = SizeOf(es) + EntrySize(e)
<1>1. PICK N \in Nat : N = Len(es) /\ DOMAIN es = 1..N
  OBVIOUS
<1>2. PICK q : q = Append(es, e)
  OBVIOUS
<1>3. /\ q \in Seq(Pair) /\ Len(q) = N + 1
      /\ q[N + 1] = e /\ \A i \in 1..N : q[i] = es[i]
  BY <1>1, <1>2
<1>4. PICK f \in [0..N -> Nat] : SizeLoop(f, es) /\ SizeOf(es) = f[N]
  BY <1>1, SizeResults
<1>5. PICK g \in [0..N + 1 -> Nat] : SizeLoop(g, q) /\ SizeOf(q) = g[N + 1]
  BY <1>3, SizeResults
<1>6. f[0] = 0 /\ \A n \in 1..N : f[n] = f[n - 1] + EntrySize(es[n])
  <2>1. f = [n \in 0..N |->
               IF n = 0 THEN 0 ELSE f[n - 1] + EntrySize(es[n])]
    BY <1>1, <1>4 DEF SizeLoop
  <2>2. 0 \in 0..N /\ \A n \in 1..N : n \in 0..N /\ n # 0
    BY <1>1
  <2> HIDE DEF EntrySize
  <2> QED
    BY <2>1, <2>2
<1>7. g[0] = 0 /\ \A n \in 1..N + 1 : g[n] = g[n - 1] + EntrySize(q[n])
  BY <1>3, <1>5 DEF SizeLoop
<1> DEFINE S == {n \in 0..N : f[n] = g[n]}
<1>8. 0 \in S
  BY <1>1, <1>6, <1>7
<1>9. ASSUME NEW n \in 1..N, n - 1 \in S
      PROVE  n \in S
  <2>1. n \in 1..N + 1 /\ n \in 0..N
    BY <1>1
  <2> QED
    BY <1>3, <1>6, <1>7, <1>9, <2>1
<1>10. f[N] = g[N]
  <2>1. 0..N \subseteq S
    <3> HIDE DEF S
    <3> QED
      BY <1>8, <1>9, Upwards
  <2> QED
    BY <1>1, <2>1
<1>11. N + 1 \in 1..N + 1 /\ N + 1 - 1 = N /\ N \in 0..N
  BY <1>1
<1>12. g[N + 1] = g[N] + EntrySize(e)
  BY <1>3, <1>7, <1>11
<1>13. f[N] \in Nat
  BY <1>4, <1>11
<1> QED
  BY <1>2, <1>4, <1>5, <1>10, <1>12, <1>13

\* A source has the entries of its layer, sorted.
LEMMA InputRight ==
  ASSUME NEW s \in Source, NEW a \in Layer
  PROVE  Sorted(InputOf(s, a)) /\ EntriesIn(InputOf(s, a)) = CellsOf(a)
<1>1. PICK es : es = Entries(a)
  OBVIOUS
<1>2. es \in Seq(Pair) /\ Ascending(es) /\ Range(es) = CellsOf(a)
  BY <1>1, EntriesRight DEF CellsOf
<1>3. CASE s = Memtable /\ a # EmptyLayer
  <2>1. InputOf(s, a) = <<es>>
    BY <1>1, <1>3 DEF InputOf
  <2>2. PICK k \in Key : a[k] # Absent
    <3>1. CASE \A k \in Key : a[k] = Absent
      <4>1. a = EmptyLayer
        BY <3>1 DEF Layer, EmptyLayer
      <4> QED
        BY <1>3, <4>1
    <3> QED
      BY <3>1
  <2>3. es # << >>
    <3>1. <<k, a[k]>> \in Range(es)
      BY <1>2, <2>2 DEF CellsOf
    <3> QED
      BY <3>1 DEF Range
  <2>4. ASSUME NEW S, NEW x \in S
        PROVE  /\ <<x>> \in Seq(S) /\ DOMAIN <<x>> = {1} /\ <<x>>[1] = x
    OBVIOUS
  <2>5. <<es>> \in Seq(Seq(Pair)) /\ DOMAIN <<es>> = {1} /\ <<es>>[1] = es
    BY <1>2, <2>4
  <2>6. Sorted(<<es>>)
    <3>1. \A b, c \in {1} : ~(b < c)
      OBVIOUS
    <3> QED
      BY <1>2, <2>3, <2>5, <3>1 DEF Sorted
  <2>7. EntriesIn(<<es>>) = Range(es)
    BY <2>5 DEF EntriesIn
  <2> QED
    BY <1>2, <2>1, <2>6, <2>7
<1>4. CASE ~(s = Memtable /\ a # EmptyLayer)
  BY <1>1, <1>2, <1>4, BlocksRight DEF InputOf
<1> QED
  BY <1>3, <1>4

\* Every shape of a source is a layer.
LEMMA ShapesAreLayers ==
  ASSUME NEW s \in Source, NEW shape \in Shape
  PROVE  LayerOfShape(s, shape) \in Layer
<1>1. s \in Value
  BY SourceAssumption
<1>2. ASSUME NEW k \in Key
      PROVE  LayerOfShape(s, shape)[k] \in Entry \cup {Absent}
  <2>1. shape[k] \in {"none", "value", "tombstone"}
    BY DEF Shape
  <2> QED
    BY <1>1, <2>1 DEF LayerOfShape, Entry
<1> QED
  BY <1>2 DEF LayerOfShape, Layer

-----------------------------------------------------------------------------
(* The iterators and the heap.                                             *)

\* An iterator at the place at is on an entry of the blocks bs.
OnEntry(bs, at) ==
    /\ at \in [block : Nat, entry : Nat]
    /\ at.block \in DOMAIN bs /\ at.entry \in DOMAIN bs[at.block]

EntryAt(bs, at) == bs[at.block][at.entry]

\* From an entry, Iterator.Next leads to a greater one, in the block or at the
\* start of the next one.
LEMMA NextEntry ==
  ASSUME NEW bs, Sorted(bs), NEW at, OnEntry(bs, at)
  PROVE  /\ EntryAt(bs, at) \in Pair
         /\ \A to \in [block : Nat, entry : Nat] :
              \/ /\ at.entry < Len(bs[at.block])
                 /\ to.block = at.block /\ to.entry = at.entry + 1
              \/ /\ at.block < Len(bs)
                 /\ to.block = at.block + 1 /\ to.entry = 1
              => /\ OnEntry(bs, to)
                 /\ KeyLess(EntryAt(bs, at)[1], EntryAt(bs, to)[1])
<1>1. ASSUME NEW S, NEW q \in Seq(S)
      PROVE  /\ Len(q) \in Nat /\ DOMAIN q = 1..Len(q)
             /\ \A i \in DOMAIN q : q[i] \in S
             /\ q # << >> => 1 \in DOMAIN q
  OBVIOUS
<1>2. PICK N \in Nat : N = Len(bs) /\ DOMAIN bs = 1..N
  BY <1>1 DEF Sorted
<1>3. \A b \in 1..N : bs[b] \in Seq(Pair)
  BY <1>1, <1>2 DEF Sorted
<1>4. PICK b \in 1..N, i \in Nat : b = at.block /\ i = at.entry /\ b \in Nat
  BY <1>2 DEF OnEntry
<1>5. PICK M \in Nat : M = Len(bs[b]) /\ DOMAIN bs[b] = 1..M
  BY <1>1, <1>3, <1>4
<1>6. i \in 1..M
  BY <1>4, <1>5 DEF OnEntry
<1>7. EntryAt(bs, at) = bs[b][i] /\ bs[b][i] \in Pair
  BY <1>1, <1>3, <1>4, <1>5, <1>6 DEF EntryAt
<1>8. ASSUME NEW to \in [block : Nat, entry : Nat],
             i < M, to.block = b, to.entry = i + 1
      PROVE  OnEntry(bs, to) /\ KeyLess(bs[b][i][1], EntryAt(bs, to)[1])
  <2>1. i + 1 \in 1..M /\ i < i + 1
    BY <1>5, <1>6, <1>8
  <2>2. Ascending(bs[b])
    BY <1>2, <1>4 DEF Sorted
  <2> QED
    BY <1>2, <1>5, <1>6, <1>8, <2>1, <2>2 DEF OnEntry, EntryAt, Ascending
<1>9. ASSUME NEW to \in [block : Nat, entry : Nat],
             b < N, to.block = b + 1, to.entry = 1
      PROVE  OnEntry(bs, to) /\ KeyLess(bs[b][i][1], EntryAt(bs, to)[1])
  <2>1. b + 1 \in 1..N /\ b < b + 1
    BY <1>2, <1>4, <1>9
  <2>2. Precedes(bs[b], bs[b + 1]) /\ bs[b + 1] # << >>
    BY <1>2, <1>4, <2>1 DEF Sorted
  <2>3. 1 \in DOMAIN bs[b + 1]
    BY <1>1, <1>3, <2>1, <2>2
  <2> QED
    BY <1>2, <1>5, <1>6, <1>9, <2>1, <2>2, <2>3 DEF OnEntry, EntryAt, Precedes
<1> QED
  BY <1>2, <1>4, <1>5, <1>7, <1>8, <1>9

\* The blocks that an iterator gives are the first ones of its source, up to
\* one that cannot be read or the end.
LEMMA GivenRight ==
  ASSUME NEW s, Sorted(blocks[s])
  PROVE  /\ Sorted(Given(s))
         /\ \A b \in DOMAIN Given(s) :
              /\ b \in Nat /\ Loads(s, b) /\ Given(s)[b] = blocks[s][b]
              /\ Loads(s, b + 1) <=> b < Len(Given(s))
         /\ Loads(s, 1) <=> Given(s) # << >>
<1>1. PICK bs : bs = blocks[s]
  OBVIOUS
<1>2. bs \in Seq(Seq(Pair))
  BY <1>1 DEF Sorted
<1>3. PICK N \in Nat : N = Len(bs) /\ DOMAIN bs = 1..N
  BY <1>2
<1> DEFINE Right(n) == /\ \A b \in 1..n : Loads(s, b)
                       /\ ~Loads(s, n + 1)
<1>4. \E n \in 0..N : Right(n)
  <2> DEFINE S == {n \in 0..N : \A b \in 1..n : Loads(s, b)}
  <2>1. S \in SUBSET Nat /\ S # {} /\ \A n \in S : n <= N
    <3>1. 0 \in 0..N /\ 1..0 = {}
      OBVIOUS
    <3> QED
      BY <3>1
  <2>2. PICK n : n = Max(S) /\ n \in S /\ \A m \in S : m <= n
    <3> HIDE DEF S
    <3> QED
      BY <2>1, MaxInSet
  <2>3. n \in 0..N /\ \A b \in 1..n : Loads(s, b)
    BY <2>2
  <2>4. ASSUME Loads(s, n + 1)
        PROVE  FALSE
    <3>1. n + 1 \in 0..N
      BY <1>1, <1>3, <2>3, <2>4 DEF Loads
    <3>2. \A b \in 1..n + 1 : b \in 1..n \/ b = n + 1
      BY <2>3
    <3>3. n + 1 \in S
      BY <2>3, <2>4, <3>1, <3>2
    <3> QED
      BY <2>2, <2>3, <3>3
  <2> QED
    BY <2>3, <2>4
<1>5. PICK n \in 0..N : Right(n) /\ Given(s) = SubSeq(bs, 1, n)
  <2>1. PICK n : n = CHOOSE m \in 0..N : Right(m)
    OBVIOUS
  <2>2. n \in 0..N /\ Right(n)
    <3> HIDE DEF Right
    <3> QED
      BY <1>4, <2>1
  <2>3. Given(s) = SubSeq(bs, 1, n)
    BY <1>1, <1>3, <2>1 DEF Given
  <2> QED
    BY <2>2, <2>3
<1>6. PICK gs : gs = Given(s)
  OBVIOUS
<1>7. /\ gs \in Seq(Seq(Pair)) /\ Len(gs) = n /\ DOMAIN gs = 1..n
      /\ \A b \in 1..n : gs[b] = bs[b] /\ b \in DOMAIN bs
  BY <1>2, <1>3, <1>5, <1>6
<1>8. Sorted(gs)
  BY <1>1, <1>7 DEF Sorted
<1>9. ASSUME NEW b \in 1..n
      PROVE  Loads(s, b + 1) <=> b < n
  <2>1. CASE b < n
    <3>1. b + 1 \in 1..n
      BY <2>1
    <3> QED
      BY <1>5, <2>1, <3>1
  <2>2. CASE b = n
    BY <1>5, <2>2
  <2> QED
    BY <2>1, <2>2
<1>10. Loads(s, 1) <=> n # 0
  <2>1. CASE n = 0
    BY <1>5, <2>1
  <2>2. CASE n # 0
    <3>1. 1 \in 1..n
      BY <2>2
    <3> QED
      BY <1>5, <2>2, <3>1
  <2> QED
    BY <2>1, <2>2
<1>11. gs # << >> <=> n # 0
  BY <1>7
<1> HIDE DEF Right
<1>12. \A b \in 1..n : b \in Nat /\ Loads(s, b)
  BY <1>5 DEF Right
<1> QED
  BY <1>1, <1>6, <1>7, <1>8, <1>9, <1>10, <1>11, <1>12

\* What iterators give does not change.
LEMMA GivenSame ==
  ASSUME UNCHANGED input
  PROVE  UNCHANGED <<blocks, unreadable>> /\ \A s : Given(s)' = Given(s)
BY DEF input, Given, Loads

\* Every item of the heap is an entry, where its iterator stands.
HeapRight ==
    /\ heap \in SUBSET Source
    /\ \A s \in Source : Sorted(blocks[s]) /\ Sorted(Given(s))
    /\ cursor \in [Source -> [block : Nat, entry : Nat]]
    /\ \A s \in heap : OnEntry(Given(s), cursor[s])

\* An iterator's item is in the blocks that the iterator gives.
LEMMA ItemGiven ==
  ASSUME HeapRight, NEW s \in heap
  PROVE  /\ Item(s) = EntryAt(Given(s), cursor[s])
         /\ blocks[s][cursor[s].block] = Given(s)[cursor[s].block]
         /\ Loads(s, cursor[s].block)
         /\ Loads(s, cursor[s].block + 1) <=> cursor[s].block < Len(Given(s))
<1>1. /\ Sorted(blocks[s]) /\ OnEntry(Given(s), cursor[s])
  BY DEF HeapRight
<1>2. PICK b : b = cursor[s].block
  OBVIOUS
<1>3. b \in DOMAIN Given(s)
  BY <1>1, <1>2 DEF OnEntry
<1>4. /\ Loads(s, b) /\ Given(s)[b] = blocks[s][b]
      /\ Loads(s, b + 1) <=> b < Len(Given(s))
  BY <1>1, <1>3, GivenRight
<1> QED
  BY <1>2, <1>4 DEF Item, EntryAt

\* Before orders the heap, so that one item is at the top: no other has a
\* smaller key, and those with the same key are of older sources.
LEMMA TopRight ==
  ASSUME HeapRight, heap # {}
  PROVE  /\ Top \in heap
         /\ \A t \in heap \ {Top} :
              \/ KeyLess(Item(Top)[1], Item(t)[1])
              \/ Item(Top)[1] = Item(t)[1] /\ t < Top
<1>1. Tables \in Nat /\ heap \subseteq 1..Tables + 1
  BY SourceAssumption DEF HeapRight, Source
<1>2. IsFiniteSet(heap)
  <2>1. IsFiniteSet(1..Tables + 1)
    <3>1. Tables + 1 \in Int /\ 1 \in Int
      BY <1>1
    <3> QED
      BY <3>1, FS_Interval
  <2> QED
    BY <1>1, <2>1, FS_Subset
<1>3. \A s \in heap : s \in Int
  BY <1>1
<1>4. \A s \in heap : Item(s)[1] \in Key
  <2> SUFFICES ASSUME NEW s \in heap
               PROVE  Item(s)[1] \in Key
    OBVIOUS
  <2>1. Item(s) = EntryAt(Given(s), cursor[s])
    BY ItemGiven
  <2>2. Item(s) \in Pair
    BY <2>1, NextEntry DEF HeapRight
  <2> QED
    BY <2>2 DEF Pair
<1> DEFINE B(s, t) == \/ KeyLess(Item(s)[1], Item(t)[1])
                      \/ Item(s)[1] = Item(t)[1] /\ t < s
           R == {p \in heap \X heap : B(p[2], p[1])}
<1>5. \A s, t \in heap : Before(s, t) <=> B(s, t)
  <2> HIDE DEF Item, KeyLess
  <2> QED
    BY <1>1, <1>3 DEF Before, SourceIdx, Memtable
<1>6. \A s, t \in heap : <<t, s>> \in R <=> B(s, t)
  <2> HIDE DEF B
  <2> QED
    OBVIOUS
<1>7. TotalOrder(R, heap)
  <2>1. \A s \in heap : ~B(s, s)
    BY <1>3, <1>4, KeyOrder
  <2>2. \A s, t \in heap : s = t \/ B(s, t) \/ B(t, s)
    BY <1>3, <1>4, KeyOrder
  <2>3. \A s, t, u \in heap : B(s, t) /\ B(t, u) => B(s, u)
    BY <1>3, <1>4, KeyOrder
  <2> HIDE DEF R, B
  <2> QED
    BY <1>6, <2>1, <2>2, <2>3 DEF TotalOrder
<1>8. PICK m : Greatest(m, heap, R)
  <2> HIDE DEF R
  <2> QED
    BY <1>2, <1>7, GreatestElement
<1>9. m \in heap /\ \A t \in heap \ {m} : Before(m, t)
  <2> HIDE DEF R, B
  <2> QED
    BY <1>5, <1>6, <1>8 DEF Greatest
<1>10. Top \in heap /\ \A t \in heap \ {Top} : Before(Top, t)
  <2> HIDE DEF Before
  <2> QED
    BY <1>9 DEF Top
<1> QED
  <2> HIDE DEF Top, Item, Before
  <2> QED
    BY <1>5, <1>10

-----------------------------------------------------------------------------
(* The order of what comes out.                                            *)

\* k is nothing yet, or a key that is not behind m.
UpTo(k, m) == k = NoKey \/ k = m \/ KeyLess(k, m)

\* Variables that the merge uses have their types, and iterators stand on
\* entries of sorted sources.
StateRight ==
    /\ call \in Calls
    /\ pc \in {"open", "create", "pop", "close", "index", "bloom", "footer",
               "sync", "remove", "end"}
    /\ HeapRight
    /\ lastKey \in Key \cup {NoKey}
    /\ failed \in BOOLEAN
    /\ writeErrors \in 0..MaxWriteErrors

\* A block that has more than one entry is not too large.
BlockFits ==
    /\ block \in Seq(Pair)
    /\ Len(block) > 1 => SizeOf(block) <= BlockSize

\* What was emitted is in order and not behind lastKey, ...
EmittedInOrder ==
    /\ emitted \in Seq(Pair) /\ Ascending(emitted)
    /\ \A e \in Range(emitted) : e[1] = lastKey \/ KeyLess(e[1], lastKey)
    /\ lastKey = NoKey => emitted = << >>

\* ... and nothing in the heap is before lastKey; a flush has one source, and
\* the key it comes to is a new one.
HeapAhead ==
    /\ \A s \in heap : UpTo(lastKey, Item(s)[1])
    /\ call.kind = "flush" =>
         /\ heap \subseteq {Memtable}
         /\ \A s \in heap : lastKey # Item(s)[1]

\* Before Open, iterators stand on the first entry of the first block.
NotStarted ==
    pc = "open" =>
        /\ cursor = [s \in Source |-> [block |-> 1, entry |-> 1]]
        /\ lastKey = NoKey
        /\ heap = {}

\* A flush has no tables.
FlushInput ==
    call.kind = "flush" => \A s \in Source \ {Memtable} : blocks[s] = << >>

MergeInv ==
    /\ StateRight
    /\ BlockFits
    /\ EmittedInOrder
    /\ HeapAhead
    /\ NotStarted
    /\ FlushInput

\* In the beginning the sources are sorted and nothing was read.
LEMMA InitRight == Init => MergeInv
<1> SUFFICES ASSUME Init
             PROVE  MergeInv
  OBVIOUS
<1>1. PICK shapes \in [Sources(call) -> Shape] :
        blocks = [s \in Source |->
                    IF s \in Sources(call)
                      THEN InputOf(s, LayerOfShape(s, shapes[s]))
                      ELSE << >>]
  BY DEF Init
<1>2. Sorted(<< >>)
  <2>1. << >> \in Seq(Seq(Pair)) /\ DOMAIN << >> = {}
    OBVIOUS
  <2> QED
    BY <2>1 DEF Sorted
<1>3. ASSUME NEW s \in Source
      PROVE  Sorted(blocks[s])
  <2>1. CASE s \in Sources(call)
    <3>1. LayerOfShape(s, shapes[s]) \in Layer
      BY <2>1, ShapesAreLayers
    <3>2. blocks[s] = InputOf(s, LayerOfShape(s, shapes[s]))
      BY <1>1, <2>1
    <3> QED
      BY <3>1, <3>2, InputRight
  <2>2. CASE s \notin Sources(call)
    BY <1>1, <1>2, <2>2
  <2> QED
    BY <2>1, <2>2
<1>4. HeapRight
  <2>1. \A s \in Source : Sorted(Given(s))
    BY <1>3, GivenRight
  <2> QED
    BY <1>3, <2>1 DEF Init, HeapRight
<1>5. StateRight
  <2>1. 0 \in 0..MaxWriteErrors
    BY BoundAssumption
  <2> QED
    BY <1>4, <2>1 DEF Init, StateRight
<1>6. BlockFits
  <2>1. block = << >>
    BY DEF Init
  <2> QED
    BY <2>1 DEF BlockFits
<1>7. EmittedInOrder
  <2>1. emitted = << >>
    BY DEF Init
  <2>2. << >> \in Seq(Pair) /\ Ascending(<< >>) /\ Range(<< >>) = {}
    BY DEF Ascending, Range
  <2> QED
    BY <2>1, <2>2 DEF EmittedInOrder
<1>8. HeapAhead /\ NotStarted
  BY DEF Init, HeapAhead, NotStarted
<1>9. FlushInput
  <2> SUFFICES ASSUME call.kind = "flush", NEW s \in Source \ {Memtable}
               PROVE  blocks[s] = << >>
    BY DEF FlushInput
  <2>1. Sources(call) = {Memtable}
    BY DEF Sources
  <2> QED
    BY <1>1, <2>1
<1> QED
  BY <1>5, <1>6, <1>7, <1>8, <1>9 DEF MergeInv

\* Open puts iterators on the first entries into the heap.
LEMMA OpenRight == MergeInv /\ Open => MergeInv'
<1> SUFFICES ASSUME MergeInv, Open
             PROVE  MergeInv'
  OBVIOUS
<1> USE DEF MergeInv
<1>1. heap' = {s \in Source : Loads(s, 1)}
  BY DEF Open
<1>2. \A s \in Source : Sorted(blocks[s]) /\ Sorted(Given(s))
  BY DEF StateRight, HeapRight
<1>3. ASSUME NEW s \in Source, Loads(s, 1)
      PROVE  OnEntry(Given(s), cursor[s])
  <2>1. cursor[s] = [block |-> 1, entry |-> 1]
    BY DEF NotStarted, Open
  <2>2. ASSUME NEW S, NEW q \in Seq(S)
        PROVE  /\ q # << >> => 1 \in DOMAIN q
               /\ \A i \in DOMAIN q : q[i] \in S
    OBVIOUS
  <2>3. Given(s) \in Seq(Seq(Pair)) /\ 1 \in DOMAIN Given(s)
    <3>1. Given(s) # << >>
      BY <1>2, <1>3, GivenRight
    <3> QED
      BY <1>2, <2>2, <3>1 DEF Sorted
  <2>4. Given(s)[1] \in Seq(Pair) /\ Given(s)[1] # << >>
    BY <1>2, <2>2, <2>3 DEF Sorted
  <2>5. 1 \in DOMAIN Given(s)[1]
    BY <2>2, <2>4
  <2> QED
    BY <2>1, <2>3, <2>5 DEF OnEntry
<1>4. /\ heap' \in SUBSET Source
      /\ \A s \in heap' : OnEntry(Given(s), cursor[s])
  BY <1>1, <1>3
<1>5. UNCHANGED <<call, input, cursor, lastKey, emitted, file, block, index,
                  failed, writeErrors>>
  BY DEF Open, output
<1>6. HeapRight'
  BY <1>4, <1>5, GivenSame DEF HeapRight, StateRight
<1>7. pc' \in {"create", "pop", "end"}
  <2>1. call.kind \in {"flush", "compact", "scan"}
    BY DEF StateRight, Calls
  <2> QED
    BY <2>1 DEF Open
<1>8. StateRight'
  BY <1>5, <1>6, <1>7 DEF StateRight
<1>9. BlockFits' /\ EmittedInOrder' /\ FlushInput'
  BY <1>5, GivenSame DEF BlockFits, EmittedInOrder, FlushInput
<1>10. HeapAhead'
  <2>1. lastKey' = NoKey
    BY <1>5 DEF NotStarted, Open
  <2>2. \A s \in heap' : Item(s)'[1] \in Key
    <3> SUFFICES ASSUME NEW s \in heap'
                 PROVE  Item(s)'[1] \in Key
      OBVIOUS
    <3>1. EntryAt(Given(s), cursor[s]) \in Pair
      BY <1>4, NextEntry DEF StateRight, HeapRight
    <3>2. cursor[s].block \in DOMAIN Given(s) /\ Sorted(blocks[s])
      BY <1>2, <1>4 DEF OnEntry
    <3>3. Given(s)[cursor[s].block] = blocks[s][cursor[s].block]
      BY <3>2, GivenRight
    <3>4. Item(s)' = EntryAt(Given(s), cursor[s])
      BY <1>5, <3>3, GivenSame DEF Item, EntryAt
    <3> QED
      BY <3>1, <3>4 DEF Pair
  <2>3. call'.kind = "flush" => heap' \subseteq {Memtable}
    BY <1>1, <1>5 DEF FlushInput, Loads
  <2> QED
    BY <2>1, <2>2, <2>3, SourceAssumption DEF HeapAhead, UpTo
<1>11. NotStarted'
  BY <1>7 DEF NotStarted
<1> QED
  BY <1>8, <1>9, <1>10, <1>11

\* Advance moves one iterator to a greater entry, or takes it out of the heap.
LEMMA AdvanceRight ==
  ASSUME HeapRight, NEW s \in heap, Advance(s), UNCHANGED input
  PROVE  /\ HeapRight' /\ heap' \subseteq heap
         /\ \A t \in heap' \ {s} : Item(t)' = Item(t)
         /\ s \in heap' => KeyLess(Item(s)[1], Item(s)'[1])
<1>1. /\ s \in Source /\ Sorted(Given(s)) /\ OnEntry(Given(s), cursor[s])
      /\ cursor[s] \in [block : Nat, entry : Nat]
  BY DEF HeapRight
<1>2. PICK at, bs : at = cursor[s] /\ bs = Given(s)
  OBVIOUS
<1> USE GivenSame
<1>3. CASE \E to \in [block : Nat, entry : Nat] :
             /\ cursor' = [cursor EXCEPT ![s] = to]
             /\ OnEntry(bs, to)
             /\ KeyLess(EntryAt(bs, at)[1], EntryAt(bs, to)[1])
             /\ UNCHANGED heap
  <2>1. PICK to \in [block : Nat, entry : Nat] :
             /\ cursor' = [cursor EXCEPT ![s] = to]
             /\ OnEntry(bs, to)
             /\ KeyLess(EntryAt(bs, at)[1], EntryAt(bs, to)[1])
             /\ UNCHANGED heap
    BY <1>3
  <2>2. /\ cursor' \in [Source -> [block : Nat, entry : Nat]]
        /\ cursor'[s] = to /\ \A t \in Source \ {s} : cursor'[t] = cursor[t]
    BY <1>1, <2>1 DEF HeapRight
  <2>3. \A t \in heap' : OnEntry(Given(t)', cursor'[t])
    BY <1>2, <2>1, <2>2 DEF HeapRight
  <2>4. HeapRight'
    BY <2>1, <2>2, <2>3 DEF HeapRight
  <2>5. \A t \in heap' \ {s} : Item(t)' = Item(t)
    BY <2>1, <2>2 DEF HeapRight, Item
  <2>6. KeyLess(Item(s)[1], Item(s)'[1])
    <3>1. to.block \in DOMAIN bs
      BY <2>1 DEF OnEntry
    <3>2. bs[to.block] = blocks[s][to.block]
      BY <1>1, <1>2, <3>1, GivenRight DEF HeapRight
    <3>3. Item(s)' = EntryAt(bs, to)
      BY <2>2, <3>2 DEF Item, EntryAt
    <3>4. Item(s) = EntryAt(bs, at)
      BY <1>2, ItemGiven
    <3> QED
      BY <2>1, <3>3, <3>4
  <2> QED
    BY <2>1, <2>4, <2>5, <2>6
<1>4. CASE heap' = heap \ {s} /\ UNCHANGED cursor
  <2>1. HeapRight'
    BY <1>4 DEF HeapRight
  <2>2. \A t \in heap' \ {s} : Item(t)' = Item(t)
    BY <1>4 DEF Item
  <2> QED
    BY <1>4, <2>1, <2>2
<1>5. ASSUME NEW to \in [block : Nat, entry : Nat],
             \/ /\ at.entry < Len(bs[at.block])
                /\ to.block = at.block /\ to.entry = at.entry + 1
             \/ /\ at.block < Len(bs)
                /\ to.block = at.block + 1 /\ to.entry = 1
      PROVE  OnEntry(bs, to) /\ KeyLess(EntryAt(bs, at)[1], EntryAt(bs, to)[1])
  <2>1. Sorted(bs) /\ OnEntry(bs, at)
    BY <1>1, <1>2
  <2> QED
    BY <1>5, <2>1, NextEntry
<1>6. CASE /\ at.entry < Len(bs[at.block])
           /\ cursor' = [cursor EXCEPT ![s].entry = @ + 1]
           /\ UNCHANGED heap
  <2>1. PICK to : to = [block |-> at.block, entry |-> at.entry + 1]
    OBVIOUS
  <2>2. at \in [block : Nat, entry : Nat]
    BY <1>1, <1>2
  <2>3. /\ to \in [block : Nat, entry : Nat]
        /\ to.block = at.block /\ to.entry = at.entry + 1
    BY <2>1, <2>2
  <2>4. [at EXCEPT !.entry = @ + 1] = to
    BY <2>1, <2>2
  <2>5. cursor' = [cursor EXCEPT ![s] = to]
    BY <1>1, <1>2, <1>6, <2>4 DEF HeapRight
  <2> QED
    BY <1>3, <1>5, <1>6, <2>3, <2>5
<1>7. CASE /\ at.block < Len(bs)
           /\ cursor' = [cursor EXCEPT ![s] = [block |-> at.block + 1,
                                               entry |-> 1]]
           /\ UNCHANGED heap
  <2>1. PICK to : to = [block |-> at.block + 1, entry |-> 1]
    OBVIOUS
  <2>2. at \in [block : Nat, entry : Nat]
    BY <1>1, <1>2
  <2>3. /\ to \in [block : Nat, entry : Nat]
        /\ to.block = at.block + 1 /\ to.entry = 1
    BY <2>1, <2>2
  <2> QED
    BY <1>3, <1>5, <1>7, <2>1, <2>3
<1>8. /\ blocks[s][at.block] = bs[at.block]
      /\ Loads(s, at.block + 1) <=> at.block < Len(bs)
  BY <1>2, ItemGiven
<1> QED
  BY <1>2, <1>4, <1>6, <1>7, <1>8 DEF Advance

\* The key at the top of the heap is not before lastKey, and no other item is
\* before it; in a flush, it is alone and new.
LEMMA TopAhead ==
  ASSUME StateRight, HeapAhead, heap # {}
  PROVE  /\ Top \in heap /\ Item(Top) \in Pair
         /\ UpTo(lastKey, Item(Top)[1])
         /\ \A t \in heap : Item(t)[1] \in Key /\ UpTo(Item(Top)[1], Item(t)[1])
         /\ call.kind = "flush" => lastKey # Item(Top)[1] /\ heap = {Top}
<1>1. Top \in heap /\ \A t \in heap : UpTo(Item(Top)[1], Item(t)[1])
  <2>1. HeapRight
    BY DEF StateRight
  <2> HIDE DEF Top, Item
  <2> QED
    BY <2>1, TopRight DEF UpTo
<1>2. \A t \in heap : Item(t) \in Pair
  <2> SUFFICES ASSUME NEW t \in heap
               PROVE  Item(t) \in Pair
    OBVIOUS
  <2>1. Item(t) = EntryAt(Given(t), cursor[t])
    BY ItemGiven DEF StateRight
  <2> QED
    BY <2>1, NextEntry DEF StateRight, HeapRight
<1>3. \A e \in Pair : e[1] \in Key
  BY DEF Pair
<1> HIDE DEF Top, Item
<1> QED
  BY <1>1, <1>2, <1>3 DEF HeapAhead

\* Once an item left the heap, the heap is ahead of its key, and strictly so if
\* there is one source.
LEMMA Popped ==
  ASSUME MergeInv, heap # {}, Advance(Top), UNCHANGED <<call, input, pc>>,
         pc # "open", lastKey' \in {lastKey, Item(Top)[1]},
         call.kind = "flush" => lastKey' = Item(Top)[1]
  PROVE  /\ HeapRight' /\ HeapAhead' /\ NotStarted' /\ FlushInput'
         /\ lastKey' \in Key \cup {NoKey}
<1> USE DEF MergeInv
<1>1. PICK s : s = Top
  OBVIOUS
<1>2. PICK k : k = Item(s)[1]
  OBVIOUS
<1>3. /\ s \in heap /\ k \in Key /\ UpTo(lastKey, k)
      /\ \A t \in heap : Item(t)[1] \in Key /\ UpTo(k, Item(t)[1])
      /\ call.kind = "flush" => heap = {s}
  <2> HIDE DEF Top, Item
  <2> QED
    BY <1>1, <1>2, TopAhead
<1>4. /\ HeapRight' /\ heap' \subseteq heap
      /\ \A t \in heap' \ {s} : Item(t)' = Item(t)
      /\ s \in heap' => KeyLess(k, Item(s)'[1])
  <2>1. HeapRight /\ Advance(s)
    BY <1>1 DEF StateRight
  <2> HIDE DEF Advance, Item
  <2> QED
    BY <1>2, <1>3, <2>1, AdvanceRight
<1>5. \A t \in heap' : Item(t)'[1] \in Key
  <2> SUFFICES ASSUME NEW t \in heap'
               PROVE  Item(t)'[1] \in Key
    OBVIOUS
  <2>1. /\ Sorted(blocks[t]) /\ Sorted(Given(t)) /\ UNCHANGED blocks
        /\ OnEntry(Given(t), cursor'[t])
    BY <1>4, GivenSame DEF HeapRight
  <2>2. EntryAt(Given(t), cursor'[t]) \in Pair
    BY <2>1, NextEntry
  <2>3. Item(t)' = EntryAt(Given(t), cursor'[t])
    <3>1. Given(t)[cursor'[t].block] = blocks[t][cursor'[t].block]
      BY <2>1, GivenRight DEF OnEntry
    <3> QED
      BY <2>1, <3>1 DEF Item, EntryAt
  <2> QED
    BY <2>2, <2>3 DEF Pair
<1>6. lastKey' \in Key \cup {NoKey} /\ UpTo(lastKey', k)
  BY <1>1, <1>2, <1>3 DEF StateRight, UpTo
<1>7. ASSUME NEW t \in heap'
      PROVE  UpTo(lastKey', Item(t)'[1])
  <2>1. UpTo(k, Item(t)'[1])
    <3> HIDE DEF Item
    <3>1. CASE t = s
      BY <1>4, <1>7, <3>1 DEF UpTo
    <3>2. CASE t # s
      BY <1>3, <1>4, <1>7, <3>2
    <3> QED
      BY <3>1, <3>2
  <2>2. PICK m \in Key : m = Item(t)'[1]
    BY <1>5, <1>7
  <2>3. UpTo(lastKey', m)
    <3>1. UpTo(k, m) /\ k # NoKey
      BY <1>3, <2>1, <2>2, SourceAssumption
    <3> QED
      BY <1>3, <1>6, <3>1, KeyOrder DEF UpTo
  <2> QED
    BY <2>2, <2>3
<1>8. HeapAhead'
  <2>1. ASSUME call'.kind = "flush"
        PROVE  /\ heap' \subseteq {Memtable}
               /\ \A t \in heap' : lastKey' # Item(t)'[1]
    <3>1. call.kind = "flush" /\ lastKey' = k
      BY <1>1, <1>2, <2>1
    <3>2. heap' \subseteq {Memtable}
      BY <1>4, <3>1 DEF HeapAhead
    <3>3. ASSUME NEW t \in heap'
          PROVE  KeyLess(k, Item(t)'[1])
      <4>1. t = s
        BY <1>3, <1>4, <3>1, <3>3
      <4> QED
        BY <1>4, <3>3, <4>1
    <3> QED
      BY <1>3, <1>5, <3>1, <3>2, <3>3, KeyOrder
  <2> QED
    BY <1>7, <2>1 DEF HeapAhead
<1>9. NotStarted' /\ FlushInput'
  BY GivenSame DEF NotStarted, FlushInput
<1> QED
  BY <1>4, <1>6, <1>8, <1>9

\* What was emitted stays in order when lastKey moves on to a key that is not
\* before it.
LEMMA LastKeyMoves ==
  ASSUME StateRight, EmittedInOrder, NEW k \in Key, UpTo(lastKey, k),
         UNCHANGED emitted, lastKey' = k
  PROVE  EmittedInOrder'
<1>1. \A e \in Range(emitted) : e[1] \in Key
  <2>1. \A i \in DOMAIN emitted : emitted[i] \in Pair
    BY DEF EmittedInOrder
  <2> QED
    BY <2>1 DEF Range, Pair
<1>2. ASSUME NEW e \in Range(emitted)
      PROVE  e[1] = k \/ KeyLess(e[1], k)
  <2>1. lastKey # NoKey
    <3>1. Range(<< >>) = {}
      BY DEF Range
    <3> QED
      BY <1>2, <3>1 DEF EmittedInOrder
  <2>2. lastKey \in Key /\ (lastKey = k \/ KeyLess(lastKey, k))
    BY <2>1 DEF StateRight, UpTo
  <2>3. e[1] = lastKey \/ KeyLess(e[1], lastKey)
    BY <1>2 DEF EmittedInOrder
  <2> QED
    BY <1>1, <1>2, <2>2, <2>3, KeyOrder
<1>3. Range(emitted') = Range(emitted) /\ k # NoKey
  BY SourceAssumption
<1> QED
  BY <1>2, <1>3 DEF EmittedInOrder

\* A new key that is emitted comes behind the others.
LEMMA EmitOrdered ==
  ASSUME StateRight, EmittedInOrder, NEW e \in Pair, UpTo(lastKey, e[1]),
         lastKey # e[1], emitted' = Append(emitted, e), lastKey' = e[1]
  PROVE  EmittedInOrder'
<1>1. \A f \in Range(emitted) : f[1] \in Key
  <2>1. \A i \in DOMAIN emitted : emitted[i] \in Pair
    BY DEF EmittedInOrder
  <2> QED
    BY <2>1 DEF Range, Pair
<1>2. e[1] \in Key /\ e[1] # NoKey
  BY SourceAssumption DEF Pair
<1>3. ASSUME NEW f \in Range(emitted)
      PROVE  KeyLess(f[1], e[1])
  <2>1. lastKey # NoKey
    <3>1. Range(<< >>) = {}
      BY DEF Range
    <3> QED
      BY <1>3, <3>1 DEF EmittedInOrder
  <2>2. lastKey \in Key /\ KeyLess(lastKey, e[1])
    BY <2>1 DEF StateRight, UpTo
  <2>3. f[1] = lastKey \/ KeyLess(f[1], lastKey)
    BY <1>3 DEF EmittedInOrder
  <2> QED
    BY <1>1, <1>2, <1>3, <2>2, <2>3, KeyOrder
<1>4. /\ Append(emitted, e) \in Seq(Pair) /\ Ascending(Append(emitted, e))
      /\ Range(Append(emitted, e)) = Range(emitted) \cup {e}
  BY <1>3, AppendAscends DEF EmittedInOrder
<1>5. Range(emitted') = Range(emitted) \cup {e}
  BY <1>4
<1> QED
  BY <1>2, <1>3, <1>4, <1>5 DEF EmittedInOrder

\* Skip keeps the invariant: what is passed over is not before lastKey.
LEMMA SkipRight == MergeInv /\ Skip => MergeInv'
<1> SUFFICES ASSUME MergeInv, Skip
             PROVE  MergeInv'
  OBVIOUS
<1>1. PICK e : e = Item(Top)
  OBVIOUS
<1>2. /\ heap # {} /\ pc = "pop" /\ Advance(Top)
      /\ UNCHANGED <<call, input, pc, emitted, file, block, index, failed,
                     writeErrors>>
      /\ ~Wanted(e[1]) \/ Repeated(e[1]) \/ Dropped(e)
      /\ lastKey' = IF Wanted(e[1]) /\ ~Repeated(e[1]) THEN e[1] ELSE lastKey
  BY <1>1 DEF Skip, output, NewLastKey
<1>3. e \in Pair /\ UpTo(lastKey, e[1])
  <2> HIDE DEF Top, Item
  <2> QED
    BY <1>1, <1>2, TopAhead DEF MergeInv
<1>4. call.kind # "flush"
  BY <1>2 DEF Wanted, Repeated, Dropped
<1>5. /\ HeapRight' /\ HeapAhead' /\ NotStarted' /\ FlushInput'
      /\ lastKey' \in Key \cup {NoKey}
  <2>1. lastKey' \in {lastKey, Item(Top)[1]}
    BY <1>1, <1>2
  <2> HIDE DEF Top, Item, Advance
  <2> QED
    BY <1>2, <1>4, <2>1, Popped
<1>6. StateRight'
  BY <1>2, <1>5 DEF MergeInv, StateRight
<1>7. EmittedInOrder'
  <2>1. CASE UNCHANGED lastKey
    BY <1>2, <2>1 DEF MergeInv, EmittedInOrder
  <2>2. CASE lastKey' = e[1]
    <3>1. e[1] \in Key
      BY <1>3 DEF Pair
    <3> QED
      BY <1>2, <1>3, <2>2, <3>1, LastKeyMoves DEF MergeInv
  <2> QED
    BY <1>2, <2>1, <2>2
<1>8. BlockFits'
  BY <1>2 DEF MergeInv, BlockFits
<1> QED
  BY <1>5, <1>6, <1>7, <1>8 DEF MergeInv

\* Writer.Add puts an entry into the block only if it fits, or is alone there.
LEMMA AddFits ==
  ASSUME BlockFits, NEW e \in Pair, Add(e)
  PROVE  BlockFits'
<1>1. CASE BlockFull(block, e)
  <2>1. block' = <<e>>
    BY <1>1 DEF Add
  <2>2. <<e>> \in Seq(Pair) /\ Len(<<e>>) = 1
    OBVIOUS
  <2> QED
    BY <2>1, <2>2 DEF BlockFits
<1>2. CASE ~BlockFull(block, e)
  <2>1. block' = Append(block, e)
    BY <1>2 DEF Add
  <2>2. /\ block \in Seq(Pair) /\ Append(block, e) \in Seq(Pair)
        /\ Len(block) \in Nat /\ Len(Append(block, e)) = Len(block) + 1
    BY DEF BlockFits
  <2>3. /\ SizeOf(block) \in Nat
        /\ SizeOf(Append(block, e)) = SizeOf(block) + EntrySize(e)
    BY <2>2, SizeGrows
  <2>4. EntrySize(e) \in Nat
    BY FormatAssumption DEF EntrySize
  <2>5. ASSUME Len(block) > 0
        PROVE  SizeOf(block) + EntrySize(e) <= BlockSize
    BY <1>2, <2>3, <2>4, <2>5, FormatAssumption DEF BlockFull
  <2>6. Len(block') > 1 => SizeOf(block') <= BlockSize
    BY <2>1, <2>2, <2>3, <2>5
  <2> QED
    BY <2>1, <2>2, <2>6 DEF BlockFits
<1> QED
  BY <1>1, <1>2

\* Emit keeps it: the key is a new one.
LEMMA EmitRight == MergeInv /\ Emit => MergeInv'
<1> SUFFICES ASSUME MergeInv, Emit
             PROVE  MergeInv'
  OBVIOUS
<1>1. PICK e : e = Item(Top)
  OBVIOUS
<1>2. /\ heap # {} /\ pc = "pop" /\ Advance(Top)
      /\ UNCHANGED <<call, input, pc, failed, writeErrors>>
      /\ ~Repeated(e[1]) /\ lastKey' = e[1]
      /\ emitted' = Append(emitted, e)
      /\ Add(e) \/ UNCHANGED block
  <2> HIDE DEF Item, Top, Advance
  <2> QED
    BY <1>1 DEF Emit, output, NewLastKey, Add
<1>3. /\ e \in Pair /\ UpTo(lastKey, e[1])
      /\ call.kind = "flush" => lastKey # e[1]
  <2> HIDE DEF Top, Item
  <2> QED
    BY <1>1, <1>2, TopAhead DEF MergeInv
<1>4. lastKey # e[1]
  BY <1>2, <1>3 DEF Repeated
<1>5. /\ HeapRight' /\ HeapAhead' /\ NotStarted' /\ FlushInput'
      /\ lastKey' \in Key \cup {NoKey}
  <2>1. lastKey' = Item(Top)[1]
    BY <1>1, <1>2
  <2> HIDE DEF Top, Item, Advance
  <2> QED
    BY <1>2, <2>1, Popped
<1>6. StateRight'
  BY <1>2, <1>5 DEF MergeInv, StateRight
<1>7. EmittedInOrder'
  BY <1>2, <1>3, <1>4, EmitOrdered DEF MergeInv
<1>8. BlockFits'
  <2>1. CASE Add(e)
    BY <1>3, <2>1, AddFits DEF MergeInv
  <2>2. CASE UNCHANGED block
    BY <2>2 DEF MergeInv, BlockFits
  <2> QED
    BY <1>2, <2>1, <2>2
<1> QED
  BY <1>5, <1>6, <1>7, <1>8 DEF MergeInv

\* Steps that leave the merge alone keep it.
LEMMA OthersKeep ==
  ASSUME MergeInv, UNCHANGED <<call, input, heap, cursor, lastKey, emitted>>,
         pc' \in {"create", "pop", "close", "index", "bloom", "footer",
                  "sync", "remove", "end"},
         failed' \in BOOLEAN, writeErrors' \in 0..MaxWriteErrors,
         block' \in {block, << >>}
  PROVE  MergeInv'
<1> USE GivenSame
<1>1. HeapRight'
  BY DEF MergeInv, StateRight, HeapRight
<1>2. StateRight'
  BY <1>1 DEF MergeInv, StateRight
<1>3. BlockFits'
  <2>1. CASE block' = block
    BY <2>1 DEF MergeInv, BlockFits
  <2>2. CASE block' = << >>
    BY <2>2 DEF BlockFits
  <2> QED
    BY <2>1, <2>2
<1>4. EmittedInOrder' /\ FlushInput'
  BY DEF MergeInv, EmittedInOrder, FlushInput
<1>5. HeapAhead'
  BY DEF MergeInv, HeapAhead, UpTo, Item
<1>6. NotStarted'
  BY DEF NotStarted
<1> QED
  BY <1>2, <1>3, <1>4, <1>5, <1>6 DEF MergeInv

\* Writes that fail are counted up to the bound.
LEMMA WriteCounted ==
  ASSUME StateRight, CountError
  PROVE  writeErrors' \in 0..MaxWriteErrors
BY BoundAssumption DEF StateRight, CountError

\* MergeInv is an inductive invariant of the specification.
THEOREM Inductive == Spec => []MergeInv
<1>1. Init => MergeInv
  BY InitRight
<1>2. MergeInv /\ [Next]_vars => MergeInv'
  <2> SUFFICES ASSUME MergeInv, [Next]_vars
               PROVE  MergeInv'
    OBVIOUS
  <2> DEFINE M == <<call, input, heap, cursor, lastKey, emitted>>
             W == writeErrors' \in 0..MaxWriteErrors
             After == pc' \in {"create", "pop", "close", "index", "bloom",
                               "footer", "sync", "remove", "end"}
  <2>1. CASE Open
    BY <2>1, OpenRight
  <2>2. CASE Create
    <3>1. UNCHANGED M /\ After /\ UNCHANGED block
      BY <2>2 DEF Create, merge
    <3>2. failed' \in BOOLEAN /\ W
      BY <2>2, WriteCounted DEF Create, MergeInv, StateRight, WriteFails
    <3> QED
      BY <3>1, <3>2, OthersKeep
  <2>3. CASE Skip
    BY <2>3, SkipRight
  <2>4. CASE Emit
    BY <2>4, EmitRight
  <2>5. CASE AddFails
    <3>1. UNCHANGED M /\ After /\ UNCHANGED block /\ failed' \in BOOLEAN
      BY <2>5 DEF AddFails, merge
    <3>2. W
      BY <2>5, WriteCounted DEF AddFails, MergeInv, WriteFails
    <3> QED
      BY <3>1, <3>2, OthersKeep
  <2>6. CASE Exhausted
    <3>1. UNCHANGED M /\ After /\ UNCHANGED <<block, failed, writeErrors>>
      BY <2>6 DEF Exhausted, merge, output
    <3> QED
      BY <3>1, OthersKeep DEF MergeInv, StateRight
  <2>7. CASE CloseBlock
    <3>1. UNCHANGED M /\ After /\ block' \in {block, << >>}
      BY <2>7 DEF CloseBlock, merge, output, FlushBlock, CloseReturnsError
    <3>2. failed' \in BOOLEAN /\ W
      BY <2>7, WriteCounted
        DEF CloseBlock, MergeInv, StateRight, WriteFails, CloseReturnsError
    <3> QED
      BY <3>1, <3>2, OthersKeep
  <2>8. CASE CloseIndex \/ CloseBloom \/ CloseFooter
    <3>1. UNCHANGED M /\ After /\ UNCHANGED block
      BY <2>8 DEF CloseIndex, CloseBloom, CloseFooter, CloseStep, merge,
                  CloseReturnsError
    <3>2. failed' \in BOOLEAN /\ W
      BY <2>8, WriteCounted
        DEF CloseIndex, CloseBloom, CloseFooter, CloseStep, MergeInv,
            StateRight, WriteFails, CloseReturnsError
    <3> QED
      BY <3>1, <3>2, OthersKeep
  <2>9. CASE CloseSync
    <3>1. UNCHANGED M /\ After /\ UNCHANGED block
      BY <2>9 DEF CloseSync, merge, output, CloseReturnsError, Closed
    <3>2. failed' \in BOOLEAN /\ W
      BY <2>9, WriteCounted
        DEF CloseSync, MergeInv, StateRight, CloseReturnsError
    <3> QED
      BY <3>1, <3>2, OthersKeep
  <2>10. CASE RemoveOutput
    <3>1. UNCHANGED M /\ After /\ UNCHANGED <<block, failed, writeErrors>>
      BY <2>10 DEF RemoveOutput, merge
    <3> QED
      BY <3>1, OthersKeep DEF MergeInv, StateRight
  <2>11. CASE UNCHANGED vars
    <3>1. UNCHANGED <<call, input, pc, heap, cursor, lastKey, emitted, block,
                      failed, writeErrors>>
      BY <2>11 DEF vars, merge, output
    <3> QED
      BY <3>1, GivenSame
         DEF MergeInv, StateRight, HeapRight, BlockFits, EmittedInOrder,
             HeapAhead, NotStarted, FlushInput, Item, UpTo
  <2> QED
    BY <2>1, <2>2, <2>3, <2>4, <2>5, <2>6, <2>7, <2>8, <2>9, <2>10, <2>11
      DEF Next, End
<1> QED
  BY <1>1, <1>2, PTL DEF Spec

\* The types of all variables are right in every state: in particular an
\* iterator in the heap always stands on an entry, so that Entry never indexes
\* outside its block, and only an entry of its own makes a block too large.
THEOREM TypeCorrect == Spec => []TypeOK
<1>1. MergeInv => TypeOK
  <2> SUFFICES ASSUME MergeInv
               PROVE  TypeOK
    OBVIOUS
  <2>1. ASSUME NEW s \in heap
        PROVE  /\ Loads(s, cursor[s].block)
               /\ cursor[s].entry \in DOMAIN blocks[s][cursor[s].block]
    <3>1. HeapRight
      BY DEF MergeInv, StateRight
    <3> QED
      BY <3>1, ItemGiven DEF HeapRight, OnEntry
  <2> QED
    BY <2>1 DEF MergeInv, StateRight, HeapRight, BlockFits, TypeOK
<1> QED
  BY <1>1, Inductive, PTL

\* Whatever blocks cannot be read and whatever writes fail, a flush, a
\* compaction and a scan give out entries in strictly ascending order.
THEOREM OutputsSorted == Spec => []OutputSorted
<1>1. MergeInv => OutputSorted
  <2> SUFFICES ASSUME MergeInv, NEW i \in 1..Len(emitted) - 1
               PROVE  KeyLess(emitted[i][1], emitted[i + 1][1])
    BY DEF OutputSorted
  <2>1. emitted \in Seq(Pair) /\ Ascending(emitted)
    BY DEF MergeInv, EmittedInOrder
  <2>2. i \in DOMAIN emitted /\ i + 1 \in DOMAIN emitted /\ i < i + 1
    BY <2>1
  <2> QED
    BY <2>1, <2>2 DEF Ascending
<1> QED
  BY <1>1, Inductive, PTL

-----------------------------------------------------------------------------
(* What sequences of entries stand for.                                    *)

\* Two sequences in order, one behind the other, are in order.
LEMMA ConcatAscends ==
  ASSUME NEW es \in Seq(Pair), NEW fs \in Seq(Pair), Ascending(es),
         Ascending(fs),
         \A e \in Range(es), f \in Range(fs) : KeyLess(e[1], f[1])
  PROVE  /\ es \o fs \in Seq(Pair) /\ Ascending(es \o fs)
         /\ Range(es \o fs) = Range(es) \cup Range(fs)
<1>1. PICK m \in Nat : m = Len(es) /\ DOMAIN es = 1..m
  OBVIOUS
<1>2. PICK n \in Nat : n = Len(fs) /\ DOMAIN fs = 1..n
  OBVIOUS
<1>3. PICK q : q = es \o fs
  OBVIOUS
<1>4. /\ q \in Seq(Pair) /\ DOMAIN q = 1..m + n
      /\ \A i \in 1..m + n : q[i] = IF i <= m THEN es[i] ELSE fs[i - m]
  BY <1>1, <1>2, <1>3
<1>5. \A i \in 1..m + n : IF i <= m THEN i \in 1..m ELSE i - m \in 1..n
  BY <1>1, <1>2
<1>6. /\ \A i \in 1..m : i \in 1..m + n /\ i <= m
      /\ \A i \in 1..n : i + m \in 1..m + n /\ ~(i + m <= m) /\ i + m - m = i
  BY <1>1, <1>2
<1>7. /\ \A i \in 1..m : es[i] \in Range(es)
      /\ \A i \in 1..n : fs[i] \in Range(fs)
  BY <1>1, <1>2 DEF Range
<1>8. Ascending(q)
  <2> SUFFICES ASSUME NEW i \in 1..m + n, NEW j \in 1..m + n, i < j
               PROVE  KeyLess(q[i][1], q[j][1])
    BY <1>4 DEF Ascending
  <2>1. CASE j <= m
    <3>1. i <= m /\ i \in 1..m /\ j \in 1..m
      BY <1>1, <1>2, <2>1
    <3> QED
      BY <1>1, <1>4, <2>1, <3>1 DEF Ascending
  <2>2. CASE ~(j <= m) /\ i <= m
    <3>1. i \in 1..m /\ j - m \in 1..n
      BY <1>5, <2>2
    <3> QED
      BY <1>4, <1>7, <2>2, <3>1
  <2>3. CASE ~(j <= m) /\ ~(i <= m)
    <3>1. i - m \in 1..n /\ j - m \in 1..n /\ i - m < j - m
      BY <1>1, <1>2, <1>5, <2>3
    <3> QED
      BY <1>2, <1>4, <2>3, <3>1 DEF Ascending
  <2> QED
    BY <2>1, <2>2, <2>3
<1>9. Range(q) = Range(es) \cup Range(fs)
  <2>1. ASSUME NEW x \in Range(q)
        PROVE  x \in Range(es) \cup Range(fs)
    <3>1. PICK i \in 1..m + n : x = q[i]
      BY <1>4, <2>1 DEF Range
    <3>2. CASE i <= m
      BY <1>4, <1>5, <1>7, <3>1, <3>2
    <3>3. CASE ~(i <= m)
      BY <1>4, <1>5, <1>7, <3>1, <3>3
    <3> QED
      BY <3>2, <3>3
  <2>2. ASSUME NEW x \in Range(es)
        PROVE  x \in Range(q)
    <3>1. PICK i \in 1..m : x = es[i]
      BY <1>1, <2>2 DEF Range
    <3>2. i \in 1..m + n /\ x = q[i]
      BY <1>4, <1>6, <3>1
    <3> QED
      BY <1>4, <3>2 DEF Range
  <2>3. ASSUME NEW x \in Range(fs)
        PROVE  x \in Range(q)
    <3>1. PICK i \in 1..n : x = fs[i]
      BY <1>2, <2>3 DEF Range
    <3>2. i + m \in 1..m + n /\ x = q[i + m]
      BY <1>4, <1>6, <3>1
    <3> QED
      BY <1>4, <3>2 DEF Range
  <2> QED
    BY <2>1, <2>2, <2>3
<1> QED
  BY <1>3, <1>4, <1>8, <1>9

\* The entries of sorted blocks, one block after the other, are in order.
LEMMA Flattened ==
  ASSUME NEW bs, Sorted(bs)
  PROVE  /\ FlattenSeq(bs) \in Seq(Pair) /\ Ascending(FlattenSeq(bs))
         /\ Range(FlattenSeq(bs)) = EntriesIn(bs)
<1>1. PICK n \in Nat : n = Len(bs) /\ DOMAIN bs = 1..n
  BY DEF Sorted
<1>2. bs \in Seq(Seq(Pair)) /\ \A b \in 1..n : bs[b] \in Seq(Pair)
  <2>1. ASSUME NEW S, NEW q \in Seq(S), NEW i \in 1..Len(q)
        PROVE  q[i] \in S
    OBVIOUS
  <2> QED
    BY <1>1, <2>1 DEF Sorted
<1> DEFINE First(i) == UNION {Range(bs[b]) : b \in 1..i}
           R == [i \in 0..n |-> {q \in Seq(Pair) : /\ Ascending(q)
                                                   /\ Range(q) = First(i)}]
<1>3. << >> \in R[0]
  <2>1. << >> \in Seq(Pair) /\ Ascending(<< >>) /\ Range(<< >>) = {}
    BY DEF Ascending, Range
  <2>2. First(0) = {}
    OBVIOUS
  <2> QED
    BY <1>1, <2>1, <2>2
<1>4. ASSUME NEW i \in 1..n, NEW q \in R[i - 1]
      PROVE  q \o bs[i] \in R[i]
  <2>1. i - 1 \in 0..n /\ i \in 0..n
    BY <1>1
  <2>2. q \in Seq(Pair) /\ Ascending(q) /\ Range(q) = First(i - 1)
    BY <1>4, <2>1
  <2>3. Ascending(bs[i]) /\ bs[i] \in Seq(Pair)
    BY <1>1, <1>2 DEF Sorted
  <2>4. ASSUME NEW e \in Range(q), NEW f \in Range(bs[i])
        PROVE  KeyLess(e[1], f[1])
    <3>1. PICK b \in 1..i - 1 : e \in Range(bs[b])
      BY <2>2, <2>4
    <3>2. b \in 1..n /\ b < i
      BY <1>1
    <3>3. Precedes(bs[b], bs[i])
      BY <1>1, <3>2 DEF Sorted
    <3> QED
      BY <2>4, <3>1, <3>3 DEF Precedes, Range
  <2>5. /\ q \o bs[i] \in Seq(Pair) /\ Ascending(q \o bs[i])
        /\ Range(q \o bs[i]) = Range(q) \cup Range(bs[i])
    BY <2>2, <2>3, <2>4, ConcatAscends
  <2>6. First(i) = First(i - 1) \cup Range(bs[i])
    <3>1. \A b : b \in 1..i <=> b \in 1..i - 1 \/ b = i
      BY <1>1
    <3> QED
      BY <3>1
  <2> QED
    BY <2>1, <2>2, <2>5, <2>6
<1>5. FlattenSeq(bs) \in R[n]
  <2> HIDE DEF R
  <2> QED
    BY <1>1, <1>2, <1>3, <1>4, FlattenInduction
<1>6. First(n) = EntriesIn(bs)
  BY <1>1 DEF EntriesIn
<1>7. n \in 0..n
  BY <1>1
<1> QED
  BY <1>5, <1>6, <1>7

\* A sequence in order has one entry a key, and is a layer.
LEMMA LayerOfRight ==
  ASSUME NEW es \in Seq(Pair), Ascending(es)
  PROVE  /\ LayerOf(es) \in Layer
         /\ \A k \in Key, v \in Entry :
              LayerOf(es)[k] = v <=> <<k, v>> \in Range(es)
<1>1. \A i \in DOMAIN es : es[i] \in Pair
  OBVIOUS
<1>2. \A e \in Pair : e[1] \in Key /\ e[2] \in Entry /\ e = <<e[1], e[2]>>
  BY DEF Pair
<1>3. \A i, j \in DOMAIN es : es[i][1] = es[j][1] => i = j
  <2> SUFFICES ASSUME NEW i \in DOMAIN es, NEW j \in DOMAIN es,
                      es[i][1] = es[j][1], i # j
               PROVE  FALSE
    OBVIOUS
  <2>1. i \in Int /\ j \in Int
    OBVIOUS
  <2>2. i < j \/ j < i
    BY <2>1
  <2>3. KeyLess(es[i][1], es[j][1]) \/ KeyLess(es[j][1], es[i][1])
    BY <2>2 DEF Ascending
  <2> QED
    BY <1>1, <1>2, <2>3, KeyOrder
<1>4. Absent \notin Entry
  BY CellAssumption DEF Entry
<1>5. ASSUME NEW k \in Key
      PROVE  /\ LayerOf(es)[k] \in Entry \cup {Absent}
             /\ \A v \in Entry : LayerOf(es)[k] = v <=> <<k, v>> \in Range(es)
  <2>1. CASE \E i \in DOMAIN es : es[i][1] = k
    <3>1. PICK i \in DOMAIN es : es[i][1] = k
      BY <2>1
    <3>2. i = CHOOSE j \in DOMAIN es : es[j][1] = k
      BY <1>3, <3>1
    <3>3. LayerOf(es)[k] = es[i][2]
      BY <2>1, <3>2 DEF LayerOf
    <3>4. es[i] = <<k, es[i][2]>> /\ es[i][2] \in Entry
      BY <1>1, <1>2, <3>1
    <3>5. ASSUME NEW v \in Entry, <<k, v>> \in Range(es)
          PROVE  v = es[i][2]
      <4>1. PICK j \in DOMAIN es : es[j] = <<k, v>>
        BY <3>5 DEF Range
      <4>2. j = i
        BY <1>3, <3>1, <4>1
      <4> QED
        BY <4>1, <4>2
    <3>6. <<k, es[i][2]>> \in Range(es)
      BY <3>1, <3>4 DEF Range
    <3> QED
      BY <3>3, <3>4, <3>5, <3>6
  <2>2. CASE ~\E i \in DOMAIN es : es[i][1] = k
    <3>1. LayerOf(es)[k] = Absent
      BY <2>2 DEF LayerOf
    <3>2. \A v \in Entry : <<k, v>> \notin Range(es)
      BY <2>2 DEF Range
    <3> QED
      BY <1>4, <3>1, <3>2
  <2> QED
    BY <2>1, <2>2
<1>6. LayerOf(es) = [k \in Key |-> LayerOf(es)[k]]
  BY DEF LayerOf
<1>7. LayerOf(es) \in Layer
  <2> HIDE DEF LayerOf
  <2> QED
    BY <1>5, <1>6 DEF Layer
<1> QED
  BY <1>5, <1>7

\* Entries that are in order are determined by their set: one sequence begins
\* with the other, ...
LEMMA OrderBegins ==
  ASSUME NEW es \in Seq(Pair), NEW fs \in Seq(Pair), Ascending(es),
         Ascending(fs), Range(es) = Range(fs)
  PROVE  /\ Len(es) <= Len(fs)
         /\ \A i \in 1..Len(es) : es[i] = fs[i]
<1>1. PICK m \in Nat : m = Len(es) /\ DOMAIN es = 1..m
  OBVIOUS
<1>2. PICK n \in Nat : n = Len(fs) /\ DOMAIN fs = 1..n
  OBVIOUS
<1>3. /\ \A i \in 1..m : es[i][1] \in Key
      /\ \A i \in 1..n : fs[i][1] \in Key
  BY <1>1, <1>2 DEF Pair
<1> DEFINE T == {i \in Nat : i \in 1..m /\ ~(i \in 1..n /\ es[i] = fs[i])}
<1>4. T = {}
  <2> SUFFICES ASSUME T # {}
               PROVE  FALSE
    OBVIOUS
  <2>1. PICK i \in T : \A j \in T : i <= j
    <3>1. T \in SUBSET Nat
      OBVIOUS
    <3> HIDE DEF T
    <3> QED
      BY <3>1, LeastNatural
  <2>2. i \in Nat /\ i \in 1..m /\ ~(i \in 1..n /\ es[i] = fs[i])
    BY <2>1
  <2>3. \A j \in 1..i - 1 : j \in 1..m /\ j \in 1..n /\ es[j] = fs[j] /\ j < i
    <3> SUFFICES ASSUME NEW j \in 1..i - 1
                 PROVE  j \in 1..m /\ j \in 1..n /\ es[j] = fs[j] /\ j < i
      OBVIOUS
    <3>1. j \in 1..m /\ j < i /\ j \in Nat /\ ~(i <= j)
      BY <1>1, <2>2
    <3> QED
      BY <2>1, <3>1
  <2>4. PICK j \in 1..n : es[i] = fs[j]
    BY <1>1, <1>2, <2>2 DEF Range
  <2>5. ~(j < i)
    <3> SUFFICES ASSUME j < i
                 PROVE  FALSE
      OBVIOUS
    <3>1. j \in 1..i - 1
      BY <1>2, <2>2
    <3>2. es[j] = es[i] /\ j \in 1..m
      BY <2>3, <2>4, <3>1
    <3>3. KeyLess(es[j][1], es[i][1])
      BY <1>1, <2>2, <3>2 DEF Ascending
    <3> QED
      BY <1>3, <2>2, <3>2, <3>3, KeyOrder
  <2>6. i \in 1..n /\ i < j
    <3>1. i \in 1..n
      BY <1>1, <1>2, <2>2, <2>4, <2>5
    <3>2. i # j
      BY <2>2, <2>4, <3>1
    <3> QED
      BY <1>2, <2>2, <2>5, <3>1, <3>2
  <2>7. PICK k \in 1..m : fs[i] = es[k]
    BY <1>1, <1>2, <2>6 DEF Range
  <2>8. ~(k < i)
    <3> SUFFICES ASSUME k < i
                 PROVE  FALSE
      OBVIOUS
    <3>1. k \in 1..i - 1
      BY <1>1, <2>2
    <3>2. fs[k] = fs[i] /\ k \in 1..n
      BY <2>3, <2>7, <3>1
    <3>3. KeyLess(fs[k][1], fs[i][1])
      BY <1>2, <2>6, <3>2 DEF Ascending
    <3> QED
      BY <1>3, <2>6, <3>2, <3>3, KeyOrder
  <2>9. i < k
    <3>1. i # k
      BY <2>2, <2>6, <2>7
    <3> QED
      BY <1>1, <2>2, <2>8, <3>1
  <2>10. KeyLess(fs[i][1], fs[j][1]) /\ KeyLess(es[i][1], es[k][1])
    BY <1>1, <1>2, <2>2, <2>6, <2>9 DEF Ascending
  <2> QED
    BY <1>3, <2>2, <2>4, <2>6, <2>7, <2>10, KeyOrder
<1>5. \A i \in 1..m : i \in 1..n /\ es[i] = fs[i]
  BY <1>1, <1>4
<1>6. m <= n
  <2>1. CASE m = 0
    BY <1>2, <2>1
  <2>2. CASE m # 0
    <3>1. m \in 1..m
      BY <1>1, <2>2
    <3>2. m \in 1..n
      BY <1>5, <3>1
    <3> QED
      BY <1>2, <3>2
  <2> QED
    BY <2>1, <2>2
<1> QED
  BY <1>1, <1>2, <1>5, <1>6

\* ... and so they are the same.
LEMMA SameOrder ==
  ASSUME NEW es \in Seq(Pair), NEW fs \in Seq(Pair), Ascending(es),
         Ascending(fs), Range(es) = Range(fs)
  PROVE  es = fs
<1>1. /\ Len(es) <= Len(fs) /\ Len(fs) <= Len(es)
      /\ \A i \in 1..Len(es) : es[i] = fs[i]
  BY OrderBegins
<1> QED
  BY <1>1

-----------------------------------------------------------------------------
(* What comes out is complete.                                             *)

EntriesOf(s) == EntriesIn(Given(s))

\* No newer source has the entry's key.
Newest(e) ==
    \E s \in Source :
        /\ e \in EntriesOf(s)
        /\ \A t \in Source : t > s => \A f \in EntriesOf(t) : f[1] # e[1]

\* The call has to give out the entry.
Due(e) == Newest(e) /\ Wanted(e[1]) /\ ~Dropped(e)

Passed(k) == lastKey # NoKey /\ (k = lastKey \/ KeyLess(k, lastKey))

\* What was not passed is still to come, ...
NothingMissed ==
    \A s \in Source, f \in Pair :
        f \in EntriesOf(s) /\ Wanted(f[1]) =>
            Passed(f[1]) \/ (s \in heap /\ UpTo(Item(s)[1], f[1]))

\* ... and what was passed and is due was emitted.
EmittedDue == Range(emitted) = {e \in Pair : Due(e) /\ Passed(e[1])}

\* Sorted blocks hold entries, and one a key.
LEMMA OneEntry ==
  ASSUME NEW bs, Sorted(bs)
  PROVE  /\ EntriesIn(bs) \subseteq Pair
         /\ \A e, f \in EntriesIn(bs) : e[1] = f[1] => e = f
<1>1. PICK es : es = FlattenSeq(bs)
  OBVIOUS
<1>2. es \in Seq(Pair) /\ Ascending(es) /\ Range(es) = EntriesIn(bs)
  BY <1>1, Flattened
<1>3. Range(es) \subseteq Pair
  BY <1>2 DEF Range
<1>4. \A e \in Pair : e[1] \in Key /\ e[2] \in Entry /\ e = <<e[1], e[2]>>
  BY DEF Pair
<1>5. \A k \in Key, v \in Entry : <<k, v>> \in Range(es) => LayerOf(es)[k] = v
  BY <1>2, LayerOfRight
<1>6. \A e \in Range(es) : LayerOf(es)[e[1]] = e[2]
  BY <1>3, <1>4, <1>5
<1> QED
  BY <1>2, <1>3, <1>4, <1>6

\* An item of the heap is one of its source's entries.
LEMMA ItemRight ==
  ASSUME HeapRight, NEW s \in heap
  PROVE  Item(s) \in EntriesOf(s) /\ Item(s) \in Pair /\ Item(s)[1] \in Key
<1>1. s \in Source /\ Sorted(Given(s)) /\ OnEntry(Given(s), cursor[s])
  BY DEF HeapRight
<1>2. Item(s) \in EntriesOf(s)
  <2>1. PICK b, i : b = cursor[s].block /\ i = cursor[s].entry
    OBVIOUS
  <2>2. b \in DOMAIN Given(s) /\ i \in DOMAIN Given(s)[b]
    BY <1>1, <2>1 DEF OnEntry
  <2>3. Item(s) = Given(s)[b][i]
    BY <2>1, ItemGiven DEF EntryAt
  <2>4. Item(s) \in Range(Given(s)[b])
    BY <2>2, <2>3 DEF Range
  <2> QED
    BY <2>2, <2>4 DEF EntriesOf, EntriesIn
<1>3. Item(s) \in Pair
  BY <1>1, <1>2, OneEntry DEF EntriesOf
<1> QED
  BY <1>2, <1>3 DEF Pair

\* An entry that is not before the one at a place is at that place or behind.
LEMMA NotBefore ==
  ASSUME NEW bs, Sorted(bs), NEW at, OnEntry(bs, at),
         NEW c \in DOMAIN bs, NEW j \in DOMAIN bs[c],
         UpTo(EntryAt(bs, at)[1], bs[c][j][1])
  PROVE  c > at.block \/ (c = at.block /\ j >= at.entry)
<1>1. ASSUME NEW S, NEW q \in Seq(S)
      PROVE  /\ Len(q) \in Nat /\ DOMAIN q = 1..Len(q)
             /\ \A i \in DOMAIN q : q[i] \in S /\ i \in Int
  OBVIOUS
<1>2. \A b \in DOMAIN bs : bs[b] \in Seq(Pair) /\ b \in Int
  BY <1>1 DEF Sorted
<1>3. \A b \in DOMAIN bs : \A i \in DOMAIN bs[b] :
        i \in Int /\ bs[b][i] \in Pair
  BY <1>1, <1>2
<1>4. PICK b \in DOMAIN bs, i \in Int : b = at.block /\ i = at.entry
  BY <1>2, <1>3 DEF OnEntry
<1>5. i \in DOMAIN bs[b] /\ EntryAt(bs, at) = bs[b][i]
  BY <1>4 DEF OnEntry, EntryAt
<1>6. bs[b][i][1] \in Key /\ bs[c][j][1] \in Key
  BY <1>3, <1>5 DEF Pair
<1>7. ~KeyLess(bs[c][j][1], bs[b][i][1])
  BY <1>5, <1>6, KeyOrder, SourceAssumption DEF UpTo
<1>8. ~(c < b)
  BY <1>5, <1>7 DEF Sorted, Precedes
<1>9. c = b => ~(j < i)
  BY <1>5, <1>7 DEF Sorted, Ascending
<1> QED
  BY <1>2, <1>3, <1>4, <1>8, <1>9

\* Iterator.Next goes from at to the place to, if there is one.
Leads(bs, at, to) ==
    IF at.entry < Len(bs[at.block])
      THEN to.block = at.block /\ to.entry = at.entry + 1
      ELSE to.block = at.block + 1 /\ to.entry = 1

\* Nothing lies between an entry and the one Iterator.Next leads to.
LEMMA NextIsNext ==
  ASSUME NEW bs, Sorted(bs), NEW at, OnEntry(bs, at),
         NEW f \in EntriesIn(bs), UpTo(EntryAt(bs, at)[1], f[1]),
         f # EntryAt(bs, at)
  PROVE  /\ at.entry < Len(bs[at.block]) \/ at.block < Len(bs)
         /\ \A to \in [block : Nat, entry : Nat] :
              Leads(bs, at, to) => UpTo(EntryAt(bs, to)[1], f[1])
<1>1. ASSUME NEW S, NEW q \in Seq(S)
      PROVE  /\ Len(q) \in Nat /\ DOMAIN q = 1..Len(q)
             /\ \A i \in DOMAIN q : q[i] \in S
             /\ q # << >> => 1 \in DOMAIN q
  OBVIOUS
<1>2. PICK N \in Nat : N = Len(bs) /\ DOMAIN bs = 1..N
  BY <1>1 DEF Sorted
<1>3. \A d \in 1..N : bs[d] \in Seq(Pair)
  BY <1>1, <1>2 DEF Sorted
<1>4. PICK c \in 1..N : f \in Range(bs[c])
  BY <1>2 DEF EntriesIn
<1>5. PICK j \in DOMAIN bs[c] : f = bs[c][j]
  BY <1>4 DEF Range
<1>6. PICK L \in Nat : L = Len(bs[c]) /\ DOMAIN bs[c] = 1..L
  BY <1>1, <1>3
<1>7. PICK b \in 1..N, i \in Nat : b = at.block /\ i = at.entry
  BY <1>2 DEF OnEntry
<1>8. PICK M \in Nat : M = Len(bs[b]) /\ DOMAIN bs[b] = 1..M
  BY <1>1, <1>3
<1>9. i \in 1..M /\ EntryAt(bs, at) = bs[b][i]
  BY <1>7, <1>8 DEF OnEntry, EntryAt
<1>10. c > b \/ (c = b /\ j >= i)
  <2>1. c \in DOMAIN bs /\ j \in DOMAIN bs[c]
    BY <1>2, <1>5
  <2> QED
    BY <1>5, <1>7, <2>1, NotBefore
<1>11. c > b \/ (c = b /\ j > i)
  <2>1. c = b => j # i
    BY <1>5, <1>9
  <2> QED
    BY <1>6, <1>9, <1>10, <2>1
<1>12. i < M \/ b < N
  <2>1. CASE c > b
    BY <1>2, <2>1
  <2>2. CASE c = b /\ j > i
    <3>1. j \in 1..M
      BY <1>5, <1>8, <2>2
    <3> QED
      BY <1>8, <1>9, <2>2, <3>1
  <2> QED
    BY <1>11, <2>1, <2>2
<1>13. ASSUME NEW to \in [block : Nat, entry : Nat], i < M,
              to.block = b, to.entry = i + 1
       PROVE  UpTo(EntryAt(bs, to)[1], f[1])
  <2>1. EntryAt(bs, to) = bs[b][i + 1] /\ i + 1 \in 1..M
    BY <1>7, <1>8, <1>9, <1>13 DEF EntryAt
  <2>2. CASE c > b
    <3>1. Precedes(bs[b], bs[c])
      BY <1>2, <2>2 DEF Sorted
    <3> QED
      BY <1>5, <1>8, <2>1, <3>1 DEF Precedes, UpTo
  <2>3. CASE c = b /\ j = i + 1
    BY <1>5, <2>1, <2>3 DEF UpTo
  <2>4. CASE c = b /\ j > i + 1
    <3>1. Ascending(bs[b]) /\ j \in 1..M
      BY <1>2, <1>5, <1>8, <2>4 DEF Sorted
    <3>2. i + 1 < j
      BY <1>9, <2>4, <3>1
    <3>3. KeyLess(bs[b][i + 1][1], bs[b][j][1])
      BY <1>8, <2>1, <3>1, <3>2 DEF Ascending
    <3> QED
      BY <1>5, <2>1, <2>4, <3>3 DEF UpTo
  <2> QED
    BY <1>6, <1>9, <1>11, <2>2, <2>3, <2>4
<1>14. ASSUME NEW to \in [block : Nat, entry : Nat], ~(i < M),
              to.block = b + 1, to.entry = 1
       PROVE  UpTo(EntryAt(bs, to)[1], f[1])
  <2>1. c > b
    <3> SUFFICES ASSUME c = b /\ j > i
                 PROVE  FALSE
      BY <1>11
    <3>1. j \in 1..M
      BY <1>5, <1>8
    <3> QED
      BY <1>8, <1>9, <1>14, <3>1
  <2>2. b + 1 \in 1..N /\ EntryAt(bs, to) = bs[b + 1][1]
    BY <1>2, <1>14, <2>1 DEF EntryAt
  <2>3. 1 \in DOMAIN bs[b + 1]
    BY <1>1, <1>2, <1>3, <2>2 DEF Sorted
  <2>4. CASE c = b + 1
    <3>1. j = 1 \/ 1 < j
      BY <1>6
    <3>2. Ascending(bs[c])
      BY <1>2 DEF Sorted
    <3> QED
      BY <1>5, <2>2, <2>3, <2>4, <3>1, <3>2 DEF Ascending, UpTo
  <2>5. CASE c > b + 1
    <3>1. Precedes(bs[b + 1], bs[c])
      BY <1>2, <2>2, <2>5 DEF Sorted
    <3> QED
      BY <1>5, <2>2, <2>3, <3>1 DEF Precedes, UpTo
  <2> QED
    BY <1>2, <2>1, <2>4, <2>5
<1>15. ASSUME NEW to \in [block : Nat, entry : Nat],
              Leads(bs, at, to)
       PROVE  UpTo(EntryAt(bs, to)[1], f[1])
  <2>1. CASE i < M
    BY <1>7, <1>8, <1>13, <1>15, <2>1 DEF Leads
  <2>2. CASE ~(i < M)
    BY <1>7, <1>8, <1>14, <1>15, <2>2 DEF Leads
  <2> QED
    BY <2>1, <2>2
<1>16. at.entry < Len(bs[at.block]) <=> i < M
  BY <1>7, <1>8
<1>17. at.block < Len(bs) <=> b < N
  BY <1>2, <1>7
<1> QED
  BY <1>12, <1>15, <1>16, <1>17

\* Of what the iterator gives, Advance takes only the item itself away.
LEMMA AdvanceExact ==
  ASSUME HeapRight, NEW s \in heap, Advance(s), UNCHANGED input,
         NEW f \in EntriesOf(s), UpTo(Item(s)[1], f[1]), f # Item(s)
  PROVE  s \in heap' /\ UpTo(Item(s)'[1], f[1])
<1>1. /\ s \in Source /\ Sorted(Given(s)) /\ OnEntry(Given(s), cursor[s])
      /\ cursor[s] \in [block : Nat, entry : Nat]
  BY DEF HeapRight
<1>2. PICK at, bs : at = cursor[s] /\ bs = Given(s)
  OBVIOUS
<1>3. /\ at \in [block : Nat, entry : Nat] /\ Sorted(bs) /\ OnEntry(bs, at)
      /\ f \in EntriesIn(bs) /\ EntryAt(bs, at) = Item(s)
  BY <1>1, <1>2, ItemGiven DEF EntriesOf
<1>4. /\ at.entry < Len(bs[at.block]) \/ at.block < Len(bs)
      /\ \A to \in [block : Nat, entry : Nat] :
           Leads(bs, at, to) => UpTo(EntryAt(bs, to)[1], f[1])
  <2> HIDE DEF Item
  <2> QED
    BY <1>3, NextIsNext
<1>5. /\ blocks[s][at.block] = bs[at.block]
      /\ Loads(s, at.block + 1) <=> at.block < Len(bs)
  BY <1>2, ItemGiven
<1>6. PICK to \in [block : Nat, entry : Nat] :
        /\ cursor' = [cursor EXCEPT ![s] = to] /\ heap' = heap
        /\ Leads(bs, at, to)
  <2>1. CASE at.entry < Len(bs[at.block])
    <3>1. cursor' = [cursor EXCEPT ![s].entry = @ + 1] /\ heap' = heap
      BY <1>2, <1>5, <2>1 DEF Advance
    <3>2. PICK to : to = [block |-> at.block, entry |-> at.entry + 1]
      OBVIOUS
    <3>3. /\ to \in [block : Nat, entry : Nat]
          /\ to.block = at.block /\ to.entry = at.entry + 1
      BY <1>3, <3>2
    <3>4. [at EXCEPT !.entry = @ + 1] = to
      BY <1>3, <3>2
    <3>5. cursor' = [cursor EXCEPT ![s] = to]
      BY <1>1, <1>2, <3>1, <3>4 DEF HeapRight
    <3> QED
      BY <2>1, <3>1, <3>3, <3>5 DEF Leads
  <2>2. CASE ~(at.entry < Len(bs[at.block]))
    <3>1. PICK to : to = [block |-> at.block + 1, entry |-> 1]
      OBVIOUS
    <3>2. /\ to \in [block : Nat, entry : Nat]
          /\ to.block = at.block + 1 /\ to.entry = 1
      BY <1>3, <3>1
    <3>3. cursor' = [cursor EXCEPT ![s] = to] /\ heap' = heap
      BY <1>2, <1>4, <1>5, <2>2, <3>1 DEF Advance
    <3> QED
      BY <2>2, <3>2, <3>3 DEF Leads
  <2> QED
    BY <2>1, <2>2
<1>7. UpTo(EntryAt(bs, to)[1], f[1])
  BY <1>4, <1>6
<1>8. Item(s)' = EntryAt(bs, to)
  <2>1. cursor'[s] = to
    BY <1>1, <1>6 DEF HeapRight
  <2>2. OnEntry(bs, to)
    BY <1>3, <1>4, <1>6, NextEntry DEF Leads
  <2>3. bs[to.block] = blocks[s][to.block]
    BY <1>1, <1>2, <2>2, GivenRight DEF HeapRight, OnEntry
  <2> QED
    BY <1>2, <2>1, <2>3, GivenSame DEF Item, EntryAt
<1> QED
  BY <1>6, <1>7, <1>8

\* The top of the heap, if its key is wanted and not a repetition, is the entry
\* of the newest source that has it, and no wanted key was passed over.
LEMMA TopIsNewest ==
  ASSUME MergeInv, heap # {}, NothingMissed, NEW e, e = Item(Top),
         Wanted(e[1]), ~Repeated(e[1])
  PROVE  /\ Newest(e) /\ ~Passed(e[1])
         /\ \A f \in Pair : /\ Due(f) /\ ~Passed(f[1])
                            /\ f[1] = e[1] \/ KeyLess(f[1], e[1])
                            => f = e
<1>1. HeapRight /\ lastKey \in Key \cup {NoKey}
  BY DEF MergeInv, StateRight
<1>2. PICK s : s = Top
  OBVIOUS
<1>3. /\ s \in heap /\ s \in Source
      /\ \A t \in heap \ {s} :
           \/ KeyLess(Item(s)[1], Item(t)[1])
           \/ Item(s)[1] = Item(t)[1] /\ t < s
  <2> HIDE DEF Top, Item
  <2> QED
    BY <1>1, <1>2, TopRight DEF HeapRight
<1>4. e = Item(s) /\ e \in EntriesOf(s) /\ e \in Pair /\ e[1] \in Key
  <2> HIDE DEF Top, Item
  <2> QED
    BY <1>1, <1>2, <1>3, ItemRight
<1>5. UpTo(lastKey, e[1]) /\ (call.kind = "flush" => lastKey # e[1])
  <2> HIDE DEF Top, Item
  <2> QED
    BY <1>2, <1>4, TopAhead DEF MergeInv
<1>6. lastKey # e[1]
  BY <1>5 DEF Repeated
<1>7. ~Passed(e[1])
  BY <1>1, <1>4, <1>5, <1>6, KeyOrder, SourceAssumption DEF Passed, UpTo
<1>8. ASSUME NEW t \in Source, NEW f \in EntriesOf(t), f \in Pair,
             Wanted(f[1]), ~Passed(f[1]), f[1] = e[1] \/ KeyLess(f[1], e[1])
      PROVE  t \in heap /\ f = Item(t) /\ f[1] = e[1]
  <2>1. t \in heap /\ UpTo(Item(t)[1], f[1])
    BY <1>8 DEF NothingMissed
  <2>2. Item(t) \in EntriesOf(t) /\ Item(t)[1] \in Key
    BY <1>1, <2>1, ItemRight
  <2>3. UpTo(e[1], Item(t)[1])
    <3> HIDE DEF Item
    <3> QED
      BY <1>3, <1>4, <2>1 DEF UpTo
  <2>4. PICK k \in Key, m \in Key : k = f[1] /\ m = Item(t)[1]
    BY <1>8, <2>2 DEF Pair
  <2>5. k = e[1] /\ m = e[1]
    BY <1>4, <1>8, <2>1, <2>3, <2>4, KeyOrder, SourceAssumption DEF UpTo
  <2>6. f = Item(t)
    <3>1. Sorted(Given(t))
      BY <1>1 DEF HeapRight
    <3> HIDE DEF Item
    <3> QED
      BY <1>8, <2>2, <2>4, <2>5, <3>1, OneEntry DEF EntriesOf
  <2> QED
    BY <2>1, <2>4, <2>5, <2>6
<1>9. \A t \in Source : EntriesOf(t) \subseteq Pair /\ t \in Int
  <2>1. Tables \in Nat
    BY SourceAssumption
  <2> QED
    BY <1>1, <2>1, OneEntry DEF HeapRight, EntriesOf, Source
<1>10. Newest(e)
  <2>1. ASSUME NEW t \in Source, t > s, NEW f \in EntriesOf(t), f[1] = e[1]
        PROVE  FALSE
    <3>1. t \in heap /\ f = Item(t)
      BY <1>7, <1>8, <1>9, <2>1
    <3>2. t \in heap \ {s} /\ ~(t < s)
      BY <1>3, <1>9, <2>1, <3>1
    <3>3. KeyLess(e[1], f[1])
      BY <1>3, <1>4, <3>1, <3>2
    <3> QED
      BY <1>4, <2>1, <3>3, KeyOrder
  <2> QED
    BY <1>3, <1>4, <2>1 DEF Newest
<1>11. ASSUME NEW f \in Pair, Due(f), ~Passed(f[1]),
              f[1] = e[1] \/ KeyLess(f[1], e[1])
       PROVE  f = e
  <2>1. PICK t \in Source :
          /\ f \in EntriesOf(t)
          /\ \A u \in Source : u > t => \A g \in EntriesOf(u) : g[1] # f[1]
    BY <1>11 DEF Due, Newest
  <2>2. t \in heap /\ f = Item(t) /\ f[1] = e[1]
    BY <1>8, <1>11, <2>1 DEF Due
  <2>3. t = s
    <3> SUFFICES ASSUME t # s
                 PROVE  FALSE
      OBVIOUS
    <3>1. ~KeyLess(e[1], f[1])
      BY <1>4, <2>2, KeyOrder
    <3>2. t < s
      BY <1>3, <1>4, <2>2, <3>1
    <3>3. s > t
      BY <1>3, <1>9, <3>2
    <3> QED
      BY <1>3, <1>4, <2>1, <2>2, <3>3
  <2> QED
    BY <1>4, <2>2, <2>3
<1> QED
  BY <1>7, <1>10, <1>11

\* One item leaves the heap: with its key, if it is wanted, lastKey moves on,
\* and it is emitted if it has to be.
LEMMA PopExact ==
  ASSUME MergeInv, heap # {}, Advance(Top), UNCHANGED <<call, input>>,
         NothingMissed, EmittedDue, NEW e, e = Item(Top),
         lastKey' = IF Wanted(e[1]) /\ ~Repeated(e[1]) THEN e[1] ELSE lastKey,
         Range(emitted') =
           IF Wanted(e[1]) /\ ~Repeated(e[1]) /\ ~Dropped(e)
             THEN Range(emitted) \cup {e} ELSE Range(emitted)
  PROVE  NothingMissed' /\ EmittedDue'
<1>1. HeapRight /\ lastKey \in Key \cup {NoKey}
  BY DEF MergeInv, StateRight
<1>2. PICK s : s = Top
  OBVIOUS
<1>3. /\ s \in heap /\ s \in Source /\ e = Item(s) /\ e \in Pair /\ e[1] \in Key
      /\ UpTo(lastKey, e[1])
  <2>1. s \in heap /\ e \in Pair /\ UpTo(lastKey, e[1])
    <3> HIDE DEF Top, Item
    <3> QED
      BY <1>2, TopAhead DEF MergeInv
  <2> QED
    BY <1>1, <1>2, <2>1 DEF HeapRight, Pair
<1>4. /\ \A f : Due(f)' <=> Due(f)
      /\ \A k : Wanted(k)' <=> Wanted(k)
      /\ \A t : EntriesOf(t)' = EntriesOf(t)
  BY GivenSame DEF Due, Newest, Wanted, Dropped, EntriesOf, InRange
<1>5. \A k \in Key : Passed(k) => Passed(k)'
  <2> SUFFICES ASSUME NEW k \in Key, Passed(k)
               PROVE  Passed(k)'
    OBVIOUS
  <2>1. CASE lastKey' = lastKey
    BY <2>1 DEF Passed
  <2>2. CASE lastKey' = e[1]
    BY <1>1, <1>3, <2>2, KeyOrder, SourceAssumption DEF Passed, UpTo
  <2> QED
    BY <2>1, <2>2
<1>6. Wanted(e[1]) => Passed(e[1])'
  <2>1. e[1] # NoKey
    BY <1>3, SourceAssumption
  <2> QED
    BY <2>1 DEF Passed, Repeated
<1>7. NothingMissed'
  <2> SUFFICES ASSUME NEW t \in Source, NEW f \in Pair,
                      f \in EntriesOf(t), Wanted(f[1]), ~Passed(f[1])'
               PROVE  t \in heap' /\ UpTo(Item(t)'[1], f[1])
    BY <1>4 DEF NothingMissed
  <2>1. ~Passed(f[1])
    BY <1>5 DEF Pair
  <2>2. t \in heap /\ UpTo(Item(t)[1], f[1])
    BY <2>1 DEF NothingMissed
  <2>3. CASE t = s
    <3>1. f # Item(s)
      BY <1>3, <1>6, <2>3
    <3>2. Advance(s) /\ f \in EntriesOf(s) /\ UpTo(Item(s)[1], f[1])
      BY <1>2, <2>2, <2>3
    <3>3. s \in heap' /\ UpTo(Item(s)'[1], f[1])
      <4> HIDE DEF Item, Advance
      <4> QED
        BY <1>1, <1>3, <3>1, <3>2, AdvanceExact
    <3> QED
      BY <2>3, <3>3
  <2>4. CASE t # s
    <3>1. Advance(s)
      BY <1>2
    <3>2. t \in heap' => Item(t)' = Item(t)
      <4> HIDE DEF Item, Advance
      <4> QED
        BY <1>1, <1>3, <2>4, <3>1, AdvanceRight
    <3>3. t \in heap'
      BY <2>2, <2>4, <3>1 DEF Advance
    <3> QED
      BY <2>2, <3>2, <3>3
  <2> QED
    BY <2>3, <2>4
<1>8. EmittedDue'
  <2>1. CASE ~(Wanted(e[1]) /\ ~Repeated(e[1]))
    <3>1. lastKey' = lastKey /\ Range(emitted') = Range(emitted)
      BY <2>1
    <3>2. \A k : Passed(k)' <=> Passed(k)
      BY <3>1 DEF Passed
    <3> QED
      BY <1>4, <3>1, <3>2 DEF EmittedDue
  <2>2. CASE Wanted(e[1]) /\ ~Repeated(e[1])
    <3>1. lastKey' = e[1] /\ e[1] # NoKey
      BY <1>3, <2>2, SourceAssumption
    <3>2. \A k : Passed(k)' <=> k = e[1] \/ KeyLess(k, e[1])
      BY <3>1 DEF Passed
    <3>3. /\ Newest(e) /\ ~Passed(e[1])
          /\ \A f \in Pair : /\ Due(f) /\ ~Passed(f[1])
                             /\ f[1] = e[1] \/ KeyLess(f[1], e[1])
                             => f = e
      <4> HIDE DEF Item, Top
      <4> QED
        BY <2>2, TopIsNewest
    <3>4. Due(e) <=> ~Dropped(e)
      BY <2>2, <3>3 DEF Due
    <3>5. \A f \in Pair : Passed(f[1]) => Passed(f[1])'
      BY <1>5 DEF Pair
    <3>6. ASSUME NEW f \in Pair
          PROVE  Due(f) /\ Passed(f[1])' <=>
                   \/ Due(f) /\ Passed(f[1])
                   \/ f = e /\ ~Dropped(e)
      BY <3>2, <3>3, <3>4, <3>5
    <3>7. Range(emitted') = IF ~Dropped(e) THEN Range(emitted) \cup {e}
                                           ELSE Range(emitted)
      BY <2>2
    <3>8. Range(emitted') = {f \in Pair : Due(f) /\ Passed(f[1])'}
      <4>1. Range(emitted) = {f \in Pair : Due(f) /\ Passed(f[1])}
        BY DEF EmittedDue
      <4> HIDE DEF Due, Passed, Dropped, Range
      <4>2. CASE Dropped(e)
        BY <3>6, <3>7, <4>1, <4>2
      <4>3. CASE ~Dropped(e)
        BY <1>3, <3>6, <3>7, <4>1, <4>3
      <4> QED
        BY <4>2, <4>3
    <3> QED
      BY <1>4, <3>8 DEF EmittedDue
  <2> QED
    BY <2>1, <2>2
<1> QED
  BY <1>7, <1>8

\* The loop has ended, unless the call has failed; a scan writes nothing; and a
\* memtable that is flushed is not empty and needs no reads.
LoopEnds ==
    /\ pc \notin {"open", "create", "pop"} /\ ~failed => heap = {}
    /\ call.kind = "scan" => ~failed /\ pc \in {"open", "pop", "end"}
    /\ call.kind = "flush" => Loads(Memtable, 1)

\* Nothing that the iterators give is missing in what was given out.
ExactInv ==
    /\ LoopEnds
    /\ pc # "open" => NothingMissed /\ EmittedDue

\* ExactInv is an invariant.
THEOREM MergesExactly == Spec => []ExactInv
<1>1. Init => ExactInv
  <2> SUFFICES ASSUME Init
               PROVE  ExactInv
    OBVIOUS
  <2>1. ASSUME call.kind = "flush"
        PROVE  Loads(Memtable, 1)
    <3>1. Memtable \in Source
      BY SourceAssumption DEF Memtable, Source
    <3>2. Sorted(blocks[Memtable]) /\ blocks[Memtable] # << >>
      BY <2>1, <3>1, InitRight
         DEF Init, MergeInv, StateRight, HeapRight
    <3>3. 1 \in DOMAIN blocks[Memtable]
      BY <3>2 DEF Sorted
    <3>4. PICK n \in 0..MaxReadErrors :
            unreadable \in kSubset(n, UNION {{s} \X DOMAIN blocks[s] :
                                             s \in Source \ {Memtable}})
      BY DEF Init
    <3>5. <<Memtable, 1>> \notin unreadable
      BY <3>4 DEF kSubset
    <3> QED
      BY <3>3, <3>5 DEF Loads
  <2> QED
    BY <2>1 DEF Init, ExactInv, LoopEnds
<1>2. MergeInv /\ MergeInv' /\ ExactInv /\ [Next]_vars => ExactInv'
  <2> SUFFICES ASSUME MergeInv, MergeInv', ExactInv, [Next]_vars
               PROVE  ExactInv'
    OBVIOUS
  <2>1. call.kind \in {"flush", "compact", "scan"}
    BY DEF MergeInv, StateRight, Calls
  <2>2. CASE Open
    <3>1. /\ pc = "open" /\ UNCHANGED <<call, input, cursor, lastKey, emitted>>
          /\ UNCHANGED failed
      BY <2>2 DEF Open
    <3>2. LoopEnds'
      BY <2>1, <2>2, <3>1, GivenSame DEF Open, ExactInv, LoopEnds, Loads
    <3>3. NothingMissed' /\ EmittedDue'
      <4>1. /\ heap' = {s \in Source : Loads(s, 1)}
            /\ \A s \in Source : Sorted(blocks[s]) /\ Sorted(Given(s))
        BY <2>2 DEF Open, MergeInv, StateRight, HeapRight
      <4>2. \A s : Given(s)' = Given(s) /\ blocks' = blocks
        BY <3>1, GivenSame
      <4>3. lastKey' = NoKey /\ emitted' = << >> /\ Range(emitted') = {}
        BY <3>1 DEF MergeInv, NotStarted, EmittedInOrder, Range
      <4>4. EmittedDue'
        BY <4>3 DEF EmittedDue, Passed
      <4>5. ASSUME NEW s \in Source, NEW f \in Pair, f \in EntriesOf(s)'
            PROVE  s \in heap' /\ UpTo(Item(s)'[1], f[1])
        <5>1. PICK bs : bs = Given(s)
          OBVIOUS
        <5>2. Sorted(bs) /\ f \in EntriesIn(bs)
          BY <4>1, <4>2, <4>5, <5>1 DEF EntriesOf
        <5>3. bs # << >>
          BY <5>2 DEF EntriesIn
        <5>4. s \in heap'
          BY <4>1, <5>1, <5>3, GivenRight
        <5>5. ASSUME NEW S, NEW q \in Seq(S)
              PROVE  /\ q # << >> => 1 \in DOMAIN q
                     /\ \A i \in DOMAIN q : q[i] \in S /\ (i = 1 \/ 1 < i)
          OBVIOUS
        <5>6. Item(s)' = bs[1][1]
          <6>1. 1 \in DOMAIN bs
            BY <5>2, <5>3, <5>5 DEF Sorted
          <6>2. bs[1] = blocks[s][1]
            BY <4>1, <5>1, <6>1, GivenRight
          <6> QED
            BY <3>1, <4>2, <6>2 DEF MergeInv, NotStarted, Item
        <5>7. PICK b \in DOMAIN bs : f \in Range(bs[b])
          BY <5>2 DEF EntriesIn
        <5>8. PICK j \in DOMAIN bs[b] : f = bs[b][j]
          BY <5>7 DEF Range
        <5>9. 1 \in DOMAIN bs /\ (b = 1 \/ 1 < b) /\ bs[1] \in Seq(Pair)
          BY <5>2, <5>3, <5>5 DEF Sorted
        <5>10. 1 \in DOMAIN bs[1]
          BY <5>2, <5>5, <5>9 DEF Sorted
        <5>11. CASE 1 < b
          BY <5>2, <5>4, <5>6, <5>8, <5>9, <5>10, <5>11
            DEF Sorted, Precedes, UpTo
        <5>12. CASE b = 1
          <6>1. j = 1 \/ 1 < j
            BY <5>5, <5>8, <5>9, <5>12
          <6> QED
            BY <5>2, <5>4, <5>6, <5>8, <5>9, <5>10, <5>12, <6>1
              DEF Sorted, Ascending, UpTo
        <5> QED
          BY <5>4, <5>9, <5>11, <5>12
      <4> QED
        BY <4>4, <4>5 DEF NothingMissed
    <3> QED
      BY <3>2, <3>3 DEF ExactInv
  <2>3. CASE Skip
    <3>1. PICK e : e = Item(Top)
      OBVIOUS
    <3>2. /\ pc = "pop" /\ heap # {} /\ Advance(Top)
          /\ UNCHANGED <<call, input, pc, emitted, failed>>
          /\ lastKey' = IF Wanted(e[1]) /\ ~Repeated(e[1])
                          THEN e[1] ELSE lastKey
          /\ ~(Wanted(e[1]) /\ ~Repeated(e[1]) /\ ~Dropped(e))
      BY <2>3, <3>1 DEF Skip, NewLastKey
    <3>3. LoopEnds'
      BY <3>2, GivenSame DEF ExactInv, LoopEnds, Loads
    <3>4. NothingMissed' /\ EmittedDue'
      <4> HIDE DEF Item, Top, Advance
      <4>1. NothingMissed /\ EmittedDue
        BY <3>2 DEF ExactInv
      <4>2. Range(emitted') = Range(emitted)
        BY <3>2
      <4>3. Range(emitted') = IF Wanted(e[1]) /\ ~Repeated(e[1]) /\ ~Dropped(e)
                                THEN Range(emitted) \cup {e} ELSE Range(emitted)
        BY <3>2, <4>2
      <4> QED
        BY <3>1, <3>2, <4>1, <4>3, PopExact
    <3> QED
      BY <3>3, <3>4 DEF ExactInv
  <2>4. CASE Emit
    <3>1. PICK e : e = Item(Top)
      OBVIOUS
    <3>2. /\ pc = "pop" /\ heap # {} /\ Advance(Top)
          /\ UNCHANGED <<call, input, pc, failed>>
          /\ lastKey' = e[1] /\ emitted' = Append(emitted, e)
          /\ Wanted(e[1]) /\ ~Repeated(e[1]) /\ ~Dropped(e)
      <4> HIDE DEF Item, Top, Advance
      <4> QED
        BY <2>4, <3>1 DEF Emit, NewLastKey, Add
    <3>3. LoopEnds'
      BY <3>2, GivenSame DEF ExactInv, LoopEnds, Loads
    <3>4. NothingMissed' /\ EmittedDue'
      <4>1. emitted \in Seq(Pair)
        BY DEF MergeInv, EmittedInOrder
      <4> HIDE DEF Item, Top, Advance
      <4>2. NothingMissed /\ EmittedDue
        BY <3>2 DEF ExactInv
      <4>3. e \in Pair
        BY <3>1, <3>2, TopAhead DEF MergeInv
      <4>4. Range(emitted') = Range(emitted) \cup {e}
        <5>1. ASSUME NEW S, NEW q \in Seq(S), NEW x \in S
              PROVE  Range(Append(q, x)) = Range(q) \cup {x}
          <6>1. PICK n \in Nat : n = Len(q) /\ DOMAIN q = 1..n
            OBVIOUS
          <6>2. PICK p : p = Append(q, x)
            OBVIOUS
          <6>3. /\ DOMAIN p = 1..n + 1 /\ p[n + 1] = x
                /\ \A i \in 1..n : p[i] = q[i]
            BY <6>1, <6>2
          <6>4. \A i : i \in 1..n + 1 <=> i \in 1..n \/ i = n + 1
            BY <6>1
          <6> QED
            BY <6>1, <6>2, <6>3, <6>4 DEF Range
        <5> QED
          BY <3>2, <4>1, <4>3, <5>1
      <4>5. /\ Range(emitted') =
                 IF Wanted(e[1]) /\ ~Repeated(e[1]) /\ ~Dropped(e)
                   THEN Range(emitted) \cup {e} ELSE Range(emitted)
            /\ lastKey' = IF Wanted(e[1]) /\ ~Repeated(e[1])
                            THEN e[1] ELSE lastKey
        BY <3>2, <4>4
      <4> QED
        BY <3>1, <3>2, <4>2, <4>5, PopExact
    <3> QED
      BY <3>3, <3>4 DEF ExactInv
  <2>5. ASSUME UNCHANGED <<call, input, heap, cursor, lastKey, emitted>>,
               pc # "open", LoopEnds'
        PROVE  ExactInv'
    <3>1. /\ NothingMissed => NothingMissed'
          /\ EmittedDue => EmittedDue'
      BY <2>5, GivenSame
         DEF NothingMissed, EmittedDue, Due, Newest, Wanted, Dropped,
             EntriesOf, InRange, Passed, Item
    <3> QED
      BY <2>5, <3>1 DEF ExactInv
  <2>6. CASE Create
    <3>1. LoopEnds'
      BY <2>1, <2>6, GivenSame DEF Create, merge, ExactInv, LoopEnds, Loads
    <3> QED
      BY <2>5, <2>6, <3>1 DEF Create, merge
  <2>7. CASE AddFails
    <3>1. LoopEnds'
      BY <2>1, <2>7, GivenSame DEF AddFails, merge, ExactInv, LoopEnds, Loads
    <3> QED
      BY <2>5, <2>7, <3>1 DEF AddFails, merge
  <2>8. CASE Exhausted
    <3>1. LoopEnds'
      BY <2>1, <2>8, GivenSame DEF Exhausted, merge, ExactInv, LoopEnds, Loads
    <3> QED
      BY <2>5, <2>8, <3>1 DEF Exhausted, merge
  <2>9. CASE CloseBlock
    <3>1. LoopEnds'
      BY <2>1, <2>9, GivenSame
        DEF CloseBlock, CloseReturnsError, merge, ExactInv, LoopEnds, Loads
    <3> QED
      BY <2>5, <2>9, <3>1 DEF CloseBlock, merge
  <2>10. CASE CloseIndex \/ CloseBloom \/ CloseFooter
    <3>1. LoopEnds'
      BY <2>1, <2>10, GivenSame
        DEF CloseIndex, CloseBloom, CloseFooter, CloseStep,
            CloseReturnsError, merge, ExactInv, LoopEnds, Loads
    <3> QED
      BY <2>5, <2>10, <3>1
        DEF CloseIndex, CloseBloom, CloseFooter, CloseStep, merge
  <2>11. CASE CloseSync
    <3>1. LoopEnds'
      BY <2>1, <2>11, GivenSame
        DEF CloseSync, CloseReturnsError, Closed, merge, ExactInv,
            LoopEnds, Loads
    <3> QED
      BY <2>5, <2>11, <3>1 DEF CloseSync, merge
  <2>12. CASE RemoveOutput
    <3>1. LoopEnds'
      BY <2>1, <2>12, GivenSame
        DEF RemoveOutput, merge, ExactInv, LoopEnds, Loads
    <3> QED
      BY <2>5, <2>12, <3>1 DEF RemoveOutput, merge
  <2>13. CASE UNCHANGED vars
    <3>1. UNCHANGED <<call, input, pc, heap, cursor, lastKey, emitted, failed>>
      BY <2>13 DEF vars, merge
    <3>2. LoopEnds'
      BY <3>1, GivenSame DEF ExactInv, LoopEnds, Loads
    <3>3. CASE pc = "open"
      BY <3>1, <3>2, <3>3 DEF ExactInv
    <3> QED
      BY <2>5, <3>1, <3>2, <3>3
  <2> QED
    BY <2>2, <2>3, <2>4, <2>6, <2>7, <2>8, <2>9, <2>10, <2>11, <2>12, <2>13
      DEF Next, End
<1> QED
  BY <1>1, <1>2, Inductive, PTL DEF Spec

-----------------------------------------------------------------------------
(* Results.                                                                *)

\* The layer of a source has the entries that its iterator gives.
LEMMA InputLayers ==
  ASSUME HeapRight, NEW s \in Source
  PROVE  /\ Inputs[s] \in Layer
         /\ \A k \in Key, v \in Entry :
              Inputs[s][k] = v <=> <<k, v>> \in EntriesOf(s)
<1>1. PICK es : es = FlattenSeq(Given(s))
  OBVIOUS
<1>2. Sorted(Given(s))
  BY DEF HeapRight
<1>3. es \in Seq(Pair) /\ Ascending(es) /\ Range(es) = EntriesOf(s)
  BY <1>1, <1>2, Flattened DEF EntriesOf
<1>4. Inputs[s] = LayerOf(es)
  BY <1>1 DEF Inputs
<1> QED
  BY <1>3, <1>4, LayerOfRight

\* The layers on top of each other have the newest entries.
LEMMA MergedRight ==
  ASSUME HeapRight
  PROVE  /\ Overlay(Inputs, Source) \in Layer
         /\ \A k \in Key, v \in Entry :
              Overlay(Inputs, Source)[k] = v <=> Newest(<<k, v>>)
<1>1. /\ Tables \in Nat /\ Source \subseteq Nat
      /\ \A s \in Source : s <= Tables + 1
  BY SourceAssumption DEF Source
<1>2. Absent \notin Entry
  BY CellAssumption DEF Entry
<1>3. ASSUME NEW s \in Source
      PROVE  /\ Inputs[s] \in Layer /\ EntriesOf(s) \subseteq Pair
             /\ \A k \in Key, v \in Entry :
                  Inputs[s][k] = v <=> <<k, v>> \in EntriesOf(s)
  BY InputLayers, OneEntry DEF HeapRight, EntriesOf
<1>4. ASSUME NEW k \in Key
      PROVE  /\ Overlay(Inputs, Source)[k] \in Entry \cup {Absent}
             /\ \A v \in Entry :
                  Overlay(Inputs, Source)[k] = v <=> Newest(<<k, v>>)
  <2>1. PICK H : H = Holding(Inputs, Source, k)
    OBVIOUS
  <2>2. \A s : s \in H <=> s \in Source /\ Inputs[s][k] # Absent
    BY <2>1 DEF Holding
  <2>3. \A s \in Source : Inputs[s][k] \in Entry \cup {Absent}
    BY <1>3 DEF Layer
  <2>4. \A s \in Source : s \notin H <=> \A f \in EntriesOf(s) : f[1] # k
    <3> SUFFICES ASSUME NEW s \in Source
                 PROVE  s \notin H <=> \A f \in EntriesOf(s) : f[1] # k
      OBVIOUS
    <3>1. CASE s \in H
      <4>1. <<k, Inputs[s][k]>> \in EntriesOf(s)
        BY <1>3, <2>2, <2>3, <3>1
      <4> QED
        BY <3>1, <4>1
    <3>2. CASE s \notin H
      <4> SUFFICES ASSUME NEW f \in EntriesOf(s), f[1] = k
                   PROVE  FALSE
        BY <3>2
      <4>1. f \in Pair
        BY <1>3
      <4>2. f[2] \in Entry /\ f = <<k, f[2]>>
        BY <4>1 DEF Pair
      <4>3. Inputs[s][k] = f[2]
        BY <1>3, <4>2
      <4> QED
        BY <1>2, <2>2, <3>2, <4>2, <4>3
    <3> QED
      BY <3>1, <3>2
  <2>5. CASE H = {}
    <3>1. Overlay(Inputs, Source)[k] = Absent
      BY <2>1, <2>5 DEF Overlay
    <3>2. \A v \in Entry : ~Newest(<<k, v>>)
      <4> SUFFICES ASSUME NEW v \in Entry, Newest(<<k, v>>)
                   PROVE  FALSE
        OBVIOUS
      <4>1. PICK s \in Source : <<k, v>> \in EntriesOf(s)
        BY DEF Newest
      <4> QED
        BY <2>4, <2>5, <4>1
    <3> QED
      BY <1>2, <3>1, <3>2
  <2>6. CASE H # {}
    <3>1. H \in SUBSET Nat /\ \A s \in H : s <= Tables + 1 /\ s \in Source
      BY <1>1, <2>2
    <3>2. PICK m : m = Max(H)
      OBVIOUS
    <3>3. m \in H /\ \A s \in H : s <= m
      <4>1. Tables + 1 \in Nat
        BY <1>1
      <4> QED
        BY <2>6, <3>1, <3>2, <4>1, MaxInSet
    <3>4. Overlay(Inputs, Source)[k] = Inputs[m][k]
      BY <2>1, <2>6, <3>2 DEF Overlay
    <3>5. m \in Source /\ Inputs[m][k] \in Entry
      BY <2>2, <2>3, <3>3
    <3>6. ASSUME NEW v \in Entry, Inputs[m][k] = v
          PROVE  Newest(<<k, v>>)
      <4>1. <<k, v>> \in EntriesOf(m)
        BY <1>3, <3>5, <3>6
      <4>2. ASSUME NEW t \in Source, t > m, NEW f \in EntriesOf(t)
            PROVE  f[1] # k
        <5>1. t \notin H
          BY <1>1, <3>3, <3>5, <4>2
        <5> QED
          BY <2>4, <4>2, <5>1
      <4> QED
        BY <3>5, <4>1, <4>2 DEF Newest
    <3>7. ASSUME NEW v \in Entry, Newest(<<k, v>>)
          PROVE  Inputs[m][k] = v
      <4>1. PICK s \in Source :
              /\ <<k, v>> \in EntriesOf(s)
              /\ \A t \in Source : t > s => \A f \in EntriesOf(t) : f[1] # k
        BY <3>7 DEF Newest
      <4>2. s \in H
        BY <2>4, <4>1
      <4>3. ~(m > s)
        BY <2>4, <3>3, <3>5, <4>1
      <4>4. m = s
        BY <1>1, <3>3, <3>5, <4>2, <4>3
      <4> QED
        BY <1>3, <4>1, <4>4
    <3> QED
      BY <3>4, <3>5, <3>6, <3>7
  <2> QED
    BY <2>5, <2>6
<1>5. Overlay(Inputs, Source) = [k \in Key |-> Overlay(Inputs, Source)[k]]
  BY DEF Overlay
<1>6. Overlay(Inputs, Source) \in Layer
  <2> HIDE DEF Overlay
  <2> QED
    BY <1>4, <1>5 DEF Layer
<1> QED
  BY <1>4, <1>6

\* What a call is to give out, as the properties have it.
Expected ==
    LET merged == Overlay(Inputs, Source)
    IN  CASE call.kind = "flush" -> merged
          [] call.kind = "compact" ->
               IF call.isMajor THEN Visible(merged) ELSE merged
          [] call.kind = "scan" ->
               Only(Visible(merged), {k \in Key : InRange(k)})

\* It is a layer of the entries that are due.
LEMMA ExpectedDue ==
  ASSUME HeapRight, call \in Calls
  PROVE  Expected \in Layer /\ CellsOf(Expected) = {e \in Pair : Due(e)}
<1>1. PICK m : m = Overlay(Inputs, Source)
  OBVIOUS
<1>2. m \in Layer /\ \A k \in Key, v \in Entry : m[k] = v <=> Newest(<<k, v>>)
  BY <1>1, MergedRight
<1>3. call.kind \in {"flush", "compact", "scan"}
  BY DEF Calls
<1>4. /\ call.kind = "flush" => Expected = m
      /\ call.kind = "compact" =>
           Expected = IF call.isMajor THEN Visible(m) ELSE m
      /\ call.kind = "scan" =>
           Expected = Only(Visible(m), {k \in Key : InRange(k)})
  BY <1>1 DEF Expected
<1>5. Absent \notin Entry /\ Tombstone \in Entry
  BY CellAssumption DEF Entry
<1>6. \A k \in Key : m[k] \in Entry \cup {Absent}
  BY <1>2 DEF Layer
<1>7. ASSUME NEW k \in Key
      PROVE  /\ Visible(m)[k] = IF m[k] = Tombstone THEN Absent ELSE m[k]
             /\ Only(Visible(m), {x \in Key : InRange(x)})[k] =
                  IF InRange(k) THEN Visible(m)[k] ELSE Absent
  BY DEF Visible, StoreValue, Only
<1>8. /\ Visible(m) \in Layer
      /\ Only(Visible(m), {x \in Key : InRange(x)}) \in Layer
  BY <1>6 DEF Visible, StoreValue, Only, Layer
<1>9. ASSUME NEW k \in Key, NEW v \in Entry
      PROVE  Expected[k] = v <=>
               m[k] = v /\ Wanted(k) /\ ~Dropped(<<k, v>>)
  <2>1. CASE call.kind = "flush"
    BY <1>4, <2>1 DEF Wanted, Dropped
  <2>2. CASE call.kind = "compact" /\ ~call.isMajor
    BY <1>4, <2>2 DEF Wanted, Dropped
  <2>3. CASE call.kind = "compact" /\ call.isMajor
    BY <1>4, <1>5, <1>6, <1>7, <2>3 DEF Wanted, Dropped
  <2>4. CASE call.kind = "scan"
    BY <1>4, <1>5, <1>6, <1>7, <2>4 DEF Wanted, Dropped
  <2> QED
    BY <1>3, <2>1, <2>2, <2>3, <2>4
<1>10. Expected \in Layer
  BY <1>2, <1>3, <1>4, <1>8
<1> HIDE DEF Expected
<1>11. \A k \in Key : Expected[k] \in Entry \cup {Absent}
  BY <1>10 DEF Layer
<1>12. ASSUME NEW e \in Pair
       PROVE  e \in CellsOf(Expected) <=> Due(e)
  <2>1. PICK k \in Key, v \in Entry : e = <<k, v>> /\ e[1] = k
    BY DEF Pair
  <2>2. e \in CellsOf(Expected) <=> Expected[k] = v
    BY <1>5, <2>1 DEF CellsOf
  <2> QED
    BY <1>2, <1>9, <2>1, <2>2 DEF Due
<1>13. CellsOf(Expected) \subseteq Pair
  BY <1>11 DEF CellsOf, Pair
<1> QED
  BY <1>10, <1>12, <1>13

\* When a loop is at its end, what was given out is what was to be given out.
LEMMA AllEmitted ==
  ASSUME MergeInv, ExactInv, pc \notin {"open", "create", "pop"}, ~failed
  PROVE  Expected \in Layer /\ emitted = Entries(Expected)
<1>1. HeapRight /\ call \in Calls
  BY DEF MergeInv, StateRight
<1>2. heap = {} /\ NothingMissed /\ EmittedDue
  BY DEF ExactInv, LoopEnds
<1>3. Expected \in Layer /\ CellsOf(Expected) = {e \in Pair : Due(e)}
  BY <1>1, ExpectedDue
<1>4. \A e \in Pair : Due(e) => Passed(e[1])
  <2> SUFFICES ASSUME NEW e \in Pair, Due(e)
               PROVE  Passed(e[1])
    OBVIOUS
  <2>1. PICK s \in Source : e \in EntriesOf(s)
    BY DEF Due, Newest
  <2>2. Wanted(e[1])
    BY DEF Due
  <2> QED
    BY <1>2, <2>1, <2>2 DEF NothingMissed
<1>5. Range(emitted) = CellsOf(Expected)
  BY <1>2, <1>3, <1>4 DEF EmittedDue
<1>6. /\ Entries(Expected) \in Seq(Pair) /\ Ascending(Entries(Expected))
      /\ Range(Entries(Expected)) = CellsOf(Expected)
  BY <1>3, EntriesRight
<1>7. emitted \in Seq(Pair) /\ Ascending(emitted)
  BY DEF MergeInv, EmittedInOrder
<1> QED
  BY <1>3, <1>5, <1>6, <1>7, SameOrder

\* A scan returns the live keys of its range, each with its newest value, in
\* order and once, and exactly those of the readable blocks where it meets one
\* that cannot be read.
THEOREM ScansExact == Spec => []ScanExact
<1>1. MergeInv /\ ExactInv => ScanExact
  <2> SUFFICES ASSUME MergeInv, ExactInv, pc = "end", call.kind = "scan"
               PROVE  emitted = Entries(
                        Only(Visible(Overlay(Inputs, Source)),
                             {k \in Key : InRange(k)}))
    BY DEF ScanExact
  <2>1. ~failed
    BY DEF ExactInv, LoopEnds
  <2>2. emitted = Entries(Expected)
    BY <2>1, AllEmitted
  <2> QED
    BY <2>2 DEF Expected
<1> QED
  BY <1>1, Inductive, MergesExactly, PTL

-----------------------------------------------------------------------------
(* The file that is written.                                               *)

IsSeq(q) == q \in Seq(Range(q))

\* A chunk that the hash is given.
Plain(c) == c.kind \notin {"junk", "footer"}

Hashed == IsSeq(checksum) /\ \A i \in DOMAIN checksum : Plain(checksum[i])

\* The blocks at the places that the index names.
Stored == [i \in DOMAIN index |-> checksum[index[i].offset].entries]

\* They are what was emitted, together with the current block, and the index
\* has their first keys.
IndexRight ==
    /\ IsSeq(index)
    /\ \A i \in DOMAIN index :
         /\ index[i].offset \in DOMAIN checksum
         /\ index[i].first = Stored[i][1][1]
    /\ Sorted(Stored) /\ block \in Seq(Pair) /\ Ascending(block)
    /\ \A e \in EntriesIn(Stored), f \in Range(block) : KeyLess(e[1], f[1])
    /\ FlattenSeq(Stored) \o block = emitted

\* The hash was given the index and the bloom filter last.
Closing ==
    LET n == Len(checksum)
    IN  /\ n - 1 \in DOMAIN checksum /\ n \in DOMAIN checksum
        /\ checksum[n - 1] = Index(index)
        /\ checksum[n] = Bloom(BloomFilter(BloomKeys))
        /\ block = << >>

\* No write has left anything else than what the hash was given, ...
Clean == file = checksum /\ offset = Len(checksum) + 1

\* ... or only the footer, after the index and the bloom filter.
Finished ==
    /\ Closing
    /\ LET n == Len(checksum)
       IN  file = Append(checksum, Footer(n - 1, n, checksum))

\* What Append does to any sequence.
LEMMA AppendAny ==
  ASSUME NEW q, IsSeq(q), NEW x
  PROVE  /\ IsSeq(Append(q, x)) /\ Len(q) \in Nat /\ DOMAIN q = 1..Len(q)
         /\ Len(Append(q, x)) = Len(q) + 1
         /\ DOMAIN Append(q, x) = 1..Len(q) + 1
         /\ Append(q, x)[Len(q) + 1] = x
         /\ \A i \in 1..Len(q) : Append(q, x)[i] = q[i]
         /\ Append(q, x) # << >> /\ Last(Append(q, x)) = x
<1>1. PICK S : S = Range(q) \cup {x}
  OBVIOUS
<1>2. q \in Seq(S) /\ x \in S
  <2>1. ASSUME NEW T, NEW U, T \subseteq U, NEW p \in Seq(T)
        PROVE  p \in Seq(U)
    BY <2>1
  <2> QED
    BY <1>1, <2>1 DEF IsSeq
<1>3. PICK n \in Nat : n = Len(q) /\ DOMAIN q = 1..n
  BY <1>2
<1>4. PICK p : p = Append(q, x)
  OBVIOUS
<1>5. /\ p \in Seq(S) /\ Len(p) = n + 1 /\ DOMAIN p = 1..n + 1
      /\ p[n + 1] = x /\ \A i \in 1..n : p[i] = q[i]
  BY <1>2, <1>3, <1>4
<1>6. IsSeq(p)
  <2>1. ASSUME NEW T, NEW r \in Seq(T)
        PROVE  r \in Seq(Range(r))
    BY DEF Range
  <2> QED
    BY <1>5, <2>1 DEF IsSeq
<1>7. p # << >> /\ Last(p) = x
  BY <1>5 DEF Last
<1> QED
  BY <1>3, <1>4, <1>5, <1>6, <1>7

\* The first n elements of a sequence with one more are the sequence.
LEMMA SubSeqAppend ==
  ASSUME NEW q, IsSeq(q), NEW x
  PROVE  SubSeq(Append(q, x), 1, Len(q)) = q
<1>1. PICK n \in Nat : n = Len(q)
  BY AppendAny
<1>2. PICK p : p = Append(q, x)
  OBVIOUS
<1>3. /\ q = [i \in 1..n |-> q[i]] /\ \A i \in 1..n : p[i] = q[i]
      /\ IsSeq(p) /\ Len(p) = n + 1
  <2>1. q = [i \in 1..n |-> q[i]]
    BY <1>1 DEF IsSeq
  <2> QED
    BY <1>1, <1>2, <2>1, AppendAny
<1>4. SubSeq(p, 1, n) = [i \in 1..n |-> p[i]]
  <2>1. ASSUME NEW S, NEW r \in Seq(S), NEW m \in 0..Len(r)
        PROVE  SubSeq(r, 1, m) = [i \in 1..m |-> r[i]]
    OBVIOUS
  <2>2. n \in 0..Len(p)
    BY <1>1, <1>3
  <2> QED
    BY <1>3, <2>1, <2>2 DEF IsSeq
<1> QED
  BY <1>1, <1>2, <1>3, <1>4

\* The bloom filter lets every series through that it was given.
LEMMA BloomRight ==
  ASSUME NEW series, NEW i \in DOMAIN series
  PROVE  MayContain(BloomFilter(series), series[i])
<1>1. PICK m : m = NumBits(Len(series))
  OBVIOUS
<1>2. BloomFilter(series) =
        [numBits |-> m, bits |-> UNION {Positions(series[j], m) :
                                          j \in DOMAIN series}]
  BY <1>1 DEF BloomFilter
<1>3. Positions(series[i], m) \subseteq
        UNION {Positions(series[j], m) : j \in DOMAIN series}
  <2> HIDE DEF Positions
  <2> QED
    OBVIOUS
<1> HIDE DEF Positions
<1> QED
  BY <1>2, <1>3 DEF MayContain

\* The block with the last first key that is not behind k has k, if any has.
LEMMA LastCandidate ==
  ASSUME NEW bs, Sorted(bs), NEW k \in Key, NEW c \in DOMAIN bs,
         NEW e \in Range(bs[c]), e[1] = k
  PROVE  /\ ~KeyLess(k, bs[c][1][1])
         /\ \A m \in DOMAIN bs : ~KeyLess(k, bs[m][1][1]) => m <= c
<1>1. ASSUME NEW S, NEW q \in Seq(S)
      PROVE  /\ \A i \in DOMAIN q : q[i] \in S /\ i \in Int /\ (i = 1 \/ 1 < i)
             /\ q # << >> => 1 \in DOMAIN q
  OBVIOUS
<1>2. \A b \in DOMAIN bs : bs[b] \in Seq(Pair) /\ b \in Int
  BY <1>1 DEF Sorted
<1>3. \A b \in DOMAIN bs : 1 \in DOMAIN bs[b]
  BY <1>1, <1>2 DEF Sorted
<1>4. \A b \in DOMAIN bs : \A i \in DOMAIN bs[b] :
        bs[b][i] \in Pair /\ (i = 1 \/ 1 < i)
  BY <1>1, <1>2
<1>5. PICK j \in DOMAIN bs[c] : e = bs[c][j]
  BY DEF Range
<1>6. \A b \in DOMAIN bs : bs[b][1][1] \in Key
  BY <1>3, <1>4 DEF Pair
<1>7. bs[c][1][1] = k \/ KeyLess(bs[c][1][1], k)
  BY <1>3, <1>4, <1>5 DEF Sorted, Ascending
<1>8. ~KeyLess(k, bs[c][1][1])
  BY <1>6, <1>7, KeyOrder
<1>9. ASSUME NEW m \in DOMAIN bs, ~KeyLess(k, bs[m][1][1]), ~(m <= c)
      PROVE  FALSE
  <2>1. c < m
    BY <1>2, <1>9
  <2>2. Precedes(bs[c], bs[m])
    BY <2>1 DEF Sorted
  <2> QED
    BY <1>3, <1>5, <1>9, <2>2 DEF Precedes
<1> QED
  BY <1>8, <1>9

\* A finished file opens, the Iterator shows what was emitted, and Get finds
\* every key of it and no other.
LEMMA FinishedReads ==
  ASSUME Hashed, IndexRight, Finished, emitted \in Seq(Pair), Ascending(emitted)
  PROVE  /\ Opens(file) /\ Contents(file) = emitted
         /\ \A k \in Key : ReaderGet(file, k) = LayerOf(emitted)[k]
<1>1. PICK n \in Nat : n = Len(checksum) /\ DOMAIN checksum = 1..n
  BY AppendAny DEF Hashed
<1>2. PICK footer : footer = Footer(n - 1, n, checksum)
  OBVIOUS
<1>3. /\ footer.kind = "footer" /\ footer.index = n - 1 /\ footer.bloom = n
      /\ footer.checksum = checksum
  BY <1>2 DEF Footer
<1>4. file = Append(checksum, footer)
  BY <1>1, <1>2 DEF Finished
<1>5. /\ file # << >> /\ Last(file) = footer /\ Len(file) = n + 1
      /\ \A i \in 1..n : file[i] = checksum[i]
      /\ SubSeq(file, 1, n) = checksum
  BY <1>1, <1>4, AppendAny, SubSeqAppend DEF Hashed
<1>6. /\ n - 1 \in 1..n /\ n \in 1..n /\ checksum[n - 1] = Index(index)
      /\ checksum[n] = Bloom(BloomFilter(BloomKeys)) /\ block = << >>
  BY <1>1 DEF Finished, Closing
<1>7. Opens(file)
  <2>1. n < n + 1
    BY <1>1
  <2> QED
    BY <1>3, <1>5, <2>1 DEF Opens
<1>8. IndexOf(file) = index
  <2>1. file[n - 1] = Index(index)
    BY <1>5, <1>6
  <2> QED
    BY <1>3, <1>5, <2>1 DEF IndexOf, Index
<1>9. file[n].filter = BloomFilter(BloomKeys)
  <2>1. file[n] = Bloom(BloomFilter(BloomKeys))
    BY <1>5, <1>6
  <2> QED
    BY <2>1 DEF Bloom
<1>10. PICK bs : bs = Stored
  OBVIOUS
<1>11. /\ DOMAIN bs = DOMAIN index /\ Sorted(bs)
       /\ \A i \in DOMAIN bs : BlockAt(file, index[i]) = bs[i]
       /\ \A i \in DOMAIN bs : index[i].first = bs[i][1][1]
  <2>1. DOMAIN bs = DOMAIN index /\ Sorted(bs)
    BY <1>10 DEF Stored, IndexRight
  <2>2. ASSUME NEW i \in DOMAIN bs
        PROVE  BlockAt(file, index[i]) = bs[i] /\ index[i].first = bs[i][1][1]
    <3>1. index[i].offset \in 1..n /\ index[i].first = bs[i][1][1]
      BY <1>1, <1>10, <2>1 DEF IndexRight
    <3>2. bs[i] = checksum[index[i].offset].entries
      BY <1>10, <2>1 DEF Stored
    <3> QED
      BY <1>5, <3>1, <3>2 DEF BlockAt
  <2> QED
    BY <2>1, <2>2
<1>12. Contents(file) = FlattenSeq(bs)
  <2>1. [i \in DOMAIN index |-> BlockAt(file, index[i])] = bs
    <3>1. bs = [i \in DOMAIN index |-> bs[i]]
      BY <1>10 DEF Stored
    <3> QED
      BY <1>11, <3>1
  <2> QED
    BY <1>8, <2>1 DEF Contents
<1>13. /\ FlattenSeq(bs) \in Seq(Pair)
       /\ Range(FlattenSeq(bs)) = EntriesIn(bs)
  BY <1>11, Flattened
<1>14. FlattenSeq(bs) = emitted
  <2>1. FlattenSeq(bs) \o << >> = FlattenSeq(bs)
    BY <1>13
  <2> QED
    BY <1>6, <1>10, <2>1 DEF IndexRight
<1>15. ASSUME NEW k \in Key
       PROVE  ReaderGet(file, k) = LayerOf(emitted)[k]
  <2>1. PICK a : a = LayerOf(emitted)
    OBVIOUS
  <2>2. /\ a[k] \in Entry \cup {Absent}
        /\ \A v \in Entry : a[k] = v <=> <<k, v>> \in EntriesIn(bs)
    BY <1>13, <1>14, <2>1, LayerOfRight DEF Layer
  <2>3. PICK cs : cs = FindBlock(index, k)
    OBVIOUS
  <2>4. \A i : i \in cs <=> i \in DOMAIN bs /\ ~KeyLess(k, bs[i][1][1])
    BY <1>11, <2>3 DEF FindBlock
  <2>5. PICK bloom : bloom = BloomFilter(BloomKeys)
    OBVIOUS
  <2>6. ReaderGet(file, k) =
          IF ~MayContain(bloom, SeriesID(k)) \/ cs = {}
            THEN Absent ELSE LayerOf(BlockAt(file, index[Max(cs)]))[k]
    BY <1>3, <1>5, <1>8, <1>9, <2>3, <2>5 DEF ReaderGet
  <2>7. ASSUME NEW v \in Entry, a[k] = v
        PROVE  MayContain(bloom, SeriesID(k)) /\ cs # {}
    <3>1. <<k, v>> \in EntriesIn(bs)
      BY <2>2, <2>7
    <3>2. PICK i \in DOMAIN emitted : emitted[i] = <<k, v>>
      BY <1>13, <1>14, <3>1 DEF Range
    <3>3. i \in DOMAIN BloomKeys /\ BloomKeys[i] = SeriesID(k)
      BY <3>2 DEF BloomKeys
    <3>4. MayContain(bloom, SeriesID(k))
      <4> HIDE DEF BloomKeys
      <4> QED
        BY <2>5, <3>3, BloomRight
    <3>5. PICK c \in DOMAIN bs : <<k, v>> \in Range(bs[c])
      BY <3>1 DEF EntriesIn
    <3>6. ~KeyLess(k, bs[c][1][1])
      BY <1>11, <3>5, LastCandidate
    <3> QED
      BY <2>4, <3>4, <3>5, <3>6
  <2>8. CASE ~MayContain(bloom, SeriesID(k)) \/ cs = {}
    BY <2>1, <2>2, <2>6, <2>7, <2>8
  <2>9. CASE MayContain(bloom, SeriesID(k)) /\ cs # {}
    <3>1. PICK N \in Nat : DOMAIN bs = 1..N
      BY <1>11 DEF Sorted
    <3>2. cs \in SUBSET Nat /\ \A i \in cs : i <= N
      BY <2>4, <3>1
    <3>3. PICK m : m = Max(cs)
      OBVIOUS
    <3>4. m \in cs /\ \A i \in cs : i <= m
      BY <2>9, <3>2, <3>3, MaxInSet
    <3>5. m \in DOMAIN bs /\ ~KeyLess(k, bs[m][1][1])
      BY <2>4, <3>4
    <3>6. ReaderGet(file, k) = LayerOf(bs[m])[k]
      BY <1>11, <2>6, <2>9, <3>3, <3>5
    <3>7. bs[m] \in Seq(Pair) /\ Ascending(bs[m])
      <4>1. ASSUME NEW S, NEW q \in Seq(S), NEW i \in DOMAIN q
            PROVE  q[i] \in S
        OBVIOUS
      <4> QED
        BY <1>11, <3>5, <4>1 DEF Sorted
    <3>8. /\ LayerOf(bs[m])[k] \in Entry \cup {Absent}
          /\ \A v \in Entry :
               LayerOf(bs[m])[k] = v <=> <<k, v>> \in Range(bs[m])
      BY <3>7, LayerOfRight DEF Layer
    <3>9. ASSUME NEW v \in Entry
          PROVE  <<k, v>> \in EntriesIn(bs) <=> <<k, v>> \in Range(bs[m])
      <4>1. ASSUME <<k, v>> \in EntriesIn(bs)
            PROVE  <<k, v>> \in Range(bs[m])
        <5>1. PICK c \in DOMAIN bs : <<k, v>> \in Range(bs[c])
          BY <4>1 DEF EntriesIn
        <5>2. ~KeyLess(k, bs[c][1][1]) /\ m <= c
          BY <1>11, <3>5, <5>1, LastCandidate
        <5>3. c \in cs /\ c <= m
          BY <2>4, <3>4, <5>2
        <5>4. c = m
          BY <3>1, <3>5, <5>2, <5>3
        <5> QED
          BY <5>1, <5>4
      <4>2. ASSUME <<k, v>> \in Range(bs[m])
            PROVE  <<k, v>> \in EntriesIn(bs)
        BY <3>5, <4>2 DEF EntriesIn
      <4> QED
        BY <4>1, <4>2
    <3> HIDE DEF LayerOf
    <3> QED
      BY <2>1, <2>2, <3>6, <3>8, <3>9
  <2> QED
    BY <2>8, <2>9
<1> QED
  BY <1>7, <1>12, <1>14, <1>15

-----------------------------------------------------------------------------
(* Every step of the Writer.                                               *)

\* All of what was written is there, and the index is right.
Intact == Hashed /\ Clean /\ IndexRight

\* So it is, and the current step of Close can rely on the earlier ones; a
\* call that ends here ends with an error.
Writing ==
    /\ Intact
    /\ pc \in {"open", "create"} => file = << >>
    /\ pc \in {"index", "bloom", "footer"} => block = << >>
    /\ pc = "bloom" => /\ Len(checksum) \in DOMAIN checksum
                       /\ checksum[Len(checksum)] = Index(index)
    /\ pc = "footer" => Closing
    /\ pc # "sync" /\ (pc \in {"remove", "end"} => failed)

\* The footer is written: the call ends, or an error has it close the Writer
\* again.
Complete ==
    /\ Hashed /\ IndexRight /\ Finished /\ offset = Len(checksum) + 2
    /\ pc \in {"close", "index", "sync", "remove", "end"}
    /\ pc \in {"close", "index"} => failed
    /\ ~failed =>
         /\ pc = "remove" => call.kind = "compact" /\ emitted = << >>
         /\ pc = "end" => call.kind = "flush" \/ emitted # << >>

\* The file has a chunk that the hash was not given, before the place where the
\* next footer says that the bloom filter ends.
Spoilt ==
    /\ failed /\ ~Opens(file) /\ IsSeq(file) /\ offset \in Nat
    /\ Hashed
    /\ pc \notin {"open", "create", "pop"}
    /\ \E j \in DOMAIN file :
         /\ ~Plain(file[j]) /\ j <= offset
         /\ pc \in {"bloom", "footer"} => j < offset

\* There is no file: a compaction has removed it, or had nothing to write.
NoFile ==
    /\ file = << >> /\ pc = "end"
    /\ ~failed => call.kind = "compact" /\ emitted = << >>

FileInv ==
    IF call.kind = "scan" THEN file = << >>
                          ELSE Writing \/ Complete \/ Spoilt \/ NoFile

\* Sorted blocks stay sorted with a block of greater entries behind them.
LEMMA AppendBlock ==
  ASSUME NEW bs, Sorted(bs), NEW b \in Seq(Pair), b # << >>, Ascending(b),
         \A e \in EntriesIn(bs), f \in Range(b) : KeyLess(e[1], f[1])
  PROVE  /\ Sorted(Append(bs, b))
         /\ EntriesIn(Append(bs, b)) = EntriesIn(bs) \cup Range(b)
         /\ FlattenSeq(Append(bs, b)) = FlattenSeq(bs) \o b
<1>1. PICK n \in Nat : n = Len(bs) /\ DOMAIN bs = 1..n
  BY DEF Sorted
<1>2. PICK new : new = Append(bs, b)
  OBVIOUS
<1>3. bs \in Seq(Seq(Pair))
  BY DEF Sorted
<1>4. /\ new \in Seq(Seq(Pair)) /\ DOMAIN new = 1..n + 1
      /\ new[n + 1] = b /\ \A i \in 1..n : new[i] = bs[i]
  <2>1. ASSUME NEW S, NEW q \in Seq(S), NEW x \in S
        PROVE  /\ Append(q, x) \in Seq(S)
               /\ DOMAIN Append(q, x) = 1..Len(q) + 1
               /\ Append(q, x)[Len(q) + 1] = x
               /\ \A i \in 1..Len(q) : Append(q, x)[i] = q[i]
    OBVIOUS
  <2> QED
    BY <1>1, <1>2, <1>3, <2>1
<1>5. \A i : i \in 1..n + 1 <=> i \in 1..n \/ i = n + 1
  BY <1>1
<1>6. \A i \in 1..n + 1 : new[i] # << >> /\ Ascending(new[i])
  BY <1>1, <1>4, <1>5 DEF Sorted
<1>7. ASSUME NEW c \in 1..n + 1, NEW d \in 1..n + 1, c < d
      PROVE  Precedes(new[c], new[d])
  <2>1. c \in 1..n
    BY <1>1, <1>7
  <2>2. CASE d \in 1..n
    BY <1>1, <1>4, <1>7, <2>1, <2>2 DEF Sorted
  <2>3. CASE d = n + 1
    <3> SUFFICES ASSUME NEW i \in DOMAIN bs[c], NEW j \in DOMAIN b
                 PROVE  KeyLess(bs[c][i][1], b[j][1])
      BY <1>4, <2>1, <2>3 DEF Precedes
    <3>1. bs[c][i] \in EntriesIn(bs) /\ b[j] \in Range(b)
      BY <1>1, <2>1 DEF EntriesIn, Range
    <3> QED
      BY <3>1
  <2> QED
    BY <1>5, <2>2, <2>3
<1>8. Sorted(new)
  BY <1>4, <1>6, <1>7 DEF Sorted
<1>9. EntriesIn(new) = EntriesIn(bs) \cup Range(b)
  <2>1. \A f : f \in EntriesIn(new) <=> \E i \in 1..n + 1 : f \in Range(new[i])
    BY <1>4 DEF EntriesIn
  <2>2. \A f : f \in EntriesIn(bs) <=> \E i \in 1..n : f \in Range(bs[i])
    BY <1>1 DEF EntriesIn
  <2> QED
    BY <1>4, <1>5, <2>1, <2>2
<1>10. FlattenSeq(new) = FlattenSeq(bs) \o b
  BY <1>2, <1>3, FlattenAppend
<1> QED
  BY <1>2, <1>8, <1>9, <1>10

\* What is written beside blocks leaves the blocks alone.
LEMMA WriteKeeps ==
  ASSUME Intact, NEW chunk, Plain(chunk), Write(chunk),
         UNCHANGED <<block, index, emitted>>
  PROVE  Intact'
<1>1. IsSeq(checksum)
  BY DEF Intact, Hashed
<1>2. PICK n \in Nat : n = Len(checksum) /\ DOMAIN checksum = 1..n
  BY <1>1, AppendAny
<1>3. /\ IsSeq(checksum') /\ Len(checksum') = n + 1
      /\ DOMAIN checksum' = 1..n + 1 /\ checksum'[n + 1] = chunk
      /\ \A i \in 1..n : checksum'[i] = checksum[i]
  BY <1>1, <1>2, AppendAny DEF Write
<1>4. \A i : i \in 1..n + 1 <=> i \in 1..n \/ i = n + 1
  BY <1>2
<1>5. Hashed'
  BY <1>2, <1>3, <1>4 DEF Intact, Hashed
<1>6. Clean'
  BY <1>2, <1>3 DEF Intact, Clean, Write
<1>7. \A i \in DOMAIN index : index[i].offset \in 1..n
  BY <1>2 DEF Intact, IndexRight
<1>8. Stored' = Stored
  BY <1>3, <1>7 DEF Stored
<1>9. IndexRight'
  <2>1. \A i \in DOMAIN index' : /\ index'[i].offset \in DOMAIN checksum'
                                 /\ index'[i].first = Stored'[i][1][1]
    BY <1>3, <1>4, <1>7, <1>8 DEF Intact, IndexRight
  <2> QED
    BY <1>8, <2>1 DEF Intact, IndexRight, IsSeq
<1> QED
  BY <1>5, <1>6, <1>9 DEF Intact

\* A block that is written joins those that the index names.
LEMMA WriteBlockKeeps ==
  ASSUME Intact, block # << >>, WriteBlock
  PROVE  /\ Hashed' /\ Clean' /\ IsSeq(index') /\ Sorted(Stored')
         /\ \A i \in DOMAIN index' : /\ index'[i].offset \in DOMAIN checksum'
                                     /\ index'[i].first = Stored'[i][1][1]
         /\ FlattenSeq(Stored') = emitted
         /\ EntriesIn(Stored') = EntriesIn(Stored) \cup Range(block)
<1>1. IsSeq(checksum) /\ IsSeq(index)
  BY DEF Intact, Hashed, IndexRight
<1>2. PICK n \in Nat : n = Len(checksum) /\ DOMAIN checksum = 1..n
  BY <1>1, AppendAny
<1>3. PICK chunk : chunk = Block(block)
  OBVIOUS
<1>4. Plain(chunk) /\ chunk.entries = block
  BY <1>3 DEF Plain, Block
<1>5. /\ IsSeq(checksum') /\ Len(checksum') = n + 1
      /\ DOMAIN checksum' = 1..n + 1 /\ checksum'[n + 1] = chunk
      /\ \A i \in 1..n : checksum'[i] = checksum[i]
  BY <1>1, <1>2, <1>3, AppendAny DEF WriteBlock, Write
<1>6. \A i : i \in 1..n + 1 <=> i \in 1..n \/ i = n + 1
  BY <1>2
<1>7. Hashed'
  BY <1>2, <1>4, <1>5, <1>6 DEF Intact, Hashed
<1>8. Clean'
  BY <1>2, <1>5 DEF Intact, Clean, WriteBlock, Write
<1>9. PICK m \in Nat : m = Len(index) /\ DOMAIN index = 1..m
  BY <1>1, AppendAny
<1>10. PICK x : x = IndexEntry(block[1][1], n + 1)
  OBVIOUS
<1>11. x.first = block[1][1] /\ x.offset = n + 1
  BY <1>10 DEF IndexEntry
<1>12. index' = Append(index, x)
  BY <1>2, <1>10 DEF Intact, Clean, WriteBlock
<1>13. /\ IsSeq(index') /\ DOMAIN index' = 1..m + 1
       /\ index'[m + 1] = x /\ \A i \in 1..m : index'[i] = index[i]
  BY <1>1, <1>9, <1>12, AppendAny
<1>14. \A i : i \in 1..m + 1 <=> i \in 1..m \/ i = m + 1
  BY <1>9
<1>15. \A i \in 1..m : index[i].offset \in 1..n
  BY <1>2, <1>9 DEF Intact, IndexRight
<1>16. PICK bs : bs = Stored
  OBVIOUS
<1>17. PICK new : new = Stored'
  OBVIOUS
<1>18. /\ Sorted(bs) /\ bs = [i \in 1..m |-> checksum[index[i].offset].entries]
       /\ \A i \in 1..m : index[i].first = bs[i][1][1]
       /\ FlattenSeq(bs) \o block = emitted
       /\ block \in Seq(Pair) /\ Ascending(block)
       /\ \A e \in EntriesIn(bs), f \in Range(block) : KeyLess(e[1], f[1])
  BY <1>9, <1>16 DEF Intact, IndexRight, Stored
<1>19. new = [i \in 1..m + 1 |-> checksum'[index'[i].offset].entries]
  BY <1>13, <1>17 DEF Stored
<1>20. /\ \A i \in 1..m : new[i] = bs[i]
       /\ new[m + 1] = block
  BY <1>4, <1>5, <1>11, <1>13, <1>14, <1>15, <1>18, <1>19
<1>21. new = Append(bs, block)
  <2>1. ASSUME NEW S, NEW q \in Seq(S), NEW y \in S, DOMAIN q = 1..m
        PROVE  /\ Append(q, y) = [i \in 1..m + 1 |-> Append(q, y)[i]]
               /\ \A i \in 1..m : Append(q, y)[i] = q[i]
               /\ Append(q, y)[m + 1] = y
    <3>1. Len(q) = m
      BY <1>9, <2>1
    <3>2. PICK p : p = Append(q, y)
      OBVIOUS
    <3>3. /\ p \in Seq(S) /\ Len(p) = m + 1 /\ p[m + 1] = y
          /\ \A i \in 1..m : p[i] = q[i]
      BY <3>1, <3>2
    <3>4. p = [i \in 1..m + 1 |-> p[i]]
      BY <3>3
    <3> QED
      BY <3>2, <3>3, <3>4
  <2>2. bs \in Seq(Seq(Pair)) /\ DOMAIN bs = 1..m /\ block \in Seq(Pair)
    BY <1>18 DEF Sorted
  <2>3. PICK p : p = Append(bs, block)
    OBVIOUS
  <2>4. /\ p = [i \in 1..m + 1 |-> p[i]] /\ p[m + 1] = block
        /\ \A i \in 1..m : p[i] = bs[i]
    BY <2>1, <2>2, <2>3
  <2>5. new = [i \in 1..m + 1 |-> new[i]]
    BY <1>19
  <2>6. \A i \in 1..m + 1 : new[i] = p[i]
    BY <1>14, <1>20, <2>4
  <2> QED
    BY <2>3, <2>4, <2>5, <2>6
<1>22. /\ Sorted(new) /\ FlattenSeq(new) = emitted
       /\ EntriesIn(new) = EntriesIn(bs) \cup Range(block)
  BY <1>18, <1>21, AppendBlock
<1>23. ASSUME NEW i \in 1..m + 1
       PROVE  /\ index'[i].offset \in DOMAIN checksum'
              /\ index'[i].first = new[i][1][1]
  <2>1. CASE i \in 1..m
    <3>1. index'[i] = index[i] /\ new[i] = bs[i]
      BY <1>13, <1>20, <2>1
    <3> QED
      BY <1>5, <1>6, <1>15, <1>18, <2>1, <3>1
  <2>2. CASE i = m + 1
    <3>1. n + 1 \in 1..n + 1
      BY <1>6
    <3> QED
      BY <1>5, <1>11, <1>13, <1>20, <2>2, <3>1
  <2> QED
    BY <1>14, <2>1, <2>2
<1> QED
  BY <1>7, <1>8, <1>13, <1>16, <1>17, <1>22, <1>23

\* A file that ends in something else than a footer does not open.
LEMMA Unopened ==
  ASSUME NEW q, IsSeq(q), NEW chunk, chunk.kind # "footer"
  PROVE  ~Opens(Append(q, chunk))
<1>1. Last(Append(q, chunk)) = chunk
  BY AppendAny
<1> QED
  BY <1>1 DEF Opens

\* Where nothing is written, what is there stays.
LEMMA IntactStays ==
  ASSUME Intact, UNCHANGED <<output, emitted>>
  PROVE  Intact'
<1>1. UNCHANGED <<file, block, index, offset, checksum, emitted>>
  BY DEF output
<1>2. Stored' = Stored
  BY <1>1 DEF Stored
<1>3. IndexRight'
  BY <1>1, <1>2 DEF Intact, IndexRight, IsSeq
<1> QED
  BY <1>1, <1>3 DEF Intact, Hashed, Clean, IsSeq

\* flushBlock empties the current block.
LEMMA FlushKeeps ==
  ASSUME Intact, FlushBlock, UNCHANGED emitted
  PROVE  Intact' /\ block' = << >>
<1>1. CASE block = << >> /\ UNCHANGED output
  BY <1>1, IntactStays DEF output
<1>2. CASE block # << >> /\ WriteBlock /\ block' = << >>
  <2> HIDE DEF WriteBlock, Stored
  <2>1. /\ Hashed' /\ Clean' /\ IsSeq(index') /\ Sorted(Stored')
        /\ \A i \in DOMAIN index' : /\ index'[i].offset \in DOMAIN checksum'
                                    /\ index'[i].first = Stored'[i][1][1]
        /\ FlattenSeq(Stored') = emitted
    BY <1>2, WriteBlockKeeps
  <2>2. FlattenSeq(Stored') \o << >> = emitted'
    <3>1. FlattenSeq(Stored') \in Seq(Pair)
      BY <2>1, Flattened
    <3> QED
      BY <2>1, <3>1
  <2>3. << >> \in Seq(Pair) /\ Ascending(<< >>) /\ Range(<< >>) = {}
    BY DEF Ascending, Range
  <2>4. IndexRight'
    BY <1>2, <2>1, <2>2, <2>3 DEF IndexRight, IsSeq
  <2> QED
    BY <1>2, <2>1, <2>4 DEF Intact
<1> QED
  BY <1>1, <1>2 DEF FlushBlock

\* Writer.Add puts an entry behind all others.
LEMMA AddKeeps ==
  ASSUME Intact, NEW e \in Pair, emitted \in Seq(Pair), Ascending(emitted'),
         Add(e)
  PROVE  Intact'
<1>1. emitted' = Append(emitted, e)
  BY DEF Add
<1>2. ASSUME NEW f \in Range(emitted)
      PROVE  KeyLess(f[1], e[1])
  <2>1. PICK n \in Nat : n = Len(emitted) /\ DOMAIN emitted = 1..n
    OBVIOUS
  <2>2. /\ DOMAIN emitted' = 1..n + 1 /\ emitted'[n + 1] = e
        /\ \A i \in 1..n : emitted'[i] = emitted[i]
    BY <1>1, <2>1
  <2>3. PICK i \in 1..n : f = emitted[i]
    BY <1>2, <2>1 DEF Range
  <2>4. i \in 1..n + 1 /\ n + 1 \in 1..n + 1 /\ i < n + 1
    BY <2>1
  <2> QED
    BY <2>2, <2>3, <2>4 DEF Ascending
<1>3. PICK bs : bs = Stored
  OBVIOUS
<1>4. /\ Sorted(bs) /\ block \in Seq(Pair) /\ Ascending(block)
      /\ \A x \in EntriesIn(bs), f \in Range(block) : KeyLess(x[1], f[1])
      /\ FlattenSeq(bs) \o block = emitted
  BY <1>3 DEF Intact, IndexRight
<1>5. /\ FlattenSeq(bs) \in Seq(Pair) /\ Ascending(FlattenSeq(bs))
      /\ Range(FlattenSeq(bs)) = EntriesIn(bs)
  BY <1>4, Flattened
<1>6. Range(emitted) = EntriesIn(bs) \cup Range(block)
  BY <1>4, <1>5, ConcatAscends
<1>7. /\ \A f \in EntriesIn(bs) : KeyLess(f[1], e[1])
      /\ \A f \in Range(block) : KeyLess(f[1], e[1])
  BY <1>2, <1>6
<1>8. CASE BlockFull(block, e)
  <2>1. WriteBlock /\ block' = <<e>> /\ block # << >>
    BY <1>8 DEF Add, BlockFull
  <2> HIDE DEF WriteBlock, Stored
  <2>2. /\ Hashed' /\ Clean' /\ IsSeq(index') /\ Sorted(Stored')
        /\ \A i \in DOMAIN index' : /\ index'[i].offset \in DOMAIN checksum'
                                    /\ index'[i].first = Stored'[i][1][1]
        /\ FlattenSeq(Stored') = emitted
        /\ EntriesIn(Stored') = EntriesIn(bs) \cup Range(block)
    BY <1>3, <2>1, WriteBlockKeeps
  <2>3. /\ <<e>> \in Seq(Pair) /\ Ascending(<<e>>) /\ Range(<<e>>) = {e}
    BY DEF Ascending, Range
  <2>4. FlattenSeq(Stored') \o <<e>> = emitted'
    <3>1. ASSUME NEW q \in Seq(Pair)
          PROVE  q \o <<e>> = Append(q, e)
      OBVIOUS
    <3> QED
      BY <1>1, <2>2, <3>1
  <2>5. \A x \in EntriesIn(Stored'), f \in {e} : KeyLess(x[1], f[1])
    BY <1>7, <2>2
  <2>6. IndexRight'
    BY <2>1, <2>2, <2>3, <2>4, <2>5 DEF IndexRight, IsSeq
  <2> QED
    BY <2>2, <2>6 DEF Intact
<1>9. CASE ~BlockFull(block, e)
  <2>1. block' = Append(block, e) /\ UNCHANGED <<file, index, offset, checksum>>
    BY <1>9 DEF Add
  <2>2. Stored' = bs
    BY <1>3, <2>1 DEF Stored
  <2>3. /\ block' \in Seq(Pair) /\ Ascending(block')
        /\ Range(block') = Range(block) \cup {e}
    <3>1. /\ Append(block, e) \in Seq(Pair) /\ Ascending(Append(block, e))
          /\ Range(Append(block, e)) = Range(block) \cup {e}
      BY <1>4, <1>7, AppendAscends
    <3> QED
      BY <2>1, <3>1
  <2>4. FlattenSeq(bs) \o block' = emitted'
    <3>1. ASSUME NEW p \in Seq(Pair), NEW q \in Seq(Pair)
          PROVE  p \o Append(q, e) = Append(p \o q, e)
      OBVIOUS
    <3> QED
      BY <1>1, <1>4, <1>5, <2>1, <3>1
  <2>5. \A x \in EntriesIn(bs), f \in Range(block') : KeyLess(x[1], f[1])
    BY <1>4, <1>7, <2>3
  <2>6. /\ IsSeq(index')
        /\ \A i \in DOMAIN index' : /\ index'[i].offset \in DOMAIN checksum'
                                    /\ index'[i].first = bs[i][1][1]
    BY <1>3, <2>1 DEF Intact, IndexRight, IsSeq
  <2>7. IndexRight'
    BY <1>4, <2>2, <2>3, <2>4, <2>5, <2>6 DEF IndexRight, IsSeq
  <2> QED
    BY <2>1, <2>7 DEF Intact, Hashed, Clean, IsSeq
<1> QED
  BY <1>8, <1>9

\* What failing writes leave in the file spoils it for every later footer.
LEMMA JunkSpoils ==
  ASSUME Hashed, IsSeq(file), offset \in Nat, UNCHANGED <<offset, checksum>>,
         file' = Append(file, Junk), failed',
         pc' \in {"close", "remove", "end"},
         \/ Len(file) < offset
         \/ \E j \in DOMAIN file : ~Plain(file[j]) /\ j <= offset
  PROVE  Spoilt'
<1>1. PICK n \in Nat : n = Len(file) /\ DOMAIN file = 1..n
  BY AppendAny
<1>2. /\ IsSeq(file') /\ DOMAIN file' = 1..n + 1 /\ file'[n + 1] = Junk
      /\ \A i \in 1..n : file'[i] = file[i]
  BY <1>1, AppendAny
<1>3. Junk.kind = "junk"
  BY DEF Junk
<1>4. ~Opens(file')
  BY <1>3, Unopened
<1>5. \E j \in 1..n + 1 : ~Plain(file'[j]) /\ j <= offset
  <2>1. CASE Len(file) < offset
    <3>1. n + 1 \in 1..n + 1 /\ n + 1 <= offset
      BY <1>1, <2>1
    <3>2. ~Plain(file'[n + 1])
      BY <1>2, <1>3 DEF Plain
    <3> QED
      BY <3>1, <3>2
  <2>2. CASE \E j \in DOMAIN file : ~Plain(file[j]) /\ j <= offset
    <3>1. PICK j \in 1..n : ~Plain(file[j]) /\ j <= offset
      BY <1>1, <2>2
    <3>2. j \in 1..n + 1 /\ file'[j] = file[j]
      BY <1>1, <1>2
    <3> QED
      BY <3>1, <3>2
  <2> QED
    BY <2>1, <2>2
<1>6. Hashed'
  BY DEF Hashed, IsSeq
<1>7. pc' \notin {"open", "create", "pop", "bloom", "footer"}
  OBVIOUS
<1> QED
  BY <1>2, <1>4, <1>5, <1>6, <1>7 DEF Spoilt, IsSeq

\* The length of a file that is not spoilt, and where the Writer thinks it is.
LEMMA Lengths ==
  ASSUME Writing \/ Complete
  PROVE  /\ Hashed /\ IsSeq(file) /\ offset \in Nat
         /\ Len(file) \in Nat /\ Len(file) < offset
         /\ Len(checksum) \in Nat /\ DOMAIN checksum = 1..Len(checksum)
         /\ Writing => offset = Len(checksum) + 1 /\ file = checksum
         /\ Complete => /\ Len(file) = Len(checksum) + 1
                        /\ DOMAIN file = 1..Len(checksum) + 1
                        /\ offset = Len(checksum) + 2
                        /\ ~Plain(file[Len(checksum) + 1])
<1>1. Hashed /\ IsSeq(checksum)
  BY DEF Writing, Complete, Intact, Hashed
<1>2. PICK n \in Nat : n = Len(checksum) /\ DOMAIN checksum = 1..n
  BY <1>1, AppendAny
<1>3. Writing => offset = n + 1 /\ file = checksum
  BY <1>2 DEF Writing, Intact, Clean
<1>4. ASSUME Complete
      PROVE  /\ IsSeq(file) /\ Len(file) = n + 1 /\ DOMAIN file = 1..n + 1
             /\ offset = n + 2 /\ ~Plain(file[n + 1])
  <2>1. PICK footer : footer = Footer(n - 1, n, checksum)
    OBVIOUS
  <2>2. file = Append(checksum, footer) /\ offset = n + 2
    BY <1>2, <1>4, <2>1 DEF Complete, Finished
  <2>3. /\ IsSeq(file) /\ Len(file) = n + 1 /\ DOMAIN file = 1..n + 1
        /\ file[n + 1] = footer
    BY <1>1, <1>2, <2>2, AppendAny
  <2>4. ~Plain(footer)
    BY <2>1 DEF Plain, Footer
  <2> QED
    BY <2>2, <2>3, <2>4
<1>5. n < n + 1 /\ n + 1 < n + 2 /\ n + 1 \in Nat /\ n + 2 \in Nat
  BY <1>2
<1> QED
  BY <1>1, <1>2, <1>3, <1>4, <1>5

\* A write that fails keeps the file as it is, or spoils it.
LEMMA FailureKeeps ==
  ASSUME Writing \/ Complete \/ Spoilt, WriteFails, failed',
         pc' \in {"close", "remove", "end"},
         UNCHANGED <<call, block, index, emitted>>
  PROVE  Writing' \/ Complete' \/ Spoilt'
<1>1. /\ file' \in {file, Append(file, Junk)}
      /\ UNCHANGED <<offset, checksum, block, index, emitted>>
  BY DEF WriteFails
<1>2. Stored' = Stored /\ BloomKeys' = BloomKeys
  BY <1>1 DEF Stored, BloomKeys
<1>3. pc' \notin {"open", "create", "pop", "index", "bloom", "footer", "sync"}
  OBVIOUS
<1>4. CASE file' = file
  <2>1. CASE Writing
    <3>1. Intact'
      BY <1>1, <1>4, <2>1, IntactStays DEF output, Writing
    <3> QED
      BY <1>3, <3>1 DEF Writing
  <2>2. CASE Complete
    <3>1. IndexRight' /\ Hashed'
      BY <1>1, <1>2, <2>2 DEF Complete, IndexRight, Hashed, IsSeq
    <3>2. Finished'
      BY <1>1, <1>2, <1>4, <2>2 DEF Complete, Finished, Closing
    <3> QED
      BY <1>1, <2>2, <3>1, <3>2 DEF Complete
  <2>3. CASE Spoilt
    BY <1>1, <1>3, <1>4, <2>3 DEF Spoilt, Hashed, IsSeq
  <2> QED
    BY <2>1, <2>2, <2>3
<1>5. CASE file' = Append(file, Junk)
  <2>1. CASE Writing \/ Complete
    <3>1. Hashed /\ IsSeq(file) /\ offset \in Nat /\ Len(file) < offset
      BY <2>1, Lengths
    <3> QED
      BY <1>1, <1>5, <3>1, JunkSpoils
  <2>2. CASE Spoilt
    <3>1. /\ Hashed /\ IsSeq(file) /\ offset \in Nat
          /\ \E j \in DOMAIN file : ~Plain(file[j]) /\ j <= offset
      BY <2>2 DEF Spoilt
    <3> QED
      BY <1>1, <1>5, <3>1, JunkSpoils
  <2> QED
    BY <2>1, <2>2
<1> QED
  BY <1>1, <1>4, <1>5

\* What is written into a spoilt file, or behind a footer, does not mend it.
LEMMA WriteSpoilt ==
  ASSUME Hashed, IsSeq(file), offset \in Nat,
         NEW j \in DOMAIN file, ~Plain(file[j]), j <= offset,
         NEW chunk, Plain(chunk), Write(chunk), failed',
         pc' \notin {"open", "create", "pop"}
  PROVE  Spoilt'
<1>1. PICK n \in Nat : n = Len(file) /\ DOMAIN file = 1..n
  BY AppendAny
<1>2. file' = Append(file, chunk) /\ offset' = offset + 1
  BY DEF Write
<1>3. /\ IsSeq(file') /\ DOMAIN file' = 1..n + 1
      /\ \A i \in 1..n : file'[i] = file[i]
  BY <1>1, <1>2, AppendAny
<1>4. ~Opens(file')
  BY <1>2, Unopened DEF Plain
<1>5. j \in 1..n + 1 /\ file'[j] = file[j] /\ j < offset + 1 /\ j <= offset + 1
  BY <1>1, <1>3
<1>6. Hashed'
  <2>1. PICK m \in Nat : m = Len(checksum) /\ DOMAIN checksum = 1..m
    BY AppendAny DEF Hashed
  <2>2. /\ IsSeq(checksum') /\ DOMAIN checksum' = 1..m + 1
        /\ checksum'[m + 1] = chunk
        /\ \A i \in 1..m : checksum'[i] = checksum[i]
    BY <2>1, AppendAny DEF Hashed, Write
  <2>3. \A i : i \in 1..m + 1 <=> i \in 1..m \/ i = m + 1
    BY <2>1
  <2> QED
    BY <2>1, <2>2, <2>3 DEF Hashed
<1>7. offset' \in Nat
  BY <1>2
<1> QED
  BY <1>2, <1>3, <1>4, <1>5, <1>6, <1>7 DEF Spoilt

\* Nor does the footer: its checksum is not that of the file.
LEMMA FooterSpoilt ==
  ASSUME Spoilt, pc = "footer", WriteFooter, failed', pc' = "sync"
  PROVE  Spoilt'
<1>1. PICK n \in Nat : n = Len(file) /\ DOMAIN file = 1..n
  BY AppendAny DEF Spoilt
<1>2. PICK j \in 1..n : ~Plain(file[j]) /\ j < offset /\ j <= offset
  BY <1>1 DEF Spoilt
<1>3. PICK footer : footer = Footer(offset - 2, offset - 1, checksum)
  OBVIOUS
<1>4. footer.bloom = offset - 1 /\ footer.checksum = checksum
  BY <1>3 DEF Footer
<1>5. /\ file' = Append(file, footer) /\ offset' = offset + 1
      /\ UNCHANGED checksum
  BY <1>3 DEF WriteFooter
<1>6. /\ IsSeq(file') /\ DOMAIN file' = 1..n + 1 /\ Len(file') = n + 1
      /\ Last(file') = footer /\ \A i \in 1..n : file'[i] = file[i]
  BY <1>1, <1>5, AppendAny DEF Spoilt
<1>7. offset \in Nat
  BY DEF Spoilt
<1>8. j \in 1..n + 1 /\ file'[j] = file[j] /\ j <= offset + 1
  BY <1>1, <1>2, <1>6, <1>7
<1>9. ASSUME Opens(file')
      PROVE  FALSE
  <2>1. /\ offset - 1 < n + 1
        /\ SubSeq(file', 1, offset - 1) = checksum
    BY <1>4, <1>6, <1>9 DEF Opens
  <2>2. PICK m \in 0..Len(file') : m = offset - 1 /\ j \in 1..m
    BY <1>1, <1>2, <1>6, <1>7, <2>1
  <2>3. SubSeq(file', 1, m) = [i \in 1..m |-> file'[i]]
    <3>1. ASSUME NEW S, NEW r \in Seq(S), NEW k \in 0..Len(r)
          PROVE  SubSeq(r, 1, k) = [i \in 1..k |-> r[i]]
      OBVIOUS
    <3> QED
      BY <1>6, <3>1 DEF IsSeq
  <2>4. checksum = [i \in 1..m |-> file'[i]]
    BY <2>1, <2>2, <2>3
  <2>5. j \in DOMAIN checksum /\ checksum[j] = file[j]
    BY <1>8, <2>2, <2>4
  <2> QED
    BY <1>2, <2>5 DEF Spoilt, Hashed
<1>10. Hashed' /\ offset' \in Nat
  BY <1>5, <1>7 DEF Spoilt, Hashed, IsSeq
<1>11. \E i \in DOMAIN file' : ~Plain(file'[i]) /\ i <= offset'
  BY <1>2, <1>5, <1>6, <1>8
<1>12. pc' \notin {"open", "create", "pop", "bloom", "footer"}
  OBVIOUS
<1> QED
  BY <1>6, <1>9, <1>10, <1>11, <1>12 DEF Spoilt

\* A step of Close that is written to a file that is intact keeps it so, and a
\* step that is written to another file spoils it or leaves it spoilt.
LEMMA StepWrites ==
  ASSUME Writing \/ Complete \/ Spoilt, NEW chunk, Plain(chunk), Write(chunk),
         UNCHANGED <<block, index, emitted, failed>>, pc # "sync",
         pc \notin {"remove", "end"}, pc' \notin {"open", "create", "pop"}
  PROVE  \/ Writing /\ Intact'
         \/ Complete /\ Spoilt'
         \/ Spoilt /\ Spoilt'
<1>1. CASE Writing
  BY <1>1, WriteKeeps DEF Writing
<1>2. CASE Complete
  <2>1. failed
    BY <1>2 DEF Complete
  <2>2. /\ Hashed /\ IsSeq(file) /\ offset \in Nat /\ Len(checksum) \in Nat
        /\ DOMAIN file = 1..Len(checksum) + 1 /\ offset = Len(checksum) + 2
        /\ ~Plain(file[Len(checksum) + 1])
    BY <1>2, Lengths
  <2>3. Len(checksum) + 1 \in DOMAIN file /\ Len(checksum) + 1 <= offset
    BY <2>2
  <2> QED
    BY <1>2, <2>1, <2>2, <2>3, WriteSpoilt
<1>3. CASE Spoilt
  <2>1. PICK j \in DOMAIN file : ~Plain(file[j]) /\ j <= offset
    BY <1>3 DEF Spoilt
  <2>2. Hashed /\ IsSeq(file) /\ offset \in Nat /\ failed'
    BY <1>3 DEF Spoilt
  <2> QED
    BY <1>3, <2>1, <2>2, WriteSpoilt
<1> QED
  BY <1>1, <1>2, <1>3

\* Close's block: an intact file has it in the index, a complete one has none.
LEMMA CloseBlockKeeps ==
  ASSUME Writing \/ Complete \/ Spoilt, CloseBlock
  PROVE  Writing' \/ Complete' \/ Spoilt'
<1>1. pc = "close" /\ UNCHANGED <<call, emitted>>
  BY DEF CloseBlock, merge
<1>2. CASE WriteFails /\ CloseReturnsError
  <2>1. /\ failed' /\ pc' \in {"close", "remove", "end"}
        /\ UNCHANGED <<call, block, index, emitted>>
    BY <1>1, <1>2 DEF CloseReturnsError
  <2> QED
    BY <1>2, <2>1, FailureKeeps
<1>3. CASE FlushBlock /\ pc' = "index" /\ UNCHANGED failed
  <2>1. CASE Writing
    <3>1. Intact' /\ block' = << >>
      BY <1>1, <1>3, <2>1, FlushKeeps DEF Writing
    <3> QED
      BY <1>3, <3>1 DEF Writing
  <2>2. CASE Complete
    <3>1. block = << >> /\ failed
      BY <1>1, <2>2 DEF Complete, Finished, Closing
    <3>2. UNCHANGED <<file, block, index, offset, checksum, emitted>>
      BY <1>1, <1>3, <3>1 DEF FlushBlock, output
    <3>3. Stored' = Stored /\ BloomKeys' = BloomKeys
      BY <3>2 DEF Stored, BloomKeys
    <3>4. IndexRight' /\ Hashed' /\ Finished'
      BY <2>2, <3>2, <3>3
        DEF Complete, IndexRight, Hashed, IsSeq, Finished, Closing
    <3>5. offset' = Len(checksum') + 2
      BY <2>2, <3>2 DEF Complete
    <3> QED
      BY <1>3, <3>1, <3>4, <3>5 DEF Complete
  <2>3. CASE Spoilt
    <3>1. CASE UNCHANGED output
      BY <1>1, <1>3, <2>3, <3>1 DEF Spoilt, output, Hashed, IsSeq
    <3>2. CASE WriteBlock
      <4>1. Plain(Block(block))
        BY DEF Plain, Block
      <4>2. PICK j \in DOMAIN file : ~Plain(file[j]) /\ j <= offset
        BY <2>3 DEF Spoilt
      <4>3. /\ Hashed /\ IsSeq(file) /\ offset \in Nat /\ failed'
            /\ pc' \notin {"open", "create", "pop"}
        BY <1>3, <2>3 DEF Spoilt
      <4>4. PICK chunk : chunk = Block(block)
        OBVIOUS
      <4>5. Plain(chunk) /\ Write(chunk)
        BY <3>2, <4>1, <4>4 DEF WriteBlock
      <4> QED
        BY <4>2, <4>3, <4>5, WriteSpoilt
    <3> QED
      BY <1>3, <3>1, <3>2 DEF FlushBlock
  <2> QED
    BY <2>1, <2>2, <2>3
<1> QED
  BY <1>2, <1>3 DEF CloseBlock

\* Close's index, bloom filter and footer.
LEMMA CloseStepKeeps ==
  ASSUME Writing \/ Complete \/ Spoilt,
         CloseIndex \/ CloseBloom \/ CloseFooter
  PROVE  Writing' \/ Complete' \/ Spoilt'
<1>1. pc \in {"index", "bloom", "footer"} /\ UNCHANGED <<call, emitted>>
  BY DEF CloseIndex, CloseBloom, CloseFooter, CloseStep, merge
<1>2. CASE WriteFails /\ CloseReturnsError
  <2>1. /\ failed' /\ pc' \in {"close", "remove", "end"}
        /\ UNCHANGED <<call, block, index, emitted>>
    BY <1>1, <1>2 DEF CloseReturnsError
  <2> QED
    BY <1>2, <2>1, FailureKeeps
<1>3. ASSUME Writing
      PROVE  /\ IsSeq(checksum) /\ Len(checksum) \in Nat
             /\ DOMAIN checksum = 1..Len(checksum)
             /\ offset = Len(checksum) + 1 /\ file = checksum
  BY <1>3, Lengths DEF Hashed
<1>4. CASE /\ pc = "index" /\ pc' = "bloom" /\ Write(Index(index))
           /\ UNCHANGED <<block, index, failed>>
  <2>1. PICK chunk : chunk = Index(index)
    OBVIOUS
  <2>2. Plain(chunk)
    BY <2>1 DEF Plain, Index
  <2>3. \/ Writing /\ Intact'
        \/ Complete /\ Spoilt'
        \/ Spoilt /\ Spoilt'
    BY <1>1, <1>4, <2>1, <2>2, StepWrites
  <2>4. ASSUME Writing, Intact'
        PROVE  Writing'
    <3>1. block' = << >>
      BY <1>4, <2>4 DEF Writing
    <3>2. checksum' = Append(checksum, chunk)
      BY <1>4, <2>1 DEF Write
    <3>3. /\ Len(checksum') = Len(checksum) + 1
          /\ DOMAIN checksum' = 1..Len(checksum) + 1
          /\ checksum'[Len(checksum) + 1] = chunk
      BY <1>3, <2>4, <3>2, AppendAny
    <3>4. Len(checksum') \in DOMAIN checksum'
      BY <1>3, <2>4, <3>3
    <3>5. checksum'[Len(checksum')] = Index(index')
      BY <1>4, <2>1, <3>3
    <3> QED
      BY <1>4, <2>4, <3>1, <3>4, <3>5 DEF Writing
  <2> QED
    BY <2>3, <2>4
<1>5. CASE /\ pc = "bloom" /\ pc' = "footer"
           /\ Write(Bloom(BloomFilter(BloomKeys)))
           /\ UNCHANGED <<block, index, failed>>
  <2>1. PICK chunk : chunk = Bloom(BloomFilter(BloomKeys))
    OBVIOUS
  <2>2. Plain(chunk)
    BY <2>1 DEF Plain, Bloom
  <2>3. \/ Writing /\ Intact'
        \/ Complete /\ Spoilt'
        \/ Spoilt /\ Spoilt'
    BY <1>1, <1>5, <2>1, <2>2, StepWrites
  <2>4. ASSUME Writing, Intact'
        PROVE  Writing'
    <3>1. block' = << >>
      BY <1>5, <2>4 DEF Writing
    <3>2. checksum' = Append(checksum, chunk)
      BY <1>5, <2>1 DEF Write
    <3>3. PICK n \in Nat : /\ n = Len(checksum) /\ DOMAIN checksum = 1..n
                           /\ IsSeq(checksum)
      BY <1>3, <2>4
    <3>4. /\ Len(checksum') = n + 1 /\ DOMAIN checksum' = 1..n + 1
          /\ checksum'[n + 1] = chunk
          /\ \A i \in 1..n : checksum'[i] = checksum[i]
      BY <3>2, <3>3, AppendAny
    <3>5. n \in 1..n /\ checksum[n] = Index(index)
      BY <1>5, <2>4, <3>3 DEF Writing
    <3>6. BloomKeys' = BloomKeys
      BY <1>1 DEF BloomKeys
    <3>7. /\ n \in DOMAIN checksum' /\ n + 1 \in DOMAIN checksum'
          /\ (n + 1) - 1 = n
      BY <3>3, <3>4, <3>5
    <3>8. checksum'[n] = Index(index')
      BY <1>5, <3>4, <3>5
    <3>9. Closing'
      BY <2>1, <3>1, <3>4, <3>6, <3>7, <3>8 DEF Closing
    <3> QED
      BY <1>5, <2>4, <3>1, <3>9 DEF Writing
  <2> QED
    BY <2>3, <2>4
<1>6. CASE /\ pc = "footer" /\ pc' = "sync" /\ WriteFooter
           /\ UNCHANGED <<block, index, failed>>
  <2>1. CASE Writing
    <3>1. PICK n \in Nat : /\ n = Len(checksum) /\ offset = n + 1
                           /\ file = checksum
      BY <1>3, <2>1
    <3>2. offset - 2 = n - 1 /\ offset - 1 = n /\ offset + 1 = n + 2
      BY <3>1
    <3>3. /\ file' = Append(checksum, Footer(n - 1, n, checksum))
          /\ offset' = n + 2
          /\ UNCHANGED <<block, index, checksum, emitted>>
      BY <1>1, <1>6, <3>1, <3>2 DEF WriteFooter
    <3>4. Stored' = Stored /\ BloomKeys' = BloomKeys
      BY <3>3 DEF Stored, BloomKeys
    <3>5. Closing'
      BY <1>6, <2>1, <3>3, <3>4 DEF Writing, Closing
    <3>6. Finished'
      BY <3>1, <3>3, <3>5 DEF Finished
    <3>7. IndexRight' /\ Hashed'
      BY <2>1, <3>3, <3>4 DEF Writing, Intact, IndexRight, Hashed, IsSeq
    <3> QED
      BY <1>6, <3>1, <3>3, <3>6, <3>7 DEF Complete
  <2>2. CASE Complete
    BY <1>6, <2>2 DEF Complete
  <2>3. CASE Spoilt
    <3>1. failed'
      BY <1>6, <2>3 DEF Spoilt
    <3> QED
      BY <1>6, <2>3, <3>1, FooterSpoilt
  <2> QED
    BY <2>1, <2>2, <2>3
<1> QED
  BY <1>2, <1>4, <1>5, <1>6 DEF CloseIndex, CloseBloom, CloseFooter, CloseStep

\* FileInv is an invariant.
THEOREM FilesRight == Spec => []FileInv
<1>1. Init => FileInv
  <2> SUFFICES ASSUME Init
               PROVE  FileInv
    OBVIOUS
  <2>1. /\ pc = "open" /\ file = << >> /\ block = << >> /\ index = << >>
        /\ offset = 1 /\ checksum = << >> /\ emitted = << >>
    BY DEF Init
  <2>2. /\ << >> \in Seq(Pair) /\ Ascending(<< >>) /\ Range(<< >>) = {}
        /\ DOMAIN << >> = {} /\ Len(<< >>) = 0
        /\ << >> \in Seq(Seq(Pair)) /\ << >> \o << >> = << >>
    BY DEF Ascending, Range
  <2>3. IsSeq(<< >>)
    BY DEF IsSeq
  <2>4. Hashed /\ Clean
    BY <2>1, <2>2, <2>3 DEF Hashed, Clean
  <2>5. Stored = << >>
    BY <2>1, <2>2 DEF Stored
  <2>6. Sorted(<< >>) /\ EntriesIn(<< >>) = {}
    BY <2>2 DEF Sorted, EntriesIn
  <2>7. FlattenSeq(<< >>) = << >>
    <3>1. FlattenSeq(<< >>) \in Seq(Pair) /\ Range(FlattenSeq(<< >>)) = {}
      BY <2>6, Flattened
    <3>2. ASSUME NEW q \in Seq(Pair), Range(q) = {}
          PROVE  q = << >>
      BY <3>2 DEF Range
    <3> QED
      BY <3>1, <3>2
  <2>8. IndexRight
    BY <2>1, <2>2, <2>3, <2>5, <2>6, <2>7 DEF IndexRight
  <2>9. Writing
    BY <2>1, <2>4, <2>8 DEF Writing, Intact
  <2> QED
    BY <2>1, <2>9 DEF FileInv
<1>2. MergeInv /\ MergeInv' /\ ExactInv /\ FileInv /\ [Next]_vars => FileInv'
  <2> SUFFICES ASSUME MergeInv, MergeInv', ExactInv, FileInv, [Next]_vars
               PROVE  FileInv'
    OBVIOUS
  <2>1. /\ call \in Calls /\ call.kind \in {"flush", "compact", "scan"}
        /\ UNCHANGED call
    <3>1. call \in Calls
      BY DEF MergeInv, StateRight
    <3>2. UNCHANGED call
      BY DEF Next, Open, Create, Skip, Emit, AddFails, Exhausted, CloseBlock,
             CloseIndex, CloseBloom, CloseFooter, CloseStep, CloseSync,
             RemoveOutput, End, vars
    <3> QED
      BY <3>1, <3>2 DEF Calls
  <2>2. CASE call.kind = "scan"
    <3>1. pc \in {"open", "pop", "end"}
      BY <2>2 DEF ExactInv, LoopEnds
    <3> HIDE DEF Item, Top, Advance, Wanted, Repeated, Dropped
    <3>2. UNCHANGED file
      BY <2>2, <3>1
        DEF Next, Open, Create, Skip, Emit, AddFails, Exhausted, CloseBlock,
            CloseIndex, CloseBloom, CloseFooter, CloseStep, CloseSync,
            RemoveOutput, End, vars, output
    <3> QED
      BY <2>1, <2>2, <3>2 DEF FileInv
  <2>3. CASE call.kind # "scan"
    <3>1. Writing \/ Complete \/ Spoilt \/ NoFile
      BY <2>3 DEF FileInv
    <3> SUFFICES Writing' \/ Complete' \/ Spoilt' \/ NoFile'
      BY <2>1, <2>3 DEF FileInv
    <3>2. pc \in {"open", "create", "pop"} => Writing
      BY <3>1 DEF Complete, Spoilt, NoFile
    <3>3. pc # "end" => Writing \/ Complete \/ Spoilt
      BY <3>1 DEF NoFile
    <3>4. CASE Open
      <4>1. /\ pc = "open" /\ Writing /\ pc' \in {"create", "end"}
            /\ pc' = "end" => call.kind = "compact"
        BY <2>1, <2>3, <3>2, <3>4 DEF Open
      <4>2. UNCHANGED <<call, output, emitted, failed>>
        BY <3>4 DEF Open
      <4>3. emitted = << >> /\ file = << >> /\ file' = << >>
        BY <4>1, <4>2
          DEF Writing, MergeInv, NotStarted, EmittedInOrder, output
      <4>4. Intact'
        BY <4>1, <4>2, IntactStays DEF Writing
      <4>5. CASE pc' = "create"
        BY <4>3, <4>4, <4>5 DEF Writing
      <4>6. CASE pc' = "end"
        BY <4>1, <4>2, <4>3, <4>6 DEF NoFile
      <4> QED
        BY <4>1, <4>5, <4>6
    <3>5. CASE Create
      <4>1. /\ pc = "create" /\ Writing
            /\ UNCHANGED <<call, emitted, block, index>>
        BY <3>2, <3>5 DEF Create, merge
      <4>2. CASE Write(Header) /\ pc' = "pop"
        <5>1. PICK chunk : chunk = Header
          OBVIOUS
        <5>2. Plain(chunk) /\ Write(chunk)
          BY <4>2, <5>1 DEF Plain, Header
        <5>3. Intact'
          BY <4>1, <5>2, WriteKeeps DEF Writing
        <5> QED
          BY <4>2, <5>3 DEF Writing
      <4>3. CASE WriteFails /\ failed' = TRUE /\ pc' = "end"
        BY <4>1, <4>3, FailureKeeps
      <4> QED
        BY <3>5, <4>2, <4>3 DEF Create
    <3>6. CASE Skip
      <4>1. pc = "pop" /\ UNCHANGED <<pc, output, emitted>>
        BY <3>6 DEF Skip
      <4>2. Intact'
        BY <3>2, <4>1, IntactStays DEF Writing
      <4> QED
        BY <4>1, <4>2 DEF Writing
    <3>7. CASE Emit
      <4>1. PICK e : e = Item(Top)
        OBVIOUS
      <4> HIDE DEF Item, Top, Advance
      <4>2. pc = "pop" /\ pc' = "pop" /\ heap # {} /\ Add(e)
        BY <2>3, <3>7, <4>1 DEF Emit
      <4>3. e \in Pair
        BY <4>1, <4>2, TopAhead DEF MergeInv
      <4>4. emitted \in Seq(Pair) /\ Ascending(emitted')
        BY DEF MergeInv, EmittedInOrder
      <4>5. Intact'
        BY <3>2, <4>2, <4>3, <4>4, AddKeeps DEF Writing
      <4> QED
        BY <4>2, <4>5 DEF Writing
    <3>8. CASE AddFails
      <4>1. /\ Writing /\ WriteFails /\ failed' /\ pc' = "close"
            /\ UNCHANGED <<call, block, index, emitted>>
        BY <3>2, <3>8 DEF AddFails, merge
      <4> QED
        BY <4>1, FailureKeeps
    <3>9. CASE Exhausted
      <4>1. pc = "pop" /\ pc' = "close" /\ UNCHANGED <<output, emitted>>
        BY <2>3, <3>9 DEF Exhausted, merge
      <4>2. Intact'
        BY <3>2, <4>1, IntactStays DEF Writing
      <4> QED
        BY <4>1, <4>2 DEF Writing
    <3>10. CASE CloseBlock
      <4>1. Writing \/ Complete \/ Spoilt
        BY <3>3, <3>10 DEF CloseBlock
      <4> QED
        BY <3>10, <4>1, CloseBlockKeeps
    <3>11. CASE CloseIndex \/ CloseBloom \/ CloseFooter
      <4>1. Writing \/ Complete \/ Spoilt
        BY <3>3, <3>11 DEF CloseIndex, CloseBloom, CloseFooter, CloseStep
      <4> QED
        BY <3>11, <4>1, CloseStepKeeps
    <3>12. CASE CloseSync
      <4>1. /\ pc = "sync"
            /\ UNCHANGED <<call, emitted, file, block, index, offset, checksum>>
            /\ pc' \in {"close", "remove", "end"}
            /\ failed' \/ UNCHANGED failed
            /\ pc' = "close" => failed'
            /\ ~failed' =>
                 /\ pc' = "remove" => call.kind = "compact" /\ emitted = << >>
                 /\ pc' = "end" => call.kind = "flush" \/ emitted # << >>
        BY <2>1, <2>3, <3>12
          DEF CloseSync, CloseReturnsError, Closed, merge, output
      <4>2. CASE Complete
        <5>1. Stored' = Stored /\ BloomKeys' = BloomKeys
          BY <4>1 DEF Stored, BloomKeys
        <5>2. IndexRight' /\ Hashed' /\ Finished'
          BY <4>1, <4>2, <5>1
            DEF Complete, IndexRight, Hashed, IsSeq, Finished, Closing
        <5> QED
          BY <4>1, <4>2, <5>2 DEF Complete
      <4>3. CASE Spoilt
        BY <4>1, <4>3 DEF Spoilt, Hashed, IsSeq
      <4> QED
        BY <3>3, <4>1, <4>2, <4>3 DEF Writing
    <3>13. CASE RemoveOutput
      <4>1. /\ pc = "remove" /\ pc' = "end" /\ file' = << >>
            /\ UNCHANGED <<call, emitted, failed>>
        BY <3>13 DEF RemoveOutput, merge
      <4>2. ~failed => call.kind = "compact" /\ emitted = << >>
        BY <3>3, <4>1 DEF Writing, Complete, Spoilt
      <4> QED
        BY <4>1, <4>2 DEF NoFile
    <3>14. CASE UNCHANGED vars
      <4>1. UNCHANGED <<call, pc, emitted, file, block, index, offset, checksum,
                        failed>>
        BY <3>14 DEF vars, merge, output
      <4>2. Stored' = Stored /\ BloomKeys' = BloomKeys
        BY <4>1 DEF Stored, BloomKeys
      <4>3. /\ IndexRight => IndexRight'
            /\ Hashed => Hashed'
            /\ Clean => Clean'
            /\ Closing => Closing'
            /\ Finished => Finished'
        BY <4>1, <4>2 DEF IndexRight, Hashed, Clean, Closing, Finished, IsSeq
      <4>4. CASE Writing
        BY <4>1, <4>3, <4>4 DEF Writing, Intact
      <4>5. CASE Complete
        BY <4>1, <4>3, <4>5 DEF Complete
      <4>6. CASE Spoilt
        BY <4>1, <4>3, <4>6 DEF Spoilt, IsSeq
      <4>7. CASE NoFile
        BY <4>1, <4>7 DEF NoFile
      <4> QED
        BY <3>1, <4>4, <4>5, <4>6, <4>7
    <3> QED
      BY <3>4, <3>5, <3>6, <3>7, <3>8, <3>9, <3>10, <3>11, <3>12, <3>13, <3>14
        DEF Next, End
  <2> QED
    BY <2>2, <2>3
<1> QED
  BY <1>1, <1>2, Inductive, MergesExactly, PTL DEF Spec

\* The empty file does not open.
LEMMA EmptyFile == ~Opens(<< >>)
BY DEF Opens

\* At every instant, a flush's or compaction's file does not open or is a table
\* of exactly the entries that the Writer was given, in which Get finds every
\* key: however many writes failed, and though Close may run twice on the same
\* Writer, no checksum ever fits a file with something else in it.
THEOREM OpensPrefixes == Spec => []OpensOnlyPrefix
<1>1. MergeInv /\ FileInv => OpensOnlyPrefix
  <2> SUFFICES ASSUME MergeInv, FileInv, Opens(file)
               PROVE  /\ IsPrefix(Contents(file), emitted)
                      /\ \A k \in Key :
                           ReaderGet(file, k) = LayerOf(Contents(file))[k]
    BY DEF OpensOnlyPrefix
  <2>1. emitted \in Seq(Pair) /\ Ascending(emitted)
    BY DEF MergeInv, EmittedInOrder
  <2>2. file # << >>
    BY EmptyFile
  <2>3. ~Writing
    <3> SUFFICES ASSUME Writing
                 PROVE  FALSE
      OBVIOUS
    <3>1. /\ IsSeq(file) /\ \A i \in DOMAIN file : Plain(file[i])
      BY DEF Writing, Intact, Clean, Hashed
    <3>2. Len(file) \in DOMAIN file
      <4>1. ASSUME NEW S, NEW q \in Seq(S), q # << >>
            PROVE  Len(q) \in DOMAIN q
        BY <4>1
      <4> QED
        BY <2>2, <3>1, <4>1 DEF IsSeq
    <3>3. Last(file) = file[Len(file)]
      BY DEF Last
    <3> QED
      BY <3>1, <3>2, <3>3 DEF Plain, Opens
  <2>4. Hashed /\ IndexRight /\ Finished
    BY <2>2, <2>3 DEF FileInv, Spoilt, NoFile, Complete
  <2>5. /\ Contents(file) = emitted
        /\ \A k \in Key : ReaderGet(file, k) = LayerOf(emitted)[k]
    BY <2>1, <2>4, FinishedReads
  <2>6. IsPrefix(emitted, emitted)
    <3>1. SubSeq(emitted, 1, Len(emitted)) = emitted
      BY <2>1
    <3> QED
      BY <2>1, <3>1 DEF IsPrefix
  <2> HIDE DEF IsPrefix, LayerOf
  <2> QED
    BY <2>5, <2>6
<1> QED
  BY <1>1, Inductive, FilesRight, PTL

\* A flush or compaction that returns no error has left a table of exactly the
\* newest entries that its iterators gave, or no file if that is nothing.
THEOREM OutputsExact == Spec => []OutputExact
<1>1. MergeInv /\ ExactInv /\ FileInv => OutputExact
  <2> SUFFICES ASSUME MergeInv, ExactInv, FileInv
               PROVE  OutputExact
    OBVIOUS
  <2> SUFFICES ASSUME pc = "end", call.kind # "scan", ~failed
               PROVE  IF Expected = EmptyLayer
                        THEN file = << >>
                        ELSE Opens(file) /\ Contents(file) = Entries(Expected)
    <3>1. call.kind \in {"flush", "compact", "scan"}
      BY DEF MergeInv, StateRight, Calls
    <3>2. ASSUME call.kind # "scan"
          PROVE  Expected =
                   IF call.kind = "compact" /\ call.isMajor
                     THEN Visible(Overlay(Inputs, Source))
                     ELSE Overlay(Inputs, Source)
      BY <3>1, <3>2 DEF Expected
    <3> HIDE DEF Expected
    <3> QED
      BY <3>2 DEF OutputExact
  <2>1. Expected \in Layer /\ emitted = Entries(Expected)
    BY AllEmitted
  <2>2. HeapRight /\ call \in Calls
    BY DEF MergeInv, StateRight
  <2>3. CellsOf(Expected) = {e \in Pair : Due(e)}
    BY <2>2, ExpectedDue
  <2> HIDE DEF Expected
  <2>4. Range(emitted) = CellsOf(Expected) /\ emitted \in Seq(Pair)
    BY <2>1, EntriesRight
  <2>5. Expected = EmptyLayer <=> emitted = << >>
    <3>1. \A k \in Key :
            Expected[k] # Absent => <<k, Expected[k]>> \in Range(emitted)
      BY <2>4 DEF CellsOf
    <3>2. ASSUME emitted = << >>
          PROVE  Expected = EmptyLayer
      <4>1. Range(emitted) = {}
        BY <3>2 DEF Range
      <4> QED
        BY <2>1, <3>1, <4>1 DEF Layer, EmptyLayer
    <3>3. ASSUME Expected = EmptyLayer
          PROVE  emitted = << >>
      <4>1. CellsOf(Expected) = {}
        BY <3>3 DEF CellsOf, EmptyLayer
      <4>2. ASSUME NEW q \in Seq(Pair), q # << >>
            PROVE  q[1] \in Range(q)
        <5>1. 1 \in DOMAIN q
          BY <4>2
        <5> QED
          BY <5>1 DEF Range
      <4> QED
        BY <2>4, <4>1, <4>2
    <3> QED
      BY <3>2, <3>3
  <2>6. CASE NoFile
    BY <2>5, <2>6 DEF NoFile
  <2>7. CASE Complete
    <3>1. Opens(file) /\ Contents(file) = emitted
      BY <2>7, FinishedReads DEF Complete, MergeInv, EmittedInOrder
    <3>2. emitted # << >>
      <4>1. CASE call.kind = "flush"
        <5>1. Memtable \in Source /\ \A t \in Source : ~(t > Memtable)
          BY SourceAssumption DEF Memtable, Source
        <5>2. Sorted(Given(Memtable)) /\ Given(Memtable) # << >>
          BY <2>2, <4>1, <5>1, GivenRight DEF HeapRight, ExactInv, LoopEnds
        <5>3. ASSUME NEW S, NEW q \in Seq(S), q # << >>
              PROVE  1 \in DOMAIN q /\ q[1] \in S
          BY <5>3
        <5>4. PICK b : b = Given(Memtable)[1]
          OBVIOUS
        <5>5. 1 \in DOMAIN Given(Memtable) /\ b \in Seq(Pair) /\ b # << >>
          BY <5>2, <5>3, <5>4 DEF Sorted
        <5>6. 1 \in DOMAIN b /\ b[1] \in Pair
          BY <5>3, <5>5
        <5>7. b[1] \in EntriesOf(Memtable)
          BY <5>4, <5>5, <5>6 DEF EntriesOf, EntriesIn, Range
        <5>8. Due(b[1])
          BY <4>1, <5>1, <5>7 DEF Due, Newest, Wanted, Dropped
        <5>9. b[1] \in Range(emitted)
          BY <2>3, <2>4, <5>6, <5>8
        <5>10. Range(<< >>) = {}
          BY DEF Range
        <5> QED
          BY <5>9, <5>10
      <4>2. CASE call.kind # "flush"
        BY <2>7, <4>2 DEF Complete
      <4> QED
        BY <4>1, <4>2
    <3> QED
      BY <2>1, <2>5, <3>1, <3>2
  <2> QED
    BY <2>6, <2>7 DEF FileInv, Writing, Spoilt
<1> QED
  BY <1>1, Inductive, MergesExactly, FilesRight, PTL
=============================================================================
