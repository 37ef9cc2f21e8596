----------------------------- MODULE WALProofs ------------------------------
(***************************************************************************)
(* Proofs about the write-ahead log, for every segment limit, record size  *)
(* and bound: what Replay returns is in the order of the appends, without  *)
(* the records of reclaimed segments (ReplayOrdered), and the first        *)
(* restart gets back every acknowledged record that is not in an SSTable   *)
(* (FirstReplayComplete).                                                  *)
(***************************************************************************)
EXTENDS WAL, Flattening

-----------------------------------------------------------------------------
(* The inductive invariant.                                                *)

\* The numbers of the records among items, the fragments left out.
Ids(items) == {items[i].id : i \in DOMAIN items} \ {Torn}

\* The records among items are in the order of their appends.
Ascending(items) ==
    \A i, j \in DOMAIN items :
        i < j /\ items[i].id # Torn /\ items[j].id # Torn =>
            items[i].id < items[j].id

\* So are those of the segments ss, in each and across them.
OrderedLog(ss) ==
    /\ \A s \in DOMAIN ss : Ascending(ss[s])
    /\ \A s, t \in DOMAIN ss : s < t =>
         \A m \in Ids(ss[s]), n \in Ids(ss[t]) : m < n

\* A fragment among items is the last of them.
TornAtEnd(items) ==
    \A i \in DOMAIN items : items[i].id = Torn => i = Len(items)

\* Among the segments ss, only the last one's end may be torn.
WholeLog(ss) ==
    \A s \in DOMAIN ss :
        /\ TornAtEnd(ss[s])
        /\ (\E i \in DOMAIN ss[s] : ss[s][i].id = Torn) =>
             \A t \in DOMAIN ss : t <= s

\* A running WAL appends to its last segment; a rotation that failed may have
\* left an empty one behind that.  What Rotate has returned is behind it.
Active ==
    /\ IsFiniteSet(DOMAIN segments)
    /\ ~Down => \A s \in DOMAIN segments :
                  \/ s <= segmentID
                  \/ file # "open" /\ s = segmentID + 1 /\ segments[s] = << >>
    /\ \A id \in DOMAIN frozen :
         id \in Nat /\ id < segmentID /\ frozen[id] \subseteq acked
    /\ Down => DOMAIN frozen = {}

\* A log from before there were segments is all there is, until it is adopted.
Legacy == legacy # << >> => Down /\ DOMAIN segments = {} /\ flushed = {}

\* Records are in the order of the appends.
Ordered == Ascending(legacy) /\ OrderedLog(segments)

\* What Rotate sealed for a memtable is what the segments up to the one it
\* returned hold, and none of it is in a later one.
Sealed ==
    \A id \in DOMAIN frozen, s \in DOMAIN segments :
        IF s <= id THEN Ids(segments[s]) \cap acked \subseteq frozen[id]
                   ELSE Ids(segments[s]) \cap frozen[id] = {}

\* Records that were flushed are gone, unless removing their segment failed.
Gone ==
    \A s \in DOMAIN segments : Ids(segments[s]) \cap flushed \subseteq stuck

\* Acknowledged records stay until they are flushed.
Logged ==
    \A n \in acked \ flushed :
        \/ n \in Ids(legacy)
        \/ \E s \in DOMAIN segments : n \in Ids(segments[s])

\* Before the first restart and the first failing write, only a crash leaves a
\* fragment, at the end of the last segment.
Whole ==
    count["reopens"] = 0 /\ count["writeErrors"] = 0 =>
        /\ TornAtEnd(legacy) /\ WholeLog(segments)
        /\ ~Down => \A s \in DOMAIN segments : \A i \in DOMAIN segments[s] :
                      segments[s][i].id # Torn

IInv ==
    /\ TypeOK /\ Active /\ Legacy /\ Ordered /\ Sealed /\ Gone /\ Logged
    /\ Whole

-----------------------------------------------------------------------------
(* What Replay returns.                                                    *)

\* The numbers in q ascend.
Ascends(q) == \A i, j \in DOMAIN q : i < j => q[i] < q[j]

\* Two ascending sequences, one after the other.
LEMMA ConcatAscends ==
  ASSUME NEW X \in SUBSET Int, NEW p \in Seq(X), NEW q \in Seq(X),
         Ascends(p), Ascends(q),
         \A i \in DOMAIN p, j \in DOMAIN q : p[i] < q[j]
  PROVE  Ascends(p \o q)
<1>1. PICK m \in Nat, n \in Nat : m = Len(p) /\ n = Len(q)
  OBVIOUS
<1>2. /\ DOMAIN (p \o q) = 1..m + n /\ DOMAIN p = 1..m /\ DOMAIN q = 1..n
      /\ \A i \in 1..m + n :
           (p \o q)[i] = IF i <= m THEN p[i] ELSE q[i - m]
  BY <1>1
<1> SUFFICES ASSUME NEW i \in 1..m + n, NEW j \in 1..m + n, i < j
             PROVE  (p \o q)[i] < (p \o q)[j]
  BY <1>2 DEF Ascends
<1>3. CASE j <= m
  <2>1. i \in 1..m /\ j \in 1..m /\ i <= m
    BY <1>3
  <2> QED
    BY <1>2, <1>3, <2>1 DEF Ascends
<1>4. CASE i <= m /\ ~(j <= m)
  <2>1. i \in 1..m /\ j - m \in 1..n
    BY <1>4
  <2> QED
    BY <1>2, <1>4, <2>1
<1>5. CASE ~(i <= m)
  <2>1. i - m \in 1..n /\ j - m \in 1..n /\ i - m < j - m /\ ~(j <= m)
    BY <1>5
  <2> QED
    BY <1>2, <1>5, <2>1 DEF Ascends
<1> QED
  BY <1>3, <1>4, <1>5

\* What both hold together.
LEMMA ConcatRange ==
  ASSUME NEW X, NEW p \in Seq(X), NEW q \in Seq(X)
  PROVE  p \o q \in Seq(X) /\ Range(p \o q) = Range(p) \cup Range(q)
<1>1. PICK m \in Nat, n \in Nat : m = Len(p) /\ n = Len(q)
  OBVIOUS
<1>2. /\ DOMAIN (p \o q) = 1..m + n /\ DOMAIN p = 1..m /\ DOMAIN q = 1..n
      /\ \A i \in 1..m + n :
           (p \o q)[i] = IF i <= m THEN p[i] ELSE q[i - m]
  BY <1>1
<1>3. ASSUME NEW i \in 1..m + n
      PROVE  (p \o q)[i] \in Range(p) \cup Range(q)
  <2>1. CASE i <= m
    BY <1>2, <2>1 DEF Range
  <2>2. CASE ~(i <= m)
    <3>1. i - m \in 1..n
      BY <2>2
    <3> QED
      BY <1>2, <2>2, <3>1 DEF Range
  <2> QED
    BY <2>1, <2>2
<1>4. ASSUME NEW i \in 1..m
      PROVE  p[i] \in Range(p \o q)
  <2>1. i \in 1..m + n /\ i <= m
    OBVIOUS
  <2> QED
    BY <1>2, <2>1 DEF Range
<1>5. ASSUME NEW i \in 1..n
      PROVE  q[i] \in Range(p \o q)
  <2>1. PICK k : k = i + m
    OBVIOUS
  <2>2. k \in 1..m + n /\ ~(k <= m) /\ k - m = i
    BY <2>1
  <2>3. (p \o q)[k] = q[i]
    BY <1>2, <2>2
  <2> QED
    BY <1>2, <2>2, <2>3 DEF Range
<1>6. p \o q \in Seq(X)
  OBVIOUS
<1> QED
  BY <1>2, <1>3, <1>4, <1>5, <1>6 DEF Range

\* listSegmentIDs returns every segment's id, in ascending order.
LEMMA IDsSorted ==
  ASSUME NEW ss, DOMAIN ss \in SUBSET Nat, IsFiniteSet(DOMAIN ss)
  PROVE  LET n == Cardinality(DOMAIN ss)
         IN  /\ n \in Nat
             /\ SegmentIDs(ss) \in [1..n -> DOMAIN ss]
             /\ \A i, j \in 1..n :
                  i < j => SegmentIDs(ss)[i] < SegmentIDs(ss)[j]
             /\ \A s \in DOMAIN ss : \E i \in 1..n : SegmentIDs(ss)[i] = s
<1> DEFINE R == {p \in Nat \X Nat : p[1] < p[2]}
<1>1. PICK D : D = DOMAIN ss
  OBVIOUS
<1>2. D \in SUBSET Nat /\ IsFiniteSet(D)
  BY <1>1
<1>3. PICK n \in Nat : n = Cardinality(D)
  BY <1>2, FS_CardinalityType
<1>4. TotalOrder(R, D)
  BY <1>2 DEF TotalOrder
<1>5. ASSUME NEW f
      PROVE  Enumerates(f, D, R) <=>
               /\ f \in [1..n -> D]
               /\ \A i, j \in 1..n : i < j => f[i] < f[j]
  BY <1>2, <1>3 DEF Enumerates
<1> HIDE DEF R
<1>6. \E f : Enumerates(f, D, R)
  BY <1>2, <1>4, Enumeration
<1>7. PICK f : f = SegmentIDs(ss)
  OBVIOUS
<1>8. f \in [1..n -> D] /\ \A i, j \in 1..n : i < j => f[i] < f[j]
  <2>1. \E g \in [1..n -> D] : \A i, j \in DOMAIN g : i < j => g[i] < g[j]
    BY <1>5, <1>6
  <2>2. f = CHOOSE g \in [1..n -> D] :
              \A i, j \in DOMAIN g : i < j => g[i] < g[j]
    BY <1>1, <1>3, <1>7 DEF SegmentIDs
  <2> QED
    BY <2>1, <2>2
<1>9. \A s \in D : \E i \in 1..n : f[i] = s
  <2>1. Enumerates(f, D, R)
    BY <1>5, <1>8
  <2> QED
    BY <1>2, <1>3, <1>4, <2>1, EnumeratesAll
<1> QED
  BY <1>1, <1>3, <1>7, <1>8, <1>9

Items(L) == Seq(Item(L))

\* r is what the first items hold, records only.
ReadsPrefix(r, items, L) ==
    \E n \in 0..Len(items) :
        /\ r = [i \in 1..n |-> items[i].id]
        /\ \A i \in 1..n : items[i].id \in 1..L

\* A segment is replayed up to a point before its first fragment.
LEMMA SegmentRead ==
  ASSUME NEW L \in Nat, NEW items \in Items(L), NEW final \in BOOLEAN,
         NEW r \in ReplaySegment(items, final)
  PROVE  r = Failed \/ ReadsPrefix(r, items, L)
<1> DEFINE stops == {i \in DOMAIN items :
                       items[i].id = Torn \/ Refused(items[i])}
           stop == Min(stops)
           Readable(n) == [i \in 1..n |-> items[i].id]
<1>1. PICK m \in Nat : m = Len(items) /\ DOMAIN items = 1..m
  BY DEF Items
<1>2. \A i \in 1..m : items[i].id \in 0..L
  <2>1. ASSUME NEW X, NEW s \in Seq(X), NEW i \in 1..Len(s)
        PROVE  s[i] \in X
    OBVIOUS
  <2>2. \A i \in 1..m : items[i] \in Item(L)
    BY <1>1, <2>1 DEF Items
  <2> QED
    BY <2>2 DEF Item
<1>3. r \in IF stops = {} THEN {Readable(Len(items))}
            ELSE IF Refused(items[stop]) \/ ~final THEN {Failed}
            ELSE IF stop = Len(items) THEN {Readable(stop - 1)}
            ELSE {Readable(stop - 1), Failed}
  BY DEF ReplaySegment
<1>4. CASE stops = {}
  <2>1. r = Readable(m)
    BY <1>1, <1>3, <1>4
  <2>2. \A i \in 1..m : items[i].id \in 1..L
    BY <1>1, <1>2, <1>4 DEF Torn
  <2> QED
    BY <1>1, <2>1, <2>2 DEF ReadsPrefix
<1>5. CASE stops # {}
  <2>1. stop \in 1..m /\ \A i \in stops : stop <= i
    <3>1. stops \in SUBSET Nat /\ stops \subseteq 1..m
      BY <1>1
    <3> HIDE DEF stops
    <3> QED
      BY <1>5, <3>1, MinInSet
  <2>2. \A i \in 1..stop - 1 : items[i].id \in 1..L
    <3> HIDE DEF stop
    <3> SUFFICES ASSUME NEW i \in 1..stop - 1
                 PROVE  items[i].id \in 1..L
      OBVIOUS
    <3>1. i \in 1..m /\ ~(stop <= i)
      BY <2>1
    <3> QED
      BY <1>1, <1>2, <2>1, <3>1 DEF Torn
  <2>3. r = Failed \/ r = Readable(stop - 1)
    BY <1>3, <1>5
  <2> HIDE DEF stop
  <2>4. stop - 1 \in 0..m
    BY <2>1
  <2> QED
    BY <1>1, <2>2, <2>3, <2>4 DEF ReadsPrefix
<1> QED
  BY <1>4, <1>5

\* Then it is a sequence of records, in the order of the segment.
LEMMA PrefixTypes ==
  ASSUME NEW L \in Nat, NEW items \in Items(L), NEW r,
         ReadsPrefix(r, items, L)
  PROVE  /\ r \in Seq(1..L) /\ Range(r) \subseteq Ids(items)
         /\ Ascending(items) => Ascends(r)
<1>1. PICK n \in 0..Len(items) : /\ r = [i \in 1..n |-> items[i].id]
                                /\ \A i \in 1..n : items[i].id \in 1..L
  BY DEF ReadsPrefix
<1>2. PICK m \in Nat : m = Len(items) /\ DOMAIN items = 1..m
  BY DEF Items
<1>3. n \in Nat /\ r \in [1..n -> 1..L] /\ \A i \in 1..n : i \in 1..m
  BY <1>1, <1>2
<1>4. r \in Seq(1..L)
  BY <1>3
<1>5. \A i \in 1..n : items[i].id # Torn
  BY <1>1 DEF Torn
<1>6. Range(r) \subseteq Ids(items)
  BY <1>1, <1>2, <1>3, <1>5 DEF Range, Ids
<1>7. Ascending(items) => Ascends(r)
  BY <1>1, <1>2, <1>3, <1>5 DEF Ascending, Ascends
<1> QED
  BY <1>4, <1>6, <1>7

\* A sealed segment is read to its end or not at all, and so is the final one if
\* only its end is torn.  What keeps it from being read is a record that is too
\* large or, in a sealed segment, a fragment.
LEMMA SegmentReadAll ==
  ASSUME NEW L \in Nat, NEW items \in Items(L), NEW final \in BOOLEAN,
         NEW r \in ReplaySegment(items, final),
         ~final \/ TornAtEnd(items)
  PROVE  /\ r # Failed => Ids(items) \subseteq Range(r)
         /\ r = Failed =>
              \E i \in DOMAIN items :
                Refused(items[i]) \/ (~final /\ items[i].id = Torn)
         /\ ~final => ReplaySegment(items, final) = {r}
<1> DEFINE stops == {i \in DOMAIN items :
                       items[i].id = Torn \/ Refused(items[i])}
           stop == Min(stops)
           Readable(n) == [i \in 1..n |-> items[i].id]
<1>1. PICK m \in Nat : m = Len(items) /\ DOMAIN items = 1..m
  BY DEF Items
<1>2. ReplaySegment(items, final) =
        IF stops = {} THEN {Readable(Len(items))}
        ELSE IF Refused(items[stop]) \/ ~final THEN {Failed}
        ELSE IF stop = Len(items) THEN {Readable(stop - 1)}
        ELSE {Readable(stop - 1), Failed}
  BY DEF ReplaySegment
<1>3. CASE stops = {}
  <2>1. ReplaySegment(items, final) = {r} /\ r = Readable(m)
    BY <1>1, <1>2, <1>3
  <2>2. Ids(items) \subseteq Range(r)
    BY <1>1, <2>1 DEF Ids, Range
  <2>3. r # Failed
    <3> SUFFICES ASSUME r = Failed PROVE FALSE
      OBVIOUS
    <3>1. 1 \in DOMAIN r /\ r[1] = Torn
      BY DEF Failed
    <3>2. 1 \in 1..m /\ items[1].id = Torn
      BY <2>1, <3>1
    <3> QED
      BY <1>1, <1>3, <3>2
  <2> QED
    BY <2>1, <2>2, <2>3
<1>4. CASE stops # {}
  <2>1. stop \in stops /\ stop \in 1..m /\ \A i \in stops : stop <= i
    <3>1. stops \in SUBSET Nat /\ stops \subseteq 1..m
      BY <1>1
    <3> HIDE DEF stops
    <3> QED
      BY <1>4, <3>1, MinInSet
  <2>2. items[stop].id = Torn \/ Refused(items[stop])
    BY <2>1
  <2>3. CASE Refused(items[stop]) \/ ~final
    <3>1. ReplaySegment(items, final) = {Failed}
      BY <1>2, <1>4, <2>3
    <3>2. stop \in DOMAIN items
      BY <1>1, <2>1
    <3> HIDE DEF stop
    <3> QED
      BY <2>2, <2>3, <3>1, <3>2
  <2>4. CASE ~Refused(items[stop]) /\ final
    <3>1. stop = Len(items)
      <4> HIDE DEF stop
      <4> QED
        BY <1>1, <2>1, <2>2, <2>4 DEF TornAtEnd
    <3>2. r = Readable(stop - 1)
      BY <1>2, <1>4, <2>4, <3>1
    <3> HIDE DEF stop
    <3>3. r = [i \in 1..m - 1 |-> items[i].id] /\ items[m].id = Torn
      BY <1>1, <2>2, <2>4, <3>1, <3>2
    <3>4. Ids(items) \subseteq Range(r)
      <4> SUFFICES ASSUME NEW i \in 1..m, items[i].id # Torn
                   PROVE  items[i].id \in Range(r)
        BY <1>1 DEF Ids
      <4>1. i \in 1..m - 1
        BY <3>3
      <4> QED
        BY <3>3, <4>1 DEF Range
    <3>5. r # Failed
      <4> SUFFICES ASSUME r = Failed PROVE FALSE
        OBVIOUS
      <4>1. 1 \in DOMAIN r /\ r[1] = Torn
        BY DEF Failed
      <4>2. 1 \in 1..m - 1 /\ items[1].id = Torn
        BY <3>3, <4>1
      <4>3. 1 \in 1..m /\ 1 # m
        BY <4>2
      <4> QED
        BY <1>1, <2>4, <4>2, <4>3 DEF TornAtEnd
    <3> QED
      BY <2>4, <3>4, <3>5
  <2> QED
    BY <2>3, <2>4
<1> QED
  BY <1>3, <1>4

\* A segment among ss cannot be read, sealed ones and the final one, ...
ReadFails(ss) ==
    LET n == Cardinality(DOMAIN ss)
        ids == SegmentIDs(ss)
    IN  \/ \E i \in 1..n - 1 : Failed \in ReplaySegment(ss[ids[i]], FALSE)
        \/ Failed \in ReplaySegment(ss[ids[n]], TRUE)

\* ... or parts and r are what is read of them.
Reads(ss, L, parts, r) ==
    LET n == Cardinality(DOMAIN ss)
        ids == SegmentIDs(ss)
    IN  /\ parts \in [1..n - 1 -> Seq(1..L)]
        /\ \A i \in 1..n - 1 : parts[i] \in ReplaySegment(ss[ids[i]], FALSE)
        /\ r \in ReplaySegment(ss[ids[n]], TRUE)
        /\ r # Failed

\* Replay puts what it reads of the segments together.
LEMMA ReplayParts ==
  ASSUME NEW L \in Nat, NEW ss, ss \in [DOMAIN ss -> Items(L)],
         DOMAIN ss \in SUBSET Nat, IsFiniteSet(DOMAIN ss), DOMAIN ss # {},
         NEW q \in Replay(ss)
  PROVE  \/ q = Failed /\ ReadFails(ss)
         \/ \E parts, r : Reads(ss, L, parts, r) /\ q = FlattenSeq(parts) \o r
<1> DEFINE ids == SegmentIDs(ss)
           n == Len(ids)
           results == [i \in 1..n |-> ReplaySegment(ss[ids[i]], i = n)]
           parts == [i \in 1..n - 1 |-> CHOOSE r \in results[i] : TRUE]
<1>1. q \in IF \E i \in 1..n - 1 : results[i] = {Failed}
              THEN {Failed}
              ELSE {IF r = Failed THEN Failed ELSE FlattenSeq(parts) \o r :
                      r \in results[n]}
  BY DEF Replay
<1>2. PICK D : D = DOMAIN ss
  OBVIOUS
<1> HIDE DEF ids
<1>3. /\ n = Cardinality(D) /\ n \in Nat /\ n # 0
      /\ ids \in [1..n -> D] /\ ids = SegmentIDs(ss)
  <2>1. PICK m \in Nat : m = Cardinality(D)
    BY <1>2, FS_CardinalityType
  <2>2. ids \in [1..m -> D]
    BY <1>2, <2>1, IDsSorted DEF ids
  <2>3. m # 0
    BY <1>2, <2>1, FS_EmptySet
  <2>4. Len(ids) = m
    BY <2>2
  <2> QED
    BY <2>1, <2>2, <2>3, <2>4 DEF ids
<1> HIDE DEF n
<1>4. /\ \A i \in 1..n - 1 :
           i \in 1..n /\ results[i] = ReplaySegment(ss[ids[i]], FALSE)
      /\ results[n] = ReplaySegment(ss[ids[n]], TRUE)
  <2>1. \A i \in 1..n - 1 : i \in 1..n /\ (i = n) = FALSE
    BY <1>3
  <2>2. n \in 1..n /\ (n = n) = TRUE
    BY <1>3
  <2> QED
    BY <2>1, <2>2
<1>6. ASSUME NEW i \in 1..n - 1, results[i] # {Failed}
      PROVE  parts[i] \in results[i] /\ parts[i] \in Seq(1..L)
  <2>1. PICK items : items = ss[ids[i]]
    OBVIOUS
  <2>2. items \in Items(L)
    BY <1>2, <1>3, <1>4, <1>6, <2>1
  <2>3. PICK final \in BOOLEAN :
          ~final /\ results[i] = ReplaySegment(items, final)
    BY <1>4, <1>6, <2>1
  <2>4. ReplaySegment(items, final) # {}
    BY DEF ReplaySegment
  <2>5. parts[i] \in results[i]
    BY <2>3, <2>4
  <2>6. PICK r : r = parts[i]
    OBVIOUS
  <2> HIDE DEF parts, results
  <2>7. ReplaySegment(items, final) = {r}
    BY <2>2, <2>3, <2>5, <2>6, SegmentReadAll
  <2>8. r # Failed
    BY <1>6, <2>3, <2>7
  <2>9. r \in Seq(1..L)
    BY <2>2, <2>3, <2>5, <2>6, <2>8, SegmentRead, PrefixTypes
  <2> QED
    BY <2>5, <2>6, <2>9
<1>7. CASE \E i \in 1..n - 1 : results[i] = {Failed}
  <2>1. q = Failed
    BY <1>1, <1>7
  <2>2. PICK i \in 1..n - 1 : results[i] = {Failed}
    BY <1>7
  <2>3. Failed \in ReplaySegment(ss[ids[i]], FALSE)
    BY <1>4, <2>2
  <2> QED
    BY <1>2, <1>3, <2>1, <2>3 DEF ReadFails
<1>8. CASE ~\E i \in 1..n - 1 : results[i] = {Failed}
  <2>1. PICK r \in results[n] :
          q = IF r = Failed THEN Failed ELSE FlattenSeq(parts) \o r
    BY <1>1, <1>8
  <2>2. r \in ReplaySegment(ss[ids[n]], TRUE)
    BY <1>4, <2>1
  <2>3. CASE r = Failed
    BY <1>2, <1>3, <2>1, <2>2, <2>3 DEF ReadFails
  <2>4. CASE r # Failed
    <3>1. \A i \in 1..n - 1 : parts[i] \in ReplaySegment(ss[ids[i]], FALSE)
      BY <1>4, <1>6, <1>8
    <3>2. parts \in [1..n - 1 -> Seq(1..L)]
      BY <1>6, <1>8
    <3>3. q = FlattenSeq(parts) \o r
      BY <2>1, <2>4
    <3> HIDE DEF parts
    <3> QED
      BY <1>2, <1>3, <2>2, <2>4, <3>1, <3>2, <3>3 DEF Reads
  <2> QED
    BY <2>3, <2>4
<1> QED
  BY <1>7, <1>8

\* Replay returns records in the order of the appends.
LEMMA ReplayRight ==
  ASSUME NEW L \in Nat, NEW ss, ss \in [DOMAIN ss -> Items(L)],
         DOMAIN ss \in SUBSET Nat, IsFiniteSet(DOMAIN ss), DOMAIN ss # {},
         OrderedLog(ss), NEW q \in Replay(ss), q # Failed
  PROVE  /\ q \in Seq(1..L) /\ Ascends(q)
         /\ \A x \in Range(q) : \E s \in DOMAIN ss : x \in Ids(ss[s])
<1>1. PICK n, ids :
        /\ n \in Nat
        /\ n = Cardinality(DOMAIN ss) /\ n # 0
        /\ ids = SegmentIDs(ss) /\ ids \in [1..n -> DOMAIN ss]
        /\ \A i, j \in 1..n : i < j => ids[i] < ids[j]
  BY IDsSorted, FS_EmptySet
<1> n \in Nat
  BY <1>1
<1>2. PICK parts, r : Reads(ss, L, parts, r) /\ q = FlattenSeq(parts) \o r
  BY ReplayParts
<1>3. /\ parts \in [1..n - 1 -> Seq(1..L)]
      /\ \A i \in 1..n - 1 : parts[i] \in ReplaySegment(ss[ids[i]], FALSE)
      /\ r \in ReplaySegment(ss[ids[n]], TRUE)
      /\ r # Failed
  BY <1>1, <1>2 DEF Reads
<1> DEFINE R == [i \in 0..n - 1 |->
                   {p \in Seq(1..L) :
                      /\ Ascends(p)
                      /\ \A x \in Range(p) :
                           \E k \in 1..i : x \in Ids(ss[ids[k]])}]
<1>4. ASSUME NEW i \in 1..n, NEW p \in Seq(1..L), Ascends(p),
             \A x \in Range(p) : \E k \in 1..i - 1 : x \in Ids(ss[ids[k]]),
             NEW final \in BOOLEAN, NEW t \in ReplaySegment(ss[ids[i]], final),
             t # Failed
      PROVE  /\ p \o t \in Seq(1..L) /\ Ascends(p \o t)
             /\ \A x \in Range(p \o t) : \E k \in 1..i : x \in Ids(ss[ids[k]])
  <2>1. PICK s : s = ids[i] /\ s \in DOMAIN ss /\ ss[s] \in Items(L)
    BY <1>1
  <2>2. /\ t \in Seq(1..L) /\ Range(t) \subseteq Ids(ss[s])
        /\ Ascends(t)
    <3>1. ReadsPrefix(t, ss[s], L)
      BY <1>4, <2>1, SegmentRead
    <3>2. Ascending(ss[s])
      BY <2>1 DEF OrderedLog
    <3> QED
      BY <2>1, <3>1, <3>2, PrefixTypes
  <2>3. ASSUME NEW a \in DOMAIN p, NEW b \in DOMAIN t
        PROVE  p[a] < t[b]
    <3>1. PICK k \in 1..i - 1 : p[a] \in Ids(ss[ids[k]])
      BY <1>4, <2>3 DEF Range
    <3>2. t[b] \in Ids(ss[s])
      BY <2>2, <2>3 DEF Range
    <3>3. k \in 1..n /\ k < i
      OBVIOUS
    <3>4. ids[k] \in DOMAIN ss /\ ids[k] < s
      BY <1>1, <2>1, <3>3
    <3> QED
      BY <2>1, <3>1, <3>2, <3>4 DEF OrderedLog
  <2>4. p \o t \in Seq(1..L) /\ Range(p \o t) = Range(p) \cup Range(t)
    BY <2>2, ConcatRange
  <2>5. Ascends(p \o t)
    <3>1. 1..L \in SUBSET Int
      OBVIOUS
    <3> QED
      BY <1>4, <2>2, <2>3, <3>1, ConcatAscends
  <2>6. i \in 1..i /\ \A k \in 1..i - 1 : k \in 1..i
    OBVIOUS
  <2> QED
    BY <1>4, <2>1, <2>2, <2>4, <2>5, <2>6
<1>5. FlattenSeq(parts) \in R[n - 1]
  <2>1. parts \in Seq(Seq(1..L)) /\ Len(parts) = n - 1
    <3>1. ASSUME NEW S, NEW m \in Nat, NEW f \in [1..m -> S]
          PROVE  f \in Seq(S) /\ Len(f) = m
      OBVIOUS
    <3>2. n - 1 \in Nat
      BY <1>1
    <3> QED
      BY <1>3, <3>1, <3>2
  <2>2. << >> \in R[0]
    BY <1>1 DEF Ascends, Range
  <2>3. ASSUME NEW i \in 1..n - 1, NEW p \in R[i - 1]
        PROVE  p \o parts[i] \in R[i]
    <3>1. i \in 1..n /\ i - 1 \in 0..n - 1 /\ i \in 0..n - 1
      OBVIOUS
    <3>2. PICK final \in BOOLEAN, t \in Seq(1..L) :
            t = parts[i] /\ t \in ReplaySegment(ss[ids[i]], final)
      BY <1>3
    <3>3. t # Failed
      <4>1. \A j \in DOMAIN t : t[j] # 0
        OBVIOUS
      <4> QED
        BY <4>1 DEF Failed, Torn
    <3>4. /\ p \in Seq(1..L) /\ Ascends(p)
          /\ \A x \in Range(p) : \E k \in 1..i - 1 : x \in Ids(ss[ids[k]])
      BY <2>3, <3>1
    <3>5. /\ p \o t \in Seq(1..L) /\ Ascends(p \o t)
          /\ \A x \in Range(p \o t) : \E k \in 1..i : x \in Ids(ss[ids[k]])
      BY <1>4, <3>1, <3>2, <3>3, <3>4
    <3> QED
      BY <3>1, <3>2, <3>5
  <2> HIDE DEF R
  <2>4. FlattenSeq(parts) \in R[Len(parts)]
    BY <2>1, <2>2, <2>3, FlattenInduction
  <2> QED
    BY <2>1, <2>4
<1>6. PICK p : p = FlattenSeq(parts)
  OBVIOUS
<1>7. /\ p \in Seq(1..L) /\ Ascends(p)
      /\ \A x \in Range(p) : \E k \in 1..n - 1 : x \in Ids(ss[ids[k]])
  <2>1. n - 1 \in 0..n - 1
    BY <1>1
  <2> QED
    BY <1>5, <1>6, <2>1
<1>8. /\ p \o r \in Seq(1..L) /\ Ascends(p \o r)
      /\ \A x \in Range(p \o r) : \E k \in 1..n : x \in Ids(ss[ids[k]])
  <2>1. n \in 1..n
    BY <1>1
  <2>2. PICK final \in BOOLEAN : r \in ReplaySegment(ss[ids[n]], final)
    BY <1>3
  <2> QED
    BY <1>3, <1>4, <1>7, <2>1, <2>2
<1> QED
  BY <1>1, <1>2, <1>6, <1>8

\* If only the end of the last segment is torn, Replay returns every record, or
\* an error because of a record that is too large.
LEMMA ReplayAll ==
  ASSUME NEW L \in Nat, NEW ss, ss \in [DOMAIN ss -> Items(L)],
         DOMAIN ss \in SUBSET Nat, IsFiniteSet(DOMAIN ss), DOMAIN ss # {},
         WholeLog(ss), NEW q \in Replay(ss)
  PROVE  \/ /\ q = Failed
            /\ \E s \in DOMAIN ss : \E i \in DOMAIN ss[s] : Refused(ss[s][i])
         \/ /\ q # Failed
            /\ \A s \in DOMAIN ss : Ids(ss[s]) \subseteq Range(q)
<1>1. PICK n, ids :
        /\ n \in Nat
        /\ n = Cardinality(DOMAIN ss) /\ n # 0
        /\ ids = SegmentIDs(ss) /\ ids \in [1..n -> DOMAIN ss]
        /\ \A i, j \in 1..n : i < j => ids[i] < ids[j]
        /\ \A s \in DOMAIN ss : \E i \in 1..n : ids[i] = s
  BY IDsSorted, FS_EmptySet
<1> n \in Nat
  BY <1>1
<1>2. ASSUME NEW i \in 1..n - 1
      PROVE  /\ ids[i] \in DOMAIN ss /\ ss[ids[i]] \in Items(L)
             /\ \A j \in DOMAIN ss[ids[i]] : ss[ids[i]][j].id # Torn
  <2>1. i \in 1..n /\ n \in 1..n /\ i < n
    BY <1>1
  <2>2. ids[i] \in DOMAIN ss /\ ids[n] \in DOMAIN ss /\ ids[i] < ids[n]
    BY <1>1, <2>1
  <2>3. ids[i] \in Nat /\ ids[n] \in Nat
    BY <2>2
  <2> QED
    BY <2>2, <2>3 DEF WholeLog
<1>3. /\ ids[n] \in DOMAIN ss /\ ss[ids[n]] \in Items(L)
      /\ TornAtEnd(ss[ids[n]])
  <2>1. n \in 1..n
    BY <1>1
  <2> QED
    BY <1>1, <2>1 DEF WholeLog
<1>4. CASE q = Failed /\ ReadFails(ss)
  <2>1. CASE \E i \in 1..n - 1 : Failed \in ReplaySegment(ss[ids[i]], FALSE)
    <3>1. PICK i \in 1..n - 1, final \in BOOLEAN :
            ~final /\ Failed \in ReplaySegment(ss[ids[i]], final)
      BY <2>1
    <3>2. PICK r : r = Failed
      OBVIOUS
    <3>3. \E j \in DOMAIN ss[ids[i]] : Refused(ss[ids[i]][j])
      BY <1>2, <3>1, <3>2, SegmentReadAll
    <3> QED
      BY <1>2, <1>4, <3>3
  <2>2. CASE Failed \in ReplaySegment(ss[ids[n]], TRUE)
    <3>1. PICK final \in BOOLEAN :
            final /\ Failed \in ReplaySegment(ss[ids[n]], final)
      BY <2>2
    <3>2. PICK r : r = Failed
      OBVIOUS
    <3>3. \E j \in DOMAIN ss[ids[n]] : Refused(ss[ids[n]][j])
      BY <1>3, <3>1, <3>2, SegmentReadAll
    <3> QED
      BY <1>3, <1>4, <3>3
  <2> QED
    BY <1>1, <1>4, <2>1, <2>2 DEF ReadFails
<1>5. ASSUME NEW parts, NEW r, Reads(ss, L, parts, r),
             q = FlattenSeq(parts) \o r
      PROVE  /\ q # Failed
             /\ \A s \in DOMAIN ss : Ids(ss[s]) \subseteq Range(q)
  <2>1. /\ parts \in [1..n - 1 -> Seq(1..L)]
        /\ \A i \in 1..n - 1 : parts[i] \in ReplaySegment(ss[ids[i]], FALSE)
        /\ r \in ReplaySegment(ss[ids[n]], TRUE)
        /\ r # Failed
    BY <1>1, <1>5 DEF Reads
  <2> DEFINE R == [i \in 0..n - 1 |->
                     {p \in Seq(1..L) :
                        \A k \in 1..i : Ids(ss[ids[k]]) \subseteq Range(p)}]
  <2>2. ASSUME NEW i \in 1..n - 1
        PROVE  Ids(ss[ids[i]]) \subseteq Range(parts[i])
    <3>1. PICK final \in BOOLEAN, t \in Seq(1..L) :
            /\ t = parts[i] /\ ~final
            /\ t \in ReplaySegment(ss[ids[i]], final)
      BY <2>1
    <3>2. t # Failed
      <4>1. \A j \in DOMAIN t : t[j] # 0
        OBVIOUS
      <4> QED
        BY <4>1 DEF Failed, Torn
    <3> QED
      BY <1>2, <3>1, <3>2, SegmentReadAll
  <2>3. FlattenSeq(parts) \in R[n - 1]
    <3>1. parts \in Seq(Seq(1..L)) /\ Len(parts) = n - 1
      <4>1. ASSUME NEW S, NEW m \in Nat, NEW f \in [1..m -> S]
            PROVE  f \in Seq(S) /\ Len(f) = m
        OBVIOUS
      <4>2. n - 1 \in Nat
        BY <1>1
      <4> QED
        BY <2>1, <4>1, <4>2
    <3>2. << >> \in R[0]
      BY <1>1
    <3>3. ASSUME NEW i \in 1..n - 1, NEW p \in R[i - 1]
          PROVE  p \o parts[i] \in R[i]
      <4>1. /\ i - 1 \in 0..n - 1 /\ i \in 0..n - 1
            /\ \A k \in 1..i : k # i => k \in 1..i - 1
        OBVIOUS
      <4>2. PICK t \in Seq(1..L) : t = parts[i]
        BY <2>1
      <4>3. /\ p \in Seq(1..L)
            /\ \A k \in 1..i - 1 : Ids(ss[ids[k]]) \subseteq Range(p)
        BY <3>3, <4>1
      <4>4. p \o t \in Seq(1..L) /\ Range(p \o t) = Range(p) \cup Range(t)
        BY <4>2, <4>3, ConcatRange
      <4>5. \A k \in 1..i : Ids(ss[ids[k]]) \subseteq Range(p \o t)
        BY <2>2, <4>1, <4>2, <4>3, <4>4
      <4> QED
        BY <4>1, <4>2, <4>4, <4>5
    <3> HIDE DEF R
    <3>4. FlattenSeq(parts) \in R[Len(parts)]
      BY <3>1, <3>2, <3>3, FlattenInduction
    <3> QED
      BY <3>1, <3>4
  <2>4. PICK p : p = FlattenSeq(parts)
    OBVIOUS
  <2>5. /\ p \in Seq(1..L)
        /\ \A k \in 1..n - 1 : Ids(ss[ids[k]]) \subseteq Range(p)
    <3>1. n - 1 \in 0..n - 1
      BY <1>1
    <3> QED
      BY <2>3, <2>4, <3>1
  <2>6. PICK final \in BOOLEAN :
          final /\ r \in ReplaySegment(ss[ids[n]], final)
    BY <2>1
  <2>7. r \in Seq(1..L) /\ Ids(ss[ids[n]]) \subseteq Range(r)
    BY <1>3, <2>1, <2>6, SegmentRead, SegmentReadAll, PrefixTypes
  <2>8. q \in Seq(1..L) /\ Range(q) = Range(p) \cup Range(r)
    BY <1>5, <2>4, <2>5, <2>7, ConcatRange
  <2>9. q # Failed
    <3>1. \A j \in DOMAIN q : q[j] # 0
      BY <2>8
    <3> QED
      BY <3>1 DEF Failed, Torn
  <2>10. ASSUME NEW s \in DOMAIN ss
         PROVE  Ids(ss[s]) \subseteq Range(q)
    <3>1. PICK i \in 1..n : ids[i] = s
      BY <1>1
    <3>2. i \in 1..n - 1 \/ i = n
      OBVIOUS
    <3> QED
      BY <2>5, <2>7, <2>8, <3>1, <3>2
  <2> QED
    BY <2>9, <2>10
<1> QED
  BY <1>4, <1>5, ReplayParts

-----------------------------------------------------------------------------
(* The steps that write to a segment.                                      *)

\* Sequences over a set, and over a larger one.
LEMMA SeqSubset ==
  ASSUME NEW A, NEW B, A \subseteq B
  PROVE  Seq(A) \subseteq Seq(B)
OBVIOUS

\* The elements of a sequence.
LEMMA SeqElements ==
  ASSUME NEW A, NEW q \in Seq(A)
  PROVE  \A i \in DOMAIN q : q[i] \in A
OBVIOUS

\* What may be written grows with the number of records.
LEMMA ItemSets ==
  ASSUME NEW L \in Nat, NEW M \in Nat, L <= M
  PROVE  Item(L) \subseteq Item(M) /\ Items(L) \subseteq Items(M)
<1>1. Item(L) \subseteq Item(M)
  <2>1. 0..L \subseteq 0..M
    OBVIOUS
  <2> QED
    BY <2>1 DEF Item
<1> QED
  BY <1>1, SeqSubset DEF Items

\* What the proofs need of the types.
LEMMA LogTypes ==
  ASSUME IInv
  PROVE  /\ last \in Nat /\ segmentID \in Nat
         /\ segments \in [DOMAIN segments -> Items(last)]
         /\ DOMAIN segments \in SUBSET (Nat \ {0})
         /\ IsFiniteSet(DOMAIN segments)
         /\ \A s \in DOMAIN segments : Ids(segments[s]) \subseteq 1..last
         /\ acked \subseteq 1..last /\ flushed \subseteq acked
         /\ stuck \subseteq flushed
         /\ count \in [Counters -> Nat]
<1>1. /\ last \in Nat /\ segmentID \in Nat
      /\ DOMAIN segments \in SUBSET (Nat \ {0})
      /\ IsFiniteSet(DOMAIN segments)
      /\ acked \subseteq 1..last /\ flushed \subseteq acked
      /\ stuck \subseteq flushed
      /\ count \in [Counters -> Nat]
  BY DEF IInv, TypeOK, Active
<1>2. \A x \in Item(last) : x.id \in 0..last
  BY DEF Item
<1>3. ASSUME NEW s \in DOMAIN segments
      PROVE  segments[s] \in Items(last) /\ Ids(segments[s]) \subseteq 1..last
  <2>1. PICK q \in Seq(Item(last)) : q = segments[s]
    BY DEF IInv, TypeOK
  <2>2. \A i \in DOMAIN q : q[i] \in Item(last)
    BY SeqElements
  <2>3. Ids(q) \subseteq 1..last
    BY <1>1, <1>2, <2>2 DEF Ids, Torn
  <2> QED
    BY <2>1, <2>3 DEF Items
<1>4. segments = [s \in DOMAIN segments |-> segments[s]]
  BY DEF IInv, TypeOK
<1> QED
  BY <1>1, <1>3, <1>4

\* What is put behind the records of old: nothing, or one item x.
LEMMA Extended ==
  ASSUME NEW L \in Nat, NEW old \in Items(L), Ascending(old),
         Ids(old) \subseteq 1..L, NEW x, x.id \in {Torn, L + 1}
  PROVE  LET new == old \o <<x>>
         IN  /\ Ids(new) = Ids(old) \cup ({x.id} \ {Torn})
             /\ Ascending(new)
             /\ (\A i \in DOMAIN old : old[i].id # Torn) =>
                  /\ TornAtEnd(new)
                  /\ x.id # Torn => \A i \in DOMAIN new : new[i].id # Torn
<1>1. PICK n \in Nat : n = Len(old) /\ DOMAIN old = 1..n
  BY DEF Items
<1>2. PICK new : new = old \o <<x>>
  OBVIOUS
<1>3. /\ DOMAIN new = 1..n + 1 /\ Len(new) = n + 1
      /\ \A i \in 1..n : i \in 1..n + 1 /\ new[i] = old[i]
      /\ new[n + 1] = x
  BY <1>1, <1>2 DEF Items
<1>4. \A i \in 1..n + 1 : i \in 1..n \/ i = n + 1
  BY <1>1
<1>5. Ids(new) = Ids(old) \cup ({x.id} \ {Torn})
  <2>1. n + 1 \in 1..n + 1
    BY <1>1
  <2> QED
    BY <1>1, <1>3, <1>4, <2>1 DEF Ids
<1>6. Ascending(new)
  <2> SUFFICES ASSUME NEW i \in 1..n + 1, NEW j \in 1..n + 1, i < j,
                      new[i].id # Torn, new[j].id # Torn
               PROVE  new[i].id < new[j].id
    BY <1>3 DEF Ascending
  <2>1. i \in 1..n
    BY <1>1
  <2>2. CASE j \in 1..n
    BY <1>1, <1>3, <2>1, <2>2 DEF Ascending
  <2>3. CASE j = n + 1
    <3>1. new[j].id = L + 1 /\ new[i].id \in Ids(old)
      BY <1>1, <1>3, <2>1, <2>3 DEF Ids
    <3> QED
      BY <3>1
  <2> QED
    BY <1>4, <2>2, <2>3
<1>7. (\A i \in DOMAIN old : old[i].id # Torn) =>
        /\ TornAtEnd(new)
        /\ x.id # Torn => \A i \in DOMAIN new : new[i].id # Torn
  BY <1>1, <1>3, <1>4 DEF TornAtEnd
<1> QED
  BY <1>2, <1>5, <1>6, <1>7

\* What AppendRecord, or a crash in it, does to the segments: the last segment,
\* t, which may be new, gets items.
Writes(t, items) ==
    /\ t \in Nat \ {0} /\ t \in {segmentID, segmentID + 1}
    /\ DOMAIN segments' = DOMAIN segments \cup {t}
    /\ \A u \in DOMAIN segments : u <= t
    /\ \A u \in DOMAIN segments : u # t => segments'[u] = segments[u]
    /\ segments' = [u \in DOMAIN segments' |-> segments'[u]]
    /\ IF t \in DOMAIN segments THEN segments'[t] = segments[t] \o items
                                ELSE segments'[t] = items

\* Items that may be written: none, a fragment or the record.
WriteItems ==
    {<< >>} \cup {<<x>> : x \in [id : {Torn, last + 1},
                                size : RecordSizes \cup {1}]}

\* Written is such a step.
LEMMA WrittenWrites ==
  ASSUME IInv, file = "open", NEW s \in RecordSizes, NEW items \in WriteItems,
         segments' = Written(s, items)
  PROVE  Writes(Target(s), items)
<1>1. PICK t : t = Target(s)
  OBVIOUS
<1>2. /\ segmentID \in DOMAIN segments /\ segmentID \in Nat \ {0}
      /\ DOMAIN segments \in SUBSET (Nat \ {0})
      /\ \A u \in DOMAIN segments : u <= segmentID
  BY DEF IInv, TypeOK, Active, Down
<1>3. << >> \o items = items
  BY DEF WriteItems
<1>4. CASE MustRotate(s)
  <2>1. t = segmentID + 1 /\ t \notin DOMAIN segments
    BY <1>1, <1>2, <1>4 DEF Target
  <2>2. segments' = Put(segments, t, items)
    BY <1>1, <1>3, <1>4 DEF Written
  <2>3. \A u \in DOMAIN segments : u <= t
    BY <1>2, <2>1
  <2>4. t \in Nat \ {0}
    BY <1>2, <2>1
  <2> QED
    BY <1>1, <2>1, <2>2, <2>3, <2>4 DEF Writes, Put
<1>5. CASE ~MustRotate(s)
  <2>1. t = segmentID
    BY <1>1, <1>5 DEF Target
  <2>2. segments' = Put(segments, t, segments[t] \o items)
    BY <1>1, <1>5, <2>1 DEF Written
  <2> QED
    BY <1>1, <1>2, <2>1, <2>2 DEF Writes, Put
<1> QED
  BY <1>4, <1>5

\* The segments after such a step.
LEMMA WritesFacts ==
  ASSUME IInv, NEW t, NEW items \in WriteItems, Writes(t, items)
  PROVE  /\ segments' \in [DOMAIN segments' -> Items(last + 1)]
         /\ DOMAIN segments' \in SUBSET (Nat \ {0})
         /\ IsFiniteSet(DOMAIN segments')
         /\ OrderedLog(segments')
         /\ \A u \in DOMAIN segments :
              Ids(segments[u]) \subseteq Ids(segments'[u])
         /\ \A u \in DOMAIN segments' : \A n \in Ids(segments'[u]) :
              \/ u \in DOMAIN segments /\ n \in Ids(segments[u])
              \/ u = t /\ n = last + 1
         /\ \A x : items = <<x>> /\ x.id = last + 1 =>
              last + 1 \in Ids(segments'[t])
         /\ (\A u \in DOMAIN segments : \A i \in DOMAIN segments[u] :
               segments[u][i].id # Torn) =>
              /\ WholeLog(segments')
              /\ (\A x : items = <<x>> => x.id # Torn) =>
                   \A u \in DOMAIN segments' : \A i \in DOMAIN segments'[u] :
                     segments'[u][i].id # Torn
<1>1. PICK old : old = IF t \in DOMAIN segments THEN segments[t] ELSE << >>
  OBVIOUS
<1>2. PICK new : new = segments'[t]
  OBVIOUS
<1>3. /\ last \in Nat /\ last + 1 \in Nat
      /\ segments \in [DOMAIN segments -> Items(last)]
      /\ DOMAIN segments \in SUBSET (Nat \ {0})
      /\ IsFiniteSet(DOMAIN segments)
      /\ \A u \in DOMAIN segments : Ids(segments[u]) \subseteq 1..last
      /\ OrderedLog(segments)
  BY LogTypes DEF IInv, Ordered
<1>4. /\ old \in Items(last) /\ Ascending(old) /\ Ids(old) \subseteq 1..last
      /\ t \in DOMAIN segments => old = segments[t]
      /\ t \notin DOMAIN segments => Ids(old) = {} /\ DOMAIN old = {}
  <2>1. << >> \in Items(last) /\ Ascending(<< >>) /\ Ids(<< >>) = {}
    BY DEF Items, Ascending, Ids
  <2>2. CASE t \in DOMAIN segments
    BY <1>1, <1>3, <2>2 DEF OrderedLog
  <2>3. CASE t \notin DOMAIN segments
    BY <1>1, <2>1, <2>3
  <2> QED
    BY <2>2, <2>3
<1>5. new = old \o items
  <2>1. CASE t \in DOMAIN segments
    BY <1>1, <1>2, <2>1 DEF Writes
  <2>2. CASE t \notin DOMAIN segments
    <3>1. << >> \o items = items
      BY DEF WriteItems
    <3> QED
      BY <1>1, <1>2, <2>2, <3>1 DEF Writes
  <2> QED
    BY <2>1, <2>2
<1>6. /\ new \in Items(last + 1) /\ Ascending(new)
      /\ Ids(old) \subseteq Ids(new)
      /\ Ids(new) \subseteq Ids(old) \cup {last + 1}
      /\ \A x : items = <<x>> /\ x.id = last + 1 => last + 1 \in Ids(new)
      /\ (\A i \in DOMAIN old : old[i].id # Torn) =>
           /\ TornAtEnd(new)
           /\ (\A x : items = <<x>> => x.id # Torn) =>
                \A i \in DOMAIN new : new[i].id # Torn
  <2>1. old \in Items(last + 1)
    BY <1>3, <1>4, ItemSets
  <2>2. CASE items = << >>
    <3>1. new = old
      BY <1>4, <1>5, <2>2 DEF Items
    <3>2. \A x : items # <<x>>
      BY <2>2
    <3> QED
      BY <1>4, <2>1, <3>1, <3>2 DEF TornAtEnd
  <2>3. ASSUME NEW x \in [id : {Torn, last + 1}, size : RecordSizes \cup {1}],
               items = <<x>>
        PROVE  /\ new \in Items(last + 1) /\ Ascending(new)
               /\ Ids(old) \subseteq Ids(new)
               /\ Ids(new) \subseteq Ids(old) \cup {last + 1}
               /\ \A y : items = <<y>> /\ y.id = last + 1 =>
                    last + 1 \in Ids(new)
               /\ (\A i \in DOMAIN old : old[i].id # Torn) =>
                    /\ TornAtEnd(new)
                    /\ (\A y : items = <<y>> => y.id # Torn) =>
                         \A i \in DOMAIN new : new[i].id # Torn
    <3>1. x.id \in {Torn, last + 1} /\ last + 1 # Torn
      BY <1>3 DEF Torn
    <3>2. /\ Ids(new) = Ids(old) \cup ({x.id} \ {Torn})
          /\ Ascending(new)
          /\ (\A i \in DOMAIN old : old[i].id # Torn) =>
               /\ TornAtEnd(new)
               /\ x.id # Torn => \A i \in DOMAIN new : new[i].id # Torn
      BY <1>3, <1>4, <1>5, <2>3, <3>1, Extended
    <3>3. x \in Item(last + 1)
      <4>1. {Torn, last + 1} \subseteq 0..last + 1
        BY <1>3 DEF Torn
      <4> QED
        BY <4>1 DEF Item
    <3>4. new \in Items(last + 1)
      <4>1. ASSUME NEW A, NEW q \in Seq(A), NEW y \in A
            PROVE  q \o <<y>> \in Seq(A)
        OBVIOUS
      <4> QED
        BY <1>5, <2>1, <2>3, <3>3, <4>1 DEF Items
    <3>5. \A y : items = <<y>> => y = x
      BY <2>3
    <3>6. /\ Ids(old) \subseteq Ids(new)
          /\ Ids(new) \subseteq Ids(old) \cup {last + 1}
      BY <3>1, <3>2
    <3>7. ASSUME NEW y, items = <<y>>, y.id = last + 1
          PROVE  last + 1 \in Ids(new)
      <4>1. x.id = last + 1
        BY <3>5, <3>7
      <4> QED
        BY <3>1, <3>2, <4>1
    <3>8. ASSUME \A i \in DOMAIN old : old[i].id # Torn,
                 \A y : items = <<y>> => y.id # Torn
          PROVE  \A i \in DOMAIN new : new[i].id # Torn
      <4>1. x.id # Torn
        BY <2>3, <3>8
      <4> QED
        BY <3>2, <3>8, <4>1
    <3> QED
      BY <3>2, <3>4, <3>6, <3>7, <3>8
  <2> QED
    BY <2>2, <2>3 DEF WriteItems
<1>7. /\ DOMAIN segments' = DOMAIN segments \cup {t} /\ t \in Nat \ {0}
      /\ \A u \in DOMAIN segments : u <= t
      /\ \A u \in DOMAIN segments : u # t => segments'[u] = segments[u]
      /\ segments' = [u \in DOMAIN segments' |-> segments'[u]]
  BY DEF Writes
<1>8. segments' \in [DOMAIN segments' -> Items(last + 1)]
  <2>1. \A u \in DOMAIN segments : segments[u] \in Items(last + 1)
    BY <1>3, ItemSets
  <2> QED
    BY <1>2, <1>6, <1>7, <2>1
<1>9. IsFiniteSet(DOMAIN segments')
  BY <1>3, <1>7, FS_AddElement
<1>10. \A u \in DOMAIN segments : Ids(segments[u]) \subseteq Ids(segments'[u])
  BY <1>2, <1>4, <1>6, <1>7
<1>11. ASSUME NEW u \in DOMAIN segments', NEW n \in Ids(segments'[u])
       PROVE  \/ u \in DOMAIN segments /\ n \in Ids(segments[u])
              \/ u = t /\ n = last + 1
  BY <1>2, <1>4, <1>6, <1>7, <1>11
<1>12. OrderedLog(segments')
  <2>1. \A u \in DOMAIN segments' : Ascending(segments'[u])
    BY <1>2, <1>3, <1>6, <1>7 DEF OrderedLog
  <2>2. ASSUME NEW u \in DOMAIN segments', NEW v \in DOMAIN segments', u < v,
               NEW m \in Ids(segments'[u]), NEW n \in Ids(segments'[v])
        PROVE  m < n
    <3>1. u # t /\ u \in DOMAIN segments
      BY <1>3, <1>7, <2>2
    <3>2. m \in Ids(segments[u]) /\ m \in 1..last
      BY <1>3, <1>7, <2>2, <3>1
    <3>3. CASE v \in DOMAIN segments /\ n \in Ids(segments[v])
      BY <1>3, <2>2, <3>1, <3>2, <3>3 DEF OrderedLog
    <3>4. CASE n = last + 1
      BY <1>3, <3>2, <3>4
    <3> QED
      BY <1>11, <2>2, <3>3, <3>4
  <2> QED
    BY <2>1, <2>2 DEF OrderedLog
<1>13. ASSUME \A u \in DOMAIN segments : \A i \in DOMAIN segments[u] :
                segments[u][i].id # Torn
       PROVE  /\ WholeLog(segments')
              /\ (\A x : items = <<x>> => x.id # Torn) =>
                   \A u \in DOMAIN segments' : \A i \in DOMAIN segments'[u] :
                     segments'[u][i].id # Torn
  <2>1. \A i \in DOMAIN old : old[i].id # Torn
    BY <1>4, <1>13
  <2>2. TornAtEnd(new)
    BY <1>6, <2>1
  <2>3. WholeLog(segments')
    <3>1. \A u \in DOMAIN segments' : TornAtEnd(segments'[u])
      BY <1>2, <1>7, <1>13, <2>2 DEF TornAtEnd
    <3>2. ASSUME NEW u \in DOMAIN segments',
                 \E i \in DOMAIN segments'[u] : segments'[u][i].id = Torn
          PROVE  \A v \in DOMAIN segments' : v <= u
      BY <1>7, <1>13, <3>2
    <3> QED
      BY <3>1, <3>2 DEF WholeLog
  <2> QED
    BY <1>2, <1>6, <1>7, <1>13, <2>1, <2>3
<1> QED
  BY <1>2, <1>3, <1>6, <1>7, <1>8, <1>9, <1>10, <1>11, <1>12, <1>13

\* Appends that return, that fail, and that a crash interrupts keep the
\* invariant.
LEMMA WriteStep ==
  ASSUME IInv, file = "open", NEW s \in RecordSizes, NEW items \in WriteItems,
         segments' = Written(s, items), NextRecord(s),
         UNCHANGED <<legacy, flushed, stuck, recovered>>,
         \/ segmentID' = Target(s) /\ file' = file /\ frozen' = frozen
         \/ segmentID' = 0 /\ file' = "down" /\ frozen' = << >>,
         count' \in [Counters -> Nat],
         count'["reopens"] = count["reopens"],
         count'["writeErrors"] = 0 => count["writeErrors"] = 0,
         \/ acked' = acked
         \/ /\ acked' = acked \cup {last + 1}
            /\ \E x : items = <<x>> /\ x.id = last + 1,
         file' = "open" /\ count'["writeErrors"] = 0 =>
           \A x : items = <<x>> => x.id # Torn
  PROVE  IInv'
<1>1. PICK t : t = Target(s) /\ Writes(t, items)
  BY WrittenWrites
<1>2. /\ segments' \in [DOMAIN segments' -> Items(last + 1)]
      /\ DOMAIN segments' \in SUBSET (Nat \ {0})
      /\ IsFiniteSet(DOMAIN segments')
      /\ OrderedLog(segments')
      /\ \A u \in DOMAIN segments : Ids(segments[u]) \subseteq Ids(segments'[u])
      /\ \A u \in DOMAIN segments' : \A n \in Ids(segments'[u]) :
           \/ u \in DOMAIN segments /\ n \in Ids(segments[u])
           \/ u = t /\ n = last + 1
      /\ \A x : items = <<x>> /\ x.id = last + 1 =>
           last + 1 \in Ids(segments'[t])
  BY <1>1, WritesFacts
<1>3. /\ t \in Nat \ {0} /\ t \in {segmentID, segmentID + 1}
      /\ DOMAIN segments' = DOMAIN segments \cup {t}
      /\ \A u \in DOMAIN segments : u <= t
      /\ \A u \in DOMAIN segments : u # t => segments'[u] = segments[u]
  BY <1>1 DEF Writes
<1>4. /\ last \in Nat /\ segmentID \in Nat /\ last' = last + 1
      /\ \A u \in DOMAIN segments : Ids(segments[u]) \subseteq 1..last
      /\ acked \subseteq 1..last /\ flushed \subseteq acked
      /\ stuck \subseteq flushed
  BY LogTypes DEF NextRecord
<1>5. ~Down /\ legacy = << >> /\ 1..last \subseteq 1..last + 1
  BY <1>4 DEF Down, IInv, Legacy
<1>6. /\ acked' \subseteq 1..last' /\ flushed' \subseteq acked'
      /\ stuck' \subseteq flushed'
      /\ acked' \cap 1..last = acked
  <2>1. last + 1 \notin 1..last /\ last + 1 \in 1..last + 1
    BY <1>4
  <2> QED
    BY <1>4, <1>5, <2>1
<1>7. TypeOK'
  <2>1. /\ segments' \in [DOMAIN segments' -> Seq(Item(last'))]
        /\ DOMAIN segments' \in SUBSET (Nat \ {0})
    BY <1>2, <1>4 DEF Items
  <2>2. /\ legacy' \in Seq(Item(last'))
        /\ \A i \in DOMAIN legacy' : legacy'[i].size = 1
    BY <1>5
  <2>3. /\ file' \in {"open", "nil", "broken", "down"} /\ segmentID' \in Nat
        /\ file' = "open" => segmentID' \in DOMAIN segments'
    BY <1>1, <1>3, <1>4
  <2>4. frozen' \in [DOMAIN frozen' -> SUBSET (1..last')]
    <3>1. CASE frozen' = frozen
      BY <1>4, <1>5, <3>1 DEF IInv, TypeOK
    <3>2. CASE frozen' = << >>
      BY <3>2
    <3> QED
      BY <3>1, <3>2
  <2>5. last' \in Nat /\ large' \in 0..last'
    BY <1>4 DEF IInv, TypeOK, NextRecord
  <2>6. recovered' \in Seq(0..last')
    <3>1. 0..last \subseteq 0..last'
      BY <1>4
    <3> QED
      BY <3>1, SeqSubset DEF IInv, TypeOK
  <2> QED
    BY <1>6, <2>1, <2>2, <2>3, <2>4, <2>5, <2>6 DEF TypeOK
<1>8. DOMAIN frozen' \subseteq DOMAIN frozen /\ \A id \in DOMAIN frozen' :
        /\ frozen' = frozen /\ segmentID' = t
        /\ id \in Nat /\ id < segmentID /\ frozen[id] \subseteq 1..last
        /\ frozen[id] \subseteq acked'
  BY <1>1 DEF IInv, Active, TypeOK
<1>9. Active'
  <2>1. ~Down' => \A u \in DOMAIN segments' : u <= segmentID'
    BY <1>1, <1>3 DEF Down
  <2>2. \A id \in DOMAIN frozen' :
          id \in Nat /\ id < segmentID' /\ frozen'[id] \subseteq acked'
    BY <1>3, <1>4, <1>8
  <2>3. Down' => DOMAIN frozen' = {}
    BY DEF Down
  <2> QED
    BY <1>2, <2>1, <2>2, <2>3 DEF Active
<1>10. Legacy'
  BY <1>5 DEF Legacy
<1>11. Ordered'
  BY <1>2, <1>5 DEF Ordered, Ascending
<1>12. Sealed'
  <2> SUFFICES ASSUME NEW id \in DOMAIN frozen', NEW u \in DOMAIN segments'
               PROVE  IF u <= id
                        THEN Ids(segments'[u]) \cap acked' \subseteq frozen[id]
                        ELSE Ids(segments'[u]) \cap frozen[id] = {}
    BY <1>8 DEF Sealed
  <2>0. id \in DOMAIN frozen /\ u \in Nat
    BY <1>2, <1>8
  <2>1. CASE u <= id
    <3>1. u # t /\ u \in DOMAIN segments /\ segments'[u] = segments[u]
      BY <1>3, <1>4, <1>8, <2>0, <2>1
    <3>2. Ids(segments[u]) \cap acked \subseteq frozen[id]
      BY <2>0, <2>1, <3>1 DEF IInv, Sealed
    <3>3. Ids(segments[u]) \subseteq 1..last
      BY <1>4, <3>1
    <3> QED
      BY <1>6, <2>1, <3>1, <3>2, <3>3
  <2>2. CASE ~(u <= id)
    <3>1. ASSUME NEW n \in Ids(segments'[u]), n \in frozen[id] PROVE FALSE
      <4>1. n \in 1..last /\ n # last + 1
        BY <1>4, <1>8, <3>1
      <4>2. u \in DOMAIN segments /\ n \in Ids(segments[u])
        BY <1>2, <3>1, <4>1
      <4>3. Ids(segments[u]) \cap frozen[id] = {}
        BY <2>0, <2>2, <4>2 DEF IInv, Sealed
      <4> QED
        BY <3>1, <4>2, <4>3
    <3> QED
      BY <2>2, <3>1
  <2> QED
    BY <2>1, <2>2
<1>13. Gone'
  <2> SUFFICES ASSUME NEW u \in DOMAIN segments',
                      NEW n \in Ids(segments'[u]), n \in flushed
               PROVE  n \in stuck
    BY DEF Gone
  <2>1. n \in 1..last /\ n # last + 1
    BY <1>4
  <2>2. u \in DOMAIN segments /\ n \in Ids(segments[u])
    BY <1>2, <2>1
  <2> QED
    BY <2>2 DEF IInv, Gone
<1>14. Logged'
  <2> SUFFICES ASSUME NEW n \in acked' \ flushed
               PROVE  \E u \in DOMAIN segments' : n \in Ids(segments'[u])
    BY DEF Logged
  <2>1. CASE n \in acked
    <3>1. n \notin Ids(legacy)
      BY <1>5 DEF Ids
    <3>2. PICK u \in DOMAIN segments : n \in Ids(segments[u])
      BY <2>1, <3>1 DEF IInv, Logged
    <3> QED
      BY <1>2, <1>3, <3>2
  <2>2. CASE n = last + 1 /\ \E x : items = <<x>> /\ x.id = last + 1
    BY <1>2, <1>3, <2>2
  <2> QED
    BY <2>1, <2>2
<1>15. Whole'
  <2> SUFFICES ASSUME count'["reopens"] = 0, count'["writeErrors"] = 0
               PROVE  /\ TornAtEnd(legacy') /\ WholeLog(segments')
                      /\ ~Down' => \A u \in DOMAIN segments' :
                           \A i \in DOMAIN segments'[u] :
                             segments'[u][i].id # Torn
    BY DEF Whole
  <2>1. \A u \in DOMAIN segments : \A i \in DOMAIN segments[u] :
          segments[u][i].id # Torn
    BY <1>5 DEF IInv, Whole
  <2>2. /\ WholeLog(segments')
        /\ (\A x : items = <<x>> => x.id # Torn) =>
             \A u \in DOMAIN segments' : \A i \in DOMAIN segments'[u] :
               segments'[u][i].id # Torn
    BY <1>1, <2>1, WritesFacts
  <2>3. TornAtEnd(legacy')
    BY <1>5 DEF TornAtEnd
  <2>4. ~Down' => file' = "open"
    BY DEF Down
  <2> QED
    BY <2>2, <2>3, <2>4
<1> QED
  BY <1>7, <1>9, <1>10, <1>11, <1>12, <1>13, <1>14, <1>15 DEF IInv

\* What an append that does not return may leave.
LEMMA PartialItems ==
  ASSUME last \in Nat, NEW s \in RecordSizes, last' = last + 1
  PROVE  /\ <<Record(last', s)>> \in WriteItems
         /\ Partial(s) = {Written(s, items) : items \in
              {<< >>, <<Record(last', s)>>} \cup
              {<<f>> : f \in Fragments(s)}}
         /\ {<<f>> : f \in Fragments(s)} \subseteq WriteItems
<1>1. Fragments(s) \subseteq
        [id : {Torn, last + 1}, size : RecordSizes \cup {1}]
  BY DEF Fragments
<1>2. Record(last', s) \in [id : {Torn, last + 1}, size : RecordSizes \cup {1}]
  BY DEF Record
<1>3. Partial(s) = {Written(s, items) : items \in
              {<< >>, <<Record(last', s)>>} \cup
              {<<f>> : f \in Fragments(s)}}
  BY DEF Partial
<1> QED
  BY <1>1, <1>2, <1>3 DEF WriteItems

\* AppendRecord.
LEMMA AppendStep ==
  ASSUME IInv, NEW s \in RecordSizes, AppendRecord(s)
  PROVE  IInv'
<1>1. last \in Nat /\ last' = last + 1 /\ count \in [Counters -> Nat]
  BY LogTypes DEF AppendRecord, NextRecord
<1>2. PICK items \in WriteItems : items = <<Record(last', s)>>
  BY <1>1, PartialItems
<1>3. \A x : items = <<x>> => x.id = last + 1
  BY <1>1, <1>2 DEF Record
<1>4. \E x : items = <<x>> /\ x.id = last + 1
  BY <1>1, <1>2 DEF Record
<1>5. last + 1 # Torn
  BY <1>1 DEF Torn
<1>6. /\ file = "open" /\ NextRecord(s) /\ segments' = Written(s, items)
      /\ segmentID' = Target(s) /\ acked' = acked \cup {last + 1}
      /\ UNCHANGED <<legacy, file, frozen, flushed, stuck, recovered, count>>
  BY <1>1, <1>2 DEF AppendRecord
<1>7. UNCHANGED <<legacy, flushed, stuck, recovered>>
  BY <1>6
<1>8. \A x : items = <<x>> => x.id # Torn
  BY <1>3, <1>5
<1> HIDE DEF WriteItems
<1> QED
  BY <1>1, <1>4, <1>6, <1>7, <1>8, WriteStep

\* A write that fails, or that a crash interrupts.
LEMMA PartialStep ==
  ASSUME IInv, file = "open", NEW s \in RecordSizes, NextRecord(s),
         segments' \in Partial(s),
         UNCHANGED <<legacy, flushed, stuck, recovered>>,
         acked' = acked,
         \/ /\ segmentID' = Target(s) /\ file' = file /\ frozen' = frozen
            /\ count' = [count EXCEPT !["writeErrors"] = @ + 1]
         \/ /\ segmentID' = 0 /\ file' = "down" /\ frozen' = << >>
            /\ count' = count
  PROVE  IInv'
<1>1. last \in Nat /\ last' = last + 1 /\ count \in [Counters -> Nat]
  BY LogTypes DEF NextRecord
<1>2. PICK items \in {<< >>, <<Record(last', s)>>} \cup
                     {<<f>> : f \in Fragments(s)} :
        segments' = Written(s, items)
  BY <1>1, PartialItems
<1>3. items \in WriteItems
  BY <1>1, <1>2, PartialItems DEF WriteItems
<1>4. /\ count' \in [Counters -> Nat]
      /\ count'["reopens"] = count["reopens"]
      /\ count'["writeErrors"] = 0 =>
           count["writeErrors"] = 0 /\ file' # "open"
  BY <1>1 DEF Counters
<1>6. \/ segmentID' = Target(s) /\ file' = file /\ frozen' = frozen
      \/ segmentID' = 0 /\ file' = "down" /\ frozen' = << >>
  OBVIOUS
<1> QED
  BY <1>2, <1>3, <1>4, <1>6, WriteStep

-----------------------------------------------------------------------------
(* The steps that write no record.                                         *)

\* Rotations, removals and stops keep the invariant: each segment that stays
\* keeps what it holds or is a new, empty one, and what goes is flushed.
LEMMA KeepStep ==
  ASSUME IInv, ~Down,
         UNCHANGED <<legacy, acked, recovered>>,
         segments' = [u \in DOMAIN segments' |-> segments'[u]],
         DOMAIN segments' \in SUBSET (Nat \ {0}), IsFiniteSet(DOMAIN segments'),
         \A u \in DOMAIN segments' :
           \/ u \in DOMAIN segments /\ segments'[u] = segments[u]
           \/ segments'[u] = << >>,
         \A u \in DOMAIN segments :
           \/ u \in DOMAIN segments' /\ segments'[u] = segments[u]
           \/ Ids(segments[u]) \cap acked \subseteq flushed',
         flushed \subseteq flushed', flushed' \subseteq acked,
         stuck \subseteq stuck', stuck' \subseteq flushed',
         \A u \in DOMAIN segments' :
           Ids(segments'[u]) \cap flushed' \subseteq flushed \cup stuck',
         frozen' = [id \in DOMAIN frozen' |-> frozen'[id]],
         \A id \in DOMAIN frozen' :
           /\ id \in Nat /\ id < segmentID'
           /\ \/ id \in DOMAIN frozen /\ frozen'[id] = frozen[id]
              \/ /\ id = segmentID /\ frozen'[id] = acked
                 /\ \A u \in DOMAIN segments' :
                      u <= id \/ segments'[u] = << >>,
         file' \in {"open", "nil", "broken", "down"}, segmentID' \in Nat,
         file' = "open" => segmentID' \in DOMAIN segments',
         file' = "down" => DOMAIN frozen' = {},
         file' # "down" =>
           \A u \in DOMAIN segments' :
             \/ u <= segmentID'
             \/ file' # "open" /\ u = segmentID' + 1 /\ segments'[u] = << >>,
         last' \in Nat, last <= last', large' \in 0..last',
         count' \in [Counters -> Nat],
         \A c \in {"reopens", "writeErrors"} : count'[c] = count[c]
  PROVE  IInv'
<1>1. /\ last \in Nat /\ segmentID \in Nat
      /\ segments \in [DOMAIN segments -> Items(last)]
      /\ DOMAIN segments \in SUBSET (Nat \ {0})
      /\ acked \subseteq 1..last /\ flushed \subseteq acked
  BY LogTypes
<1>2. legacy = << >> /\ 1..last \subseteq 1..last' /\ 0..last \subseteq 0..last'
  BY <1>1 DEF IInv, Legacy
<1>3. Ids(<< >>) = {} /\ Ascending(<< >>) /\ << >> \in Items(last')
  BY DEF Ids, Ascending, Items
<1>4. \A u \in DOMAIN segments' : \A n \in Ids(segments'[u]) :
        /\ u \in DOMAIN segments /\ segments'[u] = segments[u]
        /\ n \in Ids(segments[u])
  BY <1>3
<1>5. TypeOK'
  <2>1. segments' \in [DOMAIN segments' -> Items(last')]
    <3>1. \A u \in DOMAIN segments : segments[u] \in Items(last')
      BY <1>1, ItemSets
    <3> QED
      BY <1>3, <3>1
  <2>2. frozen' \in [DOMAIN frozen' -> SUBSET (1..last')]
    <3>1. \A id \in DOMAIN frozen : frozen[id] \subseteq 1..last'
      BY <1>2 DEF IInv, TypeOK
    <3>2. acked \subseteq 1..last'
      BY <1>1, <1>2
    <3> QED
      BY <3>1, <3>2
  <2>3. recovered' \in Seq(0..last')
    BY <1>2, SeqSubset DEF IInv, TypeOK
  <2>4. /\ legacy' \in Seq(Item(last'))
        /\ \A i \in DOMAIN legacy' : legacy'[i].size = 1
    BY <1>2
  <2>5. /\ acked' \in SUBSET (1..last') /\ flushed' \in SUBSET acked'
        /\ stuck' \in SUBSET flushed'
    BY <1>1, <1>2
  <2> QED
    BY <2>1, <2>2, <2>3, <2>4, <2>5 DEF TypeOK, Items
<1>6. Active'
  <2>1. \A id \in DOMAIN frozen' : frozen'[id] \subseteq acked'
    BY DEF IInv, Active
  <2> QED
    BY <2>1 DEF Active, Down
<1>7. Legacy'
  BY <1>2 DEF Legacy
<1>8. Ordered'
  <2>1. \A u \in DOMAIN segments' : Ascending(segments'[u])
    BY <1>3 DEF IInv, Ordered, OrderedLog
  <2>2. \A u, v \in DOMAIN segments' : u < v =>
          \A m \in Ids(segments'[u]), n \in Ids(segments'[v]) : m < n
    BY <1>4 DEF IInv, Ordered, OrderedLog
  <2> QED
    BY <1>2, <1>3, <2>1, <2>2 DEF Ordered, OrderedLog
<1>9. Sealed'
  <2> SUFFICES ASSUME NEW id \in DOMAIN frozen', NEW u \in DOMAIN segments'
               PROVE  IF u <= id
                        THEN Ids(segments'[u]) \cap acked \subseteq frozen'[id]
                        ELSE Ids(segments'[u]) \cap frozen'[id] = {}
    BY DEF Sealed
  <2>1. CASE id \in DOMAIN frozen /\ frozen'[id] = frozen[id]
    <3>1. CASE u \in DOMAIN segments /\ segments'[u] = segments[u]
      BY <2>1, <3>1 DEF IInv, Sealed
    <3>2. CASE segments'[u] = << >>
      BY <1>3, <3>2
    <3> QED
      BY <3>1, <3>2
  <2>2. CASE /\ frozen'[id] = acked
             /\ u <= id \/ segments'[u] = << >>
    BY <1>3, <2>2
  <2> QED
    BY <2>1, <2>2
<1>10. Gone'
  BY <1>4 DEF IInv, Gone
<1>11. Logged'
  <2> SUFFICES ASSUME NEW n \in acked \ flushed'
               PROVE  \E u \in DOMAIN segments' : n \in Ids(segments'[u])
    BY DEF Logged
  <2>1. n \notin Ids(legacy)
    BY <1>2, <1>3
  <2>2. PICK u \in DOMAIN segments : n \in Ids(segments[u])
    BY <2>1 DEF IInv, Logged
  <2> QED
    BY <2>2
<1>12. Whole'
  <2> SUFFICES ASSUME count["reopens"] = 0, count["writeErrors"] = 0
               PROVE  /\ TornAtEnd(legacy') /\ WholeLog(segments')
                      /\ ~Down' => \A u \in DOMAIN segments' :
                           \A i \in DOMAIN segments'[u] :
                             segments'[u][i].id # Torn
    BY DEF Whole
  <2>1. \A u \in DOMAIN segments : \A i \in DOMAIN segments[u] :
          segments[u][i].id # Torn
    BY DEF IInv, Whole
  <2>2. DOMAIN << >> = {}
    OBVIOUS
  <2>3. \A u \in DOMAIN segments' : \A i \in DOMAIN segments'[u] :
          segments'[u][i].id # Torn
    BY <2>1, <2>2
  <2> QED
    BY <1>2, <2>2, <2>3 DEF TornAtEnd, WholeLog
<1> QED
  BY <1>5, <1>6, <1>7, <1>8, <1>9, <1>10, <1>11, <1>12 DEF IInv

\* Segments with an empty one added at the end.
LEMMA PutEmpty ==
  ASSUME IInv, segmentID + 1 \notin DOMAIN segments,
         segments' = Put(segments, segmentID + 1, << >>)
  PROVE  /\ segments' = [u \in DOMAIN segments' |-> segments'[u]]
         /\ DOMAIN segments' = DOMAIN segments \cup {segmentID + 1}
         /\ segmentID + 1 \in Nat \ {0}
         /\ IsFiniteSet(DOMAIN segments')
         /\ segments'[segmentID + 1] = << >>
         /\ \A u \in DOMAIN segments : segments'[u] = segments[u]
<1>1. segmentID + 1 \in Nat \ {0} /\ IsFiniteSet(DOMAIN segments)
  BY LogTypes
<1>2. PICK e : e = segmentID + 1
  OBVIOUS
<1>3. /\ segments' = [u \in DOMAIN segments' |-> segments'[u]]
      /\ DOMAIN segments' = DOMAIN segments \cup {e}
      /\ segments'[e] = << >>
      /\ \A u \in DOMAIN segments : segments'[u] = segments[u]
  BY <1>2 DEF Put
<1> QED
  BY <1>1, <1>2, <1>3, FS_AddElement

\* The bounded counters.
LEMMA Counts ==
  ASSUME count \in [Counters -> Nat], NEW c \in Counters, NEW b, Counted(c, b)
  PROVE  /\ count' \in [Counters -> Nat]
         /\ count'[c] # 0
         /\ \A d \in Counters : d # c => count'[d] = count[d]
BY DEF Counted

\* A failing rotation.
LEMMA RotateFailureStep ==
  ASSUME IInv, file \in {"open", "nil"}, RotateFailure,
         last' \in Nat, last <= last', large' \in 0..last'
  PROVE  IInv'
<1>1. /\ segmentID \in Nat /\ count \in [Counters -> Nat]
      /\ segments = [u \in DOMAIN segments |-> segments[u]]
      /\ DOMAIN segments \in SUBSET (Nat \ {0})
      /\ IsFiniteSet(DOMAIN segments)
      /\ flushed \subseteq acked /\ stuck \subseteq flushed
  BY LogTypes
<1>2. /\ ~Down
      /\ \A u \in DOMAIN segments :
           \/ u <= segmentID
           \/ file # "open" /\ u = segmentID + 1 /\ segments[u] = << >>
      /\ frozen = [id \in DOMAIN frozen |-> frozen[id]]
      /\ \A id \in DOMAIN frozen : id \in Nat /\ id < segmentID
      /\ file = "open" => segmentID \in DOMAIN segments
  BY DEF Down, IInv, Active, TypeOK
<1>3. /\ count' \in [Counters -> Nat]
      /\ \A c \in {"reopens", "writeErrors"} : count'[c] = count[c]
  <2>1. "rotateErrors" \in Counters
    BY DEF Counters
  <2> QED
    BY <1>1, <2>1, Counts DEF RotateFailure, Counters
<1>4. /\ UNCHANGED <<legacy, acked, recovered>>
      /\ segmentID' = segmentID /\ frozen' = frozen /\ flushed' = flushed
      /\ stuck' = stuck
  BY DEF RotateFailure
<1>5. CASE segments' = segments
  <2>1. /\ file' \in {"open", "nil", "broken", "down"}
        /\ file' = "open" => file = "open"
        /\ file' # "down"
        /\ file # "open" => file' # "open"
    BY <1>5 DEF RotateFailure
  <2> QED
    BY <1>1, <1>2, <1>3, <1>4, <1>5, <2>1, KeepStep
<1>6. CASE /\ file' = "nil" /\ segmentID + 1 \notin DOMAIN segments
           /\ segments' = Put(segments, segmentID + 1, << >>)
  <2>1. /\ segments' = [u \in DOMAIN segments' |-> segments'[u]]
        /\ DOMAIN segments' = DOMAIN segments \cup {segmentID + 1}
        /\ segmentID + 1 \in Nat \ {0}
        /\ IsFiniteSet(DOMAIN segments')
        /\ segments'[segmentID + 1] = << >>
        /\ \A u \in DOMAIN segments : segments'[u] = segments[u]
    BY <1>6, PutEmpty
  <2>2. \A u \in DOMAIN segments' :
          \/ u <= segmentID'
          \/ file' # "open" /\ u = segmentID' + 1 /\ segments'[u] = << >>
    BY <1>2, <1>4, <1>6, <2>1
  <2>3. DOMAIN segments' \in SUBSET (Nat \ {0})
    BY <1>1, <2>1
  <2> QED
    BY <1>1, <1>2, <1>3, <1>4, <1>6, <2>1, <2>2, <2>3, KeepStep
<1> QED
  BY <1>5, <1>6 DEF RotateFailure

\* Rotate.
LEMMA RotateStep ==
  ASSUME IInv, Rotate
  PROVE  IInv'
<1>1. /\ segmentID \in Nat /\ count \in [Counters -> Nat] /\ last \in Nat
      /\ segments = [u \in DOMAIN segments |-> segments[u]]
      /\ DOMAIN segments \in SUBSET (Nat \ {0})
      /\ IsFiniteSet(DOMAIN segments)
      /\ flushed \subseteq acked /\ stuck \subseteq flushed
  BY LogTypes
<1>2. /\ ~Down
      /\ \A u \in DOMAIN segments :
           \/ u <= segmentID
           \/ u = segmentID + 1 /\ segments[u] = << >>
      /\ \A id \in DOMAIN frozen : id \in Nat /\ id < segmentID
      /\ large \in 0..last
  <2>1. file \in {"open", "nil"}
    BY DEF Rotate
  <2>2. Active /\ large \in 0..last
    BY DEF IInv, TypeOK
  <2>3. ~Down
    BY <2>1 DEF Down
  <2> QED
    BY <2>2, <2>3 DEF Active
<1>3. /\ count' \in [Counters -> Nat]
      /\ \A c \in {"reopens", "writeErrors"} : count'[c] = count[c]
  <2>1. "rotations" \in Counters
    BY DEF Counters
  <2> QED
    BY <1>1, <2>1, Counts DEF Rotate, Counters
<1>4. /\ UNCHANGED <<legacy, acked, recovered>>
      /\ segmentID' = segmentID + 1 /\ flushed' = flushed /\ file' = "open"
      /\ stuck' = stuck /\ last' = last /\ large' = large
  BY DEF Rotate
<1>5. /\ frozen' = [id \in DOMAIN frozen' |-> frozen'[id]]
      /\ DOMAIN frozen' = DOMAIN frozen \cup {segmentID}
      /\ frozen'[segmentID] = acked
      /\ \A id \in DOMAIN frozen : id # segmentID => frozen'[id] = frozen[id]
  BY DEF Rotate, Put
<1>6. /\ segments' = [u \in DOMAIN segments' |-> segments'[u]]
      /\ DOMAIN segments' = DOMAIN segments \cup {segmentID + 1}
      /\ segmentID + 1 \in Nat \ {0}
      /\ IsFiniteSet(DOMAIN segments')
      /\ segments'[segmentID + 1] = << >>
      /\ \A u \in DOMAIN segments : segments'[u] = segments[u]
  <2>1. CASE segmentID + 1 \in DOMAIN segments
    <3>1. segments' = segments
      BY <2>1 DEF Rotate
    <3>2. segments[segmentID + 1] = << >> /\ ~(segmentID + 1 <= segmentID)
      BY <1>1, <1>2, <2>1
    <3> QED
      BY <1>1, <2>1, <3>1, <3>2
  <2>2. CASE segmentID + 1 \notin DOMAIN segments
    <3>1. segments' = Put(segments, segmentID + 1, << >>)
      BY <2>2 DEF Rotate
    <3> QED
      BY <2>2, <3>1, PutEmpty
  <2> QED
    BY <2>1, <2>2
<1>7. \A u \in DOMAIN segments' : u <= segmentID \/ segments'[u] = << >>
  BY <1>1, <1>2, <1>6
<1>8. \A u \in DOMAIN segments' : u <= segmentID'
  BY <1>1, <1>2, <1>4, <1>6
<1>9. \A id \in DOMAIN frozen' :
        /\ id \in Nat /\ id < segmentID'
        /\ \/ id \in DOMAIN frozen /\ frozen'[id] = frozen[id]
           \/ id = segmentID /\ frozen'[id] = acked
  <2>1. segmentID < segmentID + 1
    BY <1>1
  <2>2. \A id \in DOMAIN frozen : id \in Nat /\ id < segmentID + 1
    BY <1>1, <1>2
  <2> QED
    BY <1>1, <1>4, <1>5, <2>1, <2>2
<1>10. /\ DOMAIN segments' \in SUBSET (Nat \ {0})
       /\ last' \in Nat /\ last <= last' /\ large' \in 0..last'
  BY <1>1, <1>2, <1>4, <1>6
<1>11. \A u \in DOMAIN segments' :
         \/ u \in DOMAIN segments /\ segments'[u] = segments[u]
         \/ segments'[u] = << >>
  BY <1>6
<1>12. \A id \in DOMAIN frozen' :
         /\ id \in Nat /\ id < segmentID'
         /\ \/ id \in DOMAIN frozen /\ frozen'[id] = frozen[id]
            \/ /\ id = segmentID /\ frozen'[id] = acked
               /\ \A u \in DOMAIN segments' : u <= id \/ segments'[u] = << >>
  BY <1>7, <1>9
<1>13. /\ \A u \in DOMAIN segments :
            u \in DOMAIN segments' /\ segments'[u] = segments[u]
       /\ segmentID' \in DOMAIN segments' /\ segmentID' \in Nat
       /\ file' \in {"open", "nil", "broken", "down"}
  BY <1>4, <1>6
<1> QED
  BY <1>1, <1>2, <1>3, <1>4, <1>5, <1>6, <1>8, <1>10, <1>11, <1>12, <1>13,
     KeepStep

\* The acknowledged records of the segments D.
LEMMA RecordsInIds ==
  ASSUME IInv, NEW D \in SUBSET DOMAIN segments
  PROVE  /\ RecordsIn(D) \subseteq acked
         /\ \A u \in D : Ids(segments[u]) \cap acked \subseteq RecordsIn(D)
         /\ \A n \in RecordsIn(D) : \E u \in D : n \in Ids(segments[u])
<1>1. ASSUME NEW u \in D
      PROVE  {item.id : item \in Range(segments[u])} \ {Torn} = Ids(segments[u])
  BY DEF Range, Ids
<1>2. Torn \notin acked
  <2>1. acked \subseteq 1..last /\ last \in Nat
    BY LogTypes
  <2> QED
    BY <2>1 DEF Torn
<1>3. ASSUME NEW u \in D, NEW n \in Ids(segments[u]), n \in acked
      PROVE  n \in RecordsIn(D)
  <2>1. n \in {item.id : item \in Range(segments[u])}
    BY <1>1, <1>3
  <2> QED
    BY <1>3, <2>1 DEF RecordsIn
<1>4. ASSUME NEW n \in RecordsIn(D)
      PROVE  \E u \in D : n \in Ids(segments[u])
  <2>1. PICK u \in D : n \in {item.id : item \in Range(segments[u])}
    BY <1>4 DEF RecordsIn
  <2>2. n \in acked
    BY <1>4 DEF RecordsIn
  <2> QED
    BY <1>1, <1>2, <2>1, <2>2
<1> QED
  BY <1>3, <1>4 DEF RecordsIn

\* RemoveSegmentsUpTo.
LEMMA RemoveStep ==
  ASSUME IInv, NEW id \in DOMAIN frozen, RemoveSegmentsUpTo(id)
  PROVE  IInv'
<1>1. /\ segmentID \in Nat /\ count \in [Counters -> Nat] /\ last \in Nat
      /\ DOMAIN segments \in SUBSET (Nat \ {0})
      /\ IsFiniteSet(DOMAIN segments)
      /\ flushed \subseteq acked /\ stuck \subseteq flushed
  BY LogTypes
<1>2. Active /\ Sealed /\ ~Down /\ large \in 0..last
  <2>1. Active /\ Sealed /\ large \in 0..last
    BY DEF IInv, TypeOK
  <2> QED
    BY <2>1 DEF RemoveSegmentsUpTo
<1>3. /\ \A u \in DOMAIN segments :
           \/ u <= segmentID
           \/ file # "open" /\ u = segmentID + 1 /\ segments[u] = << >>
      /\ \A d \in DOMAIN frozen :
           d \in Nat /\ d < segmentID /\ frozen[d] \subseteq acked
      /\ file \in {"open", "nil", "broken", "down"} /\ file # "down"
      /\ file = "open" => segmentID \in DOMAIN segments
  BY <1>2 DEF Active, Down, IInv, TypeOK
<1>4. PICK kept \in SUBSET Reclaimable(id) :
        /\ IF kept = {} THEN count' = count
                        ELSE Counted("removeErrors", MaxRemoveErrors)
        /\ segments' = Restrict(segments,
                                DOMAIN segments \ (Reclaimable(id) \ kept))
        /\ stuck' = stuck \cup RecordsIn(kept)
  BY DEF RemoveSegmentsUpTo
<1>5. /\ flushed' = flushed \cup frozen[id]
      /\ frozen' = Restrict(frozen, DOMAIN frozen \ {id})
      /\ UNCHANGED <<legacy, file, segmentID, last, large, acked, recovered>>
  BY DEF RemoveSegmentsUpTo
<1>6. /\ segments' = [u \in DOMAIN segments' |-> segments'[u]]
      /\ DOMAIN segments' = DOMAIN segments \ (Reclaimable(id) \ kept)
      /\ \A u \in DOMAIN segments' :
           u \in DOMAIN segments /\ segments'[u] = segments[u]
  BY <1>4 DEF Restrict
<1>7. /\ frozen' = [d \in DOMAIN frozen' |-> frozen'[d]]
      /\ \A d \in DOMAIN frozen' :
           d \in DOMAIN frozen /\ frozen'[d] = frozen[d]
  BY <1>5 DEF Restrict
<1>8. /\ count' \in [Counters -> Nat]
      /\ \A c \in {"reopens", "writeErrors"} : count'[c] = count[c]
  <2>1. CASE kept = {}
    BY <1>1, <1>4, <2>1
  <2>2. CASE kept # {}
    <3>1. "removeErrors" \in Counters
      BY DEF Counters
    <3> QED
      BY <1>1, <1>4, <2>2, <3>1, Counts DEF Counters
  <2> QED
    BY <2>1, <2>2
<1>9. \A u \in DOMAIN segments :
        \/ u \in DOMAIN segments' /\ segments'[u] = segments[u]
        \/ Ids(segments[u]) \cap acked \subseteq flushed'
  <2> SUFFICES ASSUME NEW u \in DOMAIN segments, u \notin DOMAIN segments'
               PROVE  Ids(segments[u]) \cap acked \subseteq flushed'
    BY <1>6
  <2>1. u <= id
    BY <1>6 DEF Reclaimable
  <2> QED
    BY <1>2, <1>5, <2>1 DEF Sealed
<1>11. /\ flushed \subseteq flushed' /\ flushed' \subseteq acked
       /\ UNCHANGED <<legacy, acked, recovered>>
  BY <1>1, <1>3, <1>5
<1>17. kept \in SUBSET DOMAIN segments
  BY DEF Reclaimable
<1>10. ASSUME NEW u \in DOMAIN segments'
       PROVE  Ids(segments'[u]) \cap flushed' \subseteq flushed \cup stuck'
  <2>1. u \in DOMAIN segments /\ segments'[u] = segments[u]
    BY <1>6
  <2>2. CASE u \in kept
    <3>1. Ids(segments[u]) \cap acked \subseteq RecordsIn(kept)
      BY <1>17, <2>2, RecordsInIds
    <3> QED
      BY <1>4, <1>11, <2>1, <3>1
  <2>3. CASE u \notin Reclaimable(id)
    <3>1. ~(u <= id)
      BY <1>1, <1>3, <2>1, <2>3 DEF Reclaimable
    <3>2. Ids(segments[u]) \cap frozen[id] = {}
      BY <1>2, <2>1, <3>1 DEF Sealed
    <3> QED
      BY <1>5, <2>1, <3>2
  <2> QED
    BY <1>6, <2>2, <2>3
<1>18. stuck \subseteq stuck' /\ stuck' \subseteq flushed'
  <2>1. ASSUME NEW n \in RecordsIn(kept) PROVE n \in frozen[id]
    <3>1. PICK u \in kept : n \in Ids(segments[u])
      BY <1>17, RecordsInIds
    <3>2. n \in acked
      BY <1>17, RecordsInIds
    <3>3. u \in DOMAIN segments /\ u <= id
      BY DEF Reclaimable
    <3> QED
      BY <1>2, <3>1, <3>2, <3>3 DEF Sealed
  <2> QED
    BY <1>1, <1>4, <1>5, <2>1
<1>12. /\ IsFiniteSet(DOMAIN segments')
       /\ DOMAIN segments' \in SUBSET (Nat \ {0})
  BY <1>1, <1>6, FS_Subset
<1>13. \A d \in DOMAIN frozen' :
         /\ d \in Nat /\ d < segmentID'
         /\ d \in DOMAIN frozen /\ frozen'[d] = frozen[d]
  BY <1>3, <1>5, <1>7
<1>14. /\ \A u \in DOMAIN segments' :
            \/ u <= segmentID'
            \/ file' # "open" /\ u = segmentID' + 1 /\ segments'[u] = << >>
       /\ file' \in {"open", "nil", "broken", "down"} /\ segmentID' \in Nat
       /\ file' # "down"
  BY <1>1, <1>3, <1>5, <1>6
<1>15. file' = "open" => segmentID' \in DOMAIN segments'
  BY <1>3, <1>5, <1>6 DEF Reclaimable
<1>16. last' \in Nat /\ last <= last' /\ large' \in 0..last'
  BY <1>1, <1>2, <1>5
<1> QED
  BY <1>2, <1>6, <1>7, <1>8, <1>9, <1>10, <1>11, <1>12, <1>13, <1>14, <1>15,
     <1>16, <1>18, KeepStep

\* Close, and a crash between calls.
LEMMA StopStep ==
  ASSUME IInv, ~Down, Stop, UNCHANGED <<segments, last, large>>
  PROVE  IInv'
<1>1. /\ count \in [Counters -> Nat] /\ last \in Nat
      /\ segments = [u \in DOMAIN segments |-> segments[u]]
      /\ DOMAIN segments \in SUBSET (Nat \ {0})
      /\ IsFiniteSet(DOMAIN segments)
      /\ flushed \subseteq acked /\ stuck \subseteq flushed
  BY LogTypes
<1>2. large \in 0..last
  BY DEF IInv, TypeOK
<1>3. /\ file' = "down" /\ segmentID' = 0 /\ frozen' = << >>
      /\ UNCHANGED <<legacy, acked, recovered>>
      /\ flushed' = flushed /\ stuck' = stuck /\ count' = count
  BY DEF Stop
<1>4. DOMAIN frozen' = {} /\ frozen' = [d \in DOMAIN frozen' |-> frozen'[d]]
  BY <1>3
<1>5. last <= last' /\ 0 \in Nat
  BY <1>1
<1> QED
  BY <1>1, <1>2, <1>3, <1>4, <1>5, KeepStep

\* Reset that succeeds or fails: the segments D go, and 1 or none is created.
LEMMA DiscardStep ==
  ASSUME IInv, Counted("resets", MaxResets), NEW D \in SUBSET DOMAIN segments,
         Discard(D),
         segments' = [u \in DOMAIN segments' |-> segments'[u]],
         \/ /\ DOMAIN segments' = DOMAIN segments \ D
            /\ \A u \in DOMAIN segments' : segments'[u] = segments[u]
            /\ segmentID' = segmentID /\ file' \in {"nil", "broken"}
            /\ \A u \in D, t \in DOMAIN segments' : u < t
         \/ /\ D = DOMAIN segments
            /\ DOMAIN segments' = {1} /\ segments'[1] = << >>
            /\ \/ segmentID' = 1 /\ file' = "open"
               \/ segmentID' = segmentID /\ file' = "nil"
  PROVE  IInv'
<1>1. /\ segmentID \in Nat /\ count \in [Counters -> Nat] /\ last \in Nat
      /\ DOMAIN segments \in SUBSET (Nat \ {0})
      /\ IsFiniteSet(DOMAIN segments)
      /\ flushed \subseteq acked /\ stuck \subseteq flushed
  BY LogTypes
<1>2. Active /\ Ordered /\ large \in 0..last
  BY DEF IInv, TypeOK
<1>3. /\ file \in {"open", "nil"} /\ flushed' = flushed \cup RecordsIn(D)
      /\ frozen' = << >> /\ UNCHANGED <<legacy, acked, recovered>>
      /\ stuck' = stuck /\ last' = last /\ large' = large
  BY DEF Discard
<1>4. ~Down /\ \A u \in DOMAIN segments :
                 \/ u <= segmentID
                 \/ file # "open" /\ u = segmentID + 1 /\ segments[u] = << >>
  <2>1. ~Down
    BY <1>3 DEF Down
  <2> QED
    BY <1>2, <2>1 DEF Active
<1>5. /\ count' \in [Counters -> Nat]
      /\ \A c \in {"reopens", "writeErrors"} : count'[c] = count[c]
  <2>1. "resets" \in Counters
    BY DEF Counters
  <2> QED
    BY <1>1, <2>1, Counts DEF Counters
<1>6. DOMAIN frozen' = {} /\ frozen' = [d \in DOMAIN frozen' |-> frozen'[d]]
  BY <1>3
<1>7. last' \in Nat /\ last <= last' /\ large' \in 0..last'
  BY <1>1, <1>2, <1>3
<1>8. flushed \subseteq flushed' /\ flushed' \subseteq acked
  BY <1>1, <1>3, RecordsInIds
<1>9. \A u \in DOMAIN segments :
        \/ u \in DOMAIN segments' /\ segments'[u] = segments[u]
        \/ Ids(segments[u]) \cap acked \subseteq flushed'
  <2>1. \A u \in D : Ids(segments[u]) \cap acked \subseteq flushed'
    BY <1>3, RecordsInIds
  <2> QED
    BY <2>1
<1>10. /\ IsFiniteSet(DOMAIN segments')
       /\ DOMAIN segments' \in SUBSET (Nat \ {0})
  <2>1. IsFiniteSet({1})
    BY FS_Singleton
  <2> QED
    BY <1>1, <2>1, FS_Subset
<1>11. /\ \A u \in DOMAIN segments' :
            \/ u \in DOMAIN segments /\ segments'[u] = segments[u]
            \/ segments'[u] = << >>
       /\ file' \in {"open", "nil", "broken", "down"} /\ segmentID' \in Nat
       /\ file' = "open" => segmentID' \in DOMAIN segments'
  BY <1>1
<1>12. \A u \in DOMAIN segments' :
         \/ u <= segmentID'
         \/ file' # "open" /\ u = segmentID' + 1 /\ segments'[u] = << >>
  BY <1>1, <1>4
<1>13. ASSUME NEW u \in DOMAIN segments'
       PROVE  Ids(segments'[u]) \cap flushed' \subseteq flushed
  <2>1. CASE segments'[u] = << >>
    BY <2>1 DEF Ids
  <2>2. CASE /\ DOMAIN segments' = DOMAIN segments \ D
             /\ segments'[u] = segments[u]
             /\ \A v \in D, t \in DOMAIN segments' : v < t
    <3>1. ASSUME NEW n \in Ids(segments[u]), n \in RecordsIn(D)
          PROVE  FALSE
      <4>1. PICK v \in D : n \in Ids(segments[v])
        BY <3>1, RecordsInIds
      <4>2. v < u /\ u \in DOMAIN segments /\ v \in DOMAIN segments
        BY <2>2
      <4>3. n < n
        BY <1>2, <3>1, <4>1, <4>2 DEF Ordered, OrderedLog
      <4>4. n \in Nat
        BY <4>1, LogTypes
      <4> QED
        BY <4>3, <4>4
    <3> QED
      BY <1>3, <2>2, <3>1
  <2> QED
    BY <2>1, <2>2
<1>14. /\ stuck \subseteq stuck' /\ stuck' \subseteq flushed'
       /\ \A u \in DOMAIN segments' :
            Ids(segments'[u]) \cap flushed' \subseteq flushed \cup stuck'
  BY <1>1, <1>3, <1>8, <1>13
<1> QED
  BY <1>3, <1>4, <1>5, <1>6, <1>7, <1>8, <1>9, <1>10, <1>11, <1>12, <1>14,
     KeepStep

\* Reset.
LEMMA ResetStep ==
  ASSUME IInv, Reset \/ ResetFails
  PROVE  IInv'
<1>1. segments = [u \in DOMAIN segments |-> segments[u]]
  BY LogTypes
<1>2. CASE Reset
  <2>1. /\ Counted("resets", MaxResets) /\ Discard(DOMAIN segments)
        /\ file' = "open" /\ segmentID' = 1
        /\ segments' = [s \in {1} |-> << >>]
    BY <1>2 DEF Reset
  <2>2. /\ segments' = [u \in DOMAIN segments' |-> segments'[u]]
        /\ DOMAIN segments' = {1} /\ segments'[1] = << >>
    BY <2>1
  <2> QED
    BY <2>1, <2>2, DiscardStep
<1>3. CASE ResetFails
  <2>1. Counted("resets", MaxResets) /\ segmentID' = segmentID
    BY <1>3 DEF ResetFails
  <2>2. CASE file' = "broken" /\ Discard({}) /\ segments' = segments
    <3>1. /\ {} \in SUBSET DOMAIN segments
          /\ DOMAIN segments = DOMAIN segments \ {}
      OBVIOUS
    <3> QED
      BY <1>1, <2>1, <2>2, <3>1, DiscardStep
  <2>3. ASSUME NEW s \in DOMAIN segments,
               file' = "nil", Discard({t \in DOMAIN segments : t < s}),
               segments' = Restrict(segments, DOMAIN segments \
                             {t \in DOMAIN segments : t < s})
        PROVE  IInv'
    <3>1. PICK D \in SUBSET DOMAIN segments :
            D = {t \in DOMAIN segments : t < s}
      OBVIOUS
    <3>2. /\ segments' = [u \in DOMAIN segments' |-> segments'[u]]
          /\ DOMAIN segments' = DOMAIN segments \ D
          /\ \A u \in DOMAIN segments' : segments'[u] = segments[u]
      BY <2>3, <3>1 DEF Restrict
    <3>3. DOMAIN segments \in SUBSET Nat /\ s \in Nat
      BY LogTypes
    <3>4. \A u \in D, t \in DOMAIN segments' : u < t
      BY <3>1, <3>2, <3>3
    <3> QED
      BY <2>1, <2>3, <3>1, <3>2, <3>4, DiscardStep
  <2>4. ASSUME file' = "nil", Discard(DOMAIN segments),
               segments' \in {<< >>, [s \in {1} |-> << >>]}
        PROVE  IInv'
    <3>1. PICK D \in SUBSET DOMAIN segments : D = DOMAIN segments
      OBVIOUS
    <3>2. CASE segments' = << >>
      <4>1. /\ segments' = [u \in DOMAIN segments' |-> segments'[u]]
            /\ DOMAIN segments' = DOMAIN segments \ D
            /\ DOMAIN segments' = {}
        BY <3>1, <3>2
      <4> QED
        BY <2>1, <2>4, <3>1, <4>1, DiscardStep
    <3>3. CASE segments' = [s \in {1} |-> << >>]
      <4>1. /\ segments' = [u \in DOMAIN segments' |-> segments'[u]]
            /\ DOMAIN segments' = {1} /\ segments'[1] = << >>
        BY <3>3
      <4> QED
        BY <2>1, <2>4, <3>1, <4>1, DiscardStep
    <3> QED
      BY <2>4, <3>2, <3>3
  <2> QED
    BY <1>3, <2>2, <2>3, <2>4 DEF ResetFails
<1> QED
  BY <1>2, <1>3

-----------------------------------------------------------------------------
(* Restarts.                                                               *)

\* The last segment.
LEMMA LastSegment ==
  ASSUME NEW X, NEW ss, ss \in [DOMAIN ss -> X], DOMAIN ss \in SUBSET Nat,
         IsFiniteSet(DOMAIN ss), DOMAIN ss # {}
  PROVE  /\ Max(DOMAIN ss) \in DOMAIN ss
         /\ \A u \in DOMAIN ss : u <= Max(DOMAIN ss)
<1>1. PICK D : D = DOMAIN ss
  OBVIOUS
<1>2. PICK n, ids :
        /\ n \in Nat
        /\ n # 0 /\ ids \in [1..n -> DOMAIN ss]
        /\ \A i, j \in 1..n : i < j => ids[i] < ids[j]
        /\ \A s \in DOMAIN ss : \E i \in 1..n : ids[i] = s
  <2>1. PICK n \in Nat : n = Cardinality(D)
    BY <1>1, FS_CardinalityType
  <2>2. n # 0
    BY <1>1, <2>1, FS_EmptySet
  <2>3. /\ SegmentIDs(ss) \in [1..n -> DOMAIN ss]
        /\ \A i, j \in 1..n : i < j => SegmentIDs(ss)[i] < SegmentIDs(ss)[j]
        /\ \A s \in DOMAIN ss : \E i \in 1..n : SegmentIDs(ss)[i] = s
    BY <1>1, <2>1, IDsSorted
  <2> QED
    BY <2>2, <2>3
<1>3. ASSUME NEW u \in DOMAIN ss
      PROVE  ids[n] \in DOMAIN ss /\ ids[n] >= u
  <2>1. PICK i \in 1..n : ids[i] = u
    BY <1>2
  <2>2. n \in 1..n
    BY <1>2
  <2>3. ids[n] \in DOMAIN ss
    BY <1>2, <2>2
  <2>4. i = n \/ ids[i] < ids[n]
    BY <1>2, <2>2
  <2> QED
    BY <2>1, <2>3, <2>4
<1>4. \E x \in DOMAIN ss : \A y \in DOMAIN ss : x >= y
  BY <1>3
<1>5. Max(DOMAIN ss) \in DOMAIN ss /\ \A y \in DOMAIN ss : Max(DOMAIN ss) >= y
  BY <1>4 DEF Max
<1> QED
  BY <1>5

\* What CreateWALWithSegmentSize finds or adopts.
LEMMA AdoptedFacts ==
  ASSUME IInv, Down
  PROVE  /\ Adopted \in [DOMAIN Adopted -> Items(last)]
         /\ DOMAIN Adopted \in SUBSET (Nat \ {0})
         /\ IsFiniteSet(DOMAIN Adopted) /\ DOMAIN Adopted # {}
         /\ OrderedLog(Adopted)
         /\ \A n : (\E s \in DOMAIN Adopted : n \in Ids(Adopted[s])) <=>
                   \/ n \in Ids(legacy)
                   \/ \E s \in DOMAIN segments : n \in Ids(segments[s])
         /\ count["reopens"] = 0 /\ count["writeErrors"] = 0 =>
              WholeLog(Adopted)
         /\ segments # << >> => legacy = << >>
         /\ \A s \in DOMAIN Adopted : \A i \in DOMAIN Adopted[s] :
              Refused(Adopted[s][i]) =>
                s \in DOMAIN segments /\ Adopted[s] = segments[s]
<1>1. /\ segments \in [DOMAIN segments -> Items(last)]
      /\ DOMAIN segments \in SUBSET (Nat \ {0})
      /\ IsFiniteSet(DOMAIN segments)
  BY LogTypes
<1>2. Legacy /\ Ordered /\ Whole /\ legacy \in Items(last)
      /\ \A i \in DOMAIN legacy : legacy[i].size = 1
  BY DEF IInv, TypeOK, Items
<1>3. DOMAIN segments = {} => segments = << >>
  <2>1. ASSUME NEW S, NEW f \in [{} -> S] PROVE f = << >>
    OBVIOUS
  <2> QED
    BY <1>1, <2>1
<1>4. Ids(<< >>) = {}
  BY DEF Ids
<1>5. CASE segments # << >>
  <2>1. Adopted = segments /\ legacy = << >>
    BY <1>2, <1>3, <1>5 DEF Adopted, Legacy
  <2> QED
    BY <1>1, <1>2, <1>3, <1>4, <1>5, <2>1 DEF Ordered, Whole
<1>6. CASE segments = << >>
  <2>1. /\ DOMAIN Adopted = {1} /\ Adopted[1] = legacy
        /\ Adopted = [s \in {1} |-> legacy] /\ DOMAIN segments = {}
    BY <1>6 DEF Adopted
  <2>2. ~(1 < 1) /\ 1 <= 1
    OBVIOUS
  <2>3. OrderedLog(Adopted)
    BY <1>2, <2>1, <2>2 DEF Ordered, OrderedLog
  <2>4. count["reopens"] = 0 /\ count["writeErrors"] = 0 => WholeLog(Adopted)
    BY <1>2, <2>1, <2>2 DEF Whole, WholeLog
  <2>5. \A i \in DOMAIN legacy : ~Refused(legacy[i])
    BY <1>2, SizeAssumption DEF Refused
  <2>6. Adopted \in [DOMAIN Adopted -> Items(last)]
    BY <1>2, <2>1
  <2> QED
    <3>1. /\ DOMAIN Adopted \in SUBSET (Nat \ {0})
          /\ IsFiniteSet(DOMAIN Adopted) /\ DOMAIN Adopted # {}
      BY <2>1, FS_Singleton
    <3>2. ASSUME NEW n
          PROVE  (\E s \in DOMAIN Adopted : n \in Ids(Adopted[s])) <=>
                   \/ n \in Ids(legacy)
                   \/ \E s \in DOMAIN segments : n \in Ids(segments[s])
      BY <2>1
    <3> QED
      BY <1>6, <2>1, <2>3, <2>4, <2>5, <2>6, <3>1, <3>2
<1> QED
  BY <1>5, <1>6

\* A restart.
LEMMA ReopenStep ==
  ASSUME IInv, Reopen
  PROVE  IInv'
<1>1. PICK ss : ss = segments' /\ ss = Adopted
  BY DEF Reopen
<1>2. /\ ss \in [DOMAIN ss -> Items(last)]
      /\ DOMAIN ss \in SUBSET (Nat \ {0})
      /\ IsFiniteSet(DOMAIN ss) /\ DOMAIN ss # {}
      /\ OrderedLog(ss)
      /\ \A n : (\E s \in DOMAIN ss : n \in Ids(ss[s])) <=>
                \/ n \in Ids(legacy)
                \/ \E s \in DOMAIN segments : n \in Ids(segments[s])
      /\ segments # << >> => legacy = << >>
      /\ Down
  BY <1>1, AdoptedFacts DEF Reopen
<1>3. /\ last \in Nat /\ segmentID \in Nat /\ acked \subseteq 1..last
      /\ flushed \subseteq acked /\ count \in [Counters -> Nat]
      /\ stuck \subseteq flushed
  BY LogTypes
<1>4. /\ legacy' = << >> /\ frozen' = frozen /\ last' = last /\ large' = large
      /\ acked' = acked /\ flushed' = flushed /\ stuck' = stuck
      /\ recovered' \in Replay(ss)
  BY <1>1, <1>2 DEF Reopen
<1>5. count' \in [Counters -> Nat] /\ count'["reopens"] # 0
  <2>1. "reopens" \in Counters
    BY DEF Counters
  <2> QED
    BY <1>3, <2>1, Counts DEF Reopen, Counters
<1>6. \/ file' = "down" /\ segmentID' = segmentID
      \/ file' = "open" /\ segmentID' = Max(DOMAIN ss)
  BY <1>1, <1>2 DEF Reopen, Down
<1>7. Max(DOMAIN ss) \in DOMAIN ss /\ \A u \in DOMAIN ss : u <= Max(DOMAIN ss)
  BY <1>2, LastSegment
<1>8. DOMAIN frozen = {}
  BY <1>2 DEF IInv, Active
<1>9. recovered' \in Seq(0..last)
  <2>1. CASE recovered' = Failed
    <3>1. 0 \in 0..last
      BY <1>3
    <3> QED
      BY <2>1, <3>1 DEF Failed, Torn
  <2>2. CASE recovered' # Failed
    <3>1. PICK q \in Replay(ss) : q = recovered'
      BY <1>4
    <3>2. q \in Seq(1..last)
      BY <1>2, <1>3, <2>2, <3>1, ReplayRight
    <3>3. 1..last \subseteq 0..last
      BY <1>3
    <3> QED
      BY <3>1, <3>2, <3>3, SeqSubset
  <2> QED
    BY <2>1, <2>2
<1>10. TypeOK'
  <2>1. /\ segments' \in [DOMAIN segments' -> Seq(Item(last'))]
        /\ DOMAIN segments' \in SUBSET (Nat \ {0})
    BY <1>1, <1>2, <1>4 DEF Items
  <2>2. /\ legacy' \in Seq(Item(last'))
        /\ \A i \in DOMAIN legacy' : legacy'[i].size = 1
    BY <1>4
  <2>3. /\ file' \in {"open", "nil", "broken", "down"} /\ segmentID' \in Nat
        /\ file' = "open" => segmentID' \in DOMAIN segments'
    BY <1>1, <1>2, <1>3, <1>6, <1>7
  <2>4. /\ frozen' \in [DOMAIN frozen' -> SUBSET (1..last')]
        /\ large' \in 0..last'
    BY <1>4 DEF IInv, TypeOK
  <2> QED
    BY <1>3, <1>4, <1>5, <1>9, <2>1, <2>2, <2>3, <2>4 DEF TypeOK
<1>11. Active'
  <2>1. ~Down' => \A s \in DOMAIN segments' : s <= segmentID'
    BY <1>1, <1>6, <1>7 DEF Down
  <2> QED
    BY <1>1, <1>2, <1>4, <1>8, <2>1 DEF Active
<1>12. Legacy' /\ Sealed'
  BY <1>4, <1>8 DEF Legacy, Sealed
<1>13. Ordered'
  BY <1>1, <1>2, <1>4 DEF Ordered, Ascending
<1>14. Gone'
  <2> SUFFICES ASSUME NEW s \in DOMAIN ss, NEW n \in Ids(ss[s]), n \in flushed
               PROVE  n \in stuck
    BY <1>1, <1>4 DEF Gone
  <2>1. CASE n \in Ids(legacy)
    <3>1. legacy # << >>
      BY <2>1 DEF Ids
    <3> QED
      BY <3>1 DEF IInv, Legacy
  <2>2. CASE \E u \in DOMAIN segments : n \in Ids(segments[u])
    BY <2>2 DEF IInv, Gone
  <2> QED
    BY <1>2, <2>1, <2>2
<1>15. Logged'
  BY <1>1, <1>2, <1>4 DEF IInv, Logged
<1>16. Whole'
  BY <1>5 DEF Whole
<1> QED
  BY <1>10, <1>11, <1>12, <1>13, <1>14, <1>15, <1>16 DEF IInv

-----------------------------------------------------------------------------
(* Theorems.                                                               *)

\* The log a first start finds, or the one it creates.
LEMMA InitIInv == Init => IInv
<1> SUFFICES ASSUME Init
             PROVE  IInv
  OBVIOUS
<1>1. /\ frozen = << >> /\ large = 0 /\ acked = 1..last /\ flushed = {}
      /\ stuck = {} /\ recovered = << >> /\ count = [c \in Counters |-> 0]
  BY DEF Init
<1>2. count \in [Counters -> Nat] /\ DOMAIN frozen = {}
  BY <1>1
<1>3. Ids(<< >>) = {} /\ Ascending(<< >>) /\ TornAtEnd(<< >>)
  BY DEF Ids, Ascending, TornAtEnd
<1>4. CASE /\ segments = [s \in {1} |-> << >>] /\ file = "open"
           /\ segmentID = 1 /\ last = 0 /\ legacy = << >>
  <2>1. /\ DOMAIN segments = {1} /\ segments[1] = << >> /\ 1 <= 1 /\ ~Down
        /\ IsFiniteSet(DOMAIN segments)
    <3>1. DOMAIN segments = {1} /\ segments[1] = << >>
      BY <1>4
    <3>2. 1 <= 1 /\ ~Down
      BY <1>4 DEF Down
    <3> QED
      BY <3>1, <3>2, FS_Singleton
  <2>2. TypeOK
    <3>1. /\ segments \in [DOMAIN segments -> Seq(Item(last))]
          /\ DOMAIN segments \in SUBSET (Nat \ {0})
          /\ legacy \in Seq(Item(last)) /\ DOMAIN legacy = {}
      BY <1>4
    <3>2. /\ frozen \in [DOMAIN frozen -> SUBSET (1..last)]
          /\ recovered \in Seq(0..last) /\ last \in Nat /\ large \in 0..last
      BY <1>1, <1>4
    <3> QED
      BY <1>1, <1>2, <1>4, <2>1, <3>1, <3>2 DEF TypeOK
  <2>3. Active /\ Legacy /\ Sealed
    BY <1>2, <1>4, <2>1 DEF Active, Legacy, Sealed
  <2>4. Ordered
    BY <1>3, <1>4, <2>1 DEF Ordered, OrderedLog
  <2>5. Gone
    BY <1>3, <2>1 DEF Gone
  <2>6. Logged
    BY <1>1, <1>4 DEF Logged
  <2>7. Whole
    BY <1>3, <1>4, <2>1 DEF Whole, WholeLog
  <2> QED
    BY <2>2, <2>3, <2>4, <2>5, <2>6, <2>7 DEF IInv
<1>5. ASSUME segments = << >>, file = "down", segmentID = 0,
             last \in 1..MaxLegacy,
             NEW tail \in {<< >>} \cup {<<f>> : f \in Fragments(1)},
             legacy = [n \in 1..last |-> Record(n, 1)] \o tail
      PROVE  IInv
  <2>1. last \in Nat /\ DOMAIN segments = {} /\ Down /\ IsFiniteSet({})
    BY <1>5, FS_EmptySet DEF Down
  <2>2. PICK old \in Seq([id : 1..last, size : {1}]) :
          old = [n \in 1..last |-> Record(n, 1)]
    <3>1. ASSUME NEW S, NEW f \in [1..last -> S]
          PROVE  f \in Seq(S)
      BY <2>1
    <3>2. \A n \in 1..last : Record(n, 1) \in [id : 1..last, size : {1}]
      BY DEF Record
    <3>3. [n \in 1..last |-> Record(n, 1)] \in
            [1..last -> [id : 1..last, size : {1}]]
      BY <3>2
    <3> QED
      BY <3>1, <3>3
  <2>3. ASSUME NEW A, NEW B, A \subseteq B, old \in Seq(A)
        PROVE  old \in Seq(B)
    BY <2>3, SeqSubset
  <2>4. /\ Len(old) = last /\ DOMAIN old = 1..last
        /\ \A n \in 1..last : old[n].id = n /\ old[n].size = 1
    BY <2>1, <2>2 DEF Record
  <2>5. /\ legacy \in Seq([id : 0..last, size : {1}])
        /\ \A n \in 1..last : n \in DOMAIN legacy /\ legacy[n].id = n
        /\ \A n \in DOMAIN legacy :
             \/ n \in 1..last
             \/ n = last + 1 /\ n = Len(legacy) /\ legacy[n].id = Torn
    <3>1. CASE tail = << >>
      <4>1. legacy = old
        BY <1>5, <2>2, <3>1
      <4>2. [id : 1..last, size : {1}] \subseteq [id : 0..last, size : {1}]
        <5>1. 1..last \subseteq 0..last
          BY <2>1
        <5> QED
          BY <5>1
      <4>3. old \in Seq([id : 0..last, size : {1}])
        BY <2>3, <2>2, <4>2
      <4> QED
        BY <2>4, <4>1, <4>3
    <3>2. CASE \E f \in Fragments(1) : tail = <<f>>
      <4>1. PICK f \in Fragments(1) : tail = <<f>>
        BY <3>2
      <4>2. f.id = Torn /\ f \in [id : {0}, size : {1}]
        <5>1. {1} \cup ({1} \ 1..MaxRecordSize) = {1}
          OBVIOUS
        <5> QED
          BY <5>1 DEF Fragments, Torn
      <4>3. legacy = old \o <<f>>
        BY <1>5, <2>2, <4>1
      <4>4. [id : 1..last, size : {1}] \subseteq [id : 0..last, size : {1}]
            /\ f \in [id : 0..last, size : {1}]
        <5>1. 1..last \subseteq 0..last /\ 0 \in 0..last
          BY <2>1
        <5> QED
          BY <4>2, <5>1
      <4>5. old \in Seq([id : 0..last, size : {1}])
        BY <2>3, <2>2, <4>4
      <4>6. legacy \in Seq([id : 0..last, size : {1}])
        <5>1. ASSUME NEW A, NEW q \in Seq(A), NEW y \in A
              PROVE  q \o <<y>> \in Seq(A)
          OBVIOUS
        <5> QED
          BY <4>3, <4>4, <4>5, <5>1
      <4>7. /\ Len(legacy) = last + 1 /\ DOMAIN legacy = 1..last + 1
            /\ legacy[last + 1] = f
            /\ \A n \in 1..last : legacy[n] = old[n]
        BY <2>1, <2>4, <4>3
      <4>8. \A n \in 1..last + 1 : n \in 1..last \/ n = last + 1
        BY <2>1
      <4>9. \A n \in 1..last : n \in 1..last + 1
        BY <2>1
      <4> QED
        BY <2>4, <4>2, <4>6, <4>7, <4>8, <4>9
    <3> QED
      BY <1>5, <3>1, <3>2
  <2>6. /\ legacy \in Seq(Item(last))
        /\ \A i \in DOMAIN legacy : legacy[i].size = 1
    <3>1. [id : 0..last, size : {1}] \subseteq Item(last)
      BY DEF Item
    <3>2. \A i \in DOMAIN legacy : legacy[i] \in [id : 0..last, size : {1}]
      BY <2>5, SeqElements
    <3> QED
      BY <2>5, <3>1, <3>2, SeqSubset
  <2>7. TypeOK
    <3>1. /\ segments \in [DOMAIN segments -> Seq(Item(last))]
          /\ DOMAIN segments \in SUBSET (Nat \ {0})
      BY <1>5
    <3>2. /\ frozen \in [DOMAIN frozen -> SUBSET (1..last)]
          /\ recovered \in Seq(0..last) /\ last \in Nat /\ large \in 0..last
      BY <1>1, <2>1
    <3> QED
      BY <1>1, <1>2, <1>5, <2>6, <3>1, <3>2 DEF TypeOK
  <2>8. Active /\ Legacy /\ Sealed /\ Gone
    BY <1>1, <1>2, <2>1 DEF Active, Legacy, Sealed, Gone
  <2>9. Ordered
    <3>1. ASSUME NEW i \in DOMAIN legacy, NEW j \in DOMAIN legacy, i < j,
                 legacy[i].id # Torn, legacy[j].id # Torn
          PROVE  legacy[i].id < legacy[j].id
      BY <2>5, <3>1
    <3> QED
      BY <2>1, <3>1 DEF Ordered, OrderedLog, Ascending
  <2>10. Logged
    <3>1. ASSUME NEW n \in 1..last PROVE n \in Ids(legacy)
      BY <2>5 DEF Ids, Torn
    <3> QED
      BY <1>1, <3>1 DEF Logged
  <2>11. Whole
    <3>1. TornAtEnd(legacy)
      <4>1. \A n \in 1..last : n # Torn
        BY <2>1 DEF Torn
      <4> QED
        BY <2>5, <4>1 DEF TornAtEnd
    <3> QED
      BY <2>1, <3>1 DEF Whole, WholeLog
  <2> QED
    BY <2>7, <2>8, <2>9, <2>10, <2>11 DEF IInv
<1> QED
  BY <1>4, <1>5 DEF Init

\* Every operation of the log, every failure and every restart keeps the
\* invariant.
LEMMA StepIInv == IInv /\ [Next]_vars => IInv'
<1> SUFFICES ASSUME IInv, [Next]_vars
             PROVE  IInv'
  OBVIOUS
<1>1. last \in Nat /\ large \in 0..last
  BY DEF IInv, TypeOK
<1>2. ASSUME NEW s \in RecordSizes, AppendRecord(s) PROVE IInv'
  BY <1>2, AppendStep
<1>3. ASSUME NEW s \in RecordSizes, AppendFails(s) PROVE IInv'
  <2>1. /\ file = "open" /\ NextRecord(s) /\ segments' \in Partial(s)
        /\ count' = [count EXCEPT !["writeErrors"] = @ + 1]
        /\ segmentID' = Target(s) /\ file' = file /\ frozen' = frozen
        /\ UNCHANGED <<legacy, flushed, stuck, recovered>> /\ acked' = acked
    BY <1>3 DEF AppendFails, Counted
  <2> QED
    BY <2>1, PartialStep
<1>4. ASSUME NEW s \in RecordSizes, AppendRotateFails(s) PROVE IInv'
  <2>1. /\ file \in {"open", "nil"} /\ RotateFailure /\ last' = last + 1
        /\ large' \in {large, large + 1}
    BY <1>4 DEF AppendRotateFails, NextRecord
  <2>2. last' \in Nat /\ last <= last' /\ large' \in 0..last'
    BY <1>1, <2>1
  <2> QED
    BY <2>1, <2>2, RotateFailureStep
<1>5. CASE Rotate
  BY <1>5, RotateStep
<1>6. CASE RotateFails
  <2>1. file \in {"open", "nil"} /\ RotateFailure /\ UNCHANGED <<last, large>>
    BY <1>6 DEF RotateFails
  <2>2. last' \in Nat /\ last <= last' /\ large' \in 0..last'
    BY <1>1, <2>1
  <2> QED
    BY <2>1, <2>2, RotateFailureStep
<1>7. ASSUME NEW id \in DOMAIN frozen, RemoveSegmentsUpTo(id) PROVE IInv'
  BY <1>7, RemoveStep
<1>8. CASE Reset \/ ResetFails
  BY <1>8, ResetStep
<1>9. CASE Close
  BY <1>9, StopStep DEF Close
<1>10. CASE Crash
  <2>1. ~Down /\ Stop
    BY <1>10 DEF Crash
  <2>2. CASE UNCHANGED <<segments, last, large>>
    BY <2>1, <2>2, StopStep
  <2>3. ASSUME NEW s \in RecordSizes, file = "open", NextRecord(s),
               segments' \in Partial(s)
        PROVE  IInv'
    <3>1. /\ segmentID' = 0 /\ file' = "down" /\ frozen' = << >>
          /\ UNCHANGED <<legacy, flushed, stuck, recovered>> /\ acked' = acked
          /\ count' = count
      BY <2>1 DEF Stop
    <3> QED
      BY <2>3, <3>1, PartialStep
  <2> QED
    BY <1>10, <2>2, <2>3 DEF Crash
<1>11. CASE Reopen
  BY <1>11, ReopenStep
<1>12. CASE UNCHANGED vars
  BY <1>12 DEF vars, IInv, TypeOK, Active, Legacy, Ordered, Sealed, Gone,
               Logged, Whole, Down
<1> QED
  BY <1>2, <1>3, <1>4, <1>5, <1>6, <1>7, <1>8, <1>9, <1>10, <1>11, <1>12
     DEF Next

\* The invariant holds whatever fails and however often the log is reopened.
THEOREM LogInductive == Spec => []IInv
BY InitIInv, StepIInv, PTL DEF Spec

\* TypeOK holds: records keep their numbers and sizes, a running WAL has its
\* active segment, and only acknowledged records are reclaimed.
THEOREM TypeCorrect == Spec => []TypeOK
<1>1. IInv => TypeOK
  BY DEF IInv
<1> QED
  BY <1>1, LogInductive, PTL

\* ReplayOrdered holds: whatever was torn, failed or could not be removed,
\* Replay (wal.go) returns records in the order of their appends, none twice,
\* and of the records that are in an SSTable, or that Reset discarded, only
\* those in segments that os.Remove failed to remove.
THEOREM ReplaysOrdered == Spec => ReplayOrdered
<1>1. ASSUME IInv, Next, Down, ~Down'
      PROVE  /\ \A i, j \in DOMAIN recovered' :
                  i < j => recovered'[i] < recovered'[j]
             /\ Range(recovered') \cap flushed \subseteq stuck
  <2>1. Reopen
    BY <1>1 DEF Next, AppendRecord, AppendFails, AppendRotateFails, Rotate,
                RotateFails, RemoveSegmentsUpTo, Reset, ResetFails, Discard,
                Close, Crash, Down
  <2>2. /\ recovered' \in Replay(Adopted) /\ recovered' # Failed
        /\ IInv' /\ segments' = Adopted /\ UNCHANGED <<flushed, stuck>>
    <3>1. IInv'
      BY <1>1, <2>1, ReopenStep
    <3> QED
      BY <1>1, <2>1, <3>1 DEF Reopen, Down
  <2>3. PICK ss, q : /\ ss = Adopted /\ q \in Replay(ss) /\ q = recovered'
                     /\ q # Failed /\ ss = segments'
    BY <2>2
  <2>4. /\ ss \in [DOMAIN ss -> Items(last)] /\ last \in Nat
        /\ DOMAIN ss \in SUBSET Nat
        /\ IsFiniteSet(DOMAIN ss) /\ DOMAIN ss # {} /\ OrderedLog(ss)
    BY <1>1, <2>3, AdoptedFacts, LogTypes
  <2>5. /\ Ascends(q)
        /\ \A x \in Range(q) : \E s \in DOMAIN ss : x \in Ids(ss[s])
    BY <2>3, <2>4, ReplayRight
  <2>6. \A s \in DOMAIN ss : Ids(ss[s]) \cap flushed \subseteq stuck
    BY <2>2, <2>3 DEF IInv, Gone
  <2> QED
    BY <2>3, <2>5, <2>6 DEF Ascends
<1>2. IInv /\ [Next]_vars =>
        [Down /\ ~Down' =>
           /\ \A i, j \in DOMAIN recovered' :
                i < j => recovered'[i] < recovered'[j]
           /\ Range(recovered') \cap flushed \subseteq stuck]_vars
  BY <1>1
<1> QED
  BY <1>2, LogInductive, PTL DEF Spec, ReplayOrdered

\* FirstReplayComplete holds: unless a write failed before it, the first restart
\* gets every acknowledged record back that is not in an SSTable; only a record
\* that AppendRecord took and Replay refuses for its size keeps it from opening.
THEOREM FirstReplayRight == Spec => FirstReplayComplete
<1>1. ASSUME IInv, Next, count'["reopens"] = 1, count["reopens"] = 0,
             count["writeErrors"] = 0
      PROVE  \/ /\ recovered' = Failed
                /\ \E s \in DOMAIN segments : \E i \in DOMAIN segments[s] :
                     Refused(segments[s][i])
             \/ /\ recovered' # Failed
                /\ acked \ flushed \subseteq Range(recovered')
  <2>1. count \in [Counters -> Nat]
    BY <1>1, LogTypes
  <2>2. Reopen
    <3>1. ASSUME NEW c \in Counters \ {"reopens"}, NEW b, Counted(c, b)
          PROVE  FALSE
      BY <1>1, <2>1, <3>1, Counts DEF Counters
    <3>2. count' # count
      BY <1>1
    <3>3. \A c \in {"rotations", "resets", "writeErrors", "rotateErrors",
                    "removeErrors"} : c \in Counters \ {"reopens"}
      BY DEF Counters
    <3> QED
      BY <1>1, <3>1, <3>2, <3>3
         DEF Next, AppendRecord, AppendFails, AppendRotateFails, Rotate,
             RotateFails, RotateFailure, RemoveSegmentsUpTo, Reset, ResetFails,
             Close, Crash, Stop
  <2>3. PICK ss, q : ss = Adopted /\ q \in Replay(ss) /\ q = recovered' /\ Down
    BY <2>2 DEF Reopen
  <2>4. /\ ss \in [DOMAIN ss -> Items(last)] /\ last \in Nat
        /\ DOMAIN ss \in SUBSET Nat
        /\ IsFiniteSet(DOMAIN ss) /\ DOMAIN ss # {} /\ WholeLog(ss)
    BY <1>1, <2>3, AdoptedFacts, LogTypes
  <2>5. \/ /\ q = Failed
           /\ \E s \in DOMAIN ss : \E i \in DOMAIN ss[s] : Refused(ss[s][i])
        \/ /\ q # Failed
           /\ \A s \in DOMAIN ss : Ids(ss[s]) \subseteq Range(q)
    BY <2>3, <2>4, ReplayAll
  <2>6. CASE q # Failed /\ \A s \in DOMAIN ss : Ids(ss[s]) \subseteq Range(q)
    <3>1. ASSUME NEW n \in acked \ flushed PROVE n \in Range(q)
      <4>1. \/ n \in Ids(legacy)
            \/ \E s \in DOMAIN segments : n \in Ids(segments[s])
        BY <1>1 DEF IInv, Logged
      <4>2. \E s \in DOMAIN ss : n \in Ids(ss[s])
        BY <1>1, <2>3, <4>1, AdoptedFacts
      <4> QED
        BY <2>6, <4>2
    <3> QED
      BY <2>3, <2>6, <3>1
  <2>7. ASSUME q = Failed, NEW s \in DOMAIN ss, NEW i \in DOMAIN ss[s],
               Refused(ss[s][i])
        PROVE  /\ recovered' = Failed
               /\ \E u \in DOMAIN segments : \E j \in DOMAIN segments[u] :
                    Refused(segments[u][j])
    <3>1. s \in DOMAIN segments /\ ss[s] = segments[s]
      BY <1>1, <2>3, <2>7, AdoptedFacts
    <3> QED
      BY <2>3, <2>7, <3>1
  <2> QED
    BY <2>5, <2>6, <2>7
<1>2. IInv /\ [Next]_vars =>
        [count'["reopens"] = 1 /\ count["reopens"] = 0
         /\ count["writeErrors"] = 0 =>
           \/ /\ recovered' = Failed
              /\ \E s \in DOMAIN segments : \E i \in DOMAIN segments[s] :
                   Refused(segments[s][i])
           \/ /\ recovered' # Failed
              /\ acked \ flushed \subseteq Range(recovered')]_vars
  BY <1>1
<1> QED
  BY <1>2, LogInductive, PTL DEF Spec, FirstReplayComplete

=============================================================================
