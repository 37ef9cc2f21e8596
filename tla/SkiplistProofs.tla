--------------------------- MODULE SkiplistProofs ---------------------------
(***************************************************************************)
(* Proofs about the skiplist for any number of keys, levels and readers:   *)
(* every level stays sorted at every store of an insert (LevelsSound), and *)
(* lookups that run beside the writer without a lock return what their key *)
(* had, but for the two races that LookupRight names.                      *)
(*                                                                         *)
(* The invariant says which nodes are linked on a level and that a node's  *)
(* pointer skips none of them.  So the pointers of a node that a reader    *)
(* stands on only ever move down to smaller keys that are still behind the *)
(* node, and the insert that moves them below the key a reader looks for   *)
(* is the one that overtakes it.                                           *)
(***************************************************************************)
EXTENDS Skiplist, Recursion, FiniteSetTheorems

\* A new node is linked level by level.
Inserting == wpc \in {"set", "link"}

Overwriting == wpc \in {"ptr", "len", "deleted"}

\* The keys that are linked on level l.
Linked(l) ==
    {k \in Key : /\ l \in DOMAIN forward[k]
                 /\ ~(Inserting /\ k = wkey /\ wlevel <= l)}

On(l) == {Head} \cup Linked(l)

\* Nodes that have a level have those below, and no level is above the top one.
Heights ==
    /\ DOMAIN forward[Head] = Level
    /\ \A n \in Key : \A l \in DOMAIN forward[n] : l < currTopLevel

\* Pointers lead to greater keys that are linked, and skip none of them.
Sorted ==
    \A l \in Level :
        /\ \A n \in Tall(l) :
             /\ forward[n][l] \in Linked(l) \cup {Nil}
             /\ forward[n][l] > n
        /\ \A n \in On(l), m \in Linked(l) : m > n => m >= forward[n][l]

\* The place of the new node on the levels where it is not linked yet.
Place ==
    Inserting =>
        /\ wkey \in Key /\ wlevel \in DOMAIN forward[wkey]
        /\ cell[wkey] = wcell
        /\ \A l \in DOMAIN forward[wkey] : wlevel <= l =>
             /\ update[l] \in On(l) /\ update[l] < wkey
             /\ forward[update[l]][l] > wkey
        /\ wpc = "link" =>
             forward[wkey][wlevel] = forward[update[wlevel]][wlevel]

\* The words of an overwrite that are stored already.
Stored ==
    Overwriting =>
        /\ wkey \in Linked(0) /\ contents[wkey] = Found(wcell)
        /\ wpc # "ptr" => cell[wkey].ptr = wcell.ptr
        /\ wpc = "deleted" => cell[wkey].len = wcell.len

\* The keys on level 0 are those with contents.
Held ==
    \A k \in Key :
        /\ contents[k].found <=> k \in Linked(0)
        /\ ~contents[k].found => contents[k] = NotFound
        /\ k \in Linked(0) /\ ~(Overwriting /\ k = wkey) =>
             contents[k] = Found(cell[k])

\* A Search stands on a node before its key, until it has passed the key's
\* place or found its node.
Searching(r) ==
    /\ pc[r] # "idle" => key[r] \in Key
    /\ pc[r] \in {"test", "advance", "last"} =>
         current[r] \in On(level[r]) /\ current[r] < key[r]
    /\ pc[r] = "advance" => forward[current[r]][level[r]] < key[r]
    /\ pc[r] = "last" =>
         /\ level[r] = 0
         /\ ~overtaken[r] => forward[current[r]][0] >= key[r]
    /\ pc[r] \in {"ptr", "len", "deleted"} =>
         current[r] = key[r] /\ key[r] \in Linked(0)

\* Word w of cell c is one that reader r's key had during the call.
SeenWord(r, c, w) == \E s \in seen[r] : s.found /\ s.cell[w] = c[w]

Watching(r) ==
    pc[r] # "idle" =>
        /\ IsFiniteSet(seen[r])
        /\ contents[key[r]] \in seen[r]
        /\ key[r] \in Linked(0) =>
             \A w \in DOMAIN NoCell : SeenWord(r, cell[key[r]], w)

\* The words that a Lookup has loaded so far.
Loaded(r) ==
    CASE pc[r] = "len"     -> {"ptr"}
      [] pc[r] = "deleted" -> {"ptr", "len"}
      [] pc[r] = "done"    -> DOMAIN NoCell
      [] OTHER             -> {}

Results(r) ==
    /\ pc[r] \in {"len", "deleted"} => result[r].found
    /\ result[r].found => \A w \in Loaded(r) : SeenWord(r, result[r].cell, w)
    /\ pc[r] = "done" /\ ~result[r].found /\ ~overtaken[r] =>
         result[r] \in seen[r]
    /\ pc[r] \in {"test", "advance", "last"} => result[r] = NotFound

LInv == ListTypes /\ Heights /\ Sorted /\ Place /\ Stored /\ Held

IInv ==
    /\ LInv /\ ReaderTypes
    /\ \A r \in Readers : Searching(r) /\ Watching(r) /\ Results(r)

-----------------------------------------------------------------------------
(* The search for the place of a key.                                      *)

\* Nodes are numbers, in the order of their keys.
LEMMA Numbers ==
  /\ LastKey \in Nat /\ MaxLevel \in Nat /\ MaxLevel >= 1
  /\ Nil = LastKey + 1 /\ Head = 0
  /\ \A n : n \in Key <=> n \in Int /\ 1 <= n /\ n <= LastKey
  /\ \A n : n \in Node <=> n \in Int /\ 0 <= n /\ n <= LastKey
  /\ \A l : l \in Level <=> l \in Int /\ 0 <= l /\ l < MaxLevel
BY SkiplistAssumption DEF Nil, Head, Key, Node, Level

\* Between inserts every node that has a level is linked there.
LEMMA AllLinked ==
  ASSUME LInv, ~Inserting, NEW l \in Level
  PROVE  Tall(l) = On(l) /\ Head \in Tall(l)
BY Numbers DEF LInv, Heights, Tall, On, Linked, Node

\* The inner loop ends.
LEMMA WalkFunction ==
  ASSUME LInv, ~Inserting, NEW l \in Level, NEW k \in Key
  PROVE  \E f : /\ f = [n \in Tall(l) |->
                          IF forward[n][l] # Nil /\ forward[n][l] < k
                            THEN f[forward[n][l]] ELSE n]
                /\ \A start : Walk(l, k, start) = f[start]
<1> DEFINE D == Tall(l)
           stop == {n \in D : ~(forward[n][l] # Nil /\ forward[n][l] < k)}
           next == [n \in D |-> forward[n][l]]
           base == [n \in D |-> n]
           step == [n \in D |-> [x \in D |-> x]]
           R == [n \in D |-> D]
           Loop(f) == f = [n \in D |->
                             IF forward[n][l] # Nil /\ forward[n][l] < k
                               THEN f[forward[n][l]] ELSE n]
<1>1. LastKey \in Nat /\ D \in SUBSET (0..LastKey)
  BY Numbers DEF Tall
<1>2. \A n \in D : /\ forward[n][l] \in D \cup {Nil}
                   /\ forward[n][l] > n
  BY AllLinked DEF LInv, Sorted, On
<1>3. Upward(D, stop, next)
  BY <1>2 DEF Upward
<1>4. Passes(D, stop, next, base, step, R)
  BY <1>2 DEF Passes
<1>5. PICK f : /\ Follows(f, D, stop, next, base, step)
               /\ \A n \in D : f[n] \in R[n]
  <2> HIDE DEF D, stop, next, base, step, R
  <2>1. /\ \E f : Follows(f, D, stop, next, base, step)
        /\ \A f : Follows(f, D, stop, next, base, step) =>
             \A n \in D : f[n] \in R[n]
    BY <1>1, <1>3, <1>4, UpwardRecursion
  <2> QED
    BY <2>1
<1>6. Loop(f)
  BY <1>2, <1>5 DEF Follows
<1>7. \E g : Loop(g)
  <2> HIDE DEF Loop
  <2> QED
    BY <1>6
<1> DEFINE from == CHOOSE g : Loop(g)
<1>8. Loop(from)
  <2> HIDE DEF Loop
  <2> QED
    BY <1>7
<1>9. \A start : Walk(l, k, start) = from[start]
  BY DEF Walk
<1> QED
  <2> HIDE DEF from
  <2> QED
    BY <1>8, <1>9

\* The nodes that come right before k on level l.
Before(l, k) == {n \in On(l) : n < k /\ forward[n][l] >= k}

\* It ends right before the key.
LEMMA WalkRight ==
  ASSUME LInv, ~Inserting, NEW l \in Level, NEW k \in Key,
         NEW start \in On(l), start < k
  PROVE  Walk(l, k, start) \in Before(l, k)
<1>1. PICK f : /\ f = [n \in Tall(l) |->
                         IF forward[n][l] # Nil /\ forward[n][l] < k
                           THEN f[forward[n][l]] ELSE n]
               /\ \A s : Walk(l, k, s) = f[s]
  BY WalkFunction
<1>2. Tall(l) = On(l)
  BY AllLinked
<1>3. \A n \in On(l) : /\ n \in Int /\ 0 <= n /\ n <= LastKey
                       /\ forward[n][l] \in On(l) \cup {Nil}
                       /\ forward[n][l] > n
  BY <1>2, Numbers DEF LInv, Sorted, On, Linked
<1> DEFINE S == {n \in 0..LastKey :
                   n \in On(l) /\ n < k => f[n] \in Before(l, k)}
<1>4. ASSUME NEW n \in 0..LastKey, \A m \in 0..LastKey : m > n => m \in S
      PROVE  n \in S
  <2> SUFFICES ASSUME n \in On(l), n < k PROVE f[n] \in Before(l, k)
    OBVIOUS
  <2>1. f[n] = IF forward[n][l] # Nil /\ forward[n][l] < k
                 THEN f[forward[n][l]] ELSE n
    BY <1>1, <1>2
  <2>2. CASE forward[n][l] # Nil /\ forward[n][l] < k
    <3>1. forward[n][l] \in On(l) /\ forward[n][l] > n
      BY <1>3, <2>2
    <3>2. PICK m \in On(l) : m = forward[n][l]
      BY <3>1
    <3>3. m \in 0..LastKey
      BY <1>3, Numbers
    <3> QED
      BY <1>4, <2>1, <2>2, <3>1, <3>2, <3>3
  <2>3. CASE ~(forward[n][l] # Nil /\ forward[n][l] < k)
    <3>0. PICK m \in On(l) \cup {Nil} : m = forward[n][l]
      BY <1>3
    <3>1. m \in Int
      <4>1. (\A i \in On(l) : i \in Int) /\ Nil \in Int
        BY <1>3, Numbers
      <4> QED
        BY <3>0, <4>1
    <3>2. k \in Int /\ k < Nil
      BY Numbers
    <3>3. forward[n][l] >= k
      BY <2>3, <3>0, <3>1, <3>2
    <3> QED
      BY <2>1, <2>3, <3>3 DEF Before
  <2> QED
    BY <2>2, <2>3
<1>5. 0..LastKey \subseteq S
  <2> HIDE DEF S
  <2> QED
    BY <1>4, Downwards, Numbers
<1>6. start \in 0..LastKey
  BY <1>3
<1> QED
  BY <1>1, <1>5, <1>6

\* A node that is linked on a level is linked below.
LEMMA LevelsNested ==
  ASSUME LInv, NEW l \in Level, NEW m \in Level, m <= l
  PROVE  On(l) \subseteq On(m)
<1> SUFFICES ASSUME NEW n \in Linked(l) PROVE n \in Linked(m)
  BY DEF On
<1>1. n \in Node /\ n \in Key
  BY Numbers DEF Linked
<1>2. PICK h \in 0..MaxLevel : forward[n] \in [0..h - 1 -> Key \cup {Nil}]
  BY <1>1 DEF LInv, ListTypes
<1>3. DOMAIN forward[n] = 0..h - 1
  BY <1>2
<1>4. m \in DOMAIN forward[n]
  BY <1>3, Numbers DEF Linked
<1>5. Inserting => wlevel \in Int
  BY Numbers DEF LInv, ListTypes
<1> QED
  BY <1>4, <1>5, Numbers DEF Linked

\* The search finds the place of the key on every level.
LEMMA UpdateRight ==
  ASSUME LInv, ~Inserting, NEW k \in Key
  PROVE  /\ Update(k) \in [Level -> Node]
         /\ \A l \in Level : Update(k)[l] \in Before(l, k)
<1> DEFINE top == currTopLevel
           N == MaxLevel - 1
           stop == {l \in Level : l >= top - 1}
           next == [l \in Level |-> l + 1]
           base == [l \in Level |-> IF l >= top THEN Head
                                    ELSE Walk(l, k, Head)]
           step == [l \in Level |-> [x \in Node |-> Walk(l, k, x)]]
           R == [l \in Level |-> Before(l, k)]
           Loop(f) == f = [l \in Level |->
                             IF l >= top THEN Head
                             ELSE Walk(l, k, IF l = top - 1 THEN Head
                                             ELSE f[l + 1])]
<1>1. N \in Nat /\ Level = 0..N /\ Level \in SUBSET (0..N)
  BY Numbers DEF Level
<1>2. top \in Int /\ 1 <= top /\ top <= MaxLevel
  BY Numbers DEF LInv, ListTypes
<1>3. \A l \in Level : /\ Before(l, k) \subseteq Node
                       /\ Before(l, k) \subseteq On(l)
  BY Numbers DEF Before, On, Linked
<1>4. \A l \in Level : Head \in On(l) /\ Head < k
  BY Numbers DEF On
<1>5. ASSUME NEW l \in Level, l >= top PROVE Head \in Before(l, k)
  <2>1. Linked(l) = {}
    <3> SUFFICES ASSUME NEW n \in Linked(l) PROVE FALSE
      OBVIOUS
    <3>1. l < currTopLevel
      BY DEF Linked, LInv, Heights
    <3> QED
      BY <1>2, <1>5, <3>1, Numbers
  <2>2. Head \in Tall(l)
    BY AllLinked
  <2>3. forward[Head][l] = Nil
    BY <2>1, <2>2 DEF LInv, Sorted
  <2> QED
    BY <1>4, <2>3, Numbers DEF Before
<1>6. ASSUME NEW l \in Level PROVE Walk(l, k, Head) \in Before(l, k)
  BY <1>4, WalkRight
<1>7. ASSUME NEW l \in Level, l + 1 \in Level, NEW x \in Before(l + 1, k)
      PROVE  Walk(l, k, x) \in Before(l, k)
  <2>1. x \in On(l + 1) /\ x < k
    BY DEF Before
  <2>2. l <= l + 1
    BY Numbers
  <2>3. x \in On(l)
    BY <1>7, <2>1, <2>2, LevelsNested
  <2> QED
    BY <2>1, <2>3, WalkRight
<1>8. \A l \in Level : l < top - 1 => l + 1 \in Level
  BY <1>2, Numbers
<1>9. Upward(Level, stop, next)
  BY <1>2, <1>8, Numbers DEF Upward
<1>10. Passes(Level, stop, next, base, step, R)
  <2>1. ASSUME NEW l \in Level, l \in stop PROVE base[l] \in R[l]
    BY <1>5, <1>6
  <2>2. ASSUME NEW l \in Level, l \notin stop, NEW x \in R[next[l]]
        PROVE  step[l][x] \in R[l]
    <3>1. l + 1 \in Level
      BY <1>2, <1>8, <2>2, Numbers
    <3>2. x \in Before(l + 1, k) /\ x \in Node
      BY <1>3, <2>2, <3>1
    <3> QED
      BY <1>7, <3>1, <3>2
  <2> HIDE DEF stop, next, base, step, R
  <2> QED
    BY <2>1, <2>2 DEF Passes
<1>11. PICK f : /\ Follows(f, Level, stop, next, base, step)
                /\ \A l \in Level : f[l] \in R[l]
  <2> HIDE DEF N, stop, next, base, step, R
  <2>1. /\ \E f : Follows(f, Level, stop, next, base, step)
        /\ \A f : Follows(f, Level, stop, next, base, step) =>
             \A n \in Level : f[n] \in R[n]
    BY <1>1, <1>9, <1>10, UpwardRecursion
  <2> QED
    BY <2>1
<1>12. Loop(f)
  <2>1. DOMAIN f = Level /\ f = [l \in Level |-> f[l]]
    BY <1>11 DEF Follows
  <2>2. ASSUME NEW l \in Level
        PROVE  f[l] = IF l >= top THEN Head
                      ELSE Walk(l, k, IF l = top - 1 THEN Head ELSE f[l + 1])
    <3>1. f[l] = IF l \in stop THEN base[l] ELSE step[l][f[next[l]]]
      BY <1>11 DEF Follows
    <3>2. CASE l \in stop
      BY <3>1, <3>2, <1>2, Numbers
    <3>3. CASE l \notin stop
      <4>1. l < top - 1 /\ l + 1 \in Level
        BY <3>3, <1>2, <1>8, Numbers
      <4>2. f[l + 1] \in Node
        BY <1>3, <1>11, <4>1
      <4>3. f[l] = Walk(l, k, f[l + 1])
        BY <3>1, <3>3, <4>2
      <4> QED
        BY <4>1, <4>3, <1>2, Numbers
    <3> QED
      BY <3>2, <3>3
  <2> HIDE DEF stop, next, base, step, R
  <2> QED
    BY <2>1, <2>2
<1>13. \E g : Loop(g)
  <2> HIDE DEF Loop
  <2> QED
    BY <1>12
<1> DEFINE before == CHOOSE g : Loop(g)
<1>14. Loop(before)
  <2> HIDE DEF Loop
  <2> QED
    BY <1>13
<1>15. Update(k) = before
  BY DEF Update
<1> DEFINE S == {l \in 0..N : before[l] \in Before(l, k)}
<1>16. ASSUME NEW l \in 0..N, \A m \in 0..N : m > l => m \in S
       PROVE  l \in S
  <2>1. l \in Level
    BY <1>1
  <2>2. before[l] = IF l >= top THEN Head
                    ELSE Walk(l, k, IF l = top - 1 THEN Head
                                    ELSE before[l + 1])
    <3> HIDE DEF before
    <3> QED
      BY <1>14, <2>1
  <2> HIDE DEF before
  <2>3. CASE l >= top
    BY <1>5, <2>1, <2>2, <2>3
  <2>4. CASE l = top - 1
    BY <1>2, <1>6, <2>1, <2>2, <2>4
  <2>5. CASE l < top - 1
    <3>1. l + 1 \in Level /\ l + 1 \in 0..N /\ l + 1 > l
      BY <1>1, <1>8, <2>1, <2>5, Numbers
    <3>2. before[l + 1] \in Before(l + 1, k)
      BY <1>16, <3>1
    <3>3. before[l] = Walk(l, k, before[l + 1])
      BY <1>2, <2>1, <2>2, <2>5, Numbers
    <3> QED
      BY <1>7, <2>1, <3>1, <3>2, <3>3
  <2> QED
    BY <1>2, <2>1, <2>3, <2>4, <2>5, Numbers
<1>17. 0..N \subseteq S
  <2> HIDE DEF S, N
  <2> QED
    BY <1>1, <1>16, Downwards
<1>18. before = [l \in Level |-> before[l]]
  <2> HIDE DEF before
  <2> QED
    BY <1>14
<1> HIDE DEF before
<1> QED
  BY <1>1, <1>3, <1>15, <1>17, <1>18

-----------------------------------------------------------------------------
(* The writer's steps.                                                     *)

\* The cells that are written.
LEMMA CellTypes ==
  /\ NoCell \in Cell /\ TombstoneCell \in Cell
  /\ \A v \in Value : ValueCell(v) \in Cell
  /\ \A c \in Cell : Found(c) \in [found : BOOLEAN, cell : Cell]
  /\ NotFound \in [found : BOOLEAN, cell : Cell]
  /\ \A c : Found(c).found /\ Found(c).cell = c
  /\ ~NotFound.found
BY DEF NoCell, TombstoneCell, ValueCell, Cell, Word, Found, NotFound

\* The levels of a node.
LEMMA NodeLevels ==
  ASSUME LInv, NEW n \in Node
  PROVE  /\ \A l \in DOMAIN forward[n] :
              l \in Level /\ forward[n][l] \in Key \cup {Nil}
         /\ \A l \in DOMAIN forward[n], m \in Level :
              m <= l => m \in DOMAIN forward[n]
         /\ \A l \in DOMAIN forward[n] : 0 \in DOMAIN forward[n]
<1>1. PICK h \in 0..MaxLevel : forward[n] \in [0..h - 1 -> Key \cup {Nil}]
  BY DEF LInv, ListTypes
<1>2. DOMAIN forward[n] = 0..h - 1
  BY <1>1
<1> QED
  BY <1>1, <1>2, Numbers

\* A key that has a node already is overwritten.
LEMMA OverwriteStep ==
  ASSUME LInv, NEW k \in Key, NEW c \in Cell, wpc = "idle", wkey' = k,
         wcell' = c, update' = Update(k), Overwrite(k, c)
  PROVE  LInv' /\ \A l : Linked(l)' = Linked(l)
<1>1. /\ UNCHANGED <<forward, cell, currTopLevel, wlevel>>
      /\ wpc' = "ptr"
      /\ contents' = [contents EXCEPT ![k] = Found(c)]
  BY DEF Overwrite, Observe, list
<1>2. ~Inserting /\ ~Inserting' /\ Overwriting' /\ ~Overwriting
  BY <1>1 DEF Inserting, Overwriting
<1>3. \A l : Tall(l)' = Tall(l) /\ Linked(l)' = Linked(l) /\ On(l)' = On(l)
  BY <1>1, <1>2 DEF Tall, Linked, On
<1>4. Update(k) \in [Level -> Node] /\ Update(k)[0] \in Before(0, k)
  BY <1>2, UpdateRight, Numbers
<1>5. k \in Linked(0)
  <2>1. Update(k)[0] \in Tall(0) /\ 0 \in Level
    BY <1>2, <1>4, AllLinked, Numbers DEF Before
  <2>2. forward[Update(k)[0]][0] \in Linked(0) \cup {Nil}
    BY <2>1 DEF LInv, Sorted
  <2> QED
    BY <2>2, Numbers DEF Overwrite
<1>6. ListTypes'
  BY <1>1, <1>4, CellTypes, Numbers DEF LInv, ListTypes
<1>7. Heights' /\ Sorted'
  BY <1>1, <1>3 DEF LInv, Heights, Sorted
<1>8. Place' /\ Stored'
  BY <1>1, <1>2, <1>3, <1>5 DEF LInv, ListTypes, Place, Stored
<1>9. Held'
  BY <1>1, <1>2, <1>3, <1>5, CellTypes DEF LInv, ListTypes, Held
<1> QED
  BY <1>3, <1>6, <1>7, <1>8, <1>9 DEF LInv

\* A key that has none gets a node, which is not linked on any level yet.
LEMMA NewNodeStep ==
  ASSUME LInv, NEW k \in Key, NEW c \in Cell, wpc = "idle", wkey' = k,
         wcell' = c, update' = Update(k), NEW h \in RandomLevels,
         NewNode(k, c, h)
  PROVE  /\ LInv'
         /\ \A l \in Level : Linked(l)' = Linked(l)
         /\ \A l \in Level : \A n \in On(l) : forward'[n][l] = forward[n][l]
         /\ \A j \in Linked(0) : cell'[j] = cell[j]
<1>1. /\ wpc' = "set" /\ wlevel' = 0
      /\ currTopLevel' = IF h > currTopLevel THEN h ELSE currTopLevel
      /\ forward' = [forward EXCEPT ![k] = [l \in 0..h - 1 |-> Nil]]
      /\ cell' = [cell EXCEPT ![k] = c]
      /\ contents' = contents
  BY DEF NewNode
<1>2. ~Inserting /\ Inserting' /\ ~Overwriting' /\ ~Overwriting
  BY <1>1 DEF Inserting, Overwriting
<1>3. /\ Update(k) \in [Level -> Node]
      /\ \A l \in Level : Update(k)[l] \in Before(l, k)
  BY <1>2, UpdateRight
<1>4. k \notin Linked(0)
  <2>1. PICK u : u = Update(k)[0]
    OBVIOUS
  <2>2. 0 \in Level /\ u \in On(0) /\ u < k /\ forward[u][0] >= k
    BY <1>3, <2>1, Numbers DEF Before
  <2>3. forward[u][0] # k
    BY <2>1 DEF NewNode
  <2>4. u \in Tall(0)
    BY <1>2, <2>2, AllLinked
  <2>5. forward[u][0] \in Key \cup {Nil}
    BY <2>2, <2>4 DEF LInv, Sorted, Linked
  <2>6. u \in Int
    BY <2>2, Numbers DEF On, Linked
  <2>7. k \in Linked(0) => k >= forward[u][0]
    BY <2>2, <2>6, Numbers DEF LInv, Sorted
  <2>8. forward[u][0] \in Int
    BY <2>5, Numbers
  <2> QED
    BY <2>2, <2>3, <2>7, <2>8, Numbers
<1>5. \A l \in Level : l \notin DOMAIN forward[k] /\ k \notin Linked(l)
  <2>1. k \in Node
    BY Numbers
  <2>2. 0 \notin DOMAIN forward[k]
    BY <1>2, <1>4 DEF Linked
  <2> QED
    BY <2>1, <2>2, NodeLevels DEF Linked
<1>6. h \in Int /\ 1 <= h /\ h <= MaxLevel
  BY Numbers DEF RandomLevels
<1>7. /\ DOMAIN forward = Node /\ DOMAIN forward' = Node
      /\ forward'[k] = [l \in 0..h - 1 |-> Nil]
      /\ \A n \in Node : n # k => forward'[n] = forward[n]
  BY <1>1, Numbers DEF LInv, ListTypes
<1>8. \A l \in Level : Linked(l)' = Linked(l) /\ On(l)' = On(l)
  <2> TAKE l \in Level
  <2>1. 0 <= l
    BY Numbers
  <2>2. \A n \in Key : n # k => forward'[n] = forward[n]
    BY <1>7, Numbers
  <2>3. Linked(l)' = Linked(l)
    BY <1>1, <1>2, <1>5, <2>1, <2>2 DEF Linked
  <2> QED
    BY <2>3 DEF On
<1>9. \A l \in Level : Tall(l)' \subseteq Tall(l) \cup {k}
  BY <1>7 DEF Tall
<1>10. ListTypes'
  <2>1. \A n \in Node : \E i \in 0..MaxLevel :
          forward'[n] \in [0..i - 1 -> Key \cup {Nil}]
    <3> TAKE n \in Node
    <3>1. CASE n = k
      <4>1. h \in 0..MaxLevel
        BY <1>6
      <4>2. forward'[n] \in [0..h - 1 -> Key \cup {Nil}]
        BY <1>7, <3>1
      <4> QED
        BY <4>1, <4>2
    <3>2. CASE n # k
      BY <1>7, <3>2 DEF LInv, ListTypes
    <3> QED
      BY <3>1, <3>2
  <2>2. /\ cell' \in [Node -> Cell] /\ wkey' \in Node /\ wlevel' \in Level
        /\ wcell' \in Cell /\ update' \in [Level -> Node]
        /\ contents' \in [Key -> [found : BOOLEAN, cell : Cell]]
    <3>1. cell' \in [Node -> Cell]
      BY <1>1 DEF LInv, ListTypes
    <3>2. k \in Node /\ 0 \in Level
      BY Numbers
    <3> QED
      BY <1>1, <1>3, <3>1, <3>2 DEF LInv, ListTypes
  <2>3. currTopLevel' \in 1..MaxLevel
    BY <1>1, <1>6 DEF LInv, ListTypes
  <2> QED
    BY <1>1, <1>7, <2>1, <2>2, <2>3 DEF ListTypes
<1>11. Heights'
  <2>1. currTopLevel \in Int /\ currTopLevel' \in Int
        /\ currTopLevel <= currTopLevel' /\ h <= currTopLevel'
    BY <1>1, <1>6, Numbers DEF LInv, ListTypes
  <2>2. DOMAIN forward'[Head] = Level
    BY <1>7, Numbers DEF LInv, Heights
  <2>3. ASSUME NEW n \in Key, NEW l \in DOMAIN forward'[n]
        PROVE  l < currTopLevel'
    <3>1. CASE n = k
      BY <1>6, <1>7, <2>1, <3>1
    <3>2. CASE n # k
      <4>1. n \in Node /\ l \in DOMAIN forward[n]
        BY <1>7, <3>2, Numbers
      <4>2. l \in Level /\ l < currTopLevel
        BY <4>1, NodeLevels DEF LInv, Heights
      <4> QED
        BY <2>1, <4>2, Numbers
    <3> QED
      BY <3>1, <3>2
  <2> QED
    BY <2>2, <2>3 DEF Heights
<1>12. Sorted'
  <2>1. ASSUME NEW l \in Level, NEW n \in Tall(l)'
        PROVE  forward'[n][l] \in Linked(l)' \cup {Nil} /\ forward'[n][l] > n
    <3>1. CASE n = k
      <4>1. l \in 0..h - 1
        BY <1>7, <2>1, <3>1 DEF Tall
      <4>2. forward'[n][l] = Nil
        BY <1>7, <3>1, <4>1
      <4> QED
        BY <3>1, <4>2, Numbers
    <3>2. CASE n # k
      <4>1. n \in Tall(l) /\ n \in Node /\ forward'[n] = forward[n]
        BY <1>7, <1>9, <2>1, <3>2 DEF Tall
      <4> QED
        BY <1>8, <4>1 DEF LInv, Sorted
    <3> QED
      BY <3>1, <3>2
  <2>2. ASSUME NEW l \in Level, NEW n \in On(l)', NEW m \in Linked(l)', m > n
        PROVE  m >= forward'[n][l]
    <3>1. n \in On(l) /\ m \in Linked(l)
      BY <1>8, <2>2
    <3>2. n # k /\ n \in Node
      BY <1>5, <3>1, Numbers DEF On, Linked
    <3> QED
      BY <1>7, <2>2, <3>1, <3>2 DEF LInv, Sorted
  <2> QED
    BY <2>1, <2>2 DEF Sorted
<1>13. Place'
  <2>1. k \in Key /\ 0 \in DOMAIN forward'[k] /\ cell'[k] = c
    BY <1>1, <1>6, <1>7, Numbers DEF LInv, ListTypes
  <2>2. ASSUME NEW l \in DOMAIN forward'[k]
        PROVE  /\ update'[l] \in On(l)' /\ update'[l] < k
               /\ forward'[update'[l]][l] > k
    <3>1. l \in Level
      BY <1>6, <1>7, <2>2, Numbers
    <3>2. PICK u : u = update'[l]
      OBVIOUS
    <3>3. u \in On(l) /\ u < k /\ forward[u][l] >= k
      BY <1>3, <3>1, <3>2 DEF Before
    <3>4. u \in Tall(l) /\ u \in Node
      BY <1>2, <3>1, <3>3, AllLinked DEF Tall
    <3>5. forward[u][l] \in Linked(l) \cup {Nil}
      BY <3>1, <3>4 DEF LInv, Sorted
    <3>6. forward[u][l] # k
      BY <1>5, <3>1, <3>5, Numbers
    <3>7. forward[u][l] \in Int
      <4>1. (\A i \in Linked(l) : i \in Int) /\ Nil \in Int
        BY Numbers DEF Linked
      <4> QED
        BY <3>5, <4>1
    <3>8. forward[u][l] > k
      BY <3>3, <3>6, <3>7, Numbers
    <3>9. forward'[u] = forward[u]
      BY <1>7, <3>3, <3>4, Numbers
    <3> QED
      BY <1>8, <3>1, <3>2, <3>3, <3>8, <3>9
  <2> QED
    BY <1>1, <2>1, <2>2 DEF Place
<1>14. Stored' /\ Held'
  <2>1. Stored'
    BY <1>2 DEF Stored
  <2>2. ASSUME NEW j \in Linked(0) PROVE cell'[j] = cell[j]
    BY <1>1, <1>4, Numbers DEF LInv, ListTypes, Linked
  <2>3. Linked(0)' = Linked(0)
    BY <1>8, Numbers
  <2>4. Held'
    BY <1>1, <1>2, <2>2, <2>3 DEF LInv, Held
  <2> QED
    BY <2>1, <2>4
<1>15. ASSUME NEW l \in Level, NEW n \in On(l)
       PROVE  forward'[n][l] = forward[n][l]
  <2>1. n # k /\ n \in Node
    BY <1>5, Numbers DEF On, Linked
  <2> QED
    BY <1>7, <2>1
<1>16. \A j \in Linked(0) : cell'[j] = cell[j]
  BY <1>1, <1>4, Numbers DEF LInv, ListTypes, Linked
<1> QED
  BY <1>8, <1>10, <1>11, <1>12, <1>13, <1>14, <1>15, <1>16 DEF LInv

\* The new node's pointer on a level.
LEMMA SetForwardStep ==
  ASSUME LInv, SetForward
  PROVE  /\ LInv'
         /\ \A l \in Level : Linked(l)' = Linked(l)
         /\ \A l \in Level : \A n \in On(l) : forward'[n][l] = forward[n][l]
<1> DEFINE u == update[wlevel]
<1>1. /\ wpc = "set" /\ wpc' = "link"
      /\ forward' = [forward EXCEPT ![wkey][wlevel] = forward[u][wlevel]]
      /\ UNCHANGED <<cell, currTopLevel, wkey, wcell, update, wlevel, contents>>
  BY DEF SetForward, history
<1>2. Inserting /\ Inserting' /\ ~Overwriting'
  BY <1>1 DEF Inserting, Overwriting
<1>3. /\ wkey \in Key /\ wkey \in Node
      /\ wlevel \in Level /\ wlevel \in DOMAIN forward[wkey]
      /\ u \in On(wlevel) /\ u < wkey /\ forward[u][wlevel] > wkey
  BY <1>2, Numbers DEF LInv, Place, ListTypes
<1>4. u \in Node /\ u \in Tall(wlevel)
  BY <1>3, Numbers DEF On, Linked, Tall, LInv, Heights
<1>5. forward[u][wlevel] \in Linked(wlevel) \cup {Nil}
  BY <1>3, <1>4 DEF LInv, Sorted
<1>6. /\ DOMAIN forward = Node /\ DOMAIN forward' = Node
      /\ \A n \in Node : DOMAIN forward'[n] = DOMAIN forward[n]
      /\ forward'[wkey][wlevel] = forward[u][wlevel]
      /\ \A n \in Node : \A l \in DOMAIN forward[n] :
           n # wkey \/ l # wlevel => forward'[n][l] = forward[n][l]
  BY <1>1, <1>3 DEF LInv, ListTypes
<1>7. \A l : Tall(l)' = Tall(l) /\ Linked(l)' = Linked(l) /\ On(l)' = On(l)
  <2>1. \A n \in Key : DOMAIN forward'[n] = DOMAIN forward[n]
    BY <1>6, Numbers
  <2> QED
    BY <1>1, <1>2, <1>6, <2>1 DEF Tall, Linked, On
<1>8. ListTypes'
  <2>1. ASSUME NEW n \in Node
        PROVE  \E h \in 0..MaxLevel :
                 forward'[n] \in [0..h - 1 -> Key \cup {Nil}]
    <3>1. PICK h \in 0..MaxLevel : forward[n] \in [0..h - 1 -> Key \cup {Nil}]
      BY DEF LInv, ListTypes
    <3>2. CASE n # wkey
      BY <1>1, <3>1, <3>2 DEF LInv, ListTypes
    <3>3. CASE n = wkey
      <4>1. forward[u][wlevel] \in Key \cup {Nil}
        BY <1>5 DEF Linked
      <4>2. forward'[n] = [forward[n] EXCEPT ![wlevel] = forward[u][wlevel]]
        BY <1>1, <1>3, <3>3 DEF LInv, ListTypes
      <4>3. forward'[n] \in [0..h - 1 -> Key \cup {Nil}]
        BY <3>1, <4>1, <4>2
      <4> QED
        BY <4>3
    <3> QED
      BY <3>2, <3>3
  <2> QED
    BY <1>1, <1>6, <2>1 DEF LInv, ListTypes
<1>9. Heights'
  <2>1. Head \in Node /\ \A n \in Key : n \in Node
    BY Numbers
  <2> QED
    BY <1>1, <1>6, <2>1 DEF LInv, Heights
<1>10. Sorted'
  <2>1. ASSUME NEW l \in Level, NEW n \in Tall(l)
        PROVE  forward'[n][l] \in Linked(l) \cup {Nil} /\ forward'[n][l] > n
    <3>1. CASE n = wkey /\ l = wlevel
      BY <1>3, <1>5, <1>6, <3>1
    <3>2. CASE ~(n = wkey /\ l = wlevel)
      BY <1>6, <3>2 DEF LInv, Sorted, Tall
    <3> QED
      BY <3>1, <3>2
  <2>2. ASSUME NEW l \in Level, NEW n \in On(l), NEW m \in Linked(l), m > n
        PROVE  m >= forward'[n][l]
    <3>1. ~(n = wkey /\ l = wlevel)
      BY <1>2, <1>3, Numbers DEF On, Linked
    <3>2. n \in Node /\ l \in DOMAIN forward[n]
      BY Numbers DEF On, Linked, LInv, Heights
    <3> QED
      BY <1>6, <2>2, <3>1, <3>2 DEF LInv, Sorted
  <2> QED
    BY <1>7, <2>1, <2>2 DEF Sorted
<1>11. Place'
  <2>1. ASSUME NEW l \in DOMAIN forward[wkey], wlevel <= l
        PROVE  /\ update[l] \in On(l) /\ update[l] < wkey
               /\ forward'[update[l]][l] > wkey
    <3>1. /\ update[l] \in On(l) /\ update[l] < wkey
          /\ forward[update[l]][l] > wkey
      BY <1>2, <2>1 DEF LInv, Place
    <3>2. l \in Level
      BY <1>3, NodeLevels
    <3>3. PICK v : v = update[l]
      OBVIOUS
    <3>4. v \in Node /\ l \in DOMAIN forward[v] /\ v # wkey
      BY <1>3, <3>1, <3>2, <3>3, Numbers DEF On, Linked, LInv, Heights
    <3> QED
      BY <1>6, <3>1, <3>3, <3>4
  <2>2. forward'[wkey][wlevel] = forward'[u][wlevel]
    <3>1. u # wkey /\ wlevel \in DOMAIN forward[u]
      BY <1>3, <1>4, Numbers DEF Tall
    <3> QED
      BY <1>4, <1>6, <3>1
  <2> QED
    BY <1>1, <1>2, <1>3, <1>6, <1>7, <2>1, <2>2 DEF LInv, Place
<1>12. Stored' /\ Held'
  <2>1. ~Overwriting
    BY <1>1 DEF Overwriting
  <2> QED
    BY <1>1, <1>2, <1>7, <2>1 DEF LInv, Stored, Held
<1>13. ASSUME NEW l \in Level, NEW n \in On(l)
       PROVE  forward'[n][l] = forward[n][l]
  <2>1. ~(n = wkey /\ l = wlevel)
    BY <1>2, <1>3, Numbers DEF On, Linked
  <2>2. n \in Node /\ l \in DOMAIN forward[n]
    BY Numbers DEF On, Linked, LInv, Heights
  <2> QED
    BY <1>6, <2>1, <2>2
<1> QED
  BY <1>7, <1>8, <1>9, <1>10, <1>11, <1>12, <1>13 DEF LInv

\* The new node is linked on a level; on the lowest, its key appears.
LEMMA LinkNodeStep ==
  ASSUME LInv, LinkNode
  PROVE  /\ LInv'
         /\ \A l \in Level :
              Linked(l)' = IF l = wlevel THEN Linked(l) \cup {wkey}
                                         ELSE Linked(l)
         /\ wkey \in Key /\ cell[wkey] = wcell
         /\ \A l \in Level : \A n \in On(l) :
              \/ forward'[n][l] = forward[n][l]
              \/ /\ l = wlevel /\ n = update[l]
                 /\ forward'[n][l] = wkey /\ forward[n][l] > wkey
<1> DEFINE u == update[wlevel]
           next == forward[u][wlevel]
           last == wlevel + 1 \notin DOMAIN forward[wkey]
<1>1. /\ wpc = "link"
      /\ forward' = [forward EXCEPT ![u][wlevel] = wkey]
      /\ ~last => wpc' = "set" /\ wlevel' = wlevel + 1
      /\ last => wpc' = "idle" /\ wlevel' = wlevel
      /\ UNCHANGED <<cell, currTopLevel, wkey, wcell, update>>
      /\ contents' = IF wlevel = 0
                       THEN [contents EXCEPT ![wkey] = Found(wcell)]
                       ELSE contents
  BY DEF LinkNode, Observe
<1>2. /\ Inserting /\ ~Overwriting' /\ ~Overwriting
      /\ Inserting' <=> ~last
  BY <1>1 DEF Inserting, Overwriting
<1>3. /\ wkey \in Key /\ wkey \in Node /\ wkey \in Int
      /\ wlevel \in Level /\ wlevel \in Int /\ wlevel \in DOMAIN forward[wkey]
      /\ u \in On(wlevel) /\ u < wkey /\ next > wkey
      /\ forward[wkey][wlevel] = next
      /\ cell[wkey] = wcell
  BY <1>1, <1>2, Numbers DEF LInv, Place, ListTypes
<1>4. u \in Node /\ u \in Int /\ u \in Tall(wlevel)
  BY <1>3, Numbers DEF On, Linked, Tall, LInv, Heights
<1>5. next \in Linked(wlevel) \cup {Nil} /\ next \in Int
  <2>1. next \in Linked(wlevel) \cup {Nil}
    BY <1>3, <1>4 DEF LInv, Sorted
  <2>2. (\A i \in Linked(wlevel) : i \in Int) /\ Nil \in Int
    BY Numbers DEF Linked
  <2> QED
    BY <2>1, <2>2
<1>6. /\ DOMAIN forward = Node /\ DOMAIN forward' = Node
      /\ \A n \in Node : DOMAIN forward'[n] = DOMAIN forward[n]
      /\ forward'[u][wlevel] = wkey
      /\ \A n \in Node : \A l \in DOMAIN forward[n] :
           n # u \/ l # wlevel => forward'[n][l] = forward[n][l]
  BY <1>1, <1>4 DEF LInv, ListTypes, Tall
<1>7. \A l : Tall(l)' = Tall(l)
  BY <1>6 DEF Tall
<1>8. ASSUME NEW l \in Level
      PROVE  Linked(l)' = IF l = wlevel THEN Linked(l) \cup {wkey}
                                        ELSE Linked(l)
  <2>1. \A n \in Key : DOMAIN forward'[n] = DOMAIN forward[n]
    BY <1>6, Numbers
  <2>2. last => \A i \in DOMAIN forward[wkey] : i <= wlevel
    <3> SUFFICES ASSUME last, NEW i \in DOMAIN forward[wkey], i > wlevel
                 PROVE  FALSE
      BY <1>3, NodeLevels, Numbers
    <3>1. i \in Level /\ i \in Int
      BY <1>3, NodeLevels, Numbers
    <3>2. wlevel + 1 \in Level /\ wlevel + 1 <= i
      BY <1>3, <3>1, Numbers
    <3> QED
      BY <1>3, <3>2, NodeLevels
  <2>3. l \in Int
    BY Numbers
  <2>4. ASSUME NEW n \in Key, n # wkey
        PROVE  n \in Linked(l)' <=> n \in Linked(l)
    BY <1>1, <2>1, <2>4 DEF Linked
  <2>5. wkey \in Linked(l) <=> l \in DOMAIN forward[wkey] /\ l < wlevel
    BY <1>2, <1>3, <2>3 DEF Linked
  <2>6. wkey \in Linked(l)' <=> l \in DOMAIN forward[wkey] /\ l <= wlevel
    <3>1. CASE last
      BY <1>1, <1>2, <1>3, <2>1, <2>2, <2>3, <3>1 DEF Linked
    <3>2. CASE ~last
      <4>1. wkey \in Linked(l)' <=>
              l \in DOMAIN forward[wkey] /\ ~(wlevel + 1 <= l)
        BY <1>1, <1>2, <1>3, <2>1, <3>2 DEF Linked
      <4> QED
        BY <1>3, <2>3, <4>1
    <3> QED
      BY <3>1, <3>2
  <2>7. Linked(l) \subseteq Key /\ Linked(l)' \subseteq Key
    BY DEF Linked
  <2>8. CASE l = wlevel
    <3>1. wkey \in Linked(l)'
      BY <1>3, <2>6, <2>8
    <3> QED
      BY <2>4, <2>7, <2>8, <3>1
  <2>9. CASE l # wlevel
    <3>1. l <= wlevel <=> l < wlevel
      BY <1>3, <2>3, <2>9
    <3> QED
      BY <2>4, <2>5, <2>6, <2>7, <2>9, <3>1
  <2> QED
    BY <2>8, <2>9
<1>9. \A l \in Level : /\ Linked(l) \subseteq Linked(l)'
                       /\ On(l) \subseteq On(l)'
                       /\ l # wlevel => On(l)' = On(l)
  BY <1>8 DEF On
<1>10. ASSUME NEW l \in Level, NEW n \in On(l)
       PROVE  n \in Node /\ n \in Int /\ l \in DOMAIN forward[n]
  BY Numbers DEF On, Linked, LInv, Heights
<1>11. ListTypes'
  <2>1. ASSUME NEW n \in Node
        PROVE  \E h \in 0..MaxLevel :
                 forward'[n] \in [0..h - 1 -> Key \cup {Nil}]
    <3>1. PICK h \in 0..MaxLevel : forward[n] \in [0..h - 1 -> Key \cup {Nil}]
      BY DEF LInv, ListTypes
    <3>2. CASE n # u
      BY <1>1, <3>1, <3>2 DEF LInv, ListTypes
    <3>3. CASE n = u
      <4>1. forward'[n] = [forward[n] EXCEPT ![wlevel] = wkey]
        BY <1>1, <1>4, <3>3 DEF LInv, ListTypes
      <4>2. forward'[n] \in [0..h - 1 -> Key \cup {Nil}]
        BY <1>3, <3>1, <4>1
      <4> QED
        BY <4>2
    <3> QED
      BY <3>2, <3>3
  <2>2. wlevel' \in Level
    BY <1>1, <1>3, NodeLevels
  <2>3. contents' \in [Key -> [found : BOOLEAN, cell : Cell]]
    BY <1>1, <1>3, CellTypes DEF LInv, ListTypes
  <2>4. wpc' \in {"idle", "set"}
    BY <1>1
  <2> QED
    BY <1>1, <1>6, <2>1, <2>2, <2>3, <2>4 DEF LInv, ListTypes
<1>12. Heights'
  <2>1. Head \in Node /\ \A n \in Key : n \in Node
    BY Numbers
  <2> QED
    BY <1>1, <1>6, <2>1 DEF LInv, Heights
<1>13. Sorted'
  <2>1. ASSUME NEW l \in Level, NEW n \in Tall(l)
        PROVE  forward'[n][l] \in Linked(l)' \cup {Nil} /\ forward'[n][l] > n
    <3>1. CASE n = u /\ l = wlevel
      BY <1>3, <1>4, <1>6, <1>8, <3>1
    <3>2. CASE ~(n = u /\ l = wlevel)
      <4>1. forward'[n][l] = forward[n][l]
        BY <1>6, <3>2 DEF Tall
      <4> QED
        BY <1>9, <4>1 DEF LInv, Sorted
    <3> QED
      BY <3>1, <3>2
  <2>2. ASSUME NEW l \in Level, NEW n \in On(l)', NEW m \in Linked(l)', m > n
        PROVE  m >= forward'[n][l]
    <3>1. CASE l # wlevel
      <4>1. n \in On(l) /\ m \in Linked(l)
        BY <1>8, <1>9, <3>1
      <4>2. forward'[n][l] = forward[n][l]
        BY <1>6, <1>10, <3>1, <4>1
      <4> QED
        BY <2>2, <4>1, <4>2 DEF LInv, Sorted
    <3>2. CASE l = wlevel
      <4>1. n \in On(l) \cup {wkey} /\ m \in Linked(l) \cup {wkey}
        BY <1>8, <3>2 DEF On
      <4>2. n \in Int /\ m \in Int /\ n \in Node
        BY <1>3, <1>10, <4>1 DEF On
      <4>3. \A i \in On(l), j \in Linked(l) : j > i => j >= forward[i][l]
        BY DEF LInv, Sorted
      <4>4. CASE n = u
        <5>1. m = wkey \/ m >= next
          BY <2>2, <3>2, <4>1, <4>3, <4>4, <1>3
        <5> QED
          BY <1>3, <1>5, <1>6, <3>2, <4>2, <4>4, <5>1
      <4>5. CASE n = wkey
        <5>1. m \in Linked(l) /\ m > u
          BY <1>3, <1>4, <2>2, <4>1, <4>2, <4>5
        <5>2. m >= next
          BY <1>3, <3>2, <4>3, <5>1
        <5>3. forward'[n][l] = next
          BY <1>3, <1>4, <1>6, <3>2, <4>5
        <5> QED
          BY <5>2, <5>3
      <4>6. CASE n # u /\ n # wkey
        <5>1. n \in On(l) /\ forward'[n][l] = forward[n][l]
          BY <1>6, <1>10, <4>1, <4>6
        <5>2. CASE m \in Linked(l)
          BY <2>2, <4>3, <5>1, <5>2
        <5>3. CASE m = wkey
          <6>1. u > n
            <7> SUFFICES ASSUME ~(u > n) PROVE FALSE
              OBVIOUS
            <7>1. n > u
              BY <1>4, <4>2, <4>6
            <7>2. n \in Linked(l)
              BY <1>4, <5>1, <7>1, Numbers DEF On
            <7>3. n >= next
              BY <1>3, <3>2, <4>3, <7>1, <7>2
            <7> QED
              BY <1>3, <1>5, <2>2, <4>2, <5>3, <7>3
          <6>2. u \in Linked(l)
            BY <1>3, <3>2, <4>2, <6>1, Numbers DEF On
          <6>3. u >= forward[n][l]
            BY <4>3, <5>1, <6>1, <6>2
          <6>4. forward[n][l] \in Int
            <7>1. n \in Tall(l)
              BY <1>10, <5>1 DEF Tall
            <7>2. forward[n][l] \in Linked(l) \cup {Nil}
              BY <7>1 DEF LInv, Sorted
            <7>3. (\A i \in Linked(l) : i \in Int) /\ Nil \in Int
              BY Numbers DEF Linked
            <7> QED
              BY <7>2, <7>3
          <6> QED
            BY <1>3, <1>4, <5>1, <5>3, <6>3, <6>4
        <5> QED
          BY <4>1, <5>2, <5>3
      <4> QED
        BY <4>4, <4>5, <4>6
    <3> QED
      BY <3>1, <3>2
  <2> QED
    BY <1>7, <2>1, <2>2 DEF Sorted
<1>14. Place'
  <2> SUFFICES ASSUME ~last PROVE Place'
    BY <1>2 DEF Place
  <2>1. wpc' = "set" /\ wlevel' = wlevel + 1 /\ wlevel' \in DOMAIN forward[wkey]
    BY <1>1
  <2>2. ASSUME NEW l \in DOMAIN forward[wkey], wlevel + 1 <= l
        PROVE  /\ update[l] \in On(l)' /\ update[l] < wkey
               /\ forward'[update[l]][l] > wkey
    <3>1. l \in Level /\ l \in Int
      BY <1>3, NodeLevels, Numbers
    <3>2. wlevel <= l /\ l # wlevel
      BY <1>3, <2>2, <3>1
    <3>3. /\ update[l] \in On(l) /\ update[l] < wkey
          /\ forward[update[l]][l] > wkey
      BY <1>2, <2>2, <3>2 DEF LInv, Place
    <3>4. forward'[update[l]][l] = forward[update[l]][l]
      BY <1>6, <1>10, <3>1, <3>2, <3>3
    <3> QED
      BY <1>9, <3>1, <3>3, <3>4
  <2>3. DOMAIN forward'[wkey] = DOMAIN forward[wkey]
    BY <1>3, <1>6
  <2> QED
    BY <1>1, <1>3, <2>1, <2>2, <2>3 DEF Place
<1>15. Stored' /\ Held'
  <2>1. Linked(0)' = IF wlevel = 0 THEN Linked(0) \cup {wkey} ELSE Linked(0)
    BY <1>8, Numbers
  <2>2. CASE wlevel = 0
    BY <1>1, <1>2, <1>3, <2>1, <2>2, CellTypes DEF LInv, Held, Stored, ListTypes
  <2>3. CASE wlevel # 0
    BY <1>1, <1>2, <2>1, <2>3 DEF LInv, Held, Stored
  <2> QED
    BY <2>2, <2>3
<1>16. \A l \in Level : \A n \in On(l) :
         \/ forward'[n][l] = forward[n][l]
         \/ /\ l = wlevel /\ n = update[l]
            /\ forward'[n][l] = wkey /\ forward[n][l] > wkey
  BY <1>3, <1>6, <1>10
<1> QED
  BY <1>3, <1>8, <1>11, <1>12, <1>13, <1>14, <1>15, <1>16 DEF LInv


\* The stores of an overwrite touch only the cell of the key.
LEMMA StoreStep ==
  ASSUME LInv, Store
  PROVE  /\ LInv'
         /\ UNCHANGED <<forward, wkey, contents>>
         /\ \A l : Linked(l)' = Linked(l)
         /\ wkey \in Linked(0) /\ contents[wkey] = Found(wcell)
         /\ \A k \in Key \ {wkey} : cell'[k] = cell[k]
         /\ \A w \in DOMAIN NoCell : \/ cell'[wkey][w] = cell[wkey][w]
                                     \/ cell'[wkey][w] = wcell[w]
<1> DEFINE after(a) == IF a = "ptr" THEN "len"
                       ELSE IF a = "len" THEN "deleted" ELSE "idle"
<1>0. PICK at \in {"ptr", "len", "deleted"} : StoreWord(at, after(at))
  BY DEF Store
<1> DEFINE next == after(at)
<1>1. \/ at = "ptr" /\ next = "len"
      \/ at = "len" /\ next = "deleted"
      \/ at = "deleted" /\ next = "idle"
  OBVIOUS
<1>2. /\ wpc = at /\ wpc' = next
      /\ cell' = [cell EXCEPT ![wkey] = [@ EXCEPT ![at] = wcell[at]]]
      /\ UNCHANGED <<forward, currTopLevel, wkey, wcell, update, wlevel,
                     contents>>
  BY <1>0 DEF StoreWord, history
<1> HIDE DEF after, next
<1>3. /\ ~Inserting /\ ~Inserting' /\ Overwriting
      /\ Overwriting' <=> next # "idle"
  BY <1>1, <1>2 DEF Inserting, Overwriting
<1>4. /\ wkey \in Linked(0) /\ contents[wkey] = Found(wcell)
      /\ wpc # "ptr" => cell[wkey].ptr = wcell.ptr
      /\ wpc = "deleted" => cell[wkey].len = wcell.len
  BY <1>3 DEF LInv, Stored
<1>5. wkey \in Key /\ wkey \in Node
  BY <1>4, Numbers DEF Linked
<1>6. \A l : Tall(l)' = Tall(l) /\ Linked(l)' = Linked(l) /\ On(l)' = On(l)
  BY <1>2, <1>3 DEF Tall, Linked, On
<1>7. /\ cell[wkey] \in Cell /\ wcell \in Cell
      /\ cell'[wkey] = [cell[wkey] EXCEPT ![at] = wcell[at]]
      /\ \A n \in Node \ {wkey} : cell'[n] = cell[n]
      /\ cell \in [Node -> Cell]
  BY <1>2, <1>5 DEF LInv, ListTypes
<1>8. cell'[wkey] \in Cell
  BY <1>1, <1>7 DEF Cell
<1>9. cell' \in [Node -> Cell]
  BY <1>2, <1>5, <1>7, <1>8
<1>10. ListTypes'
  BY <1>1, <1>2, <1>9 DEF LInv, ListTypes
<1>11. Heights' /\ Sorted' /\ Place'
  BY <1>2, <1>3, <1>6 DEF LInv, Heights, Sorted, Place
<1>12. DOMAIN NoCell = {"ptr", "len", "deleted"}
  BY DEF NoCell
<1>13. \A w \in DOMAIN NoCell : cell'[wkey][w] = IF w = at THEN wcell[w]
                                                 ELSE cell[wkey][w]
  BY <1>1, <1>7, <1>12 DEF Cell
<1>14. Stored'
  BY <1>1, <1>2, <1>3, <1>4, <1>6, <1>12, <1>13 DEF Stored
<1>15. next = "idle" => cell'[wkey] = wcell
  <2> SUFFICES ASSUME next = "idle" PROVE cell'[wkey] = wcell
    OBVIOUS
  <2>1. /\ cell'[wkey].ptr = wcell.ptr
        /\ cell'[wkey].len = wcell.len
        /\ cell'[wkey].deleted = wcell.deleted
    BY <1>1, <1>2, <1>4, <1>12, <1>13
  <2> QED
    BY <1>7, <1>8, <2>1 DEF Cell
<1>16. Held'
  <2> SUFFICES ASSUME NEW k \in Key
               PROVE  /\ contents[k].found <=> k \in Linked(0)
                      /\ ~contents[k].found => contents[k] = NotFound
                      /\ k \in Linked(0) /\ ~(Overwriting' /\ k = wkey) =>
                           contents[k] = Found(cell'[k])
    BY <1>2, <1>6 DEF Held
  <2>1. k \in Node
    BY Numbers
  <2>2. CASE k # wkey
    BY <1>7, <2>1, <2>2 DEF LInv, Held
  <2>3. CASE k = wkey
    BY <1>3, <1>4, <1>15, <2>3 DEF LInv, Held
  <2> QED
    BY <2>2, <2>3
<1>17. \A k \in Key \ {wkey} : cell'[k] = cell[k]
  BY <1>7, Numbers
<1> QED
  BY <1>2, <1>4, <1>6, <1>10, <1>11, <1>13, <1>14, <1>16, <1>17 DEF LInv

-----------------------------------------------------------------------------
(* The readers.                                                            *)

Contents == [found : BOOLEAN, cell : Cell]

\* What a step of the writer does to the readers: more nodes, pointers that
\* lead less far, more contents to be seen; a pointer that was loaded for the
\* last time but for one and now leads to a smaller key overtakes the reader.
WriterEffect ==
    /\ UNCHANGED readers
    /\ \A l \in Level : Linked(l) \subseteq Linked(l)'
    /\ \A l \in Level : \A n \in On(l) : forward'[n][l] <= forward[n][l]
    /\ overtaken' \in [Readers -> BOOLEAN]
    /\ \A r \in Readers :
         /\ overtaken[r] => overtaken'[r]
         /\ pc[r] = "last" /\ current[r] \in On(0)
              /\ forward'[current[r]][0] # forward[current[r]][0]
              /\ forward'[current[r]][0] < key[r] => overtaken'[r]
    /\ seen' \in [Readers -> SUBSET Contents]
    /\ \A r \in Readers :
         \/ seen'[r] = seen[r]
         \/ \E c \in Contents : seen'[r] = seen[r] \cup {c}
    /\ \A r \in Readers : pc[r] # "idle" =>
         /\ contents'[key[r]] \in seen'[r]
         /\ key[r] \in Linked(0)' =>
              \A w \in DOMAIN NoCell : SeenWord(r, cell[key[r]], w)'

\* The pointer of a linked node.
LEMMA Pointer ==
  ASSUME LInv, NEW l \in Level, NEW n \in On(l)
  PROVE  /\ n \in Node /\ n \in Int /\ l \in DOMAIN forward[n]
         /\ forward[n][l] \in Linked(l) \cup {Nil}
         /\ forward[n][l] \in Key \cup {Nil}
         /\ forward[n][l] \in Int /\ forward[n][l] > n
<1>1. n \in Node /\ n \in Int /\ l \in DOMAIN forward[n]
  BY Numbers DEF On, Linked, LInv, Heights
<1>2. n \in Tall(l)
  BY <1>1 DEF Tall
<1>3. forward[n][l] \in Linked(l) \cup {Nil} /\ forward[n][l] > n
  BY <1>2 DEF LInv, Sorted
<1>4. (\A i \in Linked(l) : i \in Int /\ i \in Key) /\ Nil \in Int
  BY Numbers DEF Linked
<1> QED
  BY <1>1, <1>3, <1>4

\* A step of the writer leaves the readers right.
LEMMA WriterReaders ==
  ASSUME IInv, LInv', WriterEffect
  PROVE  /\ ReaderTypes'
         /\ \A r \in Readers : (Searching(r) /\ Watching(r) /\ Results(r))'
<1>1. UNCHANGED <<pc, key, current, level, result>>
  BY DEF WriterEffect, readers
<1>2. ReaderTypes'
  BY <1>1 DEF WriterEffect, IInv, ReaderTypes, Contents
<1>3. \A r \in Readers : Searching(r)'
  <2> SUFFICES ASSUME NEW r \in Readers
               PROVE
        /\ pc[r] # "idle" => key[r] \in Key
        /\ pc[r] \in {"test", "advance", "last"} =>
             current[r] \in On(level[r])' /\ current[r] < key[r]
        /\ pc[r] = "advance" => forward'[current[r]][level[r]] < key[r]
        /\ pc[r] = "last" =>
             /\ level[r] = 0
             /\ ~overtaken'[r] => forward'[current[r]][0] >= key[r]
        /\ pc[r] \in {"ptr", "len", "deleted"} =>
             current[r] = key[r] /\ key[r] \in Linked(0)'
    BY <1>1 DEF Searching
  <2>1. PICK l \in Level : l = level[r] /\ l = level'[r]
    BY <1>1 DEF IInv, ReaderTypes
  <2>0. 0 \in Level
    BY Numbers
  <2>2. /\ pc[r] # "idle" => key[r] \in Key
        /\ pc[r] \in {"test", "advance", "last"} =>
             current[r] \in On(level[r]) /\ current[r] < key[r]
        /\ pc[r] = "advance" => forward[current[r]][level[r]] < key[r]
        /\ pc[r] = "last" =>
             /\ level[r] = 0
             /\ ~overtaken[r] => forward[current[r]][0] >= key[r]
        /\ pc[r] \in {"ptr", "len", "deleted"} =>
             current[r] = key[r] /\ key[r] \in Linked(0)
    BY DEF IInv, Searching
  <2>3. \A i \in Level : /\ Linked(i) \subseteq Linked(i)'
                         /\ On(i) \subseteq On(i)'
    BY DEF WriterEffect, On
  <2>4. ASSUME pc[r] = "advance"
        PROVE  forward'[current[r]][level[r]] < key[r]
    <3>1. current[r] \in On(l) /\ key[r] \in Int
      BY <2>1, <2>2, <2>4, Numbers
    <3>2. PICK a, b : /\ a = forward[current[r]][l]
                      /\ b = forward'[current[r]][l]
      OBVIOUS
    <3>3. a \in Int /\ b \in Int
      <4>1. a \in Int
        BY <2>1, <3>1, <3>2, Pointer DEF IInv
      <4>2. b \in Key \cup {Nil}
        <5>1. current[r] \in On(l)'
          BY <1>1, <2>3, <3>1
        <5>2. current[r] \in Tall(l)'
          BY <1>1, <5>1, Numbers DEF On, Linked, LInv, Heights, Tall
        <5> QED
          BY <1>1, <3>2, <5>2 DEF LInv, Sorted, Linked
      <4> QED
        BY <4>1, <4>2, Numbers
    <3>4. b <= a /\ a < key[r]
      BY <2>1, <2>2, <2>4, <3>1, <3>2 DEF WriterEffect
    <3> QED
      BY <2>1, <3>1, <3>2, <3>3, <3>4
  <2>5. ASSUME pc[r] = "last", ~overtaken'[r]
        PROVE  forward'[current[r]][0] >= key[r]
    <3>1. current[r] \in On(0) /\ key[r] \in Int /\ ~overtaken[r]
      BY <2>2, <2>5, Numbers DEF WriterEffect
    <3>2. PICK a, b : a = forward[current[r]][0] /\ b = forward'[current[r]][0]
      OBVIOUS
    <3>3. b \in Int
      <4>1. current[r] \in On(0)'
        BY <1>1, <2>0, <2>3, <3>1
      <4>2. current[r] \in Tall(0)'
        BY <1>1, <4>1, <2>0, Numbers DEF On, Linked, LInv, Heights, Tall
      <4>3. b \in Key \cup {Nil}
        BY <1>1, <2>0, <3>2, <4>2 DEF LInv, Sorted, Linked
      <4> QED
        BY <4>3, Numbers
    <3>4. a >= key[r] /\ ~(b # a /\ b < key[r])
      BY <2>2, <2>5, <3>1, <3>2 DEF WriterEffect
    <3> QED
      BY <3>1, <3>2, <3>3, <3>4
  <2> QED
    BY <1>1, <2>0, <2>1, <2>2, <2>3, <2>4, <2>5
<1>4. \A r \in Readers : seen[r] \subseteq seen'[r]
  BY DEF WriterEffect
<1>5. \A r \in Readers : Watching(r)'
  <2>1. ASSUME NEW r \in Readers, pc[r] # "idle"
        PROVE  IsFiniteSet(seen'[r])
    <3>1. IsFiniteSet(seen[r])
      BY <2>1 DEF IInv, Watching
    <3>2. seen'[r] = seen[r] \/ \E c \in Contents : seen'[r] = seen[r] \cup {c}
      BY DEF WriterEffect
    <3> QED
      BY <3>1, <3>2, FS_AddElement
  <2> QED
    BY <1>1, <2>1 DEF WriterEffect, Watching
<1>6. ASSUME NEW r \in Readers, NEW c, NEW w, SeenWord(r, c, w)
      PROVE  \E s \in seen'[r] : s.found /\ s.cell[w] = c[w]
  BY <1>4, <1>6 DEF SeenWord
<1>7. \A r \in Readers : Results(r)'
  <2>1. \A r : Loaded(r)' = Loaded(r)
    BY <1>1 DEF Loaded
  <2> SUFFICES ASSUME NEW r \in Readers
               PROVE
        /\ pc[r] \in {"len", "deleted"} => result[r].found
        /\ result[r].found =>
             \A w \in Loaded(r) : SeenWord(r, result[r].cell, w)'
        /\ pc[r] = "done" /\ ~result[r].found /\ ~overtaken'[r] =>
             result[r] \in seen'[r]
        /\ pc[r] \in {"test", "advance", "last"} => result[r] = NotFound
    BY <1>1, <2>1 DEF Results, SeenWord
  <2>2. /\ pc[r] \in {"len", "deleted"} => result[r].found
        /\ pc[r] \in {"test", "advance", "last"} => result[r] = NotFound
        /\ pc[r] = "done" /\ ~result[r].found /\ ~overtaken[r] =>
             result[r] \in seen[r]
        /\ result[r].found =>
             \A w \in Loaded(r) : SeenWord(r, result[r].cell, w)
    BY DEF IInv, Results
  <2>3. ASSUME result[r].found, NEW w \in Loaded(r)
        PROVE  SeenWord(r, result[r].cell, w)'
    <3>1. SeenWord(r, result[r].cell, w)
      BY <2>2, <2>3
    <3> QED
      BY <1>1, <1>6, <3>1 DEF SeenWord
  <2>4. ~overtaken'[r] => ~overtaken[r]
    BY DEF WriterEffect
  <2> QED
    BY <1>4, <2>2, <2>3, <2>4
<1> QED
  BY <1>2, <1>3, <1>5, <1>7

\* Observe shows the new contents of a key to the readers that look for it.
LEMMA ObserveEffect ==
  ASSUME IInv, NEW k \in Key, NEW c \in Cell, Observe(k, Found(c))
  PROVE  /\ seen' \in [Readers -> SUBSET Contents]
         /\ \A r \in Readers :
              /\ \/ seen'[r] = seen[r]
                 \/ \E x \in Contents : seen'[r] = seen[r] \cup {x}
              /\ pc[r] # "idle" => contents'[key[r]] \in seen'[r]
              /\ pc[r] # "idle" /\ key[r] = k => Found(c) \in seen'[r]
<1> DEFINE f == Found(c)
<1>1. f \in Contents
  BY CellTypes DEF Contents
<1> HIDE DEF f
<1>2. /\ contents' = [contents EXCEPT ![k] = f]
      /\ seen' = [r \in Readers |->
                    IF pc[r] # "idle" /\ key[r] = k THEN seen[r] \cup {f}
                                                    ELSE seen[r]]
  BY DEF Observe, f
<1>3. \A r \in Readers : seen[r] \subseteq Contents
  BY DEF IInv, ReaderTypes, Contents
<1>4. ASSUME NEW r \in Readers, pc[r] # "idle"
      PROVE  contents'[key[r]] \in seen'[r]
  <2>1. key[r] \in Key /\ contents[key[r]] \in seen[r]
    BY <1>4 DEF IInv, Searching, Watching
  <2> QED
    BY <1>2, <1>4, <2>1 DEF IInv, LInv, ListTypes
<1>5. f = Found(c)
  BY DEF f
<1> QED
  BY <1>1, <1>2, <1>3, <1>4, <1>5

\* Pointers that stay are not lower.
LEMMA SamePointers ==
  ASSUME LInv, NEW l \in Level, NEW n \in On(l), forward'[n][l] = forward[n][l]
  PROVE  forward'[n][l] <= forward[n][l]
<1>1. PICK m : m = forward[n][l]
  OBVIOUS
<1>2. m \in Int
  BY <1>1, Pointer
<1> QED
  BY <1>1, <1>2

\* What a reader has seen of its key's words it has seen for good.
LEMMA StillSeen ==
  ASSUME IInv, NEW r \in Readers, pc[r] # "idle", key[r] \in Linked(0),
         seen[r] \subseteq seen'[r], key' = key,
         cell'[key[r]] = cell[key[r]]
  PROVE  \A w \in DOMAIN NoCell : SeenWord(r, cell[key[r]], w)'
<1> SUFFICES ASSUME NEW w \in DOMAIN NoCell
             PROVE  \E s \in seen'[r] : s.found /\ s.cell[w] = cell'[key[r]][w]
  BY DEF SeenWord
<1>1. PICK s \in seen[r] : s.found /\ s.cell[w] = cell[key[r]][w]
  BY DEF IInv, Watching, SeenWord
<1> QED
  BY <1>1

\* The effect of starting a write.
LEMMA InsertEffect ==
  ASSUME IInv, NEW k \in Key, NEW c \in Cell, Insert(k, c)
  PROVE  LInv' /\ WriterEffect
<1>1. /\ wpc = "idle" /\ wkey' = k /\ wcell' = c /\ update' = Update(k)
      /\ UNCHANGED readers /\ LInv /\ 0 \in Level
      /\ Overwrite(k, c) \/ \E h \in RandomLevels : NewNode(k, c, h)
  BY Numbers DEF Insert, IInv
<1>2. UNCHANGED <<pc, key, current, level, result>>
  BY <1>1 DEF readers
<1>3. /\ seen \in [Readers -> SUBSET Contents]
      /\ overtaken \in [Readers -> BOOLEAN]
  BY DEF IInv, ReaderTypes, Contents
<1>4. CASE Overwrite(k, c)
  <2>1. LInv' /\ \A l : Linked(l)' = Linked(l)
    BY <1>1, <1>4, OverwriteStep
  <2>2. UNCHANGED <<forward, cell, overtaken>> /\ Observe(k, Found(c))
    BY <1>4 DEF Overwrite, list
  <2>3. \A l \in Level : \A n \in On(l) : forward'[n][l] <= forward[n][l]
    BY <1>1, <2>2, SamePointers
  <2>4. /\ seen' \in [Readers -> SUBSET Contents]
        /\ \A r \in Readers :
             /\ \/ seen'[r] = seen[r]
                \/ \E x \in Contents : seen'[r] = seen[r] \cup {x}
             /\ pc[r] # "idle" => contents'[key[r]] \in seen'[r]
    BY <2>2, ObserveEffect
  <2>5. ASSUME NEW r \in Readers, pc[r] # "idle", key[r] \in Linked(0)
        PROVE  \A w \in DOMAIN NoCell : SeenWord(r, cell[key[r]], w)'
    BY <1>2, <2>2, <2>4, <2>5, StillSeen
  <2> QED
    BY <1>1, <1>2, <1>3, <2>1, <2>2, <2>3, <2>4, <2>5 DEF WriterEffect
<1>5. ASSUME NEW h \in RandomLevels, NewNode(k, c, h)
      PROVE  LInv' /\ WriterEffect
  <2>1. /\ LInv'
        /\ \A l \in Level : Linked(l)' = Linked(l)
        /\ \A l \in Level : \A n \in On(l) : forward'[n][l] = forward[n][l]
        /\ \A j \in Linked(0) : cell'[j] = cell[j]
    BY <1>1, <1>5, NewNodeStep
  <2>2. UNCHANGED <<contents, seen, overtaken>>
    BY <1>5 DEF NewNode
  <2>3. \A l \in Level : \A n \in On(l) : forward'[n][l] <= forward[n][l]
    BY <1>1, <2>1, SamePointers
  <2>4. ASSUME NEW r \in Readers, pc[r] # "idle"
        PROVE  /\ contents'[key[r]] \in seen'[r]
               /\ key[r] \in Linked(0) =>
                    \A w \in DOMAIN NoCell : SeenWord(r, cell[key[r]], w)'
    <3>1. contents'[key[r]] \in seen'[r]
      BY <2>2, <2>4 DEF IInv, Watching
    <3> QED
      BY <1>2, <2>1, <2>2, <2>4, <3>1, StillSeen
  <2> QED
    BY <1>1, <1>2, <1>3, <2>1, <2>2, <2>3, <2>4 DEF WriterEffect
<1> QED
  BY <1>1, <1>4, <1>5

\* The effect of setting the new node's pointer, which no reader can see.
LEMMA SetForwardEffect ==
  ASSUME IInv, SetForward
  PROVE  LInv' /\ WriterEffect
<1>1. LInv /\ 0 \in Level
  BY Numbers DEF IInv
<1>2. /\ LInv'
      /\ \A l \in Level : Linked(l)' = Linked(l)
      /\ \A l \in Level : \A n \in On(l) : forward'[n][l] = forward[n][l]
  BY <1>1, SetForwardStep
<1>3. UNCHANGED <<cell, contents, seen, overtaken, readers, key>>
  BY DEF SetForward, history, readers
<1>4. \A l \in Level : \A n \in On(l) : forward'[n][l] <= forward[n][l]
  BY <1>1, <1>2, SamePointers
<1>5. /\ seen \in [Readers -> SUBSET Contents]
      /\ overtaken \in [Readers -> BOOLEAN]
  BY DEF IInv, ReaderTypes, Contents
<1>6. ASSUME NEW r \in Readers, pc[r] # "idle"
      PROVE  /\ contents'[key[r]] \in seen'[r]
             /\ key[r] \in Linked(0) =>
                  \A w \in DOMAIN NoCell : SeenWord(r, cell[key[r]], w)'
  <2>1. contents'[key[r]] \in seen'[r]
    BY <1>3, <1>6 DEF IInv, Watching
  <2> QED
    BY <1>3, <1>6, <2>1, StillSeen
<1> QED
  BY <1>1, <1>2, <1>3, <1>4, <1>5, <1>6 DEF WriterEffect

\* The effect of linking the new node on a level.
LEMMA LinkNodeEffect ==
  ASSUME IInv, LinkNode
  PROVE  LInv' /\ WriterEffect
<1>1. LInv /\ 0 \in Level
  BY Numbers DEF IInv
<1>2. /\ LInv'
      /\ \A l \in Level : Linked(l)' = IF l = wlevel THEN Linked(l) \cup {wkey}
                                         ELSE Linked(l)
      /\ wkey \in Key /\ cell[wkey] = wcell
      /\ \A l \in Level : \A n \in On(l) :
           \/ forward'[n][l] = forward[n][l]
           \/ /\ l = wlevel /\ n = update[l]
              /\ forward'[n][l] = wkey /\ forward[n][l] > wkey
  BY <1>1, LinkNodeStep
<1>3. /\ UNCHANGED <<cell, readers, pc, key, wkey>>
      /\ wlevel = 0 => /\ Observe(wkey, Found(wcell))
                       /\ overtaken' = [r \in Readers |->
                                          \/ overtaken[r]
                                          \/ /\ pc[r] = "last"
                                             /\ current[r] = update[0]
                                             /\ wkey < key[r]]
      /\ wlevel # 0 => UNCHANGED <<contents, seen, overtaken>>
  BY DEF LinkNode, readers
<1>4. ASSUME NEW l \in Level, NEW n \in On(l)
      PROVE  forward'[n][l] <= forward[n][l]
  <2>1. CASE forward'[n][l] = forward[n][l]
    BY <1>1, <2>1, SamePointers
  <2>2. CASE forward'[n][l] = wkey /\ forward[n][l] > wkey
    <3>1. PICK m : m = forward[n][l]
      OBVIOUS
    <3>2. m \in Int /\ wkey \in Int
      BY <1>1, <1>2, <3>1, Pointer, Numbers
    <3> QED
      BY <2>2, <3>1, <3>2
  <2> QED
    BY <1>2, <2>1, <2>2
<1>5. /\ seen \in [Readers -> SUBSET Contents]
      /\ overtaken \in [Readers -> BOOLEAN]
  BY DEF IInv, ReaderTypes, Contents
<1>6. wcell \in Cell
  BY DEF IInv, LInv, ListTypes
<1>7. /\ seen' \in [Readers -> SUBSET Contents]
      /\ \A r \in Readers :
           /\ \/ seen'[r] = seen[r]
              \/ \E x \in Contents : seen'[r] = seen[r] \cup {x}
           /\ pc[r] # "idle" => contents'[key[r]] \in seen'[r]
           /\ wlevel = 0 /\ pc[r] # "idle" /\ key[r] = wkey =>
                Found(wcell) \in seen'[r]
  <2>1. CASE wlevel = 0
    BY <1>2, <1>3, <1>6, <2>1, ObserveEffect
  <2>2. CASE wlevel # 0
    BY <1>3, <1>5, <2>2 DEF IInv, Watching
  <2> QED
    BY <2>1, <2>2
<1>8. overtaken' \in [Readers -> BOOLEAN]
  BY <1>3, <1>5
<1>9. ASSUME NEW r \in Readers
      PROVE  /\ overtaken[r] => overtaken'[r]
             /\ pc[r] = "last" /\ current[r] \in On(0)
                  /\ forward'[current[r]][0] # forward[current[r]][0]
                  /\ forward'[current[r]][0] < key[r] => overtaken'[r]
  <2>1. CASE wlevel # 0
    BY <1>1, <1>2, <1>3, <2>1
  <2>2. CASE wlevel = 0
    <3>1. overtaken'[r] = (\/ overtaken[r]
                           \/ /\ pc[r] = "last"
                              /\ current[r] = update[0]
                              /\ wkey < key[r])
      BY <1>3, <2>2
    <3>2. ASSUME current[r] \in On(0),
                 forward'[current[r]][0] # forward[current[r]][0]
          PROVE  current[r] = update[0] /\ forward'[current[r]][0] = wkey
      BY <1>1, <1>2, <3>2
    <3> QED
      BY <3>1, <3>2
  <2> QED
    BY <2>1, <2>2
<1>10. ASSUME NEW r \in Readers, pc[r] # "idle", key[r] \in Linked(0)'
       PROVE  \A w \in DOMAIN NoCell : SeenWord(r, cell[key[r]], w)'
  <2>1. CASE key[r] \in Linked(0)
    BY <1>3, <1>7, <1>10, <2>1, StillSeen
  <2>2. CASE key[r] \notin Linked(0)
    <3>1. wlevel = 0 /\ key[r] = wkey
      BY <1>1, <1>2, <1>10, <2>2
    <3>2. Found(wcell) \in seen'[r] /\ cell'[key'[r]] = wcell
      BY <1>2, <1>3, <1>7, <1>10, <3>1
    <3>3. Found(wcell).found /\ Found(wcell).cell = wcell
      BY CellTypes
    <3>4. PICK s \in seen'[r] : s.found /\ s.cell = wcell
      BY <3>2, <3>3
    <3> QED
      BY <3>2, <3>4 DEF SeenWord
  <2> QED
    BY <2>1, <2>2
<1>11. \A l \in Level : Linked(l) \subseteq Linked(l)'
  BY <1>2
<1>12. \A r \in Readers : pc[r] # "idle" =>
         /\ contents'[key[r]] \in seen'[r]
         /\ key[r] \in Linked(0)' =>
              \A w \in DOMAIN NoCell : SeenWord(r, cell[key[r]], w)'
  BY <1>7, <1>10
<1> QED
  BY <1>2, <1>3, <1>4, <1>7, <1>8, <1>9, <1>11, <1>12 DEF WriterEffect

\* The effect of storing a word: the words of a key are those of contents that
\* its readers have seen.
LEMMA StoreEffect ==
  ASSUME IInv, Store
  PROVE  LInv' /\ WriterEffect
<1>1. LInv /\ 0 \in Level
  BY Numbers DEF IInv
<1>2. /\ LInv'
      /\ UNCHANGED <<forward, wkey, contents>>
      /\ \A l : Linked(l)' = Linked(l)
      /\ wkey \in Linked(0) /\ contents[wkey] = Found(wcell)
      /\ \A k \in Key \ {wkey} : cell'[k] = cell[k]
      /\ \A w \in DOMAIN NoCell : \/ cell'[wkey][w] = cell[wkey][w]
                                  \/ cell'[wkey][w] = wcell[w]
  BY <1>1, StoreStep
<1>3. UNCHANGED <<readers, key, seen, overtaken>>
  BY DEF Store, StoreWord, readers, history
<1>4. \A l \in Level : \A n \in On(l) : forward'[n][l] <= forward[n][l]
  BY <1>1, <1>2, SamePointers
<1>5. /\ seen \in [Readers -> SUBSET Contents]
      /\ overtaken \in [Readers -> BOOLEAN]
  BY DEF IInv, ReaderTypes, Contents
<1>6. ASSUME NEW r \in Readers, pc[r] # "idle"
      PROVE  contents[key[r]] \in seen[r]
  BY <1>6 DEF IInv, Watching
<1>7. ASSUME NEW r \in Readers, pc[r] # "idle", key[r] \in Linked(0)
      PROVE  \A w \in DOMAIN NoCell : SeenWord(r, cell[key[r]], w)'
  <2>1. CASE key[r] # wkey
    <3>1. cell'[key[r]] = cell[key[r]]
      BY <1>2, <1>7, <2>1 DEF Linked
    <3> QED
      BY <1>3, <1>7, <3>1, StillSeen
  <2>2. CASE key[r] = wkey
    <3> SUFFICES ASSUME NEW w \in DOMAIN NoCell
                 PROVE  \E s \in seen[r] : s.found /\ s.cell[w] = cell'[wkey][w]
      BY <1>3, <2>2 DEF SeenWord
    <3>1. CASE cell'[wkey][w] = cell[wkey][w]
      BY <1>7, <2>2, <3>1 DEF IInv, Watching, SeenWord
    <3>2. CASE cell'[wkey][w] = wcell[w]
      <4>1. Found(wcell) \in seen[r]
        BY <1>2, <1>6, <1>7, <2>2
      <4>2. Found(wcell).found /\ Found(wcell).cell = wcell
        BY CellTypes
      <4> QED
        BY <3>2, <4>1, <4>2
    <3> QED
      BY <1>2, <3>1, <3>2
  <2> QED
    BY <2>1, <2>2
<1>8. \A r \in Readers : pc[r] # "idle" =>
         /\ contents'[key[r]] \in seen'[r]
         /\ key[r] \in Linked(0)' =>
              \A w \in DOMAIN NoCell : SeenWord(r, cell[key[r]], w)'
  BY <1>2, <1>3, <1>6, <1>7
<1> QED
  BY <1>1, <1>2, <1>3, <1>4, <1>5, <1>8 DEF WriterEffect

\* Every step of the writer.
LEMMA WriterStep ==
  ASSUME IInv, Put \/ Delete \/ SetForward \/ LinkNode \/ Store
  PROVE  IInv'
<1>1. LInv' /\ WriterEffect
  <2>1. CASE Put
    <3>1. PICK k \in Key, v \in Value : Insert(k, ValueCell(v))
      BY <2>1 DEF Put
    <3>2. ValueCell(v) \in Cell
      BY CellTypes
    <3> QED
      BY <3>1, <3>2, InsertEffect
  <2>2. CASE Delete
    <3>1. PICK k \in Key : Insert(k, TombstoneCell)
      BY <2>2 DEF Delete
    <3> QED
      BY <3>1, CellTypes, InsertEffect
  <2> QED
    BY <2>1, <2>2, SetForwardEffect, LinkNodeEffect, StoreEffect
<1> QED
  BY <1>1, WriterReaders DEF IInv

\* A step of reader r leaves the list, the writer and the other readers alone.
LEMMA ReaderStep ==
  ASSUME IInv, UNCHANGED <<list, writer, contents>>, NEW r \in Readers,
         ReaderTypes', (Searching(r) /\ Watching(r) /\ Results(r))',
         \A q \in Readers \ {r} :
           /\ pc'[q] = pc[q] /\ key'[q] = key[q] /\ current'[q] = current[q]
           /\ level'[q] = level[q] /\ result'[q] = result[q]
           /\ seen'[q] = seen[q] /\ overtaken'[q] = overtaken[q]
  PROVE  IInv'
<1>1. /\ UNCHANGED <<forward, cell, currTopLevel, wpc, wkey, wcell, update>>
      /\ UNCHANGED <<wlevel, contents>>
  BY DEF list, writer
<1>2. /\ Inserting' = Inserting /\ Overwriting' = Overwriting
      /\ \A l : Tall(l)' = Tall(l) /\ Linked(l)' = Linked(l) /\ On(l)' = On(l)
  BY <1>1 DEF Inserting, Overwriting, Tall, Linked, On
<1>3. ListTypes' /\ Heights' /\ Sorted'
  BY <1>1, <1>2 DEF IInv, LInv, ListTypes, Heights, Sorted
<1>4. Place' /\ Stored' /\ Held'
  BY <1>1, <1>2 DEF IInv, LInv, Place, Stored, Held
<1>5. ASSUME NEW q \in Readers \ {r}
      PROVE  (Searching(q) /\ Watching(q) /\ Results(q))'
  <2>1. Searching(q) /\ Watching(q) /\ Results(q)
    BY DEF IInv
  <2>2. /\ pc'[q] = pc[q] /\ key'[q] = key[q] /\ current'[q] = current[q]
        /\ level'[q] = level[q] /\ result'[q] = result[q]
        /\ seen'[q] = seen[q] /\ overtaken'[q] = overtaken[q]
    OBVIOUS
  <2>3. PICK l : l = level[q]
    OBVIOUS
  <2>4. On(level[q])' = On(level[q])
    <3>1. On(level[q])' = On(l)'
      BY <1>1, <2>2, <2>3 DEF On, Linked, Inserting
    <3> QED
      BY <1>2, <2>3, <3>1
  <2>5. Searching(q)'
    BY <1>1, <1>2, <2>1, <2>2, <2>4 DEF Searching
  <2>6. Watching(q)'
    BY <1>1, <1>2, <2>1, <2>2 DEF Watching, SeenWord
  <2>7. Loaded(q)' = Loaded(q)
    BY <2>2 DEF Loaded
  <2>8. Results(q)'
    BY <2>1, <2>2, <2>7 DEF Results, SeenWord
  <2> QED
    BY <2>5, <2>6, <2>8
<1> QED
  BY <1>3, <1>4, <1>5 DEF IInv, LInv

\* A Lookup starts: the contents of its key are those it sees first.
LEMMA LookupStep ==
  ASSUME IInv, NEW r \in Readers, Lookup(r)
  PROVE  IInv'
<1>1. PICK k \in Key :
        /\ key' = [key EXCEPT ![r] = k]
        /\ seen' = [seen EXCEPT ![r] =
                      {contents[k]} \cup
                      IF wpc \in {"ptr", "len", "deleted"} /\ wkey = k
                        THEN {Found(cell[k])} ELSE {}]
  BY DEF Lookup
<1> DEFINE more == IF wpc \in {"ptr", "len", "deleted"} /\ wkey = k
                     THEN {Found(cell[k])} ELSE {}
<1>2. /\ UNCHANGED <<list, writer, contents, forward, cell, wpc, wkey, wlevel>>
      /\ current' = [current EXCEPT ![r] = Head]
      /\ level' = [level EXCEPT ![r] = currTopLevel - 1]
      /\ result' = [result EXCEPT ![r] = NotFound]
      /\ overtaken' = [overtaken EXCEPT ![r] = FALSE]
      /\ pc' = [pc EXCEPT ![r] = "test"]
  BY DEF Lookup, Goto, list, writer
<1>3. k \in Node /\ k \in Int /\ k > Head /\ Head \in Node /\ Head \in Int
  BY Numbers
<1>4. ReaderTypes /\ LInv
  BY DEF IInv
<1>5. contents[k] \in Contents /\ more \subseteq Contents
  <2>1. contents[k] \in Contents
    BY <1>4 DEF LInv, ListTypes, Contents
  <2>2. Found(cell[k]) \in Contents
    BY <1>3, <1>4, CellTypes DEF LInv, ListTypes, Contents
  <2> QED
    BY <2>1, <2>2
<1>6. /\ pc'[r] = "test" /\ key'[r] = k /\ current'[r] = Head
      /\ level'[r] = currTopLevel - 1 /\ result'[r] = NotFound
      /\ seen'[r] = {contents[k]} \cup more /\ ~overtaken'[r]
  BY <1>1, <1>2, <1>4 DEF ReaderTypes
<1>7. currTopLevel - 1 \in Level
  <2>1. currTopLevel \in 1..MaxLevel
    BY <1>4 DEF LInv, ListTypes
  <2> QED
    BY <2>1, Numbers
<1>8. ReaderTypes'
  <2>1. seen' \in [Readers -> SUBSET Contents]
    <3> HIDE DEF more
    <3>1. seen' = [seen EXCEPT ![r] = {contents[k]} \cup more]
      BY <1>1 DEF more
    <3> QED
      BY <1>4, <1>5, <3>1 DEF ReaderTypes, Contents
  <2>2. /\ pc' \in [Readers -> {"idle", "test", "advance", "last", "ptr", "len",
                                "deleted", "done"}]
        /\ key' \in [Readers -> Node]
        /\ current' \in [Readers -> Node \cup {Nil}]
        /\ level' \in [Readers -> Level]
        /\ overtaken' \in [Readers -> BOOLEAN]
    BY <1>1, <1>2, <1>3, <1>4, <1>7 DEF ReaderTypes
  <2>3. result' \in [Readers -> [found : BOOLEAN, cell : Cell]]
    BY <1>2, <1>4, CellTypes DEF ReaderTypes
  <2> QED
    BY <2>1, <2>2, <2>3 DEF ReaderTypes, Contents
<1>9. Searching(r)'
  BY <1>3, <1>6 DEF Searching, On
<1>10. Watching(r)'
  <2>1. IsFiniteSet(seen'[r])
    <3>1. IsFiniteSet(more)
      BY FS_EmptySet, FS_Singleton
    <3>2. seen'[r] = more \cup {contents[k]}
      BY <1>6
    <3> HIDE DEF more
    <3> QED
      BY <3>1, <3>2, FS_AddElement
  <2>2. ASSUME k \in Linked(0), NEW w \in DOMAIN NoCell
        PROVE  \E s \in seen'[r] : s.found /\ s.cell[w] = cell[k][w]
    <3>1. Found(cell[k]) \in seen'[r]
      <4>1. CASE Overwriting /\ k = wkey
        BY <1>6, <4>1 DEF Overwriting
      <4>2. CASE ~(Overwriting /\ k = wkey)
        BY <1>4, <1>6, <2>2, <4>2 DEF LInv, Held
      <4> QED
        BY <4>1, <4>2
    <3>2. Found(cell[k]).found /\ Found(cell[k]).cell = cell[k]
      BY CellTypes
    <3> QED
      BY <3>1, <3>2
  <2>3. Linked(0)' = Linked(0)
    BY <1>2 DEF Linked, Inserting
  <2> QED
    BY <1>2, <1>6, <2>1, <2>2, <2>3 DEF Watching, SeenWord
<1>11. Results(r)'
  BY <1>6, CellTypes DEF Results
<1>12. \A q \in Readers \ {r} :
         /\ pc'[q] = pc[q] /\ key'[q] = key[q] /\ current'[q] = current[q]
         /\ level'[q] = level[q] /\ result'[q] = result[q]
         /\ seen'[q] = seen[q] /\ overtaken'[q] = overtaken[q]
  BY <1>1, <1>2, <1>4 DEF ReaderTypes
<1> QED
  BY <1>2, <1>8, <1>9, <1>10, <1>11, <1>12, ReaderStep

\* The condition of Search's loop.
LEMMA TestStep ==
  ASSUME IInv, NEW r \in Readers, Test(r)
  PROVE  IInv'
<1>1. PICK l, m :
        l \in Level /\ l = level[r] /\ m = forward[current[r]][l]
  BY DEF IInv, ReaderTypes
<1> l \in Level
  BY <1>1
<1>2. /\ UNCHANGED <<list, writer, contents, forward, cell, wpc, wkey, wlevel>>
      /\ UNCHANGED <<key, current, result, seen, overtaken>>
      /\ pc[r] = "test"
  BY DEF Test, list, writer, history
<1>3. \/ /\ m # Nil /\ m < key[r]
         /\ pc' = [pc EXCEPT ![r] = "advance"] /\ level' = level
      \/ /\ m = Nil \/ m >= key[r]
         /\ l = 0
         /\ pc' = [pc EXCEPT ![r] = "last"] /\ level' = level
      \/ /\ m = Nil \/ m >= key[r]
         /\ l # 0
         /\ level' = [level EXCEPT ![r] = l - 1] /\ pc' = pc
  BY <1>1 DEF Test, Goto
<1>4. ReaderTypes /\ LInv /\ Searching(r) /\ Watching(r) /\ Results(r)
  BY DEF IInv
<1>5. current[r] \in On(l) /\ current[r] < key[r] /\ key[r] \in Key
  BY <1>1, <1>2, <1>4 DEF Searching
<1>6. m \in Int /\ key[r] \in Int /\ (m = Nil => m >= key[r])
  BY <1>1, <1>4, <1>5, Pointer, Numbers
<1>7. l \in Int /\ (l # 0 => l - 1 \in Level)
  BY Numbers
<1>8. \A i : Linked(i)' = Linked(i) /\ On(i)' = On(i)
  BY <1>2 DEF Linked, On, Inserting
<1>9. ReaderTypes'
  BY <1>2, <1>3, <1>4, <1>7 DEF ReaderTypes
<1>10. \A q \in Readers \ {r} : pc'[q] = pc[q] /\ level'[q] = level[q]
  BY <1>3, <1>4 DEF ReaderTypes
<1>11. \/ m < key[r] /\ pc'[r] = "advance" /\ level'[r] = l
       \/ m >= key[r] /\ pc'[r] = "last" /\ level'[r] = l /\ l = 0
       \/ pc'[r] = "test" /\ l # 0 /\ level'[r] = l - 1
  BY <1>1, <1>2, <1>3, <1>4, <1>6 DEF ReaderTypes
<1>12. Searching(r)'
  <2>1. PICK i \in Level : i = level'[r] /\ i <= l
    BY <1>1, <1>7, <1>11
  <2>2. current[r] \in On(i)
    BY <1>4, <1>5, <2>1, LevelsNested
  <2>3. On(level[r])' = On(i)'
    BY <2>1 DEF On, Linked, Inserting
  <2>4. current'[r] \in On(level[r])'
    BY <1>2, <1>8, <2>2, <2>3
  <2> QED
    BY <1>1, <1>2, <1>5, <1>11, <2>4 DEF Searching
<1>13. Watching(r)'
  BY <1>2, <1>4, <1>8, <1>11 DEF Watching, SeenWord
<1>14. Results(r)'
  <2>1. result'[r] = NotFound
    BY <1>2, <1>4 DEF Results
  <2> QED
    BY <1>11, <2>1, CellTypes DEF Results
<1> QED
  BY <1>2, <1>9, <1>10, <1>12, <1>13, <1>14, ReaderStep

\* The body of Search's loop.
LEMMA AdvanceStep ==
  ASSUME IInv, NEW r \in Readers, Advance(r)
  PROVE  IInv'
<1>1. PICK l, m :
        l \in Level /\ l = level[r] /\ m = forward[current[r]][l]
  BY DEF IInv, ReaderTypes
<1> l \in Level
  BY <1>1
<1>2. /\ UNCHANGED <<list, writer, contents, forward, cell, wpc, wkey, wlevel>>
      /\ UNCHANGED <<key, level, result, seen, overtaken>>
      /\ pc[r] = "advance"
      /\ current' = [current EXCEPT ![r] = m]
      /\ pc' = [pc EXCEPT ![r] = "test"]
  BY <1>1 DEF Advance, Goto, list, writer, history
<1>3. ReaderTypes /\ LInv /\ Searching(r) /\ Watching(r) /\ Results(r)
  BY DEF IInv
<1>4. current[r] \in On(l) /\ m < key[r] /\ key[r] \in Key
  BY <1>1, <1>2, <1>3 DEF Searching
<1>5. m \in Linked(l) \cup {Nil} /\ m \in Key \cup {Nil}
  BY <1>1, <1>3, <1>4, Pointer
<1>6. m \in On(l) /\ m \in Node
  BY <1>4, <1>5, Numbers DEF On
<1>7. ReaderTypes'
  BY <1>2, <1>3, <1>6 DEF ReaderTypes
<1>8. pc'[r] = "test" /\ current'[r] = m
  BY <1>2, <1>3 DEF ReaderTypes
<1>9. \A q \in Readers \ {r} : pc'[q] = pc[q] /\ current'[q] = current[q]
  BY <1>2, <1>3 DEF ReaderTypes
<1>10. Linked(0)' = Linked(0) /\ On(l)' = On(l)
  BY <1>2 DEF Linked, On, Inserting
<1>11. Searching(r)'
  <2>1. On(level[r])' = On(l)'
    BY <1>1, <1>2 DEF On, Linked, Inserting
  <2> QED
    BY <1>2, <1>4, <1>6, <1>8, <1>10, <2>1 DEF Searching
<1>12. Watching(r)'
  BY <1>2, <1>3, <1>8, <1>10 DEF Watching, SeenWord
<1>13. Results(r)'
  <2>1. result'[r] = NotFound
    BY <1>2, <1>3 DEF Results
  <2> QED
    BY <1>8, <2>1, CellTypes DEF Results
<1> QED
  BY <1>2, <1>7, <1>9, <1>11, <1>12, <1>13, ReaderStep

\* The last load: a reader that is not overtaken misses its key only if the
\* key is not there.
LEMMA LastStep ==
  ASSUME IInv, NEW r \in Readers, Last(r)
  PROVE  IInv'
<1>1. PICK m : m = forward[current[r]][0]
  OBVIOUS
<1>2. /\ UNCHANGED <<list, writer, contents, forward, cell, wpc, wkey, wlevel>>
      /\ UNCHANGED <<key, level, result, seen, overtaken>>
      /\ pc[r] = "last"
      /\ current' = [current EXCEPT ![r] = m]
  BY <1>1 DEF Last, list, writer, history
<1>3. ReaderTypes /\ LInv /\ Searching(r) /\ Watching(r) /\ Results(r)
  BY DEF IInv
<1>4. current'[r] = m /\ \A q \in Readers \ {r} : current'[q] = current[q]
  BY <1>2, <1>3 DEF ReaderTypes
<1>5. pc' = [pc EXCEPT ![r] = IF m = key[r] THEN "ptr" ELSE "done"]
  BY <1>4 DEF Last, Goto
<1>6. /\ current[r] \in On(0) /\ current[r] < key[r] /\ key[r] \in Key
      /\ ~overtaken[r] => m >= key[r]
      /\ 0 \in Level
  BY <1>1, <1>2, <1>3, Numbers DEF Searching
<1>7. m \in Linked(0) \cup {Nil} /\ m \in Key \cup {Nil} /\ m \in Int
  BY <1>1, <1>3, <1>6, Pointer
<1>8. ReaderTypes'
  <2>1. m \in Node \cup {Nil}
    BY <1>7, Numbers
  <2> QED
    BY <1>2, <1>3, <1>5, <2>1 DEF ReaderTypes
<1>9. /\ pc'[r] = IF m = key[r] THEN "ptr" ELSE "done"
      /\ \A q \in Readers \ {r} : pc'[q] = pc[q]
  BY <1>3, <1>5 DEF ReaderTypes
<1>10. Linked(0)' = Linked(0)
  BY <1>2 DEF Linked, Inserting
<1>11. Searching(r)'
  <2>1. m = key[r] => m \in Linked(0)
    BY <1>6, <1>7, Numbers
  <2> QED
    BY <1>2, <1>4, <1>6, <1>9, <1>10, <2>1 DEF Searching
<1>12. Watching(r)'
  BY <1>2, <1>3, <1>9, <1>10 DEF Watching, SeenWord
<1>13. Results(r)'
  <2>1. result'[r] = NotFound /\ ~NotFound.found
    BY <1>2, <1>3, CellTypes DEF Results
  <2>2. ASSUME m # key[r], ~overtaken[r]
        PROVE  NotFound \in seen[r]
    <3>1. m > key[r]
      BY <1>6, <1>7, <2>2, Numbers
    <3>2. key[r] \notin Linked(0)
      <4> SUFFICES ASSUME key[r] \in Linked(0) PROVE FALSE
        OBVIOUS
      <4>1. \A i \in On(0), j \in Linked(0) : j > i => j >= forward[i][0]
        BY <1>3, <1>6 DEF LInv, Sorted
      <4>2. key[r] > current[r] => key[r] >= m
        BY <1>1, <1>6, <4>1
      <4>3. current[r] \in Int /\ key[r] \in Int
        BY <1>3, <1>6, Pointer, Numbers
      <4> QED
        BY <1>6, <1>7, <3>1, <4>2, <4>3
    <3>3. contents[key[r]] = NotFound
      BY <1>3, <1>6, <3>2 DEF LInv, Held
    <3> QED
      BY <1>2, <1>3, <3>3 DEF Watching
  <2> QED
    BY <1>2, <1>9, <2>1, <2>2 DEF Results
<1> QED
  BY <1>2, <1>4, <1>8, <1>9, <1>11, <1>12, <1>13, ReaderStep

\* The load of a word: one that the key had during the call.
LEMMA LoadStep ==
  ASSUME IInv, NEW r \in Readers, Load(r)
  PROVE  IInv'
<1> DEFINE after(a) == IF a = "ptr" THEN "len"
                       ELSE IF a = "len" THEN "deleted" ELSE "done"
<1>1. PICK at \in {"ptr", "len", "deleted"} : LoadWord(r, at, after(at))
  BY DEF Load
<1> DEFINE next == after(at)
           old == result[r].cell
           new == [old EXCEPT ![at] = cell[current[r]][at]]
<1>2. /\ UNCHANGED <<list, writer, contents, forward, cell, wpc, wkey, wlevel>>
      /\ UNCHANGED <<key, current, level, seen, overtaken>>
      /\ pc[r] = at
      /\ result' = [result EXCEPT ![r] = Found(new)]
      /\ pc' = [pc EXCEPT ![r] = next]
  BY <1>1 DEF LoadWord, Goto, list, writer, history
<1>3. \/ at = "ptr" /\ next = "len"
      \/ at = "len" /\ next = "deleted"
      \/ at = "deleted" /\ next = "done"
  OBVIOUS
<1> HIDE DEF after, next
<1>4. ReaderTypes /\ LInv /\ Searching(r) /\ Watching(r) /\ Results(r)
  BY DEF IInv
<1>5. current[r] = key[r] /\ key[r] \in Linked(0) /\ key[r] \in Key
      /\ key[r] \in Node
  BY <1>2, <1>4, Numbers DEF Searching, Linked
<1>6. /\ old \in Cell /\ cell[key[r]] \in Cell
      /\ DOMAIN NoCell = {"ptr", "len", "deleted"}
  BY <1>4, <1>5 DEF ReaderTypes, LInv, ListTypes, NoCell
<1>7. /\ new \in Cell
      /\ \A w \in DOMAIN NoCell : new[w] = IF w = at THEN cell[key[r]][w]
                                           ELSE old[w]
  <2> HIDE DEF old
  <2> QED
    BY <1>5, <1>6 DEF Cell
<1> HIDE DEF new, old
<1>8. ReaderTypes'
  <2>1. Found(new) \in [found : BOOLEAN, cell : Cell]
    BY <1>7, CellTypes
  <2> QED
    BY <1>2, <1>3, <1>4, <2>1 DEF ReaderTypes
<1>9. pc'[r] = next /\ result'[r] = Found(new)
  BY <1>2, <1>4 DEF ReaderTypes
<1>10. \A q \in Readers \ {r} : pc'[q] = pc[q] /\ result'[q] = result[q]
  BY <1>2, <1>4 DEF ReaderTypes
<1>11. Linked(0)' = Linked(0)
  BY <1>2 DEF Linked, Inserting
<1>12. Searching(r)'
  BY <1>2, <1>3, <1>5, <1>9, <1>11 DEF Searching
<1>13. Watching(r)'
  BY <1>2, <1>4, <1>3, <1>9, <1>11 DEF Watching, SeenWord
<1>14. Results(r)'
  <2>1. Found(new).found /\ Found(new).cell = new
    BY CellTypes
  <2>2. /\ pc[r] \in {"len", "deleted"} => result[r].found
        /\ result[r].found => \A w \in Loaded(r) : SeenWord(r, old, w)
        /\ \A w \in DOMAIN NoCell : SeenWord(r, cell[key[r]], w)
    BY <1>2, <1>4, <1>5 DEF Results, Watching, old
  <2>3. Loaded(r)' = Loaded(r) \cup {at} /\ Loaded(r)' \subseteq DOMAIN NoCell
    BY <1>2, <1>3, <1>6, <1>9 DEF Loaded
  <2>4. at = "ptr" => Loaded(r) = {}
    BY <1>2 DEF Loaded
  <2>5. ASSUME NEW w \in Loaded(r)'
        PROVE  \E s \in seen[r] : s.found /\ s.cell[w] = new[w]
    <3>1. w \in DOMAIN NoCell
      BY <2>3
    <3>2. CASE w = at
      BY <1>7, <2>2, <3>1, <3>2 DEF SeenWord
    <3>3. CASE w # at
      <4>1. w \in Loaded(r) /\ at # "ptr"
        BY <2>3, <2>4, <3>3
      <4>2. SeenWord(r, old, w)
        BY <1>2, <2>2, <4>1
      <4> QED
        BY <1>7, <3>1, <3>3, <4>2 DEF SeenWord
    <3> QED
      BY <3>2, <3>3
  <2>6. /\ result'[r].found /\ result'[r].cell = new /\ seen' = seen
        /\ pc'[r] \in {"len", "deleted", "done"}
    BY <1>2, <1>3, <1>9, <2>1
  <2> QED
    BY <2>5, <2>6 DEF Results, SeenWord
<1> QED
  BY <1>2, <1>8, <1>10, <1>12, <1>13, <1>14, ReaderStep

\* The Lookup returns.
LEMMA ReturnStep ==
  ASSUME IInv, NEW r \in Readers, Return(r)
  PROVE  IInv'
<1>1. /\ UNCHANGED <<list, writer, contents, level>>
      /\ pc' = [pc EXCEPT ![r] = "idle"]
      /\ key' = [key EXCEPT ![r] = Head]
      /\ current' = [current EXCEPT ![r] = Head]
      /\ result' = [result EXCEPT ![r] = NotFound]
      /\ seen' = [seen EXCEPT ![r] = {}]
      /\ overtaken' = [overtaken EXCEPT ![r] = FALSE]
  BY DEF Return, Goto
<1>2. ReaderTypes
  BY DEF IInv
<1>3. ReaderTypes'
  <2>1. /\ pc' \in [Readers -> {"idle", "test", "advance", "last", "ptr", "len",
                                "deleted", "done"}]
        /\ key' \in [Readers -> Node]
        /\ current' \in [Readers -> Node \cup {Nil}]
        /\ level' \in [Readers -> Level]
        /\ overtaken' \in [Readers -> BOOLEAN]
    BY <1>1, <1>2, Numbers DEF ReaderTypes
  <2>2. /\ result' \in [Readers -> [found : BOOLEAN, cell : Cell]]
        /\ seen' \in [Readers -> SUBSET [found : BOOLEAN, cell : Cell]]
    BY <1>1, <1>2, CellTypes DEF ReaderTypes
  <2> QED
    BY <2>1, <2>2 DEF ReaderTypes
<1>4. pc'[r] = "idle" /\ result'[r] = NotFound
  BY <1>1, <1>2 DEF ReaderTypes
<1>5. (Searching(r) /\ Watching(r) /\ Results(r))'
  BY <1>4, CellTypes DEF Searching, Watching, Results
<1>6. \A q \in Readers \ {r} :
         /\ pc'[q] = pc[q] /\ key'[q] = key[q] /\ current'[q] = current[q]
         /\ level'[q] = level[q] /\ result'[q] = result[q]
         /\ seen'[q] = seen[q] /\ overtaken'[q] = overtaken[q]
  BY <1>1, <1>2 DEF ReaderTypes
<1> QED
  BY <1>1, <1>3, <1>5, <1>6, ReaderStep

-----------------------------------------------------------------------------
(* The invariant and what follows from it.                                 *)

\* The empty list.
LEMMA InitIInv ==
  ASSUME Init
  PROVE  IInv
<1>1. /\ forward = [n \in Node |->
                      [l \in IF n = Head THEN Level ELSE {} |-> Nil]]
      /\ cell = [n \in Node |-> NoCell]
      /\ currTopLevel = 1 /\ wpc = "idle" /\ wkey = Head /\ wcell = NoCell
      /\ update = [l \in Level |-> Head] /\ wlevel = 0
      /\ contents = [k \in Key |-> NotFound]
  BY DEF Init
<1>2. ~Inserting /\ ~Overwriting
  BY <1>1 DEF Inserting, Overwriting
<1>3. /\ DOMAIN forward = Node
      /\ Head \in Node /\ DOMAIN forward[Head] = Level
      /\ \A l \in Level : forward[Head][l] = Nil
      /\ \A n \in Key : n \in Node /\ DOMAIN forward[n] = {}
  <2>1. Head \in Node /\ \A n \in Key : n \in Node /\ n # Head
    BY Numbers
  <2>2. \A n \in Node :
          forward[n] = [l \in IF n = Head THEN Level ELSE {} |-> Nil]
    BY <1>1
  <2>3. forward[Head] = [l \in Level |-> Nil]
    BY <2>1, <2>2
  <2>4. ASSUME NEW n \in Key
        PROVE  DOMAIN forward[n] = {}
    BY <2>1, <2>2
  <2> QED
    BY <1>1, <2>1, <2>3, <2>4
<1>4. \A l \in Level : Linked(l) = {} /\ On(l) = {Head} /\ Tall(l) = {Head}
  BY <1>3, Numbers DEF Linked, On, Tall, Node
<1>5. ListTypes
  <2>1. ASSUME NEW n \in Node
        PROVE  \E h \in 0..MaxLevel :
                 forward[n] \in [0..h - 1 -> Key \cup {Nil}]
    <3>1. CASE n = Head
      <4>1. MaxLevel \in 0..MaxLevel
        BY Numbers
      <4>2. forward[n] \in [0..MaxLevel - 1 -> Key \cup {Nil}]
        BY <1>1, <3>1 DEF Level
      <4> QED
        BY <4>1, <4>2
    <3>2. CASE n # Head
      <4>1. 0 \in 0..MaxLevel /\ 0..0 - 1 = {}
        BY Numbers
      <4>2. forward[n] \in [0..0 - 1 -> Key \cup {Nil}]
        BY <1>1, <3>2, <4>1
      <4> QED
        BY <4>1, <4>2
    <3> QED
      BY <3>1, <3>2
  <2>2. /\ cell \in [Node -> Cell] /\ wcell \in Cell
        /\ contents \in [Key -> [found : BOOLEAN, cell : Cell]]
    BY <1>1, CellTypes
  <2>3. /\ currTopLevel \in 1..MaxLevel /\ wkey \in Node /\ wlevel \in Level
        /\ update \in [Level -> Node]
    BY <1>1, Numbers
  <2> QED
    BY <1>1, <1>3, <2>1, <2>2, <2>3 DEF ListTypes
<1>6. Heights
  BY <1>3 DEF Heights
<1>7. Sorted
  BY <1>3, <1>4, Numbers DEF Sorted
<1>8. Place /\ Stored
  BY <1>2 DEF Place, Stored
<1>9. Held
  BY <1>1, <1>4, Numbers, CellTypes DEF Held
<1>10. /\ pc = [r \in Readers |-> "idle"]
       /\ key = [r \in Readers |-> Head]
       /\ current = [r \in Readers |-> Head]
       /\ level = [r \in Readers |-> 0]
       /\ result = [r \in Readers |-> NotFound]
       /\ seen = [r \in Readers |-> {}]
       /\ overtaken = [r \in Readers |-> FALSE]
  BY DEF Init
<1>11. ReaderTypes
  <2>1. Head \in Node /\ 0 \in Level
    BY Numbers
  <2> QED
    BY <1>10, <2>1, CellTypes DEF ReaderTypes
<1>12. \A r \in Readers : pc[r] = "idle" /\ result[r] = NotFound
  BY <1>10
<1>13. \A r \in Readers : Searching(r) /\ Watching(r) /\ Results(r)
  BY <1>12, CellTypes DEF Searching, Watching, Results
<1> QED
  BY <1>5, <1>6, <1>7, <1>8, <1>9, <1>11, <1>13 DEF IInv, LInv

\* A step that changes nothing.
LEMMA Stuttering ==
  ASSUME IInv, UNCHANGED vars
  PROVE  IInv'
<1>1. /\ UNCHANGED <<forward, cell, currTopLevel, wpc, wkey, wcell, update>>
      /\ UNCHANGED <<wlevel, contents, readers, pc, key, current, level>>
      /\ UNCHANGED <<result, seen, overtaken>>
  BY DEF vars, list, writer, readers, history
<1>2. /\ Inserting' = Inserting /\ Overwriting' = Overwriting
      /\ \A l : Tall(l)' = Tall(l) /\ Linked(l)' = Linked(l) /\ On(l)' = On(l)
  BY <1>1 DEF Inserting, Overwriting, Tall, Linked, On
<1>3. ListTypes' /\ Heights' /\ Sorted'
  BY <1>1, <1>2 DEF IInv, LInv, ListTypes, Heights, Sorted
<1>4. Place' /\ Stored' /\ Held'
  BY <1>1, <1>2 DEF IInv, LInv, Place, Stored, Held
<1>5. ReaderTypes'
  BY <1>1 DEF IInv, ReaderTypes
<1>6. ASSUME NEW r \in Readers
      PROVE  (Searching(r) /\ Watching(r) /\ Results(r))'
  <2>1. Searching(r) /\ Watching(r) /\ Results(r)
    BY DEF IInv
  <2>2. On(level[r])' = On(level[r]) /\ Loaded(r)' = Loaded(r)
    BY <1>1 DEF On, Linked, Inserting, Loaded
  <2> QED
    BY <1>1, <1>2, <2>1, <2>2 DEF Searching, Watching, Results, SeenWord
<1> QED
  BY <1>3, <1>4, <1>5, <1>6 DEF IInv, LInv

\* Every step keeps the invariant.
LEMMA IInvStep ==
  ASSUME IInv, [Next]_vars
  PROVE  IInv'
<1>1. CASE Put \/ Delete \/ SetForward \/ LinkNode \/ Store
  BY <1>1, WriterStep
<1>2. ASSUME NEW r \in Readers,
             \/ Lookup(r) \/ Test(r) \/ Advance(r) \/ Last(r) \/ Load(r)
             \/ Return(r)
      PROVE  IInv'
  BY <1>2, LookupStep, TestStep, AdvanceStep, LastStep, LoadStep, ReturnStep
<1>3. CASE UNCHANGED vars
  BY <1>3, Stuttering
<1> QED
  BY <1>1, <1>2, <1>3 DEF Next, Quiet

\* The invariant of the skiplist and of the lookups that run beside its
\* writer, for any number of keys, levels and readers.
THEOREM Inductive == Spec => []IInv
<1>1. Init => IInv
  BY InitIInv
<1>2. IInv /\ [Next]_vars => IInv'
  BY IInvStep
<1> QED
  BY <1>1, <1>2, PTL DEF Spec

\* No variable leaves its type, and Search never indexes forward on a level
\* that its node does not have (Skiplist.Search's current.forward[level]).
THEOREM TypeCorrect == Spec => []TypeOK
<1>1. IInv => TypeOK
  <2> SUFFICES ASSUME IInv, NEW r \in Readers,
                      pc[r] \in {"test", "advance", "last"}
               PROVE  level[r] \in DOMAIN forward[current[r]]
    BY DEF TypeOK, IInv, LInv
  <2>1. level[r] \in Level /\ current[r] \in On(level[r]) /\ LInv
    BY DEF IInv, ReaderTypes, Searching
  <2> QED
    BY <2>1, Pointer
<1> QED
  BY <1>1, Inductive, PTL

\* Following the pointers of a level from the head passes exactly the nodes
\* that are linked there.
LEMMA ChainLinked ==
  ASSUME LInv, NEW l \in Level
  PROVE  Chain(l) = Linked(l)
<1> DEFINE D == Tall(l) \cup {Nil}
           N == LastKey + 1
           stop == {Nil}
           next == [n \in D |-> forward[n][l]]
           base == [n \in D |-> {}]
           step == [n \in D |-> [x \in SUBSET Node |-> {n} \cup x]]
           R == [n \in D |-> SUBSET Node]
           Loop(f) == f = [n \in D |->
                             IF n = Nil THEN {} ELSE {n} \cup f[forward[n][l]]]
<1>1. N \in Nat /\ D \in SUBSET (0..N) /\ Tall(l) \subseteq Node
  BY Numbers DEF Tall
<1>2. Linked(l) \subseteq Tall(l) /\ Linked(l) \subseteq Key
  BY Numbers DEF Linked, Tall
<1>3. ASSUME NEW n \in D, n # Nil
      PROVE  /\ n \in Tall(l) /\ forward[n][l] \in Linked(l) \cup {Nil}
             /\ forward[n][l] \in D /\ forward[n][l] > n
  BY <1>2, <1>3 DEF LInv, Sorted
<1>4. Upward(D, stop, next)
  BY <1>3 DEF Upward
<1>5. Passes(D, stop, next, base, step, R)
  <2>1. ASSUME NEW n \in D, n \notin stop, NEW x \in R[next[n]]
        PROVE  step[n][x] \in R[n]
    <3>1. n \in Node /\ next[n] \in D
      BY <1>1, <1>3, <2>1
    <3>2. x \in SUBSET Node
      BY <2>1, <3>1
    <3> QED
      BY <3>1, <3>2
  <2>2. \A n \in D : base[n] \in R[n]
    OBVIOUS
  <2> HIDE DEF D, stop, next, base, step, R
  <2> QED
    BY <2>1, <2>2 DEF Passes
<1>6. PICK f : /\ Follows(f, D, stop, next, base, step)
               /\ \A n \in D : f[n] \in R[n]
  <2> HIDE DEF D, N, stop, next, base, step, R
  <2>1. /\ \E f : Follows(f, D, stop, next, base, step)
        /\ \A f : Follows(f, D, stop, next, base, step) =>
             \A n \in D : f[n] \in R[n]
    BY <1>1, <1>4, <1>5, UpwardRecursion
  <2> QED
    BY <2>1
<1>7. Loop(f)
  <2>1. f = [n \in D |-> f[n]]
    BY <1>6 DEF Follows
  <2>2. ASSUME NEW n \in D
        PROVE  f[n] = IF n = Nil THEN {} ELSE {n} \cup f[forward[n][l]]
    <3>1. f[n] = IF n \in stop THEN base[n] ELSE step[n][f[next[n]]]
      BY <1>6 DEF Follows
    <3>2. CASE n = Nil
      BY <3>1, <3>2
    <3>3. CASE n # Nil
      <4>1. next[n] = forward[n][l] /\ f[next[n]] \in SUBSET Node
        BY <1>3, <1>6, <3>3
      <4> QED
        BY <3>1, <3>3, <4>1
    <3> QED
      BY <3>2, <3>3
  <2> HIDE DEF D
  <2> QED
    BY <2>1, <2>2
<1>8. \E g : Loop(g)
  <2> HIDE DEF Loop
  <2> QED
    BY <1>7
<1> DEFINE after == CHOOSE g : Loop(g)
<1>9. Loop(after)
  <2> HIDE DEF Loop
  <2> QED
    BY <1>8
<1>10. Chain(l) = after[forward[Head][l]]
  BY DEF Chain
<1> DEFINE From(n) == {m \in Linked(l) : m >= n}
           S == {n \in 0..N : n \in Linked(l) \cup {Nil} => after[n] = From(n)}
<1>11. ASSUME NEW n \in 0..N, \A m \in 0..N : m > n => m \in S
       PROVE  n \in S
  <2> SUFFICES ASSUME n \in Linked(l) \cup {Nil} PROVE after[n] = From(n)
    OBVIOUS
  <2>1. after[n] = IF n = Nil THEN {} ELSE {n} \cup after[forward[n][l]]
    <3>1. n \in D
      BY <1>2
    <3> HIDE DEF after, D
    <3> QED
      BY <1>9, <3>1
  <2> HIDE DEF after
  <2>2. CASE n = Nil
    <3>1. From(n) = {}
      BY <1>2, <2>2, Numbers
    <3> QED
      BY <2>1, <2>2, <3>1
  <2>3. CASE n # Nil
    <3>1. n \in Linked(l) /\ n \in D /\ n \in On(l)
      BY <1>2, <2>3 DEF On
    <3>2. PICK m : m = forward[n][l]
      OBVIOUS
    <3>3. m \in Linked(l) \cup {Nil} /\ m \in Int /\ n \in Int /\ m > n
      BY <3>1, <3>2, Pointer
    <3>4. m \in 0..N
      BY <1>2, <3>3, Numbers
    <3>5. after[m] = From(m)
      BY <1>11, <3>3, <3>4
    <3>6. \A j \in Linked(l) : j \in Int /\ (j > n => j >= m)
      BY <1>2, <3>1, <3>2, Numbers DEF LInv, Sorted
    <3>7. From(n) = {n} \cup From(m)
      <4>1. \A j \in Linked(l) : j >= n <=> j = n \/ j >= m
        BY <3>3, <3>6
      <4> QED
        BY <3>1, <4>1
    <3> QED
      BY <2>1, <2>3, <3>2, <3>5, <3>7
  <2> QED
    BY <2>2, <2>3
<1>12. 0..N \subseteq S
  <2> HIDE DEF S, N
  <2> QED
    BY <1>1, <1>11, Downwards
<1> HIDE DEF after
<1>13. PICK first : first = forward[Head][l]
  OBVIOUS
<1>14. first \in Linked(l) \cup {Nil} /\ first \in Int /\ first > Head
  <2>1. Head \in On(l)
    BY DEF On
  <2> QED
    BY <1>13, <2>1, Pointer
<1>15. first \in 0..N
  BY <1>2, <1>14, Numbers
<1>16. Chain(l) = From(first)
  BY <1>10, <1>12, <1>13, <1>14, <1>15
<1>17. \A m \in Linked(l) : m >= first
  <2>1. Head \in On(l) /\ \A m \in Linked(l) : m > Head
    BY <1>2, Numbers DEF On
  <2> QED
    BY <1>13, <2>1 DEF LInv, Sorted
<1> QED
  BY <1>16, <1>17

\* At every store of an insert each level is an ascending sublist of the one
\* below, and level 0 has exactly the keys that were put, with their contents
\* (insert sets the new node's pointer before it links the node, bottom up).
THEOREM LevelsRight == Spec => []LevelsSound
<1>1. IInv => LevelsSound
  <2> SUFFICES ASSUME IInv PROVE LevelsSound
    OBVIOUS
  <2>1. LInv /\ 0 \in Level
    BY Numbers DEF IInv
  <2>2. \A l \in Level : Chain(l) = Linked(l)
    BY <2>1, ChainLinked
  <2>3. ASSUME NEW l \in Level, NEW n \in Node, n = Head \/ n \in Chain(l)
        PROVE  forward[n][l] > n
    <3>1. n \in On(l)
      BY <2>2, <2>3 DEF On
    <3> QED
      BY <2>1, <3>1, Pointer
  <2>4. ASSUME NEW l \in Level \ {0} PROVE Chain(l) \subseteq Chain(l - 1)
    <3>1. l - 1 \in Level /\ l - 1 <= l
      BY Numbers
    <3>2. On(l) \subseteq On(l - 1)
      BY <2>1, <3>1, LevelsNested
    <3>3. Head \notin Linked(l)
      BY Numbers DEF Linked
    <3> QED
      BY <2>2, <3>1, <3>2, <3>3 DEF On
  <2>5. Chain(0) = {k \in Key : contents[k].found}
    BY <2>1, <2>2 DEF LInv, Held, Linked
  <2>6. \A k \in Chain(0) \ {wkey} : Found(cell[k]) = contents[k]
    BY <2>1, <2>2 DEF LInv, Held, Linked
  <2> QED
    BY <2>3, <2>4, <2>5, <2>6 DEF LevelsSound
<1> QED
  BY <1>1, Inductive, PTL

\* A lookup beside the writer returns what its key had during the call, unless
\* Search's last load was overtaken or the key was overwritten, when each word
\* comes from contents that the key had (Search takes no lock).
THEOREM LookupsRight == Spec => []LookupRight
<1>1. IInv => LookupRight
  <2> SUFFICES ASSUME IInv, NEW r \in Readers, pc[r] = "done", ~overtaken[r],
                      result[r] \notin seen[r]
               PROVE  /\ result[r].found
                      /\ Cardinality({s \in seen[r] : s.found}) > 1
                      /\ \A w \in DOMAIN NoCell : \E s \in seen[r] :
                           s.found /\ s.cell[w] = result[r].cell[w]
    BY DEF LookupRight
  <2> DEFINE F == {s \in seen[r] : s.found}
             x == result[r]
  <2>1. ReaderTypes /\ Watching(r) /\ Results(r)
    BY DEF IInv
  <2>2. x.found
    BY <2>1 DEF Results
  <2>3. \A w \in DOMAIN NoCell : \E s \in seen[r] :
          s.found /\ s.cell[w] = x.cell[w]
    BY <2>1, <2>2 DEF Results, SeenWord, Loaded
  <2>4. DOMAIN NoCell = {"ptr", "len", "deleted"}
    BY DEF NoCell
  <2>5. PICK a \in F : a.cell.ptr = x.cell.ptr
    BY <2>3, <2>4
  <2>6. IsFiniteSet(F)
    <3>1. IsFiniteSet(seen[r]) /\ F \in SUBSET seen[r]
      BY <2>1 DEF Watching
    <3> HIDE DEF F
    <3> QED
      BY <3>1, FS_Subset
  <2>7. Cardinality(F) \in Nat /\ Cardinality(F) # 0 /\ Cardinality(F) # 1
    <3>1. Cardinality(F) \in Nat
      BY <2>6, FS_CardinalityType
    <3>2. Cardinality(F) # 0
      BY <2>5, <2>6, FS_EmptySet
    <3>3. ASSUME F = {a} PROVE FALSE
      <4>1. a.cell.len = x.cell.len /\ a.cell.deleted = x.cell.deleted
        BY <2>3, <2>4, <3>3
      <4>2. /\ a \in [found : BOOLEAN, cell : Cell] /\ a.found /\ a \in seen[r]
            /\ x \in [found : BOOLEAN, cell : Cell]
        BY <2>1 DEF ReaderTypes
      <4>3. a.cell = x.cell
        <5>1. a.cell \in Cell /\ x.cell \in Cell
          BY <4>2
        <5> QED
          BY <2>5, <4>1, <5>1 DEF Cell
      <4>4. a.found = x.found
        BY <2>2, <4>2
      <4> QED
        BY <4>2, <4>3, <4>4
    <3>4. Cardinality(F) # 1
      <4>1. Cardinality(F) = 1 => \E y : F = {y}
        <5> HIDE DEF F
        <5> QED
          BY <2>6, FS_Singleton
      <4> HIDE DEF F
      <4> QED
        BY <2>5, <3>3, <4>1
    <3> QED
      BY <3>1, <3>2, <3>4
  <2>8. Cardinality(F) > 1
    <3> HIDE DEF F
    <3> QED
      BY <2>7
  <2> QED
    BY <2>2, <2>3, <2>8
<1> QED
  BY <1>1, Inductive, PTL
=============================================================================
