------------------------------ MODULE Skiplist ------------------------------
(***************************************************************************)
(* The skiplist of a memtable (skiplist/skiplist.go), at the grain of its  *)
(* loads and stores: one writer at a time, which Insert and Delete ensure  *)
(* by holding w.mu, beside Lookups without any lock, since Get releases    *)
(* w.mu before it looks into the memtable.                                 *)
(*                                                                         *)
(* Nodes are never unlinked and a key has at most one, so a node is named  *)
(* by its key.  Keys are numbers in the order of compare; the head sorts   *)
(* before every key, and nil, the end of every level, after.               *)
(*                                                                         *)
(* A []byte is written and read word by word.  A value stands for two of   *)
(* its words, the pointer and the length, so <<a, b>> with a # b is the    *)
(* pointer of one value with the length of another.  Stores become visible *)
(* in program order and loads happen in program order, as on amd64.        *)
(***************************************************************************)
EXTENDS Integers, FiniteSets, FiniteSetsExt

CONSTANTS
    LastKey,    \* keys are 1..LastKey
    Value,
    Empty,      \* the words of a nil slice
    MaxLevel,   \* maxLevel
    Readers,
    MaxWrites,  \* bounds: Insert and Delete calls,
    MaxLookups  \*   Lookup calls

ASSUME SkiplistAssumption ==
    /\ LastKey \in Nat \ {0}
    /\ MaxLevel \in Nat \ {0}
    /\ Empty \notin Value

Key == 1..LastKey
Head == 0
Nil == LastKey + 1
Node == {Head} \cup Key
Level == 0..MaxLevel - 1

Word == Value \cup {Empty}

\* What a node says of its key, and what Lookup returns.
Cell == [ptr : Word, len : Word, deleted : BOOLEAN]

NoCell == [ptr |-> Empty, len |-> Empty, deleted |-> FALSE]

ValueCell(v) == [ptr |-> v, len |-> v, deleted |-> FALSE]

TombstoneCell == [ptr |-> Empty, len |-> Empty, deleted |-> TRUE]

NotFound == [found |-> FALSE, cell |-> NoCell]

Found(c) == [found |-> TRUE, cell |-> c]

VARIABLES
    forward,      \* node -> level -> the next node; no levels: not allocated
    cell,         \* node -> its Value and Deleted fields
    currTopLevel,
    \* The writer.
    wpc,          \* "idle", "set" and "link" (a new node), "ptr", "len" and
                  \* "deleted" (an overwrite)
    wkey, wcell,  \* insert's arguments
    update,       \* level -> the node before wkey
    wlevel,       \* i in the loop that links the new node
    \* The readers.
    pc,           \* "idle", "test", "advance", "last", "ptr", "len",
                  \* "deleted", "done"
    key,          \* Search's argument
    current,      \* Search's node
    level,        \* Search's level
    result,       \* what Lookup returns, as far as it has been read
    \* History.
    contents,     \* what each key's last Insert or Delete has stored
    seen,         \* what contents said of a reader's key during its Lookup
    overtaken,    \* a node was linked behind current just before the last load
    count         \* calls so far, per bound

list == <<forward, cell, currTopLevel>>
writer == <<wpc, wkey, wcell, update, wlevel>>
readers == <<pc, key, current, level, result>>
history == <<contents, seen, overtaken, count>>
vars == <<list, writer, readers, history>>

\* NewSkipList
Init ==
    /\ forward = [n \in Node |-> [l \in IF n = Head THEN Level ELSE {} |-> Nil]]
    /\ cell = [n \in Node |-> NoCell]
    /\ currTopLevel = 1
    /\ wpc = "idle"
    /\ wkey = Head
    /\ wcell = NoCell
    /\ update = [l \in Level |-> Head]
    /\ wlevel = 0
    /\ pc = [r \in Readers |-> "idle"]
    /\ key = [r \in Readers |-> Head]
    /\ current = [r \in Readers |-> Head]
    /\ level = [r \in Readers |-> 0]
    /\ result = [r \in Readers |-> NotFound]
    /\ contents = [k \in Key |-> NotFound]
    /\ seen = [r \in Readers |-> {}]
    /\ overtaken = [r \in Readers |-> FALSE]
    /\ count = [c \in {"writes", "lookups"} |-> 0]

Counted(c, b) ==
    /\ count[c] < b
    /\ count' = [count EXCEPT ![c] = @ + 1]

-----------------------------------------------------------------------------
(* insert.  The search for the place is one step: only the writer changes  *)
(* what it reads.                                                          *)

\* The nodes that have a pointer on level l.
Tall(l) == {n \in Node : l \in DOMAIN forward[n]}

\* The last node before k on level l, coming from node start.
Walk(l, k, start) ==
    LET from[n \in Tall(l)] ==
          IF forward[n][l] # Nil /\ forward[n][l] < k
            THEN from[forward[n][l]]
            ELSE n
    IN  from[start]

\* The node before k on every level, and the head on the levels not in use.
Update(k) ==
    LET before[l \in Level] ==
          IF l >= currTopLevel THEN Head
          ELSE Walk(l, k, IF l = currTopLevel - 1 THEN Head ELSE before[l + 1])
    IN  before

\* A wrong variant of RandomLevels: the test of level comes after its increment.
RandomLevelsTooHigh == 1..MaxLevel + 1

\* What generateRandomLevel may return.
RandomLevels == 1..MaxLevel

\* The reader's key now has the contents c.
Observe(k, c) ==
    /\ contents' = [contents EXCEPT ![k] = c]
    /\ seen' = [r \in Readers |->
                  IF pc[r] # "idle" /\ key[r] = k THEN seen[r] \cup {c}
                                                  ELSE seen[r]]

\* The key has a node already: its fields are overwritten one by one.
Overwrite(k, c) ==
    /\ forward[Update(k)[0]][0] = k
    /\ wpc' = "ptr"
    /\ Observe(k, Found(c))
    /\ UNCHANGED <<list, wlevel, overtaken>>

\* A new node of height h, not linked yet; the top level is raised first.
NewNode(k, c, h) ==
    /\ forward[Update(k)[0]][0] # k
    /\ wpc' = "set"
    /\ wlevel' = 0
    /\ currTopLevel' = IF h > currTopLevel THEN h ELSE currTopLevel
    /\ forward' = [forward EXCEPT ![k] = [l \in 0..h - 1 |-> Nil]]
    /\ cell' = [cell EXCEPT ![k] = c]
    /\ UNCHANGED <<contents, seen, overtaken>>

Insert(k, c) ==
    /\ wpc = "idle"
    /\ Counted("writes", MaxWrites)
    /\ wkey' = k
    /\ wcell' = c
    /\ update' = Update(k)
    /\ Overwrite(k, c) \/ \E h \in RandomLevels : NewNode(k, c, h)
    /\ UNCHANGED readers

\* MemTable.Put and MemTable.Delete
Put == \E k \in Key, v \in Value : Insert(k, ValueCell(v))

Delete == \E k \in Key : Insert(k, TombstoneCell)

\* A wrong variant of SetForward: the new node has no successor.
SetForwardNil ==
    /\ wpc = "set"
    /\ wpc' = "link"
    /\ UNCHANGED <<list, wkey, wcell, update, wlevel, readers, history>>

\* newNode.forward[i] = update[i].forward[i]
SetForward ==
    /\ wpc = "set"
    /\ forward' = [forward EXCEPT ![wkey][wlevel] =
                                     forward[update[wlevel]][wlevel]]
    /\ wpc' = "link"
    /\ UNCHANGED <<cell, currTopLevel, wkey, wcell, update, wlevel, readers,
                   history>>

\* update[i].forward[i] = newNode.  On level 0 this is the instant at which the
\* key appears.
LinkNode ==
    /\ wpc = "link"
    /\ forward' = [forward EXCEPT ![update[wlevel]][wlevel] = wkey]
    /\ IF wlevel + 1 \in DOMAIN forward[wkey]
         THEN wpc' = "set" /\ wlevel' = wlevel + 1
         ELSE wpc' = "idle" /\ UNCHANGED wlevel
    /\ IF wlevel = 0
         THEN /\ Observe(wkey, Found(wcell))
              /\ overtaken' = [r \in Readers |->
                                 \/ overtaken[r]
                                 \/ /\ pc[r] = "last"
                                    /\ current[r] = update[0]
                                    /\ wkey < key[r]]
         ELSE UNCHANGED <<contents, seen, overtaken>>
    /\ UNCHANGED <<cell, currTopLevel, wkey, wcell, update, readers, count>>

\* The stores of an overwrite: next.Value, word by word, and next.Deleted.
StoreWord(at, next) ==
    /\ wpc = at
    /\ cell' = [cell EXCEPT ![wkey] = [@ EXCEPT ![at] = wcell[at]]]
    /\ wpc' = next
    /\ UNCHANGED <<forward, currTopLevel, wkey, wcell, update, wlevel, readers,
                   history>>

Store ==
    \/ StoreWord("ptr", "len")
    \/ StoreWord("len", "deleted")
    \/ StoreWord("deleted", "idle")

-----------------------------------------------------------------------------
(* Lookup and Search.                                                      *)

Goto(r, l) == pc' = [pc EXCEPT ![r] = l]

\* Search starts at the head, on the top level of the moment.  A key that is
\* being overwritten counts as having either value.
Lookup(r) ==
    /\ pc[r] = "idle"
    /\ Counted("lookups", MaxLookups)
    /\ \E k \in Key :
         /\ key' = [key EXCEPT ![r] = k]
         /\ seen' = [seen EXCEPT ![r] =
                       {contents[k]} \cup
                       IF wpc \in {"ptr", "len", "deleted"} /\ wkey = k
                         THEN {Found(cell[k])} ELSE {}]
    /\ current' = [current EXCEPT ![r] = Head]
    /\ level' = [level EXCEPT ![r] = currTopLevel - 1]
    /\ result' = [result EXCEPT ![r] = NotFound]
    /\ overtaken' = [overtaken EXCEPT ![r] = FALSE]
    /\ Goto(r, "test")
    /\ UNCHANGED <<list, writer, contents>>

\* The condition of the inner loop: go on, go down or leave.
Test(r) ==
    /\ pc[r] = "test"
    /\ LET next == forward[current[r]][level[r]]
       IN  \/ /\ next # Nil /\ next < key[r]
              /\ Goto(r, "advance") /\ UNCHANGED level
           \/ /\ next = Nil \/ next >= key[r]
              /\ IF level[r] = 0
                   THEN Goto(r, "last") /\ UNCHANGED level
                   ELSE /\ level' = [level EXCEPT ![r] = @ - 1]
                        /\ UNCHANGED pc
    /\ UNCHANGED <<list, writer, key, current, result, history>>

\* The body of the inner loop loads the pointer again.
Advance(r) ==
    /\ pc[r] = "advance"
    /\ current' = [current EXCEPT ![r] = forward[@][level[r]]]
    /\ Goto(r, "test")
    /\ UNCHANGED <<list, writer, key, level, result, history>>

\* A wrong variant of Last: any node that comes next is taken for the key's.
LastUnchecked(r) ==
    /\ pc[r] = "last"
    /\ current' = [current EXCEPT ![r] = forward[@][0]]
    /\ IF current'[r] # Nil THEN Goto(r, "ptr") ELSE Goto(r, "done")
    /\ UNCHANGED <<list, writer, key, level, result, history>>

\* After the loops the pointer is loaded once more, and the key compared.
Last(r) ==
    /\ pc[r] = "last"
    /\ current' = [current EXCEPT ![r] = forward[@][0]]
    /\ IF current'[r] = key[r] THEN Goto(r, "ptr") ELSE Goto(r, "done")
    /\ UNCHANGED <<list, writer, key, level, result, history>>

\* The loads of node.Value, word by word, and of node.Deleted.
LoadWord(r, at, next) ==
    /\ pc[r] = at
    /\ result' = [result EXCEPT
                    ![r] = Found([@.cell EXCEPT ![at] = cell[current[r]][at]])]
    /\ Goto(r, next)
    /\ UNCHANGED <<list, writer, key, current, level, history>>

Load(r) ==
    \/ LoadWord(r, "ptr", "len")
    \/ LoadWord(r, "len", "deleted")
    \/ LoadWord(r, "deleted", "done")

Return(r) ==
    /\ pc[r] = "done"
    /\ Goto(r, "idle")
    /\ key' = [key EXCEPT ![r] = Head]
    /\ current' = [current EXCEPT ![r] = Head]
    /\ result' = [result EXCEPT ![r] = NotFound]
    /\ seen' = [seen EXCEPT ![r] = {}]
    /\ overtaken' = [overtaken EXCEPT ![r] = FALSE]
    /\ UNCHANGED <<list, writer, level, contents, count>>

\* Nobody calls anything.
Quiet ==
    /\ wpc = "idle" /\ \A r \in Readers : pc[r] = "idle"
    /\ UNCHANGED vars

Next ==
    \/ Put \/ Delete \/ SetForward \/ LinkNode \/ Store
    \/ \E r \in Readers :
         \/ Lookup(r) \/ Test(r) \/ Advance(r) \/ Last(r) \/ Load(r)
         \/ Return(r)
    \/ Quiet

Spec == Init /\ [][Next]_vars

-----------------------------------------------------------------------------
(* Properties.                                                             *)

\* The types of all variables; a node a Search stands on has the level it is
\* on, so that no index is out of range.
ListTypes ==
    /\ DOMAIN forward = Node
    /\ \A n \in Node : \E h \in 0..MaxLevel :
         forward[n] \in [0..h - 1 -> Key \cup {Nil}]
    /\ cell \in [Node -> Cell]
    /\ currTopLevel \in 1..MaxLevel
    /\ wpc \in {"idle", "set", "link", "ptr", "len", "deleted"}
    /\ wkey \in Node /\ wcell \in Cell
    /\ update \in [Level -> Node]
    /\ wlevel \in Level
    /\ contents \in [Key -> [found : BOOLEAN, cell : Cell]]

ReaderTypes ==
    /\ pc \in [Readers -> {"idle", "test", "advance", "last", "ptr", "len",
                           "deleted", "done"}]
    /\ key \in [Readers -> Node]
    /\ current \in [Readers -> Node \cup {Nil}]
    /\ level \in [Readers -> Level]
    /\ result \in [Readers -> [found : BOOLEAN, cell : Cell]]
    /\ seen \in [Readers -> SUBSET [found : BOOLEAN, cell : Cell]]
    /\ overtaken \in [Readers -> BOOLEAN]

TypeOK ==
    /\ ListTypes /\ ReaderTypes
    /\ \A r \in Readers : pc[r] \in {"test", "advance", "last"} =>
         level[r] \in DOMAIN forward[current[r]]

\* The nodes of level l from the head on.
Chain(l) ==
    LET after[n \in Tall(l) \cup {Nil}] ==
          IF n = Nil THEN {} ELSE {n} \cup after[forward[n][l]]
    IN  after[forward[Head][l]]

\* At every step of an insert, each level is an ascending list, a sublist of
\* the level below it, and level 0, which iterators and flushes follow, has
\* exactly the keys that were put.
LevelsSound ==
    /\ \A l \in Level, n \in Node :
         n = Head \/ n \in Chain(l) => forward[n][l] > n
    /\ \A l \in Level \ {0} : Chain(l) \subseteq Chain(l - 1)
    /\ Chain(0) = {k \in Key : contents[k].found}
    /\ \A k \in Chain(0) \ {wkey} : Found(cell[k]) = contents[k]

\* A Lookup that meets inserts on its way, on every level, finds its key if it
\* was there and returns what it had at some instant of the call, except in two
\* cases: a smaller key was linked behind Search's node after the last test of
\* the loop (overtaken), or the key was overwritten, when every word comes from
\* some value the key had.
LookupRight ==
    \A r \in Readers : pc[r] = "done" /\ ~overtaken[r] =>
        \/ result[r] \in seen[r]
        \/ /\ result[r].found
           /\ Cardinality({s \in seen[r] : s.found}) > 1
           /\ \A w \in DOMAIN NoCell : \E s \in seen[r] :
                s.found /\ s.cell[w] = result[r].cell[w]

\* A Lookup finds a key that was in the memtable before the call.
LookupFindsKey ==
    \A r \in Readers :
        pc[r] = "done" /\ (\A s \in seen[r] : s.found) => result[r].found

=============================================================================
