---------------------------- MODULE SSTableList ----------------------------
(***************************************************************************)
(* The reference-counted SSTable files (sstable_list.go) at the grain of   *)
(* their atomic operations: readers pin tables with GetTables, a flush     *)
(* adds tables, compactions replace them, Close drops them all, and        *)
(* whoever brings a count to zero closes the Reader and, if a compaction   *)
(* has replaced the table, removes the file.                               *)
(*                                                                         *)
(* Tables are opaque here; the order in which the loops of the code visit  *)
(* them (newest first) is left open.                                       *)
(***************************************************************************)
EXTENDS Integers, FiniteSets

CONSTANTS
    Table,        \* SSTableFile objects that may ever exist
    Loaded,       \* the ones Load found on disk
    Readers,      \* goroutines in Get or Scan
    Compactors,   \* goroutines in Compact
    Closer,       \* the goroutine that calls Close
    NoTable,
    NoThread

Threads == Readers \cup Compactors \cup {Closer}

ASSUME TableAssumption == Loaded \subseteq Table /\ NoTable \notin Table

ASSUME ThreadAssumption ==
    /\ IsFiniteSet(Threads)
    /\ Readers \cap Compactors = {}
    /\ Closer \notin Readers \cup Compactors
    /\ NoThread \notin Threads

VARIABLES
    \* SSTableFile
    refCount,
    unlinked,
    closed,
    open,         \* Reader # nil
    onDisk,       \* the file exists
    born,         \* the objects created so far
    \* SSTableList
    list,         \* tables
    rlock,        \* holders of mu's read lock
    wlock,        \* holder of mu's write lock
    \* The calls in progress
    pc,
    walk,         \* what the current loop over tables has yet to visit
    table,        \* the loop variable
    cur,          \* cur in IncrRef
    held,         \* the result of GetTables, as far as it is still pinned
    ending,       \* the table whose count this thread brought to zero
    \* History
    twice         \* tables from which the list's reference is dropped twice

file == <<refCount, unlinked, closed, open, onDisk, born>>
mutex == <<rlock, wlock>>
call == <<pc, walk, table, cur, held, ending>>
vars == <<file, list, mutex, call, twice>>

Init ==
    /\ refCount = [t \in Table |-> IF t \in Loaded THEN 1 ELSE 0]
    /\ unlinked = [t \in Table |-> FALSE]
    /\ closed = [t \in Table |-> FALSE]
    /\ open = [t \in Table |-> t \in Loaded]
    /\ onDisk = [t \in Table |-> t \in Loaded]
    /\ born = Loaded
    /\ list = Loaded
    /\ rlock = {}
    /\ wlock = NoThread
    /\ pc = [p \in Threads |-> "idle"]
    /\ walk = [p \in Threads |-> {}]
    /\ table = [p \in Threads |-> NoTable]
    /\ cur = [p \in Threads |-> 0]
    /\ held = [p \in Threads |-> {}]
    /\ ending = [p \in Threads |-> NoTable]
    /\ twice = {}

Goto(p, l) == pc' = [pc EXCEPT ![p] = l]

\* The loop's body is done with its table.
NextTable(p) ==
    /\ walk' = [walk EXCEPT ![p] = @ \ {table[p]}]
    /\ table' = [table EXCEPT ![p] = NoTable]
    /\ cur' = [cur EXCEPT ![p] = 0]

\* A Close in progress.
Closing == pc[Closer] \in {"close", "closeDrop"}

\* NewSSTableFile with its open Reader, one reference, for the tables in new.
Create(new) ==
    /\ refCount' = [t \in Table |-> IF t \in new THEN 1 ELSE refCount[t]]
    /\ open' = [t \in Table |-> t \in new \/ open[t]]
    /\ onDisk' = [t \in Table |-> t \in new \/ onDisk[t]]
    /\ born' = born \cup new

-----------------------------------------------------------------------------
(* GetTables and IncrRef.                                                  *)

GetTables(p) ==
    /\ pc[p] = "idle" /\ wlock = NoThread
    /\ rlock' = rlock \cup {p}
    /\ walk' = [walk EXCEPT ![p] = list]
    /\ Goto(p, "walk")
    /\ UNCHANGED <<file, list, wlock, table, cur, held, ending, twice>>

\* refCount.Load
IncrLoad(p) ==
    /\ pc[p] = "walk"
    /\ \E t \in walk[p] :
         /\ table' = [table EXCEPT ![p] = t]
         /\ cur' = [cur EXCEPT ![p] = refCount[t]]
    /\ Goto(p, "check")
    /\ UNCHANGED <<file, list, mutex, walk, held, ending, twice>>

\* A wrong variant of IncrCheck: a table that only the list holds is skipped.
IncrCheckOffByOne(p) ==
    /\ pc[p] = "check"
    /\ IF cur[p] <= 1 \/ unlinked[table[p]] \/ closed[table[p]]
         THEN Goto(p, "walk") /\ NextTable(p)
         ELSE Goto(p, "swap") /\ UNCHANGED <<walk, table, cur>>
    /\ UNCHANGED <<file, list, mutex, held, ending, twice>>

\* The tests that make IncrRef return false.
IncrCheck(p) ==
    /\ pc[p] = "check"
    /\ IF cur[p] <= 0 \/ unlinked[table[p]] \/ closed[table[p]]
         THEN Goto(p, "walk") /\ NextTable(p)
         ELSE Goto(p, "swap") /\ UNCHANGED <<walk, table, cur>>
    /\ UNCHANGED <<file, list, mutex, held, ending, twice>>

\* A wrong variant of IncrSwap: a Store of cur + 1 in place of CompareAndSwap.
IncrStore(p) ==
    /\ pc[p] = "swap"
    /\ refCount' = [refCount EXCEPT ![table[p]] = cur[p] + 1]
    /\ held' = [held EXCEPT ![p] = @ \cup {table[p]}]
    /\ NextTable(p)
    /\ Goto(p, "walk")
    /\ UNCHANGED <<unlinked, closed, open, onDisk, born, list, mutex, ending,
                   twice>>

\* A successful CompareAndSwap.
IncrSwap(p) ==
    /\ pc[p] = "swap" /\ refCount[table[p]] = cur[p]
    /\ refCount' = [refCount EXCEPT ![table[p]] = @ + 1]
    /\ held' = [held EXCEPT ![p] = @ \cup {table[p]}]
    /\ NextTable(p)
    /\ Goto(p, "walk")
    /\ UNCHANGED <<unlinked, closed, open, onDisk, born, list, mutex, ending,
                   twice>>

\* The count has changed since it was loaded: start over.
IncrRetry(p) ==
    /\ pc[p] = "swap" /\ refCount[table[p]] # cur[p]
    /\ cur' = [cur EXCEPT ![p] = refCount[table[p]]]
    /\ Goto(p, "check")
    /\ UNCHANGED <<file, list, mutex, walk, table, held, ending, twice>>

\* GetTables returns.  A compaction of nothing is over.
GetTablesReturn(p) ==
    /\ pc[p] = "walk" /\ walk[p] = {}
    /\ rlock' = rlock \ {p}
    /\ Goto(p, IF p \in Compactors /\ held[p] = {} THEN "idle" ELSE "use")
    /\ UNCHANGED <<file, list, wlock, walk, table, cur, held, ending, twice>>

-----------------------------------------------------------------------------
(* DecrRef and ReleaseTables.                                              *)

\* Wrong variants of DecrRef: the count is dropped twice, ...
DecrTwice(p, t) ==
    /\ refCount' = [refCount EXCEPT ![t] = @ - 2]
    /\ ending' = [ending EXCEPT ![p] = IF refCount[t] = 1 THEN t ELSE NoTable]

\* ... not at all, ...
DecrForgotten(p, t) ==
    /\ refCount' = refCount
    /\ ending' = [ending EXCEPT ![p] = NoTable]

\* ... or compared with one instead of zero afterwards.
DecrEndsEarly(p, t) ==
    /\ refCount' = [refCount EXCEPT ![t] = @ - 1]
    /\ ending' = [ending EXCEPT ![p] = IF refCount[t] = 2 THEN t ELSE NoTable]

\* refCount.Add(-1)
DecrRef(p, t) ==
    /\ refCount' = [refCount EXCEPT ![t] = @ - 1]
    /\ ending' = [ending EXCEPT ![p] = IF refCount[t] = 1 THEN t ELSE NoTable]

\* The call is done with its tables: a lookup or iterator that is finished, or
\* a compaction that failed.
Finish(p) ==
    /\ pc[p] = "use"
    /\ Goto(p, "release")
    /\ UNCHANGED <<file, list, mutex, walk, table, cur, held, ending, twice>>

Release(p) ==
    /\ pc[p] = "release" /\ ending[p] = NoTable
    /\ \E t \in held[p] :
         /\ DecrRef(p, t)
         /\ held' = [held EXCEPT ![p] = @ \ {t}]
    /\ UNCHANGED <<unlinked, closed, open, onDisk, born, list, mutex, pc, walk,
                   table, cur, twice>>

ReleaseReturn(p) ==
    /\ pc[p] = "release" /\ ending[p] = NoTable /\ held[p] = {}
    /\ Goto(p, "idle")
    /\ UNCHANGED <<file, list, mutex, walk, table, cur, held, ending, twice>>

\* The count is zero: Reader.Close, then Reader = nil.
CloseReader(p) ==
    /\ ending[p] # NoTable /\ open[ending[p]]
    /\ open' = [open EXCEPT ![ending[p]] = FALSE]
    /\ UNCHANGED <<refCount, unlinked, closed, onDisk, born, list, mutex, call,
                   twice>>

\* The file goes if a compaction replaced it.
RemoveFile(p) ==
    /\ ending[p] # NoTable /\ ~open[ending[p]]
    /\ onDisk' = [onDisk EXCEPT ![ending[p]] = @ /\ ~unlinked[ending[p]]]
    /\ ending' = [ending EXCEPT ![p] = NoTable]
    /\ UNCHANGED <<refCount, unlinked, closed, open, born, list, mutex, pc,
                   walk, table, cur, held, twice>>

-----------------------------------------------------------------------------
(* Add, ReplaceTables and Close.                                           *)

\* A flush adds the table it wrote.
Add(t) ==
    /\ t \in Table \ born
    /\ wlock = NoThread /\ rlock = {}
    /\ Create({t})
    /\ list' = list \cup {t}
    /\ UNCHANGED <<unlinked, closed, mutex, call, twice>>

\* ReplaceTables, up to the unlock.  A compaction whose output is empty has no
\* new table.  Nothing tells it that the list no longer has an input: another
\* ReplaceTables, or Close, has taken it out and drops the list's reference.
ReplaceTables(p) ==
    /\ pc[p] = "use"
    /\ wlock = NoThread /\ rlock = {}
    /\ \E new \in {{}} \cup {{t} : t \in Table \ born} :
         /\ Create(new)
         /\ list' = (list \ held[p]) \cup new
    /\ walk' = [walk EXCEPT ![p] = held[p]]
    /\ Goto(p, "retire")
    /\ twice' = twice \cup (held[p] \ list)
    /\ UNCHANGED <<unlinked, closed, mutex, table, cur, held, ending>>

\* The loop over the replaced tables: unlinked.Store(true) ...
Unlink(p) ==
    /\ pc[p] = "retire" /\ ending[p] = NoTable
    /\ \E t \in walk[p] :
         /\ unlinked' = [unlinked EXCEPT ![t] = TRUE]
         /\ table' = [table EXCEPT ![p] = t]
    /\ Goto(p, "retireDrop")
    /\ UNCHANGED <<refCount, closed, open, onDisk, born, list, mutex, walk,
                   cur, held, ending, twice>>

\* ... then DecrRef, for the reference of the list.
RetireDrop(p) ==
    /\ pc[p] = "retireDrop"
    /\ DecrRef(p, table[p])
    /\ NextTable(p)
    /\ Goto(p, "retire")
    /\ UNCHANGED <<unlinked, closed, open, onDisk, born, list, mutex, held,
                   twice>>

\* ReplaceTables returns; CompactAll's deferred ReleaseTables is next.
RetireReturn(p) ==
    /\ pc[p] = "retire" /\ ending[p] = NoTable /\ walk[p] = {}
    /\ Goto(p, "release")
    /\ UNCHANGED <<file, list, mutex, walk, table, cur, held, ending, twice>>

Close ==
    /\ pc[Closer] = "idle"
    /\ wlock = NoThread /\ rlock = {}
    /\ wlock' = Closer
    /\ walk' = [walk EXCEPT ![Closer] = list]
    /\ Goto(Closer, "close")
    /\ UNCHANGED <<file, list, rlock, table, cur, held, ending, twice>>

\* closed.Store(true)
CloseMark ==
    /\ pc[Closer] = "close" /\ ending[Closer] = NoTable
    /\ \E t \in walk[Closer] :
         /\ closed' = [closed EXCEPT ![t] = TRUE]
         /\ table' = [table EXCEPT ![Closer] = t]
    /\ Goto(Closer, "closeDrop")
    /\ UNCHANGED <<refCount, unlinked, open, onDisk, born, list, mutex, walk,
                   cur, held, ending, twice>>

CloseDrop ==
    /\ pc[Closer] = "closeDrop"
    /\ DecrRef(Closer, table[Closer])
    /\ NextTable(Closer)
    /\ Goto(Closer, "close")
    /\ UNCHANGED <<unlinked, closed, open, onDisk, born, list, mutex, held,
                   twice>>

CloseReturn ==
    /\ pc[Closer] = "close" /\ ending[Closer] = NoTable /\ walk[Closer] = {}
    /\ list' = {}
    /\ wlock' = NoThread
    /\ Goto(Closer, "idle")
    /\ UNCHANGED <<file, rlock, walk, table, cur, held, ending, twice>>

-----------------------------------------------------------------------------

Pin(p) ==
    \/ IncrLoad(p) \/ IncrCheck(p) \/ IncrSwap(p) \/ IncrRetry(p)
    \/ GetTablesReturn(p)

Drop(p) == Release(p) \/ ReleaseReturn(p) \/ CloseReader(p) \/ RemoveFile(p)

Retire(p) == Unlink(p) \/ RetireDrop(p) \/ RetireReturn(p)

CloseSteps ==
    CloseMark \/ CloseDrop \/ CloseReturn
    \/ CloseReader(Closer) \/ RemoveFile(Closer)

Next ==
    \/ \E p \in Readers \cup Compactors :
         GetTables(p) \/ Pin(p) \/ Finish(p) \/ Drop(p)
    \/ \E c \in Compactors : ReplaceTables(c) \/ Retire(c)
    \/ \E t \in Table : Add(t)
    \/ Close \/ CloseSteps

Spec == Init /\ [][Next]_vars

\* Every thread in a call gets to run, and every iterator is closed some day.
Fairness ==
    /\ \A p \in Readers \cup Compactors :
         WF_vars(Pin(p) \/ Finish(p) \/ Drop(p) \/ Retire(p))
    /\ WF_vars(CloseSteps)

FairSpec == Spec /\ Fairness

-----------------------------------------------------------------------------
(* Properties.                                                             *)

\* The types of all variables.  Only for a table that overlapping calls take
\* out of the list twice does DecrRef find that the "reference count went
\* negative".
TypeOK ==
    /\ refCount \in [Table -> Int]
    /\ \A t \in Table \ twice : refCount[t] >= 0
    /\ twice \in SUBSET Table
    /\ unlinked \in [Table -> BOOLEAN]
    /\ closed \in [Table -> BOOLEAN]
    /\ open \in [Table -> BOOLEAN]
    /\ onDisk \in [Table -> BOOLEAN]
    /\ born \in SUBSET Table
    /\ list \in SUBSET Table
    /\ rlock \in SUBSET (Readers \cup Compactors)
    /\ wlock \in {NoThread, Closer}
    /\ pc \in [Threads -> {"idle", "walk", "check", "swap", "use", "release",
                           "retire", "retireDrop", "close", "closeDrop"}]
    /\ walk \in [Threads -> SUBSET Table]
    /\ table \in [Threads -> Table \cup {NoTable}]
    /\ cur \in [Threads -> Nat]
    /\ held \in [Threads -> SUBSET Table]
    /\ ending \in [Threads -> Table \cup {NoTable}]

Holders(t) == {p \in Threads : t \in held[p]}

\* The list's own reference to t has not been dropped: t is in the list, or
\* among the tables that ReplaceTables or Close has yet to visit.
ListRef(t) ==
    \/ ~Closing /\ t \in list
    \/ Closing /\ t \in walk[Closer]
    \/ \E c \in Compactors :
         pc[c] \in {"retire", "retireDrop"} /\ t \in walk[c]

\* A table's count is the number of calls that pin it, and one for the list:
\* no reference is lost to a race in IncrRef, and none is dropped twice unless
\* overlapping Compact and Close calls took the table out of the list twice.
RefCountExact ==
    \A t \in Table \ twice :
        refCount[t] = Cardinality(Holders(t)) + IF ListRef(t) THEN 1 ELSE 0

\* No Get, Scan or compaction finds the Reader of a table it has pinned closed
\* (nil), whichever compactions and Close calls complete in the meantime,
\* unless two of them took the table out of the list.
NoUseAfterClose ==
    \A p \in Threads : pc[p] = "use" => \A t \in held[p] \ twice : open[t]

\* Every table of the list can be read, and its file is there for a restart,
\* until Close drops it.  Overlapping compactions do not change that: what they
\* close and remove is no longer in the list.
ListedReadable == ~Closing => \A t \in list : open[t] /\ onDisk[t]

\* GetTables skips no table of the list, so that no Get or Scan misses the
\* entries of one because of a race in IncrRef.
SnapshotComplete == \A p \in rlock : list = held[p] \cup walk[p]

\* A table that a compaction replaced disappears from the disk, once the calls
\* that still read it are finished.
RetiredFilesGo == \A t \in Table : unlinked[t] ~> ~onDisk[t]

=============================================================================
