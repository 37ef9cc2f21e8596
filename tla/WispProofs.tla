----------------------------- MODULE WispProofs -----------------------------
(***************************************************************************)
(* Proofs about the Wisp engine, for every number of threads, keys and     *)
(* values and every bound: its type invariant, and that flushImmutable is  *)
(* never disturbed (FlushKeepsMemTable).  Both rest on the inductive       *)
(* invariant IInv: who may be where, what the flush and the compaction in  *)
(* progress own, and which numbers bound which.  Every part of IInv has a  *)
(* lemma that all steps preserve it, with one step per action.             *)
(***************************************************************************)
EXTENDS Wisp, Recursion, FiniteSetTheorems

-----------------------------------------------------------------------------
(* Layers.                                                                 *)

\* Assign extends a function with values in T by one index.
LEMMA AssignType ==
  ASSUME NEW f, NEW T, f \in [DOMAIN f -> T], NEW i, NEW v \in T
  PROVE  /\ Assign(f, i, v) \in [DOMAIN f \cup {i} -> T]
         /\ DOMAIN Assign(f, i, v) = DOMAIN f \cup {i}
BY DEF Assign

\* Without keeps the values at the remaining indexes.
LEMMA WithoutType ==
  ASSUME NEW f, NEW T, f \in [DOMAIN f -> T], NEW S
  PROVE  /\ Without(f, S) \in [DOMAIN f \ S -> T]
         /\ DOMAIN Without(f, S) = DOMAIN f \ S
         /\ \A i \in DOMAIN f \ S : Without(f, S)[i] = f[i]
BY DEF Without, Restrict

\* Layers are closed under the operations on them.
LEMMA LayerTypes ==
  /\ EmptyLayer \in Layer
  /\ EmptyBuffer \in Buffer
  /\ \A a \in Layer : Visible(a) \in Layer
  /\ \A a \in Layer, ks \in SUBSET Key : Only(a, ks) \in Layer
  /\ \A b \in Buffer, k \in Key, e \in Entry : PutRecord(b, k, e) \in Buffer
BY DEF EmptyLayer, EmptyBuffer, Layer, Entry, Buffer, StoreValue, Visible, Only,
       PutRecord

\* A stack of layers with bounded indexes is a layer.
LEMMA OverlayType ==
  ASSUME NEW f, NEW S \in SUBSET Nat, \A i \in S : f[i] \in Layer,
         NEW n \in Nat, \A i \in S : i <= n
  PROVE  Overlay(f, S) \in Layer
<1> SUFFICES ASSUME NEW k \in Key, Holding(f, S, k) # {}
             PROVE  f[Max(Holding(f, S, k))][k] \in Entry \cup {Absent}
  BY DEF Overlay, Layer
<1>1. Holding(f, S, k) \in SUBSET S
  BY DEF Holding
<1>2. Max(Holding(f, S, k)) \in S
  BY <1>1, MaxInSet
<1> QED
  BY <1>2 DEF Layer

-----------------------------------------------------------------------------
(* The inductive invariant.                                                *)

\* A thread that is to write a record has one, also across a flush.
Calls ==
    \A p \in Threads :
        /\ pc[p] = "prepare" \/ resume[p] = "prepare" => op[p] \in Key \X Entry
        /\ resume[p] # "idle" =>
             pc[p] \in {"flush", "write", "install", "clear", "reclaim"}

\* A memtable in the slot is not written.  The flush in progress, if any, is
\* flushMu's holder's.  Its memtable stays in the slot, and
\* its generation is nobody else's until it is installed.
Flushes ==
    /\ immutable <= mutable /\ (immutable = mutable => frozen)
    /\ \A p \in Threads :
         pc[p] \in {"write", "install", "clear", "reclaim"} <=> flushMu = p
    /\ \A p \in Threads :
         pc[p] \in {"write", "install", "clear"} =>
           immutable = want[p] /\ immutable # Nil
    /\ \A p \in Threads :
         pc[p] \in {"write", "install"} =>
           /\ flushGen \in DOMAIN files
           /\ flushGen \notin tables \cup unlinked
           /\ \A q \in Threads : flushGen \notin held[q]
           /\ flushGen # compactGen

\* The file about to be installed is a copy of the frozen memtable.
Copies ==
    \A p \in Threads : pc[p] = "install" =>
        files[flushGen] = [complete |-> TRUE, cells |-> MemCells(immutable)]

\* The same for the compaction in progress.
Compacts ==
    /\ pc[Compactor] \in {"idle", "target", "merge", "replace", "release"}
    /\ pc[Compactor] \in {"merge", "replace"} =>
         /\ compactGen \notin tables \cup unlinked
         /\ \A q \in Threads : compactGen \notin held[q]
    /\ pc[Compactor] = "merge" => compactGen \in DOMAIN files

\* Numbers on disk are bounded by the counters in memory, and what is listed
\* has not been replaced.
Disk ==
    /\ up => segmentID \in DOMAIN segments
    /\ up => \A s \in DOMAIN segments : s <= segmentID
    /\ up => \A g \in DOMAIN files : g <= nextGen
    /\ ~up => \E s \in DOMAIN segments : \A t \in DOMAIN segments : t <= s
    /\ ~up => \E n \in DOMAIN files \cup {0} : \A g \in DOMAIN files : g <= n
    /\ tables \cap unlinked = {}
    /\ \A s \in reclaim : s < segmentID

\* Nothing is left in memory when the database is closed.
Down ==
    ~up => /\ \A p \in Threads : pc[p] = "idle" /\ held[p] = {}
           /\ mutable = 1
           /\ reclaim = {}
           /\ unlinked = {}
           /\ nextGen = 0

\* The inductive invariant.
IInv == TypeOK /\ Calls /\ Flushes /\ Copies /\ Compacts /\ Disk /\ Down

\* What a call has pinned is bounded by the last generation handed out.
LEMMA HeldMax ==
  ASSUME TypeOK, Disk, up, NEW p \in Threads, held[p] # {}
  PROVE  Max(held[p]) \in held[p]
BY MaxInSet DEF TypeOK, TableTypes, Disk

\* The part of the type invariant that control depends on.
LEMMA ControlTypes ==
  ASSUME TypeOK
  PROVE  /\ mutable \in Nat /\ mutable >= 1 /\ immutable \in Nat
         /\ nextGen \in Nat
         /\ flushGen \in Nat /\ flushGen <= nextGen
         /\ compactGen \in Nat /\ compactGen <= nextGen
         /\ tables \subseteq DOMAIN files
         /\ DOMAIN files \subseteq Nat \ {0}
         /\ pc \in [Threads -> ControlStates]
         /\ want \in [Threads -> Nat]
         /\ resume \in [Threads -> {"idle", "prepare", "snapshot", "close"}]
         /\ held \in [Threads -> SUBSET DOMAIN files]
         /\ \A g \in unlinked : g \in Nat /\ g <= nextGen
BY DEF TypeOK, TableTypes, MemTableTypes, CallTypes

\* The same for what the WAL's bookkeeping depends on.
LEMMA SegmentTypes ==
  ASSUME TypeOK
  PROVE  /\ segmentID \in Nat
         /\ DOMAIN segments \subseteq Nat \ {0}
         /\ reclaim \subseteq DOMAIN segments
BY DEF TypeOK, WALTypes

\* RemoveSegmentsUpTo's next segment is one of those it has to remove.
LEMMA ReclaimMin ==
  ASSUME TypeOK, reclaim # {}
  PROVE  Min(reclaim) \in reclaim
BY SegmentTypes, MinInSet

\* A restart finds the last generation ...
LEMMA FilesMax ==
  ASSUME TypeOK, Disk
  PROVE  /\ Max(DOMAIN files \cup {0}) \in DOMAIN files \cup {0}
         /\ \A g \in DOMAIN files : g <= Max(DOMAIN files \cup {0})
<1> DEFINE S == DOMAIN files \cup {0}
<1>1. S \in SUBSET Nat /\ S # {} /\ nextGen \in Nat
  BY ControlTypes
<1>2. CASE up
  <2>1. \A g \in S : g <= nextGen
    BY <1>1, <1>2 DEF Disk
  <2> QED
    BY <1>1, <2>1, MaxInSet
<1>3. CASE ~up
  <2>1. PICK n \in S : \A g \in DOMAIN files : g <= n
    BY <1>3 DEF Disk
  <2>2. n \in Nat /\ \A g \in S : g <= n
    BY <1>1, <2>1
  <2> QED
    BY <1>1, <2>2, MaxInSet
<1>4. up \/ ~up
  OBVIOUS
<1> QED
  BY <1>2, <1>3, <1>4

\* ... and the last WAL segment.
LEMMA SegmentsMax ==
  ASSUME TypeOK, Disk
  PROVE  /\ Max(DOMAIN segments) \in DOMAIN segments
         /\ \A s \in DOMAIN segments : s <= Max(DOMAIN segments)
<1>1. PICK n \in DOMAIN segments : \A s \in DOMAIN segments : s <= n
  BY SegmentTypes DEF Disk, TypeOK, CallTypes
<1> QED
  BY <1>1, SegmentTypes, MaxInSet

\* Recovery counts every record, so it counts none only if there is none.
LEMMA RecordsCounted ==
  ASSUME TypeOK, Disk
  PROVE  /\ RecordCount \in Nat
         /\ RecordCount = 0 => \A s \in DOMAIN segments : segments[s].size = 0
<1> DEFINE S == DOMAIN segments
           D == SUBSET S
           N == Cardinality(S)
           measure == [x \in D |-> Cardinality(x)]
           one == [x \in D |-> CHOOSE s \in x : TRUE]
           stop == {{}}
           next == [x \in D |-> x \ {one[x]}]
           base == [x \in D |-> 0]
           step == [x \in D |-> [n \in Nat |-> segments[one[x]].size + n]]
           R == [x \in D |-> Nat]
           Sum(x) == {n \in Nat : n = 0 => \A s \in x : segments[s].size = 0}
           Loop(f) == f = [x \in D |->
                             IF x = {} THEN 0
                             ELSE segments[CHOOSE s \in x : TRUE].size
                                    + f[x \ {CHOOSE s \in x : TRUE}]]
<1>1. IsFiniteSet(S) /\ \A s \in S : segments[s].size \in Nat
  <2>1. PICK n \in Nat : n = Max(DOMAIN segments)
    BY SegmentsMax, SegmentTypes
  <2>2. \A s \in S : s <= n
    BY <2>1, SegmentsMax
  <2>3. S \in SUBSET Nat
    BY SegmentTypes
  <2>4. \A s \in S : segments[s].size \in Nat
    BY DEF TypeOK, WALTypes, Buffer
  <2> HIDE DEF S
  <2> QED
    BY <2>1, <2>2, <2>3, <2>4, FS_BoundedSetOfNaturals
<1>2. \A x \in D : IsFiniteSet(x) /\ Cardinality(x) \in 0..N
  <2> HIDE DEF S
  <2>1. N \in Nat
    BY <1>1, FS_CardinalityType
  <2>2. ASSUME NEW x \in D PROVE IsFiniteSet(x) /\ Cardinality(x) \in 0..N
    <3>1. IsFiniteSet(x) /\ Cardinality(x) <= N
      BY <1>1, FS_Subset
    <3> QED
      BY <2>1, <3>1, FS_CardinalityType
  <2> QED
    BY <2>2
<1>3. N \in Nat /\ measure \in [D -> 0..N]
  BY <1>1, <1>2, FS_CardinalityType
<1>4. ASSUME NEW x \in D, x \notin stop
      PROVE  /\ one[x] \in x /\ one[x] \in S
             /\ next[x] = x \ {one[x]} /\ next[x] \in D
  BY <1>4
<1>5. Falls(D, stop, next, measure)
  <2> SUFFICES ASSUME NEW x \in D, x \notin stop
               PROVE  next[x] \in D /\ measure[next[x]] < measure[x]
    BY DEF Falls
  <2> HIDE DEF next, one
  <2>1. one[x] \in x /\ next[x] = x \ {one[x]} /\ next[x] \in D
    BY <1>4
  <2>2. IsFiniteSet(x) /\ Cardinality(x) \in Nat
    BY <1>2
  <2>3. Cardinality(x \ {one[x]}) = Cardinality(x) - 1
    BY <2>1, <2>2, FS_RemoveElement
  <2> QED
    BY <2>1, <2>2, <2>3
<1>6. Passes(D, stop, next, base, step, R)
  <2>1. ASSUME NEW x \in D, x \in stop PROVE base[x] \in R[x]
    BY <2>1
  <2>2. ASSUME NEW x \in D, x \notin stop, NEW n \in R[next[x]]
        PROVE  step[x][n] \in R[x]
    <3> HIDE DEF next, one
    <3>1. /\ one[x] \in x /\ one[x] \in S
          /\ next[x] = x \ {one[x]} /\ next[x] \in D
      BY <1>4, <2>2
    <3>2. n \in Nat
      BY <2>2, <3>1
    <3>3. PICK i \in Nat : i = segments[one[x]].size
      BY <1>1, <3>1
    <3>4. step[x][n] = i + n
      BY <3>2, <3>3
    <3> QED
      BY <3>2, <3>4
  <2> HIDE DEF D, stop, next, base, step, R
  <2> QED
    BY <2>1, <2>2 DEF Passes
<1>7. /\ \E f : Follows(f, D, stop, next, base, step)
      /\ \A f : Follows(f, D, stop, next, base, step) =>
           \A x \in D : f[x] \in R[x]
  <2> HIDE DEF D, N, measure, stop, next, base, step, R
  <2> QED
    BY <1>3, <1>5, <1>6, MeasuredRecursion
<1>8. PICK f : Follows(f, D, stop, next, base, step)
  <2> HIDE DEF D, stop, next, base, step
  <2> QED
    BY <1>7
<1>9. \A x \in D : f[x] \in Nat
  <2>1. \A x \in D : f[x] \in R[x]
    <3> HIDE DEF D, stop, next, base, step, R
    <3> QED
      BY <1>7, <1>8
  <2> QED
    BY <2>1
<1>10. Loop(f)
  <2>1. f = [x \in D |-> f[x]]
    BY <1>8 DEF Follows
  <2>2. ASSUME NEW x \in D
        PROVE  f[x] = IF x = {} THEN 0
                      ELSE segments[CHOOSE s \in x : TRUE].size
                             + f[x \ {CHOOSE s \in x : TRUE}]
    <3>1. f[x] = IF x \in stop THEN base[x] ELSE step[x][f[next[x]]]
      <4> HIDE DEF stop, base, step, next
      <4> QED
        BY <1>8 DEF Follows
    <3>2. CASE x = {}
      BY <3>1, <3>2
    <3>3. CASE x # {}
      <4>1. f[x] = step[x][f[next[x]]] /\ next[x] \in D
        BY <1>4, <3>1, <3>3
      <4>2. f[next[x]] \in Nat
        BY <1>9, <4>1
      <4> QED
        BY <3>3, <4>1, <4>2
    <3> QED
      BY <3>2, <3>3
  <2> HIDE DEF D
  <2> QED
    BY <2>1, <2>2
<1> DEFINE iter == CHOOSE g : Loop(g)
<1>11. Loop(iter)
  <2> HIDE DEF Loop
  <2> QED
    BY <1>10
<1>12. RecordCount = iter[S]
  BY DEF RecordCount, MapThenSumSet, MapThenFoldSet
<1> HIDE DEF iter
<1> DEFINE Good == {x \in D : iter[x] \in Sum(x)}
<1>13. ASSUME NEW x \in D, \A y \in D : measure[y] < measure[x] => y \in Good
       PROVE  x \in Good
  <2>1. iter[x] = IF x = {} THEN 0 ELSE segments[one[x]].size + iter[next[x]]
    BY <1>11
  <2>2. CASE x = {}
    BY <2>1, <2>2
  <2>3. CASE x # {}
    <3>1. /\ one[x] \in x /\ one[x] \in S
          /\ next[x] = x \ {one[x]} /\ next[x] \in D
      BY <1>4, <2>3
    <3>2. measure[next[x]] < measure[x]
      <4>1. x \notin stop
        BY <2>3
      <4> HIDE DEF D, measure, next, stop
      <4> QED
        BY <1>5, <4>1 DEF Falls
    <3>3. next[x] \in Good
      <4> HIDE DEF D, measure, next, Good
      <4> QED
        BY <1>13, <3>1, <3>2
    <3> HIDE DEF next, one
    <3>4. PICK n \in Nat : n = iter[next[x]]
      BY <3>3
    <3>5. n = 0 => \A s \in x \ {one[x]} : segments[s].size = 0
      BY <3>1, <3>3, <3>4
    <3>6. PICK i \in Nat : i = segments[one[x]].size
      BY <1>1, <3>1
    <3>7. iter[x] = i + n
      BY <2>1, <2>3, <3>4, <3>6
    <3>8. i + n \in Nat /\ (i + n = 0 => i = 0 /\ n = 0)
      OBVIOUS
    <3>9. i + n = 0 => \A s \in x : segments[s].size = 0
      BY <3>5, <3>6, <3>8
    <3> QED
      BY <3>7, <3>8, <3>9
  <2> QED
    BY <2>2, <2>3
<1>14. D \subseteq Good
  <2>1. measure \in [D -> Nat]
    BY <1>3
  <2> HIDE DEF D, measure, Good
  <2> QED
    BY <1>13, <2>1, MeasuredInduction
<1> QED
  BY <1>12, <1>14
\* Writing one segment leaves the others alone.
LEMMA SegmentAssigned ==
  ASSUME TypeOK, NEW s, NEW b \in Buffer
  PROVE  /\ Assign(segments, s, b) \in [DOMAIN segments \cup {s} -> Buffer]
         /\ DOMAIN Assign(segments, s, b) = DOMAIN segments \cup {s}
<1>1. segments \in [DOMAIN segments -> Buffer]
  BY DEF TypeOK, WALTypes
<1> QED
  BY <1>1, AssignType

\* Freezing numbers the new memtable and the new segment next.
LEMMA FreezeTypes ==
  ASSUME TypeOK, FreezeMutableLocked
  PROVE  /\ mutable' = mutable + 1 /\ immutable' = mutable
         /\ memtables' \in [1..mutable + 1 -> Buffer]
         /\ segments' \in [DOMAIN segments' -> Buffer]
         /\ DOMAIN segments' = DOMAIN segments \cup {segmentID + 1}
<1>1. DOMAIN memtables = 1..mutable /\ mutable \in Nat
  BY DEF TypeOK, MemTableTypes
<1>2. DOMAIN memtables \cup {mutable + 1} = 1..mutable + 1
  BY <1>1
<1>3. memtables \in [DOMAIN memtables -> Buffer]
  BY <1>1 DEF TypeOK, MemTableTypes
<1>4. memtables' \in [1..mutable + 1 -> Buffer]
  BY <1>2, <1>3, LayerTypes, AssignType DEF FreezeMutableLocked
<1>5. /\ segments' \in [DOMAIN segments' -> Buffer]
      /\ DOMAIN segments' = DOMAIN segments \cup {segmentID + 1}
  BY LayerTypes, SegmentAssigned DEF FreezeMutableLocked
<1> QED
  BY <1>4, <1>5 DEF FreezeMutableLocked

\* AppendRecord appends to the active segment, or to an empty one after it.
LEMMA AppendTypes ==
  ASSUME TypeOK, Disk, up
  PROVE  /\ segmentID \in Nat \ {0}
         /\ AppendSegment \in {segmentID, segmentID + 1}
         /\ AppendTo \in Buffer
BY LayerTypes, SegmentTypes
   DEF TypeOK, WALTypes, Disk, AppendSegment, AppendTo

\* What a flush writes to its file is a layer; ...
LEMMA MemLayer ==
  ASSUME TypeOK, NEW m \in 0..mutable
  PROVE  MemCells(m) \in Layer
BY LayerTypes DEF TypeOK, MemTableTypes, MemCells, Nil, Buffer

\* ... so is what a compaction writes, ...
LEMMA FileLayers ==
  ASSUME TypeOK, Disk, up, NEW S \in SUBSET DOMAIN files
  PROVE  Overlay(FileCells, S) \in Layer
<1>1. S \in SUBSET Nat /\ nextGen \in Nat /\ \A g \in S : g <= nextGen
  BY ControlTypes DEF Disk
<1>2. \A g \in S : FileCells[g] \in Layer
  BY DEF FileCells, TypeOK, TableTypes, SSTFile
<1> QED
  BY <1>1, <1>2, OverlayType

\* ... and what recovery replays into the memtable.
LEMMA SegmentLayers ==
  ASSUME TypeOK, Disk
  PROVE  Replayed \in Layer
<1>1. PICK n \in Nat : n = Max(DOMAIN segments)
  BY SegmentsMax, SegmentTypes
<1>2. \A s \in DOMAIN segments : s <= n
  BY <1>1, SegmentsMax
<1>3. \A s \in DOMAIN segments : SegmentCells[s] \in Layer
  BY DEF SegmentCells, TypeOK, WALTypes, Buffer
<1> QED
  BY <1>2, <1>3, SegmentTypes, OverlayType DEF Replayed

\* So does creating or removing one SSTable.
LEMMA FileChanged ==
  ASSUME TypeOK, NEW g
  PROVE  /\ \A f \in SSTFile :
              /\ Assign(files, g, f) \in [DOMAIN files \cup {g} -> SSTFile]
              /\ DOMAIN Assign(files, g, f) = DOMAIN files \cup {g}
         /\ Without(files, {g}) \in [DOMAIN files \ {g} -> SSTFile]
         /\ DOMAIN Without(files, {g}) = DOMAIN files \ {g}
<1>1. files \in [DOMAIN files -> SSTFile]
  BY DEF TypeOK, TableTypes
<1>2. \A f \in SSTFile :
         /\ Assign(files, g, f) \in [DOMAIN files \cup {g} -> SSTFile]
         /\ DOMAIN Assign(files, g, f) = DOMAIN files \cup {g}
  BY <1>1, AssignType
<1>3. /\ Without(files, {g}) \in [DOMAIN files \ {g} -> SSTFile]
      /\ DOMAIN Without(files, {g}) = DOMAIN files \ {g}
  BY <1>1, WithoutType
<1> QED
  BY <1>2, <1>3

-----------------------------------------------------------------------------
(* Every step preserves every part of IInv.                                *)

\* Whoever waits for a flush keeps the record it is to write.
LEMMA CallStep ==
  ASSUME IInv, [Next]_vars
  PROVE  Calls'
<1> USE DEF IInv, TypeOK, CallTypes, Calls, Threads, disk, memory, list,
        locks, calls, flushing, reading, history, Goto, Counted
<1>1. ASSUME NEW p \in Writers, NEW k \in Key, NEW e \in Entry, Call(p, k, e)
      PROVE  Calls'
  BY <1>1 DEF Call
<1>2. ASSUME NEW p \in Writers, PrepareWait(p) PROVE Calls'
  BY <1>2 DEF PrepareWait, CallFlush
<1>3. ASSUME NEW p \in Writers, PrepareFreeze(p) PROVE Calls'
  BY <1>3 DEF PrepareFreeze, FreezeMutableLocked
<1>4. ASSUME NEW p \in Writers, Append(p) PROVE Calls'
  BY <1>4 DEF Append, CallFlush, WriteRecord, ObserveStore, StoreValue
<1>5. ASSUME NEW p \in Writers, PrepareFails(p) PROVE Calls'
  BY <1>5 DEF PrepareFails, FreezeFails, WriteError
<1>6. ASSUME NEW p \in Writers, AppendInDoubt(p) PROVE Calls'
  BY <1>6 DEF AppendInDoubt, WriteError, WriteRecord
<1>7. ASSUME NEW p \in Writers, AppendFails(p) PROVE Calls'
  BY <1>7 DEF AppendFails, WriteError
<1>8. ASSUME NEW p \in Writers, Flush(p) PROVE Calls'
  BY <1>8 DEF Flush, FlushLocked, FlushFreezeFails, FreezeMutableLocked,
     FreezeFails, CallFlush
<1>9. ASSUME NEW p \in Writers, Close(p) PROVE Calls'
  BY <1>9 DEF Close, FlushLocked, FlushFreezeFails, FreezeMutableLocked,
     FreezeFails, CallFlush
<1>10. ASSUME NEW p \in Writers \cup Readers, FlushStale(p) PROVE Calls'
  BY <1>10 DEF FlushStale, FlushEnter, ReturnFromFlush
<1>11. ASSUME NEW p \in Writers \cup Readers, FlushBegin(p) PROVE Calls'
  BY <1>11 DEF FlushBegin, FlushEnter
<1>12. ASSUME NEW p \in Writers \cup Readers, FlushWrite(p) PROVE Calls'
  BY <1>12 DEF FlushWrite
<1>13. ASSUME NEW p \in Writers \cup Readers, FlushInstall(p) PROVE Calls'
  BY <1>13 DEF FlushInstall
<1>14. ASSUME NEW p \in Writers \cup Readers, FlushClear(p) PROVE Calls'
  BY <1>14 DEF FlushClear, SegmentsUpTo
<1>15. ASSUME NEW p \in Writers \cup Readers, FlushReclaim(p) PROVE Calls'
  BY <1>15 DEF FlushReclaim
<1>16. ASSUME NEW p \in Writers \cup Readers, FlushReturn(p) PROVE Calls'
  BY <1>16 DEF FlushReturn, ReturnFromFlush, EndFlush
<1>17. ASSUME NEW p \in Writers \cup Readers, FlushWriteFails(p) PROVE Calls'
  BY <1>17 DEF FlushWriteFails, ReturnFromFlush, EndFlush
<1>18. ASSUME NEW p \in Writers \cup Readers, FlushOpenFails(p) PROVE Calls'
  BY <1>18 DEF FlushOpenFails, ReturnFromFlush, EndFlush
<1>19. ASSUME NEW p \in Writers \cup Readers, FlushReclaimFails(p) PROVE Calls'
  BY <1>19 DEF FlushReclaimFails
<1>20. ASSUME NEW r \in Readers, Get(r) PROVE Calls'
  BY <1>20 DEF Get, GetTables
<1>21. ASSUME NEW r \in Readers, GetLookup(r) PROVE Calls'
  BY <1>21 DEF GetLookup, Forget
<1>22. ASSUME NEW r \in Readers, Scan(r) PROVE Calls'
  BY <1>22 DEF Scan
<1>23. ASSUME NEW r \in Readers, SnapshotWait(r) PROVE Calls'
  BY <1>23 DEF SnapshotWait, CallFlush
<1>24. ASSUME NEW r \in Readers, SnapshotForScan(r) PROVE Calls'
  BY <1>24 DEF SnapshotForScan, FreezeMutableLocked, GetTables
<1>25. ASSUME NEW r \in Readers, SnapshotFails(r) PROVE Calls'
  BY <1>25 DEF SnapshotFails, FreezeFails
<1>26. ASSUME NEW r \in Readers, ScanClose(r) PROVE Calls'
  BY <1>26 DEF ScanClose, Forget
<1>27. ASSUME NEW p \in Readers \cup {Compactor}, Release(p) PROVE Calls'
  BY <1>27 DEF Release, LastHolder
<1>28. ASSUME NEW p \in Readers \cup {Compactor}, ReleaseDone(p) PROVE Calls'
  BY <1>28 DEF ReleaseDone
<1>29. ASSUME CompactBegin PROVE Calls'
  BY <1>29 DEF CompactBegin, GetTables
<1>30. ASSUME CompactTarget PROVE Calls'
  BY <1>30 DEF CompactTarget
<1>31. ASSUME CompactMerge PROVE Calls'
  BY <1>31 DEF CompactMerge
<1>32. ASSUME CompactReplace PROVE Calls'
  BY <1>32 DEF CompactReplace
<1>33. ASSUME CompactFails PROVE Calls'
  BY <1>33 DEF CompactFails
<1>34. ASSUME NEW p \in Writers, CloseFinish(p) PROVE Calls'
  BY <1>34 DEF CloseFinish, LoseMemory
<1>35. ASSUME Crash PROVE Calls'
  BY <1>35 DEF Crash, LoseMemory
<1>36. ASSUME Restart PROVE Calls'
  BY <1>36 DEF Restart
<1>37. CASE UNCHANGED vars
  BY <1>37 DEF vars
<1> QED
  BY <1>1, <1>2, <1>3, <1>4, <1>5, <1>6, <1>7, <1>8, <1>9, <1>10, <1>11,
     <1>12, <1>13, <1>14, <1>15, <1>16, <1>17, <1>18, <1>19, <1>20, <1>21,
     <1>22, <1>23, <1>24, <1>25, <1>26, <1>27, <1>28, <1>29, <1>30, <1>31,
     <1>32, <1>33, <1>34, <1>35, <1>36, <1>37
     DEF Next, Writer, Reader, Compaction, Insert, Delete, WriteSteps,
         WriteErrors, FlushSteps, FlushErrors, ReadSteps, ReleaseSteps,
         CompactSteps, RestartFails, Quiet, Entry

\* A closed database has no call in progress.
LEMMA DownStep ==
  ASSUME IInv, [Next]_vars
  PROVE  Down'
<1> USE DEF IInv, TypeOK, CallTypes, TableTypes, Down, Threads, disk, memory,
        list, locks, calls, flushing, reading, history, Goto, Counted
<1>1. ASSUME NEW p \in Writers, NEW k \in Key, NEW e \in Entry, Call(p, k, e)
      PROVE  Down'
  BY <1>1 DEF Call
<1>2. ASSUME NEW p \in Writers, PrepareWait(p) PROVE Down'
  BY <1>2 DEF PrepareWait, CallFlush
<1>3. ASSUME NEW p \in Writers, PrepareFreeze(p) PROVE Down'
  BY <1>3 DEF PrepareFreeze, FreezeMutableLocked
<1>4. ASSUME NEW p \in Writers, Append(p) PROVE Down'
  BY <1>4 DEF Append, CallFlush, WriteRecord, ObserveStore, StoreValue
<1>5. ASSUME NEW p \in Writers, PrepareFails(p) PROVE Down'
  BY <1>5 DEF PrepareFails, FreezeFails, WriteError
<1>6. ASSUME NEW p \in Writers, AppendInDoubt(p) PROVE Down'
  BY <1>6 DEF AppendInDoubt, WriteError, WriteRecord
<1>7. ASSUME NEW p \in Writers, AppendFails(p) PROVE Down'
  BY <1>7 DEF AppendFails, WriteError
<1>8. ASSUME NEW p \in Writers, Flush(p) PROVE Down'
  BY <1>8 DEF Flush, FlushLocked, FlushFreezeFails, FreezeMutableLocked,
     FreezeFails, CallFlush
<1>9. ASSUME NEW p \in Writers, Close(p) PROVE Down'
  BY <1>9 DEF Close, FlushLocked, FlushFreezeFails, FreezeMutableLocked,
     FreezeFails, CallFlush
<1>10. ASSUME NEW p \in Writers \cup Readers, FlushStale(p) PROVE Down'
  BY <1>10 DEF FlushStale, FlushEnter, ReturnFromFlush
<1>11. ASSUME NEW p \in Writers \cup Readers, FlushBegin(p) PROVE Down'
  BY <1>11 DEF FlushBegin, FlushEnter
<1>12. ASSUME NEW p \in Writers \cup Readers, FlushWrite(p) PROVE Down'
  BY <1>12 DEF FlushWrite
<1>13. ASSUME NEW p \in Writers \cup Readers, FlushInstall(p) PROVE Down'
  BY <1>13 DEF FlushInstall
<1>14. ASSUME NEW p \in Writers \cup Readers, FlushClear(p) PROVE Down'
  BY <1>14 DEF FlushClear, SegmentsUpTo
<1>15. ASSUME NEW p \in Writers \cup Readers, FlushReclaim(p) PROVE Down'
  BY <1>15 DEF FlushReclaim
<1>16. ASSUME NEW p \in Writers \cup Readers, FlushReturn(p) PROVE Down'
  BY <1>16 DEF FlushReturn, ReturnFromFlush, EndFlush
<1>17. ASSUME NEW p \in Writers \cup Readers, FlushWriteFails(p) PROVE Down'
  BY <1>17 DEF FlushWriteFails, ReturnFromFlush, EndFlush
<1>18. ASSUME NEW p \in Writers \cup Readers, FlushOpenFails(p) PROVE Down'
  BY <1>18 DEF FlushOpenFails, ReturnFromFlush, EndFlush
<1>19. ASSUME NEW p \in Writers \cup Readers, FlushReclaimFails(p) PROVE Down'
  BY <1>19 DEF FlushReclaimFails
<1>20. ASSUME NEW r \in Readers, Get(r) PROVE Down'
  BY <1>20 DEF Get, GetTables
<1>21. ASSUME NEW r \in Readers, GetLookup(r) PROVE Down'
  BY <1>21 DEF GetLookup, Forget
<1>22. ASSUME NEW r \in Readers, Scan(r) PROVE Down'
  BY <1>22 DEF Scan
<1>23. ASSUME NEW r \in Readers, SnapshotWait(r) PROVE Down'
  BY <1>23 DEF SnapshotWait, CallFlush
<1>24. ASSUME NEW r \in Readers, SnapshotForScan(r) PROVE Down'
  BY <1>24 DEF SnapshotForScan, FreezeMutableLocked, GetTables
<1>25. ASSUME NEW r \in Readers, SnapshotFails(r) PROVE Down'
  BY <1>25 DEF SnapshotFails, FreezeFails
<1>26. ASSUME NEW r \in Readers, ScanClose(r) PROVE Down'
  BY <1>26 DEF ScanClose, Forget
<1>27. ASSUME NEW p \in Readers \cup {Compactor}, Release(p) PROVE Down'
  BY <1>27 DEF Release, LastHolder
<1>28. ASSUME NEW p \in Readers \cup {Compactor}, ReleaseDone(p) PROVE Down'
  BY <1>28 DEF ReleaseDone
<1>29. ASSUME CompactBegin PROVE Down'
  BY <1>29 DEF CompactBegin, GetTables
<1>30. ASSUME CompactTarget PROVE Down'
  BY <1>30 DEF CompactTarget
<1>31. ASSUME CompactMerge PROVE Down'
  BY <1>31 DEF CompactMerge
<1>32. ASSUME CompactReplace PROVE Down'
  BY <1>32 DEF CompactReplace
<1>33. ASSUME CompactFails PROVE Down'
  BY <1>33 DEF CompactFails
<1>34. ASSUME NEW p \in Writers, CloseFinish(p) PROVE Down'
  BY <1>34 DEF CloseFinish, LoseMemory
<1>35. ASSUME Crash PROVE Down'
  BY <1>35 DEF Crash, LoseMemory
<1>36. ASSUME Restart PROVE Down'
  BY <1>36 DEF Restart
<1>37. CASE UNCHANGED vars
  BY <1>37 DEF vars
<1> QED
  BY <1>1, <1>2, <1>3, <1>4, <1>5, <1>6, <1>7, <1>8, <1>9, <1>10, <1>11,
     <1>12, <1>13, <1>14, <1>15, <1>16, <1>17, <1>18, <1>19, <1>20, <1>21,
     <1>22, <1>23, <1>24, <1>25, <1>26, <1>27, <1>28, <1>29, <1>30, <1>31,
     <1>32, <1>33, <1>34, <1>35, <1>36, <1>37
     DEF Next, Writer, Reader, Compaction, Insert, Delete, WriteSteps,
         WriteErrors, FlushSteps, FlushErrors, ReadSteps, ReleaseSteps,
         CompactSteps, RestartFails, Quiet, Entry

\* A flush in progress is disturbed by no other call.
LEMMA FlushStep ==
  ASSUME IInv, [Next]_vars
  PROVE  Flushes'
<1> USE ThreadAssumption, ControlTypes DEF IInv, Flushes, Threads, Down, Nil,
        disk, memory, list, locks, calls, flushing, reading, history, Goto,
        Counted
<1>1. ASSUME NEW p \in Writers, NEW k \in Key, NEW e \in Entry, Call(p, k, e)
      PROVE  Flushes'
  BY <1>1 DEF Call
<1>2. ASSUME NEW p \in Writers, PrepareWait(p) PROVE Flushes'
  BY <1>2 DEF PrepareWait, CallFlush
<1>3. ASSUME NEW p \in Writers, PrepareFreeze(p) PROVE Flushes'
  BY <1>3 DEF PrepareFreeze, FreezeMutableLocked
<1>4. ASSUME NEW p \in Writers, Append(p) PROVE Flushes'
  BY <1>4 DEF Append, CallFlush, WriteRecord, ObserveStore, StoreValue
<1>5. ASSUME NEW p \in Writers, PrepareFails(p) PROVE Flushes'
  BY <1>5 DEF PrepareFails, FreezeFails, WriteError
<1>6. ASSUME NEW p \in Writers, AppendInDoubt(p) PROVE Flushes'
  BY <1>6 DEF AppendInDoubt, WriteError, WriteRecord
<1>7. ASSUME NEW p \in Writers, AppendFails(p) PROVE Flushes'
  BY <1>7 DEF AppendFails, WriteError
<1>8. ASSUME NEW p \in Writers, Flush(p) PROVE Flushes'
  BY <1>8 DEF Flush, FlushLocked, FlushFreezeFails, FreezeMutableLocked,
     FreezeFails, CallFlush
<1>9. ASSUME NEW p \in Writers, Close(p) PROVE Flushes'
  BY <1>9 DEF Close, FlushLocked, FlushFreezeFails, FreezeMutableLocked,
     FreezeFails, CallFlush
<1>10. ASSUME NEW p \in Writers \cup Readers, FlushStale(p) PROVE Flushes'
  BY <1>10 DEF FlushStale, FlushEnter, ReturnFromFlush
<1>11. ASSUME NEW p \in Writers \cup Readers, FlushBegin(p) PROVE Flushes'
  BY <1>11 DEF FlushBegin, FlushEnter, Assign, Disk
<1>12. ASSUME NEW p \in Writers \cup Readers, FlushWrite(p) PROVE Flushes'
  BY <1>12 DEF FlushWrite
<1>13. ASSUME NEW p \in Writers \cup Readers, FlushInstall(p) PROVE Flushes'
  BY <1>13 DEF FlushInstall
<1>14. ASSUME NEW p \in Writers \cup Readers, FlushClear(p) PROVE Flushes'
  BY <1>14 DEF FlushClear, SegmentsUpTo
<1>15. ASSUME NEW p \in Writers \cup Readers, FlushReclaim(p) PROVE Flushes'
  BY <1>15 DEF FlushReclaim
<1>16. ASSUME NEW p \in Writers \cup Readers, FlushReturn(p) PROVE Flushes'
  BY <1>16 DEF FlushReturn, ReturnFromFlush, EndFlush
<1>17. ASSUME NEW p \in Writers \cup Readers, FlushWriteFails(p) PROVE Flushes'
  BY <1>17 DEF FlushWriteFails, ReturnFromFlush, EndFlush, Assign, Without,
     Restrict
<1>18. ASSUME NEW p \in Writers \cup Readers, FlushOpenFails(p) PROVE Flushes'
  BY <1>18 DEF FlushOpenFails, ReturnFromFlush, EndFlush
<1>19. ASSUME NEW p \in Writers \cup Readers, FlushReclaimFails(p)
      PROVE  Flushes'
  BY <1>19 DEF FlushReclaimFails
<1>20. ASSUME NEW r \in Readers, Get(r) PROVE Flushes'
  BY <1>20 DEF Get, GetTables
<1>21. ASSUME NEW r \in Readers, GetLookup(r) PROVE Flushes'
  BY <1>21 DEF GetLookup, Forget
<1>22. ASSUME NEW r \in Readers, Scan(r) PROVE Flushes'
  BY <1>22 DEF Scan
<1>23. ASSUME NEW r \in Readers, SnapshotWait(r) PROVE Flushes'
  BY <1>23 DEF SnapshotWait, CallFlush
<1>24. ASSUME NEW r \in Readers, SnapshotForScan(r) PROVE Flushes'
  BY <1>24 DEF SnapshotForScan, FreezeMutableLocked, GetTables
<1>25. ASSUME NEW r \in Readers, SnapshotFails(r) PROVE Flushes'
  BY <1>25 DEF SnapshotFails, FreezeFails
<1>26. ASSUME NEW r \in Readers, ScanClose(r) PROVE Flushes'
  BY <1>26 DEF ScanClose, Forget
<1>27. ASSUME NEW p \in Readers \cup {Compactor}, Release(p) PROVE Flushes'
  BY <1>27, HeldMax DEF Release, LastHolder, Assign, Without, Restrict
<1>28. ASSUME NEW p \in Readers \cup {Compactor}, ReleaseDone(p) PROVE Flushes'
  BY <1>28 DEF ReleaseDone
<1>29. ASSUME CompactBegin PROVE Flushes'
  BY <1>29 DEF CompactBegin, GetTables
<1>30. ASSUME CompactTarget PROVE Flushes'
  BY <1>30 DEF CompactTarget, Assign, Without, Restrict
<1>31. ASSUME CompactMerge PROVE Flushes'
  BY <1>31 DEF CompactMerge
<1>32. ASSUME CompactReplace PROVE Flushes'
  BY <1>32 DEF CompactReplace, Assign, Without, Restrict
<1>33. ASSUME CompactFails PROVE Flushes'
  BY <1>33 DEF CompactFails, Assign, Without, Restrict
<1>34. ASSUME NEW p \in Writers, CloseFinish(p) PROVE Flushes'
  BY <1>34 DEF CloseFinish, LoseMemory
<1>35. ASSUME Crash PROVE Flushes'
  BY <1>35 DEF Crash, LoseMemory
<1>36. ASSUME Restart PROVE Flushes'
  BY <1>36 DEF Restart
<1>37. CASE UNCHANGED vars
  BY <1>37 DEF vars
<1> QED
  BY <1>1, <1>2, <1>3, <1>4, <1>5, <1>6, <1>7, <1>8, <1>9, <1>10, <1>11,
     <1>12, <1>13, <1>14, <1>15, <1>16, <1>17, <1>18, <1>19, <1>20, <1>21,
     <1>22, <1>23, <1>24, <1>25, <1>26, <1>27, <1>28, <1>29, <1>30, <1>31,
     <1>32, <1>33, <1>34, <1>35, <1>36, <1>37
     DEF Next, Writer, Reader, Compaction, Insert, Delete, WriteSteps,
         WriteErrors, FlushSteps, FlushErrors, ReadSteps, ReleaseSteps,
         CompactSteps, RestartFails, Quiet, Entry

\* Nor is a compaction in progress.
LEMMA CompactStep ==
  ASSUME IInv, [Next]_vars
  PROVE  Compacts'
<1> USE ThreadAssumption, ControlTypes DEF IInv, Flushes, Compacts, Threads,
        Disk, Down, Nil, disk, memory, list, locks, calls, flushing, reading,
        history, Goto, Counted
<1>1. ASSUME NEW p \in Writers, NEW k \in Key, NEW e \in Entry, Call(p, k, e)
      PROVE  Compacts'
  BY <1>1 DEF Call
<1>2. ASSUME NEW p \in Writers, PrepareWait(p) PROVE Compacts'
  BY <1>2 DEF PrepareWait, CallFlush
<1>3. ASSUME NEW p \in Writers, PrepareFreeze(p) PROVE Compacts'
  BY <1>3 DEF PrepareFreeze, FreezeMutableLocked
<1>4. ASSUME NEW p \in Writers, Append(p) PROVE Compacts'
  BY <1>4 DEF Append, CallFlush, WriteRecord, ObserveStore, StoreValue
<1>5. ASSUME NEW p \in Writers, PrepareFails(p) PROVE Compacts'
  BY <1>5 DEF PrepareFails, FreezeFails, WriteError
<1>6. ASSUME NEW p \in Writers, AppendInDoubt(p) PROVE Compacts'
  BY <1>6 DEF AppendInDoubt, WriteError, WriteRecord
<1>7. ASSUME NEW p \in Writers, AppendFails(p) PROVE Compacts'
  BY <1>7 DEF AppendFails, WriteError
<1>8. ASSUME NEW p \in Writers, Flush(p) PROVE Compacts'
  BY <1>8 DEF Flush, FlushLocked, FlushFreezeFails, FreezeMutableLocked,
     FreezeFails, CallFlush
<1>9. ASSUME NEW p \in Writers, Close(p) PROVE Compacts'
  BY <1>9 DEF Close, FlushLocked, FlushFreezeFails, FreezeMutableLocked,
     FreezeFails, CallFlush
<1>10. ASSUME NEW p \in Writers \cup Readers, FlushStale(p) PROVE Compacts'
  BY <1>10 DEF FlushStale, FlushEnter, ReturnFromFlush
<1>11. ASSUME NEW p \in Writers \cup Readers, FlushBegin(p) PROVE Compacts'
  BY <1>11 DEF FlushBegin, FlushEnter, Assign, Without, Restrict
<1>12. ASSUME NEW p \in Writers \cup Readers, FlushWrite(p) PROVE Compacts'
  BY <1>12 DEF FlushWrite
<1>13. ASSUME NEW p \in Writers \cup Readers, FlushInstall(p) PROVE Compacts'
  BY <1>13 DEF FlushInstall
<1>14. ASSUME NEW p \in Writers \cup Readers, FlushClear(p) PROVE Compacts'
  BY <1>14 DEF FlushClear, SegmentsUpTo
<1>15. ASSUME NEW p \in Writers \cup Readers, FlushReclaim(p) PROVE Compacts'
  BY <1>15 DEF FlushReclaim
<1>16. ASSUME NEW p \in Writers \cup Readers, FlushReturn(p) PROVE Compacts'
  BY <1>16 DEF FlushReturn, ReturnFromFlush, EndFlush
<1>17. ASSUME NEW p \in Writers \cup Readers, FlushWriteFails(p)
      PROVE  Compacts'
  BY <1>17 DEF FlushWriteFails, ReturnFromFlush, EndFlush, Assign, Without,
     Restrict
<1>18. ASSUME NEW p \in Writers \cup Readers, FlushOpenFails(p) PROVE Compacts'
  BY <1>18 DEF FlushOpenFails, ReturnFromFlush, EndFlush
<1>19. ASSUME NEW p \in Writers \cup Readers, FlushReclaimFails(p)
      PROVE  Compacts'
  BY <1>19 DEF FlushReclaimFails
<1>20. ASSUME NEW r \in Readers, Get(r) PROVE Compacts'
  BY <1>20 DEF Get, GetTables
<1>21. ASSUME NEW r \in Readers, GetLookup(r) PROVE Compacts'
  BY <1>21 DEF GetLookup, Forget
<1>22. ASSUME NEW r \in Readers, Scan(r) PROVE Compacts'
  BY <1>22 DEF Scan
<1>23. ASSUME NEW r \in Readers, SnapshotWait(r) PROVE Compacts'
  BY <1>23 DEF SnapshotWait, CallFlush
<1>24. ASSUME NEW r \in Readers, SnapshotForScan(r) PROVE Compacts'
  BY <1>24 DEF SnapshotForScan, FreezeMutableLocked, GetTables
<1>25. ASSUME NEW r \in Readers, SnapshotFails(r) PROVE Compacts'
  BY <1>25 DEF SnapshotFails, FreezeFails
<1>26. ASSUME NEW r \in Readers, ScanClose(r) PROVE Compacts'
  BY <1>26 DEF ScanClose, Forget
<1>27. ASSUME NEW p \in Readers \cup {Compactor}, Release(p) PROVE Compacts'
  BY <1>27, HeldMax DEF Release, LastHolder, Assign, Without, Restrict
<1>28. ASSUME NEW p \in Readers \cup {Compactor}, ReleaseDone(p)
      PROVE  Compacts'
  BY <1>28 DEF ReleaseDone
<1>29. ASSUME CompactBegin PROVE Compacts'
  BY <1>29 DEF CompactBegin, GetTables
<1>30. ASSUME CompactTarget PROVE Compacts'
  BY <1>30 DEF CompactTarget, Assign, Without, Restrict
<1>31. ASSUME CompactMerge PROVE Compacts'
  BY <1>31 DEF CompactMerge
<1>32. ASSUME CompactReplace PROVE Compacts'
  BY <1>32 DEF CompactReplace, Assign, Without, Restrict
<1>33. ASSUME CompactFails PROVE Compacts'
  BY <1>33 DEF CompactFails, Assign, Without, Restrict
<1>34. ASSUME NEW p \in Writers, CloseFinish(p) PROVE Compacts'
  BY <1>34 DEF CloseFinish, LoseMemory
<1>35. ASSUME Crash PROVE Compacts'
  BY <1>35 DEF Crash, LoseMemory
<1>36. ASSUME Restart PROVE Compacts'
  BY <1>36 DEF Restart
<1>37. CASE UNCHANGED vars
  BY <1>37 DEF vars
<1> QED
  BY <1>1, <1>2, <1>3, <1>4, <1>5, <1>6, <1>7, <1>8, <1>9, <1>10, <1>11,
     <1>12, <1>13, <1>14, <1>15, <1>16, <1>17, <1>18, <1>19, <1>20, <1>21,
     <1>22, <1>23, <1>24, <1>25, <1>26, <1>27, <1>28, <1>29, <1>30, <1>31,
     <1>32, <1>33, <1>34, <1>35, <1>36, <1>37
     DEF Next, Writer, Reader, Compaction, Insert, Delete, WriteSteps,
         WriteErrors, FlushSteps, FlushErrors, ReadSteps, ReleaseSteps,
         CompactSteps, RestartFails, Quiet, Entry

\* Frozen memtables and files that are not in the list yet do not change.
LEMMA CopyStep ==
  ASSUME IInv, [Next]_vars
  PROVE  Copies'
<1> USE ThreadAssumption, ControlTypes DEF IInv, Flushes, Copies, Compacts,
        MemCells, Threads, Down, Disk, Nil, disk, memory, list, locks, calls,
        flushing, reading, history, Goto, Counted
<1>1. ASSUME NEW p \in Writers, NEW k \in Key, NEW e \in Entry, Call(p, k, e)
      PROVE  Copies'
  BY <1>1 DEF Call
<1>2. ASSUME NEW p \in Writers, PrepareWait(p) PROVE Copies'
  BY <1>2 DEF PrepareWait, CallFlush
<1>3. ASSUME NEW p \in Writers, PrepareFreeze(p) PROVE Copies'
  BY <1>3 DEF PrepareFreeze, FreezeMutableLocked, Assign, Without, Restrict
<1>4. ASSUME NEW p \in Writers, Append(p) PROVE Copies'
  <2>1. UNCHANGED <<files, flushGen, immutable>> /\ immutable # mutable
    BY <1>4 DEF Append
  <2>2. \A q \in Threads : pc'[q] = "install" => pc[q] = "install"
    BY <1>4 DEF Append, CallFlush
  <2>3. memtables' = [memtables EXCEPT ![mutable] =
                         PutRecord(@, op[p][1], op[p][2])]
    BY <1>4 DEF Append
  <2>4. MemCells(immutable)' = MemCells(immutable)
    BY <2>1, <2>3 DEF TypeOK, MemTableTypes
  <2> HIDE DEF MemCells
  <2> QED
    BY <2>1, <2>2, <2>4
<1>5. ASSUME NEW p \in Writers, PrepareFails(p) PROVE Copies'
  BY <1>5 DEF PrepareFails, FreezeFails, WriteError
<1>6. ASSUME NEW p \in Writers, AppendInDoubt(p) PROVE Copies'
  BY <1>6 DEF AppendInDoubt, WriteError, WriteRecord
<1>7. ASSUME NEW p \in Writers, AppendFails(p) PROVE Copies'
  BY <1>7 DEF AppendFails, WriteError
<1>8. ASSUME NEW p \in Writers, Flush(p) PROVE Copies'
  BY <1>8 DEF Flush, FlushLocked, FlushFreezeFails, FreezeMutableLocked,
     FreezeFails, CallFlush, Assign, Without, Restrict
<1>9. ASSUME NEW p \in Writers, Close(p) PROVE Copies'
  BY <1>9 DEF Close, FlushLocked, FlushFreezeFails, FreezeMutableLocked,
     FreezeFails, CallFlush, Assign, Without, Restrict
<1>10. ASSUME NEW p \in Writers \cup Readers, FlushStale(p) PROVE Copies'
  BY <1>10 DEF FlushStale, FlushEnter, ReturnFromFlush
<1>11. ASSUME NEW p \in Writers \cup Readers, FlushBegin(p) PROVE Copies'
  BY <1>11 DEF FlushBegin, FlushEnter, Assign, Without, Restrict
<1>12. ASSUME NEW p \in Writers \cup Readers, FlushWrite(p) PROVE Copies'
  BY <1>12 DEF FlushWrite
<1>13. ASSUME NEW p \in Writers \cup Readers, FlushInstall(p) PROVE Copies'
  BY <1>13 DEF FlushInstall
<1>14. ASSUME NEW p \in Writers \cup Readers, FlushClear(p) PROVE Copies'
  BY <1>14 DEF FlushClear, SegmentsUpTo
<1>15. ASSUME NEW p \in Writers \cup Readers, FlushReclaim(p) PROVE Copies'
  BY <1>15 DEF FlushReclaim, Assign, Without, Restrict
<1>16. ASSUME NEW p \in Writers \cup Readers, FlushReturn(p) PROVE Copies'
  BY <1>16 DEF FlushReturn, ReturnFromFlush, EndFlush
<1>17. ASSUME NEW p \in Writers \cup Readers, FlushWriteFails(p) PROVE Copies'
  BY <1>17 DEF FlushWriteFails, ReturnFromFlush, EndFlush, Assign, Without,
     Restrict
<1>18. ASSUME NEW p \in Writers \cup Readers, FlushOpenFails(p) PROVE Copies'
  BY <1>18 DEF FlushOpenFails, ReturnFromFlush, EndFlush
<1>19. ASSUME NEW p \in Writers \cup Readers, FlushReclaimFails(p)
      PROVE  Copies'
  BY <1>19 DEF FlushReclaimFails
<1>20. ASSUME NEW r \in Readers, Get(r) PROVE Copies'
  BY <1>20 DEF Get, GetTables
<1>21. ASSUME NEW r \in Readers, GetLookup(r) PROVE Copies'
  BY <1>21 DEF GetLookup, Forget
<1>22. ASSUME NEW r \in Readers, Scan(r) PROVE Copies'
  BY <1>22 DEF Scan
<1>23. ASSUME NEW r \in Readers, SnapshotWait(r) PROVE Copies'
  BY <1>23 DEF SnapshotWait, CallFlush
<1>24. ASSUME NEW r \in Readers, SnapshotForScan(r) PROVE Copies'
  <2>1. UNCHANGED <<files, flushGen>>
    BY <1>24 DEF SnapshotForScan
  <2>2. \A q \in Threads : pc'[q] = "install" => pc[q] = "install"
    BY <1>24 DEF SnapshotForScan
  <2>3. CASE \E q \in Threads : pc[q] = "install"
    <3>1. UNCHANGED <<memtables, immutable>>
      BY <1>24, <2>3 DEF SnapshotForScan, FreezeMutableLocked
    <3> QED
      BY <2>1, <2>2, <3>1
  <2> QED
    BY <2>2, <2>3
<1>25. ASSUME NEW r \in Readers, SnapshotFails(r) PROVE Copies'
  BY <1>25 DEF SnapshotFails, FreezeFails
<1>26. ASSUME NEW r \in Readers, ScanClose(r) PROVE Copies'
  BY <1>26 DEF ScanClose, Forget
<1>27. ASSUME NEW p \in Readers \cup {Compactor}, Release(p) PROVE Copies'
  <2>1. UNCHANGED <<flushGen, immutable, memtables, pc>>
    BY <1>27 DEF Release
  <2>2. Max(held[p]) \in held[p]
    BY <1>27, HeldMax DEF Release
  <2>3. \A g \in DOMAIN files \ {Max(held[p])} : files'[g] = files[g]
    BY <1>27 DEF Release, Without, Restrict
  <2>4. MemCells(immutable)' = MemCells(immutable)
    BY <2>1
  <2> HIDE DEF MemCells
  <2> SUFFICES ASSUME NEW q \in Threads, pc[q] = "install"
               PROVE  files'[flushGen] = files[flushGen]
    BY <2>1, <2>4
  <2>5. flushGen \in DOMAIN files /\ flushGen \notin held[p]
    OBVIOUS
  <2> QED
    BY <2>2, <2>3, <2>5
<1>28. ASSUME NEW p \in Readers \cup {Compactor}, ReleaseDone(p) PROVE Copies'
  BY <1>28 DEF ReleaseDone
<1>29. ASSUME CompactBegin PROVE Copies'
  BY <1>29 DEF CompactBegin, GetTables
<1>30. ASSUME CompactTarget PROVE Copies'
  <2>1. UNCHANGED <<flushGen, immutable, memtables>>
    BY <1>30 DEF CompactTarget
  <2>2. \A q \in Threads : pc'[q] = "install" => pc[q] = "install"
    BY <1>30 DEF CompactTarget
  <2>3. \A g \in DOMAIN files : files'[g] = files[g]
    BY <1>30 DEF CompactTarget, Assign
  <2> QED
    BY <2>1, <2>2, <2>3
<1>31. ASSUME CompactMerge PROVE Copies'
  BY <1>31 DEF CompactMerge
<1>32. ASSUME CompactReplace PROVE Copies'
  BY <1>32 DEF CompactReplace, Assign, Without, Restrict
<1>33. ASSUME CompactFails PROVE Copies'
  BY <1>33 DEF CompactFails, Assign, Without, Restrict
<1>34. ASSUME NEW p \in Writers, CloseFinish(p) PROVE Copies'
  BY <1>34 DEF CloseFinish, LoseMemory
<1>35. ASSUME Crash PROVE Copies'
  BY <1>35 DEF Crash, LoseMemory
<1>36. ASSUME Restart PROVE Copies'
  BY <1>36 DEF Restart
<1>37. CASE UNCHANGED vars
  BY <1>37 DEF vars
<1> QED
  BY <1>1, <1>2, <1>3, <1>4, <1>5, <1>6, <1>7, <1>8, <1>9, <1>10, <1>11,
     <1>12, <1>13, <1>14, <1>15, <1>16, <1>17, <1>18, <1>19, <1>20, <1>21,
     <1>22, <1>23, <1>24, <1>25, <1>26, <1>27, <1>28, <1>29, <1>30, <1>31,
     <1>32, <1>33, <1>34, <1>35, <1>36, <1>37
     DEF Next, Writer, Reader, Compaction, Insert, Delete, WriteSteps,
         WriteErrors, FlushSteps, FlushErrors, ReadSteps, ReleaseSteps,
         CompactSteps, RestartFails, Quiet, Entry

\* Numbers grow, and only what nobody needs is removed.
LEMMA DiskStep ==
  ASSUME IInv, [Next]_vars
  PROVE  Disk'
<1> USE ThreadAssumption, ControlTypes, SegmentTypes DEF IInv, Flushes,
        Compacts, Disk, Threads, Down, Nil, disk, memory, list, locks, calls,
        flushing, reading, history, Goto, Counted
<1>1. ASSUME NEW p \in Writers, NEW k \in Key, NEW e \in Entry, Call(p, k, e)
      PROVE  Disk'
  BY <1>1 DEF Call
<1>2. ASSUME NEW p \in Writers, PrepareWait(p) PROVE Disk'
  BY <1>2 DEF PrepareWait, CallFlush
<1>3. ASSUME NEW p \in Writers, PrepareFreeze(p) PROVE Disk'
  BY <1>3 DEF PrepareFreeze, FreezeMutableLocked, Assign, Without, Restrict
<1>4. ASSUME NEW p \in Writers, Append(p) PROVE Disk'
  BY <1>4, AppendTypes DEF Append, CallFlush, WriteRecord, ObserveStore,
     StoreValue, Assign
<1>5. ASSUME NEW p \in Writers, PrepareFails(p) PROVE Disk'
  BY <1>5 DEF PrepareFails, FreezeFails, WriteError
<1>6. ASSUME NEW p \in Writers, AppendInDoubt(p) PROVE Disk'
  BY <1>6, AppendTypes DEF AppendInDoubt, WriteError, WriteRecord, Assign
<1>7. ASSUME NEW p \in Writers, AppendFails(p) PROVE Disk'
  BY <1>7, AppendTypes DEF AppendFails, WriteError, Assign
<1>8. ASSUME NEW p \in Writers, Flush(p) PROVE Disk'
  BY <1>8 DEF Flush, FlushLocked, FlushFreezeFails, FreezeMutableLocked,
     FreezeFails, CallFlush, Assign, Without, Restrict
<1>9. ASSUME NEW p \in Writers, Close(p) PROVE Disk'
  BY <1>9 DEF Close, FlushLocked, FlushFreezeFails, FreezeMutableLocked,
     FreezeFails, CallFlush, Assign, Without, Restrict
<1>10. ASSUME NEW p \in Writers \cup Readers, FlushStale(p) PROVE Disk'
  BY <1>10 DEF FlushStale, FlushEnter, ReturnFromFlush
<1>11. ASSUME NEW p \in Writers \cup Readers, FlushBegin(p) PROVE Disk'
  BY <1>11 DEF FlushBegin, FlushEnter, Assign, Without, Restrict
<1>12. ASSUME NEW p \in Writers \cup Readers, FlushWrite(p) PROVE Disk'
  BY <1>12 DEF FlushWrite
<1>13. ASSUME NEW p \in Writers \cup Readers, FlushInstall(p) PROVE Disk'
  BY <1>13 DEF FlushInstall
<1>14. ASSUME NEW p \in Writers \cup Readers, FlushClear(p) PROVE Disk'
  BY <1>14 DEF FlushClear, SegmentsUpTo
<1>15. ASSUME NEW p \in Writers \cup Readers, FlushReclaim(p) PROVE Disk'
  BY <1>15, ReclaimMin DEF FlushReclaim, Without, Restrict
<1>16. ASSUME NEW p \in Writers \cup Readers, FlushReturn(p) PROVE Disk'
  BY <1>16 DEF FlushReturn, ReturnFromFlush, EndFlush
<1>17. ASSUME NEW p \in Writers \cup Readers, FlushWriteFails(p) PROVE Disk'
  BY <1>17 DEF FlushWriteFails, ReturnFromFlush, EndFlush, Assign, Without,
     Restrict
<1>18. ASSUME NEW p \in Writers \cup Readers, FlushOpenFails(p) PROVE Disk'
  BY <1>18 DEF FlushOpenFails, ReturnFromFlush, EndFlush
<1>19. ASSUME NEW p \in Writers \cup Readers, FlushReclaimFails(p) PROVE Disk'
  BY <1>19 DEF FlushReclaimFails
<1>20. ASSUME NEW r \in Readers, Get(r) PROVE Disk'
  BY <1>20 DEF Get, GetTables
<1>21. ASSUME NEW r \in Readers, GetLookup(r) PROVE Disk'
  BY <1>21 DEF GetLookup, Forget
<1>22. ASSUME NEW r \in Readers, Scan(r) PROVE Disk'
  BY <1>22 DEF Scan
<1>23. ASSUME NEW r \in Readers, SnapshotWait(r) PROVE Disk'
  BY <1>23 DEF SnapshotWait, CallFlush
<1>24. ASSUME NEW r \in Readers, SnapshotForScan(r) PROVE Disk'
  BY <1>24 DEF SnapshotForScan, FreezeMutableLocked, GetTables, Assign,
     Without, Restrict
<1>25. ASSUME NEW r \in Readers, SnapshotFails(r) PROVE Disk'
  BY <1>25 DEF SnapshotFails, FreezeFails
<1>26. ASSUME NEW r \in Readers, ScanClose(r) PROVE Disk'
  BY <1>26 DEF ScanClose, Forget
<1>27. ASSUME NEW p \in Readers \cup {Compactor}, Release(p) PROVE Disk'
  BY <1>27, HeldMax DEF Release, LastHolder, Assign, Without, Restrict
<1>28. ASSUME NEW p \in Readers \cup {Compactor}, ReleaseDone(p) PROVE Disk'
  BY <1>28 DEF ReleaseDone
<1>29. ASSUME CompactBegin PROVE Disk'
  BY <1>29 DEF CompactBegin, GetTables
<1>30. ASSUME CompactTarget PROVE Disk'
  BY <1>30 DEF CompactTarget, Assign, Without, Restrict
<1>31. ASSUME CompactMerge PROVE Disk'
  BY <1>31 DEF CompactMerge
<1>32. ASSUME CompactReplace PROVE Disk'
  BY <1>32 DEF CompactReplace, Assign, Without, Restrict
<1>33. ASSUME CompactFails PROVE Disk'
  BY <1>33 DEF CompactFails, Assign, Without, Restrict
<1>34. ASSUME NEW p \in Writers, CloseFinish(p) PROVE Disk'
  BY <1>34, FilesMax, SegmentsMax DEF CloseFinish, LoseMemory
<1>35. ASSUME Crash PROVE Disk'
  BY <1>35, FilesMax, SegmentsMax DEF Crash, LoseMemory
<1>36. ASSUME Restart PROVE Disk'
  BY <1>36, FilesMax, SegmentsMax DEF Restart
<1>37. CASE UNCHANGED vars
  BY <1>37 DEF vars
<1> QED
  BY <1>1, <1>2, <1>3, <1>4, <1>5, <1>6, <1>7, <1>8, <1>9, <1>10, <1>11,
     <1>12, <1>13, <1>14, <1>15, <1>16, <1>17, <1>18, <1>19, <1>20, <1>21,
     <1>22, <1>23, <1>24, <1>25, <1>26, <1>27, <1>28, <1>29, <1>30, <1>31,
     <1>32, <1>33, <1>34, <1>35, <1>36, <1>37
     DEF Next, Writer, Reader, Compaction, Insert, Delete, WriteSteps,
         WriteErrors, FlushSteps, FlushErrors, ReadSteps, ReleaseSteps,
         CompactSteps, RestartFails, Quiet, Entry

\* store and the stores a reader has seen are maps from keys to values.
LEMMA HistoryTypeStep ==
  ASSUME IInv, [Next]_vars
  PROVE  HistoryTypes'
<1> USE DEF IInv, TypeOK, CallTypes, HistoryTypes, Calls, Entry, Threads,
        EmptyLayer, disk, memory, list, locks, calls, flushing, reading,
        history, Goto, Counted
<1>1. ASSUME NEW p \in Writers, NEW k \in Key, NEW e \in Entry, Call(p, k, e)
      PROVE  HistoryTypes'
  BY <1>1 DEF Call
<1>2. ASSUME NEW p \in Writers, PrepareWait(p) PROVE HistoryTypes'
  BY <1>2 DEF PrepareWait, CallFlush
<1>3. ASSUME NEW p \in Writers, PrepareFreeze(p) PROVE HistoryTypes'
  BY <1>3 DEF PrepareFreeze, FreezeMutableLocked
<1>4. ASSUME NEW p \in Writers, Append(p) PROVE HistoryTypes'
  <2>1. op[p][1] \in Key /\ StoreValue(op[p][2]) \in Value \cup {Absent}
    BY <1>4 DEF Append, StoreValue
  <2>2. store' \in [Key -> Value \cup {Absent}]
    BY <1>4, <2>1 DEF Append
  <2>3. doubt' \in [Key -> SUBSET (Value \cup {Absent})]
    BY <1>4 DEF Append
  <2>4. seen' \in [Threads -> SUBSET [Key -> Value \cup {Absent}]]
    BY <1>4, <2>2 DEF Append, ObserveStore
  <2> QED
    BY <2>2, <2>3, <2>4
<1>5. ASSUME NEW p \in Writers, PrepareFails(p) PROVE HistoryTypes'
  BY <1>5 DEF PrepareFails, FreezeFails, WriteError
<1>6. ASSUME NEW p \in Writers, AppendInDoubt(p) PROVE HistoryTypes'
  <2>1. op[p][1] \in Key /\ StoreValue(op[p][2]) \in Value \cup {Absent}
    BY <1>6 DEF AppendInDoubt, StoreValue
  <2>2. doubt' \in [Key -> SUBSET (Value \cup {Absent})]
    BY <1>6, <2>1 DEF AppendInDoubt
  <2> QED
    BY <1>6, <2>2 DEF AppendInDoubt, WriteError
<1>7. ASSUME NEW p \in Writers, AppendFails(p) PROVE HistoryTypes'
  BY <1>7 DEF AppendFails, WriteError
<1>8. ASSUME NEW p \in Writers, Flush(p) PROVE HistoryTypes'
  BY <1>8 DEF Flush, FlushLocked, FlushFreezeFails, FreezeMutableLocked,
     FreezeFails, CallFlush
<1>9. ASSUME NEW p \in Writers, Close(p) PROVE HistoryTypes'
  BY <1>9 DEF Close, FlushLocked, FlushFreezeFails, FreezeMutableLocked,
     FreezeFails, CallFlush
<1>10. ASSUME NEW p \in Writers \cup Readers, FlushStale(p) PROVE HistoryTypes'
  BY <1>10 DEF FlushStale, FlushEnter, ReturnFromFlush
<1>11. ASSUME NEW p \in Writers \cup Readers, FlushBegin(p) PROVE HistoryTypes'
  BY <1>11 DEF FlushBegin, FlushEnter
<1>12. ASSUME NEW p \in Writers \cup Readers, FlushWrite(p) PROVE HistoryTypes'
  BY <1>12 DEF FlushWrite
<1>13. ASSUME NEW p \in Writers \cup Readers, FlushInstall(p)
      PROVE  HistoryTypes'
  BY <1>13 DEF FlushInstall
<1>14. ASSUME NEW p \in Writers \cup Readers, FlushClear(p) PROVE HistoryTypes'
  BY <1>14 DEF FlushClear, SegmentsUpTo
<1>15. ASSUME NEW p \in Writers \cup Readers, FlushReclaim(p)
      PROVE  HistoryTypes'
  BY <1>15 DEF FlushReclaim
<1>16. ASSUME NEW p \in Writers \cup Readers, FlushReturn(p)
      PROVE  HistoryTypes'
  BY <1>16 DEF FlushReturn, ReturnFromFlush, EndFlush
<1>17. ASSUME NEW p \in Writers \cup Readers, FlushWriteFails(p)
      PROVE  HistoryTypes'
  BY <1>17 DEF FlushWriteFails, ReturnFromFlush, EndFlush
<1>18. ASSUME NEW p \in Writers \cup Readers, FlushOpenFails(p)
      PROVE  HistoryTypes'
  BY <1>18 DEF FlushOpenFails, ReturnFromFlush, EndFlush
<1>19. ASSUME NEW p \in Writers \cup Readers, FlushReclaimFails(p)
      PROVE  HistoryTypes'
  BY <1>19 DEF FlushReclaimFails
<1>20. ASSUME NEW r \in Readers, Get(r) PROVE HistoryTypes'
  BY <1>20 DEF Get, GetTables
<1>21. ASSUME NEW r \in Readers, GetLookup(r) PROVE HistoryTypes'
  BY <1>21 DEF GetLookup, Forget
<1>22. ASSUME NEW r \in Readers, Scan(r) PROVE HistoryTypes'
  BY <1>22 DEF Scan
<1>23. ASSUME NEW r \in Readers, SnapshotWait(r) PROVE HistoryTypes'
  BY <1>23 DEF SnapshotWait, CallFlush
<1>24. ASSUME NEW r \in Readers, SnapshotForScan(r) PROVE HistoryTypes'
  BY <1>24 DEF SnapshotForScan, FreezeMutableLocked, GetTables
<1>25. ASSUME NEW r \in Readers, SnapshotFails(r) PROVE HistoryTypes'
  BY <1>25 DEF SnapshotFails, FreezeFails
<1>26. ASSUME NEW r \in Readers, ScanClose(r) PROVE HistoryTypes'
  BY <1>26 DEF ScanClose, Forget
<1>27. ASSUME NEW p \in Readers \cup {Compactor}, Release(p)
      PROVE  HistoryTypes'
  BY <1>27 DEF Release, LastHolder
<1>28. ASSUME NEW p \in Readers \cup {Compactor}, ReleaseDone(p)
      PROVE  HistoryTypes'
  BY <1>28 DEF ReleaseDone
<1>29. ASSUME CompactBegin PROVE HistoryTypes'
  BY <1>29 DEF CompactBegin, GetTables
<1>30. ASSUME CompactTarget PROVE HistoryTypes'
  BY <1>30 DEF CompactTarget
<1>31. ASSUME CompactMerge PROVE HistoryTypes'
  BY <1>31 DEF CompactMerge
<1>32. ASSUME CompactReplace PROVE HistoryTypes'
  BY <1>32 DEF CompactReplace
<1>33. ASSUME CompactFails PROVE HistoryTypes'
  BY <1>33 DEF CompactFails
<1>34. ASSUME NEW p \in Writers, CloseFinish(p) PROVE HistoryTypes'
  BY <1>34 DEF CloseFinish, LoseMemory
<1>35. ASSUME Crash PROVE HistoryTypes'
  BY <1>35 DEF Crash, LoseMemory
<1>36. ASSUME Restart PROVE HistoryTypes'
  BY <1>36 DEF Restart
<1>37. CASE UNCHANGED vars
  BY <1>37 DEF vars
<1> QED
  BY <1>1, <1>2, <1>3, <1>4, <1>5, <1>6, <1>7, <1>8, <1>9, <1>10, <1>11,
     <1>12, <1>13, <1>14, <1>15, <1>16, <1>17, <1>18, <1>19, <1>20, <1>21,
     <1>22, <1>23, <1>24, <1>25, <1>26, <1>27, <1>28, <1>29, <1>30, <1>31,
     <1>32, <1>33, <1>34, <1>35, <1>36, <1>37
     DEF Next, Writer, Reader, Compaction, Insert, Delete, WriteSteps,
         WriteErrors, FlushSteps, FlushErrors, ReadSteps, ReleaseSteps,
         CompactSteps, RestartFails, Quiet, Entry

\* Control moves between the control states only.
LEMMA CallTypeStep ==
  ASSUME IInv, [Next]_vars
  PROVE  CallTypes'
<1> USE ThreadAssumption DEF IInv, TypeOK, CallTypes, Calls, ControlStates,
        Counters, Entry, Threads, disk, memory, list, locks, calls, flushing,
        reading, history, Goto, Counted
<1>1. ASSUME NEW p \in Writers, NEW k \in Key, NEW e \in Entry, Call(p, k, e)
      PROVE  CallTypes'
  BY <1>1 DEF Call
<1>2. ASSUME NEW p \in Writers, PrepareWait(p) PROVE CallTypes'
  BY <1>2 DEF PrepareWait, CallFlush
<1>3. ASSUME NEW p \in Writers, PrepareFreeze(p) PROVE CallTypes'
  BY <1>3 DEF PrepareFreeze, FreezeMutableLocked
<1>4. ASSUME NEW p \in Writers, Append(p) PROVE CallTypes'
  BY <1>4 DEF Append, CallFlush, WriteRecord, ObserveStore, StoreValue
<1>5. ASSUME NEW p \in Writers, PrepareFails(p) PROVE CallTypes'
  BY <1>5 DEF PrepareFails, FreezeFails, WriteError
<1>6. ASSUME NEW p \in Writers, AppendInDoubt(p) PROVE CallTypes'
  BY <1>6 DEF AppendInDoubt, WriteError, WriteRecord
<1>7. ASSUME NEW p \in Writers, AppendFails(p) PROVE CallTypes'
  BY <1>7 DEF AppendFails, WriteError
<1>8. ASSUME NEW p \in Writers, Flush(p) PROVE CallTypes'
  <2>1. count' \in [Counters -> Nat]
    BY <1>8 DEF Flush
  <2>2. frozen' \in BOOLEAN
    BY <1>8 DEF Flush, FlushLocked, FlushFreezeFails, FreezeMutableLocked,
           FreezeFails
  <2>3. UNCHANGED <<up, mu, flushMu, op>>
    BY <1>8 DEF Flush, FlushLocked, FlushFreezeFails
  <2>4. /\ pc' \in [Threads -> ControlStates]
        /\ resume' \in [Threads -> {"idle", "prepare", "snapshot", "close"}]
    BY <1>8 DEF Flush, FlushLocked, FlushFreezeFails, CallFlush
  <2> QED
    BY <2>1, <2>2, <2>3, <2>4
<1>9. ASSUME NEW p \in Writers, Close(p) PROVE CallTypes'
  <2>1. count' \in [Counters -> Nat]
    BY <1>9 DEF Close
  <2>2. frozen' \in BOOLEAN
    BY <1>9 DEF Close, FlushLocked, FlushFreezeFails, FreezeMutableLocked,
           FreezeFails
  <2>3. UNCHANGED <<up, mu, flushMu, op>>
    BY <1>9 DEF Close, FlushLocked, FlushFreezeFails
  <2>4. /\ pc' \in [Threads -> ControlStates]
        /\ resume' \in [Threads -> {"idle", "prepare", "snapshot", "close"}]
    BY <1>9 DEF Close, FlushLocked, FlushFreezeFails, CallFlush
  <2> QED
    BY <2>1, <2>2, <2>3, <2>4
<1>10. ASSUME NEW p \in Writers \cup Readers, FlushStale(p) PROVE CallTypes'
  BY <1>10 DEF FlushStale, FlushEnter, ReturnFromFlush
<1>11. ASSUME NEW p \in Writers \cup Readers, FlushBegin(p) PROVE CallTypes'
  BY <1>11 DEF FlushBegin, FlushEnter
<1>12. ASSUME NEW p \in Writers \cup Readers, FlushWrite(p) PROVE CallTypes'
  BY <1>12 DEF FlushWrite
<1>13. ASSUME NEW p \in Writers \cup Readers, FlushInstall(p) PROVE CallTypes'
  BY <1>13 DEF FlushInstall
<1>14. ASSUME NEW p \in Writers \cup Readers, FlushClear(p) PROVE CallTypes'
  BY <1>14 DEF FlushClear, SegmentsUpTo
<1>15. ASSUME NEW p \in Writers \cup Readers, FlushReclaim(p) PROVE CallTypes'
  BY <1>15 DEF FlushReclaim
<1>16. ASSUME NEW p \in Writers \cup Readers, FlushReturn(p) PROVE CallTypes'
  BY <1>16 DEF FlushReturn, ReturnFromFlush, EndFlush
<1>17. ASSUME NEW p \in Writers \cup Readers, FlushWriteFails(p)
      PROVE  CallTypes'
  BY <1>17 DEF FlushWriteFails, ReturnFromFlush, EndFlush
<1>18. ASSUME NEW p \in Writers \cup Readers, FlushOpenFails(p)
      PROVE  CallTypes'
  BY <1>18 DEF FlushOpenFails, ReturnFromFlush, EndFlush
<1>19. ASSUME NEW p \in Writers \cup Readers, FlushReclaimFails(p)
      PROVE  CallTypes'
  BY <1>19 DEF FlushReclaimFails
<1>20. ASSUME NEW r \in Readers, Get(r) PROVE CallTypes'
  BY <1>20 DEF Get, GetTables
<1>21. ASSUME NEW r \in Readers, GetLookup(r) PROVE CallTypes'
  BY <1>21 DEF GetLookup, Forget
<1>22. ASSUME NEW r \in Readers, Scan(r) PROVE CallTypes'
  BY <1>22 DEF Scan
<1>23. ASSUME NEW r \in Readers, SnapshotWait(r) PROVE CallTypes'
  BY <1>23 DEF SnapshotWait, CallFlush
<1>24. ASSUME NEW r \in Readers, SnapshotForScan(r) PROVE CallTypes'
  BY <1>24 DEF SnapshotForScan, FreezeMutableLocked, GetTables
<1>25. ASSUME NEW r \in Readers, SnapshotFails(r) PROVE CallTypes'
  BY <1>25 DEF SnapshotFails, FreezeFails
<1>26. ASSUME NEW r \in Readers, ScanClose(r) PROVE CallTypes'
  BY <1>26 DEF ScanClose, Forget
<1>27. ASSUME NEW p \in Readers \cup {Compactor}, Release(p) PROVE CallTypes'
  BY <1>27 DEF Release, LastHolder
<1>28. ASSUME NEW p \in Readers \cup {Compactor}, ReleaseDone(p)
      PROVE  CallTypes'
  BY <1>28 DEF ReleaseDone
<1>29. ASSUME CompactBegin PROVE CallTypes'
  BY <1>29 DEF CompactBegin, GetTables
<1>30. ASSUME CompactTarget PROVE CallTypes'
  BY <1>30 DEF CompactTarget
<1>31. ASSUME CompactMerge PROVE CallTypes'
  BY <1>31 DEF CompactMerge
<1>32. ASSUME CompactReplace PROVE CallTypes'
  BY <1>32 DEF CompactReplace
<1>33. ASSUME CompactFails PROVE CallTypes'
  BY <1>33 DEF CompactFails
<1>34. ASSUME NEW p \in Writers, CloseFinish(p) PROVE CallTypes'
  BY <1>34 DEF CloseFinish, LoseMemory
<1>35. ASSUME Crash PROVE CallTypes'
  <2>1. count' \in [Counters -> Nat]
    BY <1>35 DEF Crash
  <2> QED
    BY <1>35, <2>1 DEF Crash, LoseMemory
<1>36. ASSUME Restart PROVE CallTypes'
  BY <1>36 DEF Restart
<1>37. CASE UNCHANGED vars
  BY <1>37 DEF vars
<1> QED
  BY <1>1, <1>2, <1>3, <1>4, <1>5, <1>6, <1>7, <1>8, <1>9, <1>10, <1>11,
     <1>12, <1>13, <1>14, <1>15, <1>16, <1>17, <1>18, <1>19, <1>20, <1>21,
     <1>22, <1>23, <1>24, <1>25, <1>26, <1>27, <1>28, <1>29, <1>30, <1>31,
     <1>32, <1>33, <1>34, <1>35, <1>36, <1>37
     DEF Next, Writer, Reader, Compaction, Insert, Delete, WriteSteps,
         WriteErrors, FlushSteps, FlushErrors, ReadSteps, ReleaseSteps,
         CompactSteps, RestartFails, Quiet, Entry

\* Memtable pointers point to memtables.
LEMMA MemTableTypeStep ==
  ASSUME IInv, [Next]_vars
  PROVE  MemTableTypes'
<1> USE LayerTypes DEF IInv, TypeOK, CallTypes, MemTableTypes, Calls, Threads,
        Nil, disk, memory, list, locks, calls, flushing, reading, history,
        Goto, Counted
<1>1. ASSUME NEW p \in Writers, NEW k \in Key, NEW e \in Entry, Call(p, k, e)
      PROVE  MemTableTypes'
  BY <1>1 DEF Call
<1>2. ASSUME NEW p \in Writers, PrepareWait(p) PROVE MemTableTypes'
  BY <1>2 DEF PrepareWait, CallFlush
<1>3. ASSUME NEW p \in Writers, PrepareFreeze(p) PROVE MemTableTypes'
  BY <1>3 DEF PrepareFreeze, FreezeMutableLocked, Assign
<1>4. ASSUME NEW p \in Writers, Append(p) PROVE MemTableTypes'
  <2>1. UNCHANGED <<mutable, immutable, snap>>
    BY <1>4 DEF Append
  <2>2. want' \in {want, [want EXCEPT ![p] = immutable]}
    BY <1>4 DEF Append, CallFlush
  <2>3. PICK k \in Key, e \in Entry :
          memtables' = [memtables EXCEPT ![mutable] = PutRecord(@, k, e)]
    <3>1. op[p] \in Key \X Entry
      BY <1>4 DEF Append
    <3> QED
      BY <1>4, <3>1 DEF Append
  <2>4. memtables' \in [1..mutable -> Buffer]
    BY <2>3
  <2> QED
    BY <2>1, <2>2, <2>4
<1>5. ASSUME NEW p \in Writers, PrepareFails(p) PROVE MemTableTypes'
  BY <1>5 DEF PrepareFails, FreezeFails, WriteError
<1>6. ASSUME NEW p \in Writers, AppendInDoubt(p) PROVE MemTableTypes'
  BY <1>6 DEF AppendInDoubt, WriteError, WriteRecord
<1>7. ASSUME NEW p \in Writers, AppendFails(p) PROVE MemTableTypes'
  BY <1>7 DEF AppendFails, WriteError
<1>8. ASSUME NEW p \in Writers, Flush(p) PROVE MemTableTypes'
  <2>1. /\ snap' = snap
        /\ \/ want' = [want EXCEPT ![p] = immutable]
           \/ want' = [want EXCEPT ![p] = mutable]
           \/ want' = want
    BY <1>8 DEF Flush, FlushLocked, FlushFreezeFails, CallFlush
  <2>2. want' \in [Threads -> 0..mutable]
    <3>1. immutable \in 0..mutable /\ mutable \in 0..mutable
      OBVIOUS
    <3>2. p \in Threads /\ want \in [Threads -> 0..mutable]
      OBVIOUS
    <3> HIDE DEF IInv, TypeOK, MemTableTypes, Threads
    <3> QED
      BY <2>1, <3>1, <3>2
  <2>3. CASE FreezeMutableLocked
    <3>1. /\ mutable' = mutable + 1 /\ immutable' = mutable
          /\ memtables' \in [1..mutable + 1 -> Buffer]
          /\ frozen' = FALSE
      BY <2>3, FreezeTypes DEF FreezeMutableLocked
    <3>2. 0..mutable \subseteq 0..mutable'
      BY <3>1
    <3>3. want' \in [Threads -> 0..mutable']
      BY <2>2, <3>2
    <3>4. snap' \in [Threads -> [mut : 0..mutable', imm : 0..mutable']]
      BY <2>1, <3>2
    <3>5. mutable' \in Nat \ {0} /\ immutable' \in 0..mutable'
      BY <3>1
    <3>6. memtables' \in [1..mutable' -> Buffer]
      BY <3>1
    <3> QED
      BY <3>1, <3>3, <3>4, <3>5, <3>6
  <2>4. CASE UNCHANGED <<segments, memory>>
    <3>1. UNCHANGED <<mutable, immutable, memtables, frozen>>
      BY <2>4
    <3> QED
      BY <2>1, <2>2, <3>1
  <2>5. CASE FreezeFails
    <3>1. UNCHANGED <<mutable, memtables>> /\ immutable' = mutable
          /\ frozen' = TRUE
      BY <2>5 DEF FreezeFails
    <3> QED
      BY <2>1, <2>2, <3>1
  <2> QED
    BY <1>8, <2>3, <2>4, <2>5 DEF Flush, FlushLocked, FlushFreezeFails
<1>9. ASSUME NEW p \in Writers, Close(p) PROVE MemTableTypes'
  <2>1. /\ snap' = snap
        /\ \/ want' = [want EXCEPT ![p] = immutable]
           \/ want' = [want EXCEPT ![p] = mutable]
           \/ want' = want
    BY <1>9 DEF Close, FlushLocked, FlushFreezeFails, CallFlush
  <2>2. want' \in [Threads -> 0..mutable]
    <3>1. immutable \in 0..mutable /\ mutable \in 0..mutable
      OBVIOUS
    <3>2. p \in Threads /\ want \in [Threads -> 0..mutable]
      OBVIOUS
    <3> HIDE DEF IInv, TypeOK, MemTableTypes, Threads
    <3> QED
      BY <2>1, <3>1, <3>2
  <2>3. CASE FreezeMutableLocked
    <3>1. /\ mutable' = mutable + 1 /\ immutable' = mutable
          /\ memtables' \in [1..mutable + 1 -> Buffer]
          /\ frozen' = FALSE
      BY <2>3, FreezeTypes DEF FreezeMutableLocked
    <3>2. 0..mutable \subseteq 0..mutable'
      BY <3>1
    <3>3. want' \in [Threads -> 0..mutable']
      BY <2>2, <3>2
    <3>4. snap' \in [Threads -> [mut : 0..mutable', imm : 0..mutable']]
      BY <2>1, <3>2
    <3>5. mutable' \in Nat \ {0} /\ immutable' \in 0..mutable'
      BY <3>1
    <3>6. memtables' \in [1..mutable' -> Buffer]
      BY <3>1
    <3> QED
      BY <3>1, <3>3, <3>4, <3>5, <3>6
  <2>4. CASE UNCHANGED <<segments, memory>>
    <3>1. UNCHANGED <<mutable, immutable, memtables, frozen>>
      BY <2>4
    <3> QED
      BY <2>1, <2>2, <3>1
  <2>5. CASE FreezeFails
    <3>1. UNCHANGED <<mutable, memtables>> /\ immutable' = mutable
          /\ frozen' = TRUE
      BY <2>5 DEF FreezeFails
    <3> QED
      BY <2>1, <2>2, <3>1
  <2> QED
    BY <1>9, <2>3, <2>4, <2>5 DEF Close, FlushLocked, FlushFreezeFails
<1>10. ASSUME NEW p \in Writers \cup Readers, FlushStale(p)
      PROVE  MemTableTypes'
  BY <1>10 DEF FlushStale, FlushEnter, ReturnFromFlush
<1>11. ASSUME NEW p \in Writers \cup Readers, FlushBegin(p)
      PROVE  MemTableTypes'
  BY <1>11 DEF FlushBegin, FlushEnter
<1>12. ASSUME NEW p \in Writers \cup Readers, FlushWrite(p)
      PROVE  MemTableTypes'
  BY <1>12 DEF FlushWrite
<1>13. ASSUME NEW p \in Writers \cup Readers, FlushInstall(p)
      PROVE  MemTableTypes'
  BY <1>13 DEF FlushInstall
<1>14. ASSUME NEW p \in Writers \cup Readers, FlushClear(p)
      PROVE  MemTableTypes'
  BY <1>14 DEF FlushClear, SegmentsUpTo
<1>15. ASSUME NEW p \in Writers \cup Readers, FlushReclaim(p)
      PROVE  MemTableTypes'
  BY <1>15 DEF FlushReclaim
<1>16. ASSUME NEW p \in Writers \cup Readers, FlushReturn(p)
      PROVE  MemTableTypes'
  BY <1>16 DEF FlushReturn, ReturnFromFlush, EndFlush
<1>17. ASSUME NEW p \in Writers \cup Readers, FlushWriteFails(p)
      PROVE  MemTableTypes'
  BY <1>17 DEF FlushWriteFails, ReturnFromFlush, EndFlush
<1>18. ASSUME NEW p \in Writers \cup Readers, FlushOpenFails(p)
      PROVE  MemTableTypes'
  BY <1>18 DEF FlushOpenFails, ReturnFromFlush, EndFlush
<1>19. ASSUME NEW p \in Writers \cup Readers, FlushReclaimFails(p)
      PROVE  MemTableTypes'
  BY <1>19 DEF FlushReclaimFails
<1>20. ASSUME NEW r \in Readers, Get(r) PROVE MemTableTypes'
  BY <1>20 DEF Get, GetTables
<1>21. ASSUME NEW r \in Readers, GetLookup(r) PROVE MemTableTypes'
  BY <1>21 DEF GetLookup, Forget
<1>22. ASSUME NEW r \in Readers, Scan(r) PROVE MemTableTypes'
  BY <1>22 DEF Scan
<1>23. ASSUME NEW r \in Readers, SnapshotWait(r) PROVE MemTableTypes'
  BY <1>23 DEF SnapshotWait, CallFlush
<1>24. ASSUME NEW r \in Readers, SnapshotForScan(r) PROVE MemTableTypes'
  <2>1. CASE FreezeMutableLocked
    BY <1>24, <2>1, FreezeTypes DEF SnapshotForScan
  <2>2. CASE UNCHANGED <<segments, memory>>
    BY <1>24, <2>2 DEF SnapshotForScan
  <2> QED
    BY <1>24, <2>1, <2>2 DEF SnapshotForScan
<1>25. ASSUME NEW r \in Readers, SnapshotFails(r) PROVE MemTableTypes'
  BY <1>25 DEF SnapshotFails, FreezeFails
<1>26. ASSUME NEW r \in Readers, ScanClose(r) PROVE MemTableTypes'
  BY <1>26 DEF ScanClose, Forget
<1>27. ASSUME NEW p \in Readers \cup {Compactor}, Release(p)
      PROVE  MemTableTypes'
  BY <1>27 DEF Release, LastHolder
<1>28. ASSUME NEW p \in Readers \cup {Compactor}, ReleaseDone(p)
      PROVE  MemTableTypes'
  BY <1>28 DEF ReleaseDone
<1>29. ASSUME CompactBegin PROVE MemTableTypes'
  BY <1>29 DEF CompactBegin, GetTables
<1>30. ASSUME CompactTarget PROVE MemTableTypes'
  BY <1>30 DEF CompactTarget
<1>31. ASSUME CompactMerge PROVE MemTableTypes'
  BY <1>31 DEF CompactMerge
<1>32. ASSUME CompactReplace PROVE MemTableTypes'
  BY <1>32 DEF CompactReplace
<1>33. ASSUME CompactFails PROVE MemTableTypes'
  BY <1>33 DEF CompactFails
<1>34. ASSUME NEW p \in Writers, CloseFinish(p) PROVE MemTableTypes'
  BY <1>34 DEF CloseFinish, LoseMemory
<1>35. ASSUME Crash PROVE MemTableTypes'
  BY <1>35 DEF Crash, LoseMemory
<1>36. ASSUME Restart PROVE MemTableTypes'
  <2>1. Replayed \in Layer
    BY SegmentLayers
  <2>2. memtables' \in [{1} -> Buffer]
    BY <1>36, <2>1, RecordsCounted DEF Restart, Buffer
  <2>3. UNCHANGED <<mutable, immutable, frozen, want, snap>> /\ mutable = 1
    BY <1>36 DEF Restart, Down
  <2> QED
    BY <2>2, <2>3
<1>37. CASE UNCHANGED vars
  BY <1>37 DEF vars
<1> QED
  BY <1>1, <1>2, <1>3, <1>4, <1>5, <1>6, <1>7, <1>8, <1>9, <1>10, <1>11,
     <1>12, <1>13, <1>14, <1>15, <1>16, <1>17, <1>18, <1>19, <1>20, <1>21,
     <1>22, <1>23, <1>24, <1>25, <1>26, <1>27, <1>28, <1>29, <1>30, <1>31,
     <1>32, <1>33, <1>34, <1>35, <1>36, <1>37
     DEF Next, Writer, Reader, Compaction, Insert, Delete, WriteSteps,
         WriteErrors, FlushSteps, FlushErrors, ReadSteps, ReleaseSteps,
         CompactSteps, RestartFails, Quiet, Entry

\* Segments hold records, and what is to be removed exists.
LEMMA WALTypeStep ==
  ASSUME IInv, [Next]_vars
  PROVE  WALTypes'
<1> USE LayerTypes DEF IInv, TypeOK, CallTypes, WALTypes, Calls, Disk,
        Threads, Down, disk, memory, list, locks, calls, flushing, reading,
        history, Goto, Counted
<1>1. ASSUME NEW p \in Writers, NEW k \in Key, NEW e \in Entry, Call(p, k, e)
      PROVE  WALTypes'
  BY <1>1 DEF Call
<1>2. ASSUME NEW p \in Writers, PrepareWait(p) PROVE WALTypes'
  BY <1>2 DEF PrepareWait, CallFlush
<1>3. ASSUME NEW p \in Writers, PrepareFreeze(p) PROVE WALTypes'
  BY <1>3 DEF PrepareFreeze, FreezeMutableLocked, Assign
<1>4. ASSUME NEW p \in Writers, Append(p) PROVE WALTypes'
  <2>1. /\ op[p] \in Key \X Entry
        /\ AppendSegment \in Nat \ {0}
        /\ AppendTo \in Buffer
    BY <1>4, AppendTypes DEF Append
  <2>2. PutRecord(AppendTo, op[p][1], op[p][2]) \in Buffer
    BY <2>1, LayerTypes
  <2>3. /\ segments' \in [DOMAIN segments' -> Buffer]
        /\ DOMAIN segments' = DOMAIN segments \cup {AppendSegment}
    BY <1>4, <2>2, SegmentAssigned DEF Append, WriteRecord
  <2> QED
    BY <1>4, <2>1, <2>3 DEF Append, WriteRecord
<1>5. ASSUME NEW p \in Writers, PrepareFails(p) PROVE WALTypes'
  BY <1>5 DEF PrepareFails, FreezeFails, WriteError, RotateFails,
     CountWALError
<1>6. ASSUME NEW p \in Writers, AppendInDoubt(p) PROVE WALTypes'
  <2>1. /\ op[p] \in Key \X Entry
        /\ AppendSegment \in Nat \ {0}
        /\ AppendTo \in Buffer
    BY <1>6, AppendTypes DEF AppendInDoubt
  <2>2. PutRecord(AppendTo, op[p][1], op[p][2]) \in Buffer
    BY <2>1, LayerTypes
  <2>3. /\ segments' \in [DOMAIN segments' -> Buffer]
        /\ DOMAIN segments' = DOMAIN segments \cup {AppendSegment}
    BY <1>6, <2>2, SegmentAssigned DEF AppendInDoubt, WriteRecord
  <2> QED
    BY <1>6, <2>1, <2>3
       DEF AppendInDoubt, WriteRecord, WriteError, CountWALError
<1>7. ASSUME NEW p \in Writers, AppendFails(p) PROVE WALTypes'
  <2>1. AppendSegment \in Nat \ {0} /\ AppendTo \in Buffer
    BY <1>7, AppendTypes DEF AppendFails
  <2>2. CASE UNCHANGED <<segments, segmentID>>
    BY <1>7, <2>2 DEF AppendFails, WriteError, RotateFails, CountWALError
  <2>3. CASE /\ segmentID' = AppendSegment
             /\ segments' = Assign(segments, AppendSegment, AppendTo)
             /\ CountWALError /\ UNCHANGED wal
    <3>1. /\ segments' \in [DOMAIN segments' -> Buffer]
          /\ DOMAIN segments' = DOMAIN segments \cup {AppendSegment}
      BY <2>1, <2>3, SegmentAssigned
    <3> QED
      BY <1>7, <2>1, <2>3, <3>1 DEF AppendFails, WriteError, CountWALError
  <2> QED
    BY <1>7, <2>2, <2>3 DEF AppendFails
<1>8. ASSUME NEW p \in Writers, Flush(p) PROVE WALTypes'
  <2>1. UNCHANGED <<flushSegment, reclaim>>
    BY <1>8 DEF Flush, FlushLocked, FlushFreezeFails
  <2>2. CASE FreezeMutableLocked
    <3>1. /\ segments' \in [DOMAIN segments' -> Buffer]
          /\ DOMAIN segments' = DOMAIN segments \cup {segmentID + 1}
      BY <2>2, FreezeTypes
    <3>2. /\ segmentID' = segmentID + 1 /\ immutableWALSegment' = segmentID
          /\ wal' = "open" /\ walErrors' = walErrors
      BY <2>2 DEF FreezeMutableLocked
    <3> QED
      BY <2>1, <3>1, <3>2
  <2>3. CASE UNCHANGED <<segments, memory>>
    BY <2>1, <2>3
  <2>4. CASE FreezeFails
    <3>1. UNCHANGED <<segments, segmentID, immutableWALSegment>>
      BY <2>4 DEF FreezeFails
    <3>2. wal' \in {"open", "nil", "broken"} /\ walErrors' \in Nat
      BY <2>4 DEF FreezeFails, RotateFails, CountWALError
    <3> QED
      BY <2>1, <3>1, <3>2
  <2> QED
    BY <1>8, <2>2, <2>3, <2>4 DEF Flush, FlushLocked, FlushFreezeFails
<1>9. ASSUME NEW p \in Writers, Close(p) PROVE WALTypes'
  <2>1. UNCHANGED <<flushSegment, reclaim>>
    BY <1>9 DEF Close, FlushLocked, FlushFreezeFails
  <2>2. CASE FreezeMutableLocked
    <3>1. /\ segments' \in [DOMAIN segments' -> Buffer]
          /\ DOMAIN segments' = DOMAIN segments \cup {segmentID + 1}
      BY <2>2, FreezeTypes
    <3>2. /\ segmentID' = segmentID + 1 /\ immutableWALSegment' = segmentID
          /\ wal' = "open" /\ walErrors' = walErrors
      BY <2>2 DEF FreezeMutableLocked
    <3> QED
      BY <2>1, <3>1, <3>2
  <2>3. CASE UNCHANGED <<segments, memory>>
    BY <2>1, <2>3
  <2>4. CASE FreezeFails
    <3>1. UNCHANGED <<segments, segmentID, immutableWALSegment>>
      BY <2>4 DEF FreezeFails
    <3>2. wal' \in {"open", "nil", "broken"} /\ walErrors' \in Nat
      BY <2>4 DEF FreezeFails, RotateFails, CountWALError
    <3> QED
      BY <2>1, <3>1, <3>2
  <2> QED
    BY <1>9, <2>2, <2>3, <2>4 DEF Close, FlushLocked, FlushFreezeFails
<1>10. ASSUME NEW p \in Writers \cup Readers, FlushStale(p) PROVE WALTypes'
  BY <1>10 DEF FlushStale, FlushEnter, ReturnFromFlush
<1>11. ASSUME NEW p \in Writers \cup Readers, FlushBegin(p) PROVE WALTypes'
  BY <1>11 DEF FlushBegin, FlushEnter
<1>12. ASSUME NEW p \in Writers \cup Readers, FlushWrite(p) PROVE WALTypes'
  BY <1>12 DEF FlushWrite
<1>13. ASSUME NEW p \in Writers \cup Readers, FlushInstall(p) PROVE WALTypes'
  BY <1>13 DEF FlushInstall
<1>14. ASSUME NEW p \in Writers \cup Readers, FlushClear(p) PROVE WALTypes'
  BY <1>14 DEF FlushClear, SegmentsUpTo
<1>15. ASSUME NEW p \in Writers \cup Readers, FlushReclaim(p) PROVE WALTypes'
  <2>1. /\ segments \in [DOMAIN segments -> Buffer]
        /\ segments' = Without(segments, {Min(reclaim)})
    BY <1>15 DEF FlushReclaim
  <2>2. /\ segments' \in [DOMAIN segments' -> Buffer]
        /\ DOMAIN segments' = DOMAIN segments \ {Min(reclaim)}
    <3> HIDE DEF IInv, TypeOK, WALTypes
    <3> QED
      BY <2>1, WithoutType
  <2> QED
    BY <1>15, <2>2 DEF FlushReclaim
<1>16. ASSUME NEW p \in Writers \cup Readers, FlushReturn(p) PROVE WALTypes'
  BY <1>16 DEF FlushReturn, ReturnFromFlush, EndFlush
<1>17. ASSUME NEW p \in Writers \cup Readers, FlushWriteFails(p)
      PROVE  WALTypes'
  BY <1>17 DEF FlushWriteFails, ReturnFromFlush, EndFlush
<1>18. ASSUME NEW p \in Writers \cup Readers, FlushOpenFails(p) PROVE WALTypes'
  BY <1>18 DEF FlushOpenFails, ReturnFromFlush, EndFlush
<1>19. ASSUME NEW p \in Writers \cup Readers, FlushReclaimFails(p)
      PROVE  WALTypes'
  BY <1>19 DEF FlushReclaimFails
<1>20. ASSUME NEW r \in Readers, Get(r) PROVE WALTypes'
  BY <1>20 DEF Get, GetTables
<1>21. ASSUME NEW r \in Readers, GetLookup(r) PROVE WALTypes'
  BY <1>21 DEF GetLookup, Forget
<1>22. ASSUME NEW r \in Readers, Scan(r) PROVE WALTypes'
  BY <1>22 DEF Scan
<1>23. ASSUME NEW r \in Readers, SnapshotWait(r) PROVE WALTypes'
  BY <1>23 DEF SnapshotWait, CallFlush
<1>24. ASSUME NEW r \in Readers, SnapshotForScan(r) PROVE WALTypes'
  BY <1>24 DEF SnapshotForScan, FreezeMutableLocked, GetTables, Assign
<1>25. ASSUME NEW r \in Readers, SnapshotFails(r) PROVE WALTypes'
  BY <1>25 DEF SnapshotFails, FreezeFails, RotateFails, CountWALError
<1>26. ASSUME NEW r \in Readers, ScanClose(r) PROVE WALTypes'
  BY <1>26 DEF ScanClose, Forget
<1>27. ASSUME NEW p \in Readers \cup {Compactor}, Release(p) PROVE WALTypes'
  BY <1>27 DEF Release, LastHolder
<1>28. ASSUME NEW p \in Readers \cup {Compactor}, ReleaseDone(p)
      PROVE  WALTypes'
  BY <1>28 DEF ReleaseDone
<1>29. ASSUME CompactBegin PROVE WALTypes'
  BY <1>29 DEF CompactBegin, GetTables
<1>30. ASSUME CompactTarget PROVE WALTypes'
  BY <1>30 DEF CompactTarget
<1>31. ASSUME CompactMerge PROVE WALTypes'
  BY <1>31 DEF CompactMerge
<1>32. ASSUME CompactReplace PROVE WALTypes'
  BY <1>32 DEF CompactReplace
<1>33. ASSUME CompactFails PROVE WALTypes'
  BY <1>33 DEF CompactFails
<1>34. ASSUME NEW p \in Writers, CloseFinish(p) PROVE WALTypes'
  BY <1>34 DEF CloseFinish, LoseMemory
<1>35. ASSUME Crash PROVE WALTypes'
  BY <1>35 DEF Crash, LoseMemory
<1>36. ASSUME Restart PROVE WALTypes'
  BY <1>36, SegmentsMax, SegmentTypes DEF Restart
<1>37. CASE UNCHANGED vars
  BY <1>37 DEF vars
<1> QED
  BY <1>1, <1>2, <1>3, <1>4, <1>5, <1>6, <1>7, <1>8, <1>9, <1>10, <1>11,
     <1>12, <1>13, <1>14, <1>15, <1>16, <1>17, <1>18, <1>19, <1>20, <1>21,
     <1>22, <1>23, <1>24, <1>25, <1>26, <1>27, <1>28, <1>29, <1>30, <1>31,
     <1>32, <1>33, <1>34, <1>35, <1>36, <1>37
     DEF Next, Writer, Reader, Compaction, Insert, Delete, WriteSteps,
         WriteErrors, FlushSteps, FlushErrors, ReadSteps, ReleaseSteps,
         CompactSteps, RestartFails, Quiet, Entry

\* Tables that are listed or pinned have a file.
LEMMA TableTypeStep ==
  ASSUME IInv, [Next]_vars
  PROVE  TableTypes'
<1> USE LayerTypes DEF IInv, TypeOK, CallTypes, TableTypes, Flushes, Compacts,
        Disk, SSTFile, Threads, Down, disk, memory, list, locks, calls,
        flushing, reading, history, Goto, Counted
<1>1. ASSUME NEW p \in Writers, NEW k \in Key, NEW e \in Entry, Call(p, k, e)
      PROVE  TableTypes'
  BY <1>1 DEF Call
<1>2. ASSUME NEW p \in Writers, PrepareWait(p) PROVE TableTypes'
  BY <1>2 DEF PrepareWait, CallFlush
<1>3. ASSUME NEW p \in Writers, PrepareFreeze(p) PROVE TableTypes'
  BY <1>3 DEF PrepareFreeze, FreezeMutableLocked
<1>4. ASSUME NEW p \in Writers, Append(p) PROVE TableTypes'
  BY <1>4 DEF Append, CallFlush, WriteRecord, ObserveStore, StoreValue
<1>5. ASSUME NEW p \in Writers, PrepareFails(p) PROVE TableTypes'
  BY <1>5 DEF PrepareFails, FreezeFails, WriteError
<1>6. ASSUME NEW p \in Writers, AppendInDoubt(p) PROVE TableTypes'
  BY <1>6 DEF AppendInDoubt, WriteError, WriteRecord
<1>7. ASSUME NEW p \in Writers, AppendFails(p) PROVE TableTypes'
  BY <1>7 DEF AppendFails, WriteError
<1>8. ASSUME NEW p \in Writers, Flush(p) PROVE TableTypes'
  BY <1>8 DEF Flush, FlushLocked, FlushFreezeFails, FreezeMutableLocked,
     FreezeFails, CallFlush
<1>9. ASSUME NEW p \in Writers, Close(p) PROVE TableTypes'
  BY <1>9 DEF Close, FlushLocked, FlushFreezeFails, FreezeMutableLocked,
     FreezeFails, CallFlush
<1>10. ASSUME NEW p \in Writers \cup Readers, FlushStale(p) PROVE TableTypes'
  BY <1>10 DEF FlushStale, FlushEnter, ReturnFromFlush
<1>11. ASSUME NEW p \in Writers \cup Readers, FlushBegin(p) PROVE TableTypes'
  BY <1>11 DEF FlushBegin, FlushEnter, Assign, Without, Restrict
<1>12. ASSUME NEW p \in Writers \cup Readers, FlushWrite(p) PROVE TableTypes'
  <2>1. MemCells(want[p]) \in Layer
    BY <1>12, MemLayer DEF MemTableTypes
  <2> QED
    BY <1>12, <2>1 DEF FlushWrite
<1>13. ASSUME NEW p \in Writers \cup Readers, FlushInstall(p) PROVE TableTypes'
  BY <1>13 DEF FlushInstall
<1>14. ASSUME NEW p \in Writers \cup Readers, FlushClear(p) PROVE TableTypes'
  BY <1>14 DEF FlushClear, SegmentsUpTo
<1>15. ASSUME NEW p \in Writers \cup Readers, FlushReclaim(p) PROVE TableTypes'
  BY <1>15 DEF FlushReclaim
<1>16. ASSUME NEW p \in Writers \cup Readers, FlushReturn(p) PROVE TableTypes'
  BY <1>16 DEF FlushReturn, ReturnFromFlush, EndFlush
<1>17. ASSUME NEW p \in Writers \cup Readers, FlushWriteFails(p)
      PROVE  TableTypes'
  <2>1. MemCells(want[p]) \in Layer
    BY <1>17, MemLayer DEF MemTableTypes
  <2>2. /\ flushGen \in DOMAIN files
        /\ flushGen \notin tables
        /\ \A q \in Threads : flushGen \notin held[q]
    BY <1>17 DEF FlushWriteFails
  <2>3. /\ files' \in [DOMAIN files' -> SSTFile]
        /\ DOMAIN files' \in {DOMAIN files, DOMAIN files \ {flushGen}}
    <3>1. CASE files' = files
      BY <3>1
    <3>2. CASE files' = Without(files, {flushGen})
      BY <3>2, FileChanged
    <3>3. ASSUME NEW ks \in SUBSET Key,
                 files' = [files EXCEPT ![flushGen] =
                              [complete |-> TRUE,
                               cells |-> Only(MemCells(want[p]), ks)]]
          PROVE  /\ files' \in [DOMAIN files' -> SSTFile]
                 /\ DOMAIN files' = DOMAIN files
      BY <3>3, <2>1
    <3> QED
      BY <1>17, <3>1, <3>2, <3>3 DEF FlushWriteFails
  <2> QED
    BY <1>17, <2>2, <2>3 DEF FlushWriteFails, EndFlush
<1>18. ASSUME NEW p \in Writers \cup Readers, FlushOpenFails(p)
      PROVE  TableTypes'
  BY <1>18 DEF FlushOpenFails, ReturnFromFlush, EndFlush
<1>19. ASSUME NEW p \in Writers \cup Readers, FlushReclaimFails(p)
      PROVE  TableTypes'
  BY <1>19 DEF FlushReclaimFails
<1>20. ASSUME NEW r \in Readers, Get(r) PROVE TableTypes'
  BY <1>20 DEF Get, GetTables
<1>21. ASSUME NEW r \in Readers, GetLookup(r) PROVE TableTypes'
  BY <1>21 DEF GetLookup, Forget
<1>22. ASSUME NEW r \in Readers, Scan(r) PROVE TableTypes'
  BY <1>22 DEF Scan
<1>23. ASSUME NEW r \in Readers, SnapshotWait(r) PROVE TableTypes'
  BY <1>23 DEF SnapshotWait, CallFlush
<1>24. ASSUME NEW r \in Readers, SnapshotForScan(r) PROVE TableTypes'
  BY <1>24 DEF SnapshotForScan, FreezeMutableLocked, GetTables
<1>25. ASSUME NEW r \in Readers, SnapshotFails(r) PROVE TableTypes'
  BY <1>25 DEF SnapshotFails, FreezeFails
<1>26. ASSUME NEW r \in Readers, ScanClose(r) PROVE TableTypes'
  BY <1>26 DEF ScanClose, Forget
<1>27. ASSUME NEW p \in Readers \cup {Compactor}, Release(p) PROVE TableTypes'
  BY <1>27, HeldMax DEF Release, LastHolder, Assign, Without, Restrict
<1>28. ASSUME NEW p \in Readers \cup {Compactor}, ReleaseDone(p)
      PROVE  TableTypes'
  BY <1>28 DEF ReleaseDone
<1>29. ASSUME CompactBegin PROVE TableTypes'
  BY <1>29 DEF CompactBegin, GetTables
<1>30. ASSUME CompactTarget PROVE TableTypes'
  <2>1. /\ files' \in [DOMAIN files' -> SSTFile]
        /\ DOMAIN files' \in {DOMAIN files, DOMAIN files \cup {nextGen + 1}}
    <3>1. [complete |-> FALSE, cells |-> EmptyLayer] \in SSTFile
      OBVIOUS
    <3>2. \/ files' = files
          \/ \E f \in SSTFile : files' = Assign(files, nextGen + 1, f)
      BY <1>30, <3>1 DEF CompactTarget
    <3>3. CASE files' = files
      BY <3>3
    <3>4. ASSUME NEW f \in SSTFile, files' = Assign(files, nextGen + 1, f)
          PROVE  /\ files' \in [DOMAIN files' -> SSTFile]
                 /\ DOMAIN files' = DOMAIN files \cup {nextGen + 1}
      <4> HIDE DEF SSTFile, TypeOK, IInv
      <4> QED
        BY <3>4, FileChanged DEF IInv
    <3> QED
      BY <3>2, <3>3, <3>4
  <2> QED
    BY <1>30, <2>1 DEF CompactTarget
<1>31. ASSUME CompactMerge PROVE TableTypes'
  <2>1. Overlay(FileCells, held[Compactor]) \in Layer
    BY <1>31, FileLayers DEF CompactMerge
  <2>2. Visible(Overlay(FileCells, held[Compactor])) \in Layer
    BY <2>1
  <2> QED
    BY <1>31, <2>2 DEF CompactMerge
<1>32. ASSUME CompactReplace PROVE TableTypes'
  BY <1>32 DEF CompactReplace, Assign, Without, Restrict
<1>33. ASSUME CompactFails PROVE TableTypes'
  <2>1. PICK m \in Layer : m = Visible(Overlay(FileCells, held[Compactor]))
    <3>1. Overlay(FileCells, held[Compactor]) \in Layer
      BY <1>33, FileLayers DEF CompactFails
    <3> QED
      BY <3>1
  <2>2. /\ compactGen \in DOMAIN files
        /\ compactGen \notin tables
        /\ \A q \in Threads : compactGen \notin held[q]
    BY <1>33 DEF CompactFails
  <2>3. /\ files' \in [DOMAIN files' -> SSTFile]
        /\ DOMAIN files' \in {DOMAIN files, DOMAIN files \ {compactGen}}
    <3>1. CASE files' = files
      BY <3>1
    <3>2. CASE files' = Without(files, {compactGen})
      BY <3>2, FileChanged
    <3>3. ASSUME NEW ks \in SUBSET Key,
                 files' = [files EXCEPT ![compactGen] =
                              [complete |-> TRUE, cells |-> Only(m, ks)]]
          PROVE  /\ files' \in [DOMAIN files' -> SSTFile]
                 /\ DOMAIN files' = DOMAIN files
      BY <2>1, <2>2, <3>3
    <3> QED
      BY <1>33, <2>1, <3>1, <3>2, <3>3 DEF CompactFails
  <2> QED
    BY <1>33, <2>2, <2>3 DEF CompactFails
<1>34. ASSUME NEW p \in Writers, CloseFinish(p) PROVE TableTypes'
  BY <1>34 DEF CloseFinish, LoseMemory
<1>35. ASSUME Crash PROVE TableTypes'
  BY <1>35 DEF Crash, LoseMemory
<1>36. ASSUME Restart PROVE TableTypes'
  <2>1. nextGen' \in Nat
    BY <1>36, FilesMax DEF Restart
  <2>2. /\ UNCHANGED <<files, unlinked, flushGen, compactGen, held>>
        /\ tables' = DOMAIN files /\ unlinked = {} /\ nextGen = 0
    BY <1>36 DEF Restart
  <2> QED
    BY <2>1, <2>2
<1>37. CASE UNCHANGED vars
  BY <1>37 DEF vars
<1> QED
  BY <1>1, <1>2, <1>3, <1>4, <1>5, <1>6, <1>7, <1>8, <1>9, <1>10, <1>11,
     <1>12, <1>13, <1>14, <1>15, <1>16, <1>17, <1>18, <1>19, <1>20, <1>21,
     <1>22, <1>23, <1>24, <1>25, <1>26, <1>27, <1>28, <1>29, <1>30, <1>31,
     <1>32, <1>33, <1>34, <1>35, <1>36, <1>37
     DEF Next, Writer, Reader, Compaction, Insert, Delete, WriteSteps,
         WriteErrors, FlushSteps, FlushErrors, ReadSteps, ReleaseSteps,
         CompactSteps, RestartFails, Quiet, Entry

-----------------------------------------------------------------------------
(* The theorems.                                                           *)

\* A new, empty database satisfies IInv.
LEMMA InitIInv == Init => IInv
<1> SUFFICES ASSUME Init PROVE IInv
  OBVIOUS
<1> USE DEF Init, Threads, Nil
<1>1. WALTypes
  BY LayerTypes DEF WALTypes
<1>2. TableTypes
  BY DEF TableTypes
<1>3. MemTableTypes
  BY LayerTypes DEF MemTableTypes
<1>4. CallTypes
  BY DEF CallTypes, ControlStates
<1>5. HistoryTypes
  BY DEF HistoryTypes, EmptyLayer
<1>6. Calls /\ Copies
  BY DEF Calls, Copies
<1>7. Flushes
  BY ThreadAssumption DEF Flushes
<1>8. Compacts /\ Disk /\ Down
  BY DEF Compacts, Disk, Down
<1> QED
  BY <1>1, <1>2, <1>3, <1>4, <1>5, <1>6, <1>7, <1>8 DEF IInv, TypeOK

\* Every step preserves all of IInv.
LEMMA IInvStep ==
  ASSUME IInv, [Next]_vars
  PROVE  IInv'
<1>1. TypeOK'
  BY WALTypeStep, TableTypeStep, MemTableTypeStep, CallTypeStep,
     HistoryTypeStep DEF TypeOK
<1> QED
  BY <1>1, CallStep, FlushStep, CopyStep, CompactStep, DiskStep, DownStep
     DEF IInv

\* IInv is inductive: it holds of a new database and every step of every call,
\* crash and restart preserves it.
THEOREM Inductive == Spec => []IInv
<1>1. IInv /\ [Next]_vars => IInv'
  BY IInvStep
<1> QED
  BY InitIInv, <1>1, PTL DEF Spec

\* Whatever the calls, crashes and errors, every pointer, segment, generation
\* and pin refers to something that exists: flushImmutable writes to its own
\* file, RemoveSegmentsUpTo removes a segment that is there, and every table
\* that is listed or pinned by a Get, a Scan or a Compact has its file.
THEOREM TypeCorrect == Spec => []TypeOK
<1>1. IInv => TypeOK
  BY DEF IInv
<1> QED
  BY <1>1, Inductive, PTL

\* For any number of writers, readers and calls: flushes exclude each other,
\* the memtable being flushed stays readable in its slot until it is installed,
\* and the table that takes its place is a complete copy of it.
THEOREM FlushSafe == Spec => []FlushKeepsMemTable
<1>1. IInv => FlushKeepsMemTable
  BY DEF IInv, Flushes, Copies, FlushKeepsMemTable
<1> QED
  BY <1>1, Inductive, PTL

=============================================================================
