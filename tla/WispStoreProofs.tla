-------------------------- MODULE WispStoreProofs ---------------------------
(***************************************************************************)
(* Proofs about what the Wisp engine stores, for every number of threads,  *)
(* keys and values and every bound: reads find every write that took       *)
(* effect (LiveView, GetLinearizable, ScanSnapshotExact), the disk alone   *)
(* holds it at every instant (Durable), the WAL does not grow for ever     *)
(* (WALReclaimed), and the engine implements KVStore.                      *)
(*                                                                         *)
(* TLC shows that some of these fail once a flush slips into a window of a *)
(* compaction, or a segment or an input of a compaction survives on disk   *)
(* until a restart.  The theorems say exactly when they hold, with the     *)
(* conditions below, which a behaviour meets until such an event happens.  *)
(***************************************************************************)
EXTENDS WispProofs

-----------------------------------------------------------------------------
(* The conditions.                                                         *)

\* No compaction has run that lets a flush in between GetTables and NextGen.
NoWindow == FlushInCompactWindow => count["compactions"] = 0

\* No Compact call has been made and no segment has survived its removal; the
\* database may have crashed and restarted any number of times.
Clean == count["compactions"] = 0 /\ count["removeErrors"] = 0

\* The database has been up from the start; compactions may have run and
\* removals of segments may have failed.
Running == count["restarts"] = 0 /\ NoWindow

Undisturbed == Clean \/ Running

-----------------------------------------------------------------------------
(* The inductive invariant, on top of IInv.                                *)

\* The threads that close the database have been counted.
Restarted ==
    /\ ~up => count["restarts"] # 0
    /\ \A p \in Threads :
         pc[p] = "close" \/ resume[p] = "close" => count["restarts"] # 0

\* The WAL segments of the frozen memtable that are left, and those of the
\* mutable one.
Sealed == {s \in DOMAIN segments : s <= immutableWALSegment}
Active == {s \in DOMAIN segments : s > immutableWALSegment}

\* Only sealed segments are removed, and the flush in progress removes them all.
SegmentOrder ==
    /\ up => immutableWALSegment < segmentID
    /\ ~up => immutable = Nil /\ immutableWALSegment = 0
    /\ reclaim \subseteq Sealed
    /\ reclaim # {} => flushMu # NoThread
    /\ \A p \in Threads :
         pc[p] \in {"write", "install", "clear"} =>
           flushSegment = immutableWALSegment

\* Without a frozen memtable, the sealed segments are about to be removed.
Reclaiming ==
    up /\ immutable = Nil /\ count["removeErrors"] = 0 =>
        Sealed \subseteq reclaim

\* A flush that is going to install its table gives it the highest generation.
Newest ==
    \A p \in Threads : pc[p] \in {"write", "install"} =>
        /\ \A g \in tables : g < flushGen
        /\ pc[Compactor] # "target"
        /\ pc[Compactor] \in {"merge", "replace"} => compactGen < flushGen

\* Once a flush has installed its table, reads find the same without the frozen
\* memtable.
Installed ==
    \A p \in Threads : pc[p] = "clear" =>
        \A k \in Key : MemCells(immutable)[k] # Absent =>
            StoreValue(Overlay(FileCells, tables)[k])
              = StoreValue(MemCells(immutable)[k])

\* A compaction's inputs are listed until it replaces them, below its own
\* generation, and all other tables are above.
Merging ==
    /\ count["compactions"] = 0 =>
         pc[Compactor] = "idle" /\ held[Compactor] = {} /\ unlinked = {}
    /\ pc[Compactor] \in {"target", "merge", "replace"} =>
         held[Compactor] \subseteq tables
    /\ pc[Compactor] = "target" => tables = held[Compactor]
    /\ pc[Compactor] \in {"merge", "replace"} =>
         /\ \A g \in held[Compactor] : g < compactGen
         /\ \A g \in tables \ held[Compactor] : compactGen < g
    /\ pc[Compactor] = "replace" =>
         IF compactGen \in DOMAIN files
           THEN files[compactGen].cells
                  = Visible(Overlay(FileCells, held[Compactor]))
           ELSE Overlay(FileCells, held[Compactor]) = EmptyLayer

\* Segments are removed from the oldest on.
ReclaimOldest ==
    \A s \in reclaim, t \in DOMAIN segments : t < s => t \in reclaim

ActiveCells == Overlay(SegmentCells, Active)
SealedCells == Overlay(SegmentCells, Sealed)

\* The active segments hold what the mutable memtable holds, or later records
\* of calls that failed.
MutableLogged ==
    up => \A k \in Key :
            \/ ActiveCells[k] = MemCells(mutable)[k]
            \/ /\ ActiveCells[k] # Absent
               /\ StoreValue(ActiveCells[k]) \in doubt[k]

\* The sealed segments that stay have a record of every key that the frozen
\* memtable holds.
ImmutableLogged ==
    immutable \notin {Nil, mutable} =>
        \A k \in Key : MemCells(immutable)[k] # Absent =>
            \E s \in Sealed \ reclaim : segments[s].cells[k] # Absent

\* Whatever the sealed segments still bring back is right.
SealedRight ==
    \A k \in Key : ActiveCells[k] = Absent /\ SealedCells[k] # Absent =>
        StoreValue(SealedCells[k]) \in {store[k]} \cup doubt[k]

\* The entries of a file that would be opened although it is not listed are
\* those of the frozen memtable, or hidden by a newer table.
ExtraFiles ==
    up => \A g \in Complete \ tables, k \in Key : files[g].cells[k] # Absent =>
        \/ files[g].cells[k] = MemCells(immutable)[k]
        \/ \E h \in tables : h > g /\ files[h].cells[k] # Absent

\* The table of the flush in progress is the newest file.
FlushedFile ==
    /\ tables \subseteq Complete
    /\ \A p \in Threads : pc[p] \in {"write", "install", "clear"} =>
         \A g \in DOMAIN files : g <= flushGen
    /\ \A p \in Threads : pc[p] = "clear" =>
         /\ flushGen \in tables
         /\ files[flushGen].cells = MemCells(immutable)

\* A closed database has nothing in doubt: what it holds is what was stored.
DownExact == ~up => Recovered = store /\ \A k \in Key : doubt[k] = {}

\* A memtable or segment without records has no entries.
Sizes ==
    /\ \A m \in 1..mutable :
         memtables[m].size = 0 => memtables[m].cells = EmptyLayer
    /\ \A s \in DOMAIN segments :
         segments[s].size = 0 => segments[s].cells = EmptyLayer

\* A memtable that a reader captured as the frozen one is not written.
SnapBounds ==
    \A r \in Readers :
        pc[r] \in {"get", "scan"} /\ snap[r].imm = mutable => frozen

\* What is on disk is right.
DiskRight ==
    /\ ReclaimOldest /\ MutableLogged /\ ImmutableLogged /\ SealedRight
    /\ ExtraFiles /\ FlushedFile /\ DownExact

SInv ==
    /\ Restarted /\ SegmentOrder /\ Reclaiming /\ SnapBounds
    /\ Sizes
    /\ NoWindow => Newest /\ Installed /\ Merging
    /\ Undisturbed => LiveView /\ GetLinearizable /\ ScanSnapshotExact
    /\ Clean => DiskRight

-----------------------------------------------------------------------------
(* Stacks of layers, one key at a time.                                    *)

\* S is a set of numbers that has a greatest element, or is empty.
Bounded(S) == S \in SUBSET Nat /\ \E n \in Nat : \A i \in S : i <= n

\* c is the entry for k of the highest of the layers f[i], i \in S.
TopCell(f, S, k, c) ==
    \/ c = Absent /\ \A i \in S : f[i][k] = Absent
    \/ \E i \in S : /\ f[i][k] # Absent
                    /\ c = f[i][k]
                    /\ \A j \in S : f[j][k] # Absent => j <= i

\* A stack shows the entry of the highest layer that has one.
LEMMA OverlayTop ==
  ASSUME NEW f, NEW S, Bounded(S), NEW k \in Key
  PROVE  TopCell(f, S, k, Overlay(f, S)[k])
<1> DEFINE H == Holding(f, S, k)
<1>1. H = {i \in S : f[i][k] # Absent}
  BY DEF Holding
<1>2. CASE H = {}
  BY <1>1, <1>2 DEF Overlay, TopCell
<1>3. CASE H # {}
  <2>1. PICK n \in Nat : \A i \in S : i <= n
    BY DEF Bounded
  <2>2. H \in SUBSET Nat /\ \A i \in H : i <= n
    BY <1>1, <2>1 DEF Bounded
  <2>3. Max(H) \in H /\ \A j \in H : j <= Max(H)
    BY <1>3, <2>2, MaxInSet
  <2>4. Overlay(f, S)[k] = f[Max(H)][k]
    BY <1>3 DEF Overlay
  <2> QED
    BY <1>1, <2>3, <2>4 DEF TopCell
<1> QED
  BY <1>2, <1>3

\* There is one such entry.
LEMMA TopUnique ==
  ASSUME NEW f, NEW S, Bounded(S), NEW k, NEW c, NEW d,
         TopCell(f, S, k, c), TopCell(f, S, k, d)
  PROVE  c = d
<1>1. \A i, j \in S : i <= j /\ j <= i => i = j
  BY DEF Bounded
<1> QED
  BY <1>1 DEF TopCell

\* Stacks of the same layers are the same.
LEMMA OverlaySame ==
  ASSUME NEW f, NEW g, NEW S, Bounded(S), \A i \in S : f[i] = g[i]
  PROVE  Overlay(f, S) = Overlay(g, S)
<1>1. ASSUME NEW k \in Key
      PROVE  Overlay(f, S)[k] = Overlay(g, S)[k]
  <2>1. /\ TopCell(f, S, k, Overlay(f, S)[k])
        /\ TopCell(g, S, k, Overlay(g, S)[k])
    BY OverlayTop
  <2>2. TopCell(f, S, k, Overlay(g, S)[k])
    BY <2>1 DEF TopCell
  <2> QED
    BY <2>1, <2>2, TopUnique
<1> QED
  BY <1>1 DEF Overlay

\* A stack is one part of it on top of another, if all indexes of the one are
\* above those of the other.
LEMMA OverlaySplit ==
  ASSUME NEW f, NEW S, Bounded(S), NEW L, NEW H, S = L \cup H,
         \A i \in L, j \in H : i < j, NEW k \in Key
  PROVE  Overlay(f, S)[k] = IF Overlay(f, H)[k] # Absent
                              THEN Overlay(f, H)[k] ELSE Overlay(f, L)[k]
<1>1. Bounded(L) /\ Bounded(H)
  BY DEF Bounded
<1>2. /\ TopCell(f, L, k, Overlay(f, L)[k])
      /\ TopCell(f, H, k, Overlay(f, H)[k])
      /\ TopCell(f, S, k, Overlay(f, S)[k])
  BY <1>1, OverlayTop
<1>3. \A i \in L, j \in H : i <= j
  BY DEF Bounded
<1>4. TopCell(f, S, k, IF Overlay(f, H)[k] # Absent
                         THEN Overlay(f, H)[k] ELSE Overlay(f, L)[k])
  <2>1. CASE Overlay(f, H)[k] # Absent
    <3>1. PICK i \in H : /\ f[i][k] # Absent
                         /\ Overlay(f, H)[k] = f[i][k]
                         /\ \A j \in H : f[j][k] # Absent => j <= i
      BY <1>2, <2>1 DEF TopCell
    <3>2. i \in S /\ \A j \in S : f[j][k] # Absent => j <= i
      BY <1>3, <3>1
    <3> QED
      BY <2>1, <3>1, <3>2 DEF TopCell
  <2>2. CASE Overlay(f, H)[k] = Absent
    <3>1. \A i \in H : f[i][k] = Absent
      BY <1>2, <2>2 DEF TopCell
    <3> QED
      BY <1>2, <2>2, <3>1 DEF TopCell
  <2> QED
    BY <2>1, <2>2
<1> QED
  BY <1>2, <1>4, TopUnique

\* A single layer is what a stack of one shows.
LEMMA OverlayOne ==
  ASSUME NEW f, NEW i \in Nat, NEW k \in Key
  PROVE  Overlay(f, {i})[k] = f[i][k]
<1>1. Bounded({i})
  BY DEF Bounded
<1>2. TopCell(f, {i}, k, Overlay(f, {i})[k])
  BY <1>1, OverlayTop
<1> QED
  BY <1>2 DEF TopCell

\* One more layer on top of all others.
LEMMA OverlayAdd ==
  ASSUME NEW f, NEW S, Bounded(S), NEW i \in Nat, \A j \in S : j < i,
         NEW k \in Key
  PROVE  Overlay(f, S \cup {i})[k] = IF f[i][k] # Absent
                                       THEN f[i][k] ELSE Overlay(f, S)[k]
<1>1. Bounded(S \cup {i}) /\ \A j \in S, h \in {i} : j < h
  BY DEF Bounded
<1>2. Overlay(f, S \cup {i})[k] = IF Overlay(f, {i})[k] # Absent
                                    THEN Overlay(f, {i})[k]
                                    ELSE Overlay(f, S)[k]
  BY <1>1, OverlaySplit
<1> QED
  BY <1>2, OverlayOne

\* Without its lowest layer a stack shows the same or nothing.
LEMMA OverlayDrop ==
  ASSUME NEW f, NEW S, Bounded(S), NEW i \in S, \A j \in S : i <= j,
         NEW k \in Key
  PROVE  \/ Overlay(f, S \ {i})[k] = Overlay(f, S)[k]
         \/ Overlay(f, S \ {i})[k] = Absent
<1>1. \A a \in {i}, b \in S \ {i} : a < b
  BY DEF Bounded
<1>2. S = {i} \cup (S \ {i})
  OBVIOUS
<1>3. Overlay(f, S)[k] = IF Overlay(f, S \ {i})[k] # Absent
                           THEN Overlay(f, S \ {i})[k]
                           ELSE Overlay(f, {i})[k]
  BY <1>1, <1>2, OverlaySplit
<1> QED
  BY <1>3

-----------------------------------------------------------------------------
(* The kinds of steps, by what they do to the stored data.                 *)

data == <<segments, files, up, mutable, immutable, memtables, frozen,
          immutableWALSegment, segmentID, tables, store, doubt>>

\* The step leaves the flush in progress, if any, where it is, or ends it; ...
FlushKept ==
    \A p \in Threads : pc'[p] \in {"write", "install", "clear"} =>
        /\ pc'[p] = pc[p]
        /\ flushGen' = flushGen
        /\ flushSegment' = flushSegment

\* ... the same for the compaction in progress; ...
CompactKept ==
    /\ unlinked' = unlinked
    /\ pc'[Compactor] \in {"target", "merge", "replace"} =>
         /\ pc'[Compactor] = pc[Compactor]
         /\ held'[Compactor] = held[Compactor]
         /\ compactGen' = compactGen
    /\ pc[Compactor] = "idle" =>
         pc'[Compactor] = "idle" /\ held'[Compactor] = held[Compactor]

\* ... and removes no segment.
ReclaimKept ==
    /\ reclaim' \subseteq reclaim
    /\ reclaim' # {} => flushMu' = flushMu
    /\ count'["removeErrors"] = 0 =>
         reclaim' = reclaim \/ (reclaim' = {} /\ immutable # Nil)

Kept == FlushKept /\ CompactKept /\ ReclaimKept

Passive == UNCHANGED data /\ Kept

Freezes ==
    /\ up /\ immutable = Nil
    /\ FreezeMutableLocked
    /\ UNCHANGED <<files, up, tables, store, doubt>>
    /\ Kept

FreezeStops ==
    /\ up /\ immutable = Nil
    /\ immutable' = mutable /\ frozen' = TRUE
    /\ UNCHANGED <<segments, files, up, mutable, memtables, immutableWALSegment,
                   segmentID, tables, store, doubt>>
    /\ Kept

\* A record in the WAL and in the memtable, ...
Applies(k, e) ==
    /\ up /\ ~frozen
    /\ WriteRecord(k, e)
    /\ memtables' = [memtables EXCEPT ![mutable] = PutRecord(@, k, e)]
    /\ store' = [store EXCEPT ![k] = StoreValue(e)]
    /\ doubt' = [doubt EXCEPT ![k] = {}]
    /\ UNCHANGED <<files, up, mutable, immutable, frozen, immutableWALSegment,
                   tables>>
    /\ Kept

\* ... in the WAL only, ...
Logs(k, e) ==
    /\ up
    /\ WriteRecord(k, e)
    /\ doubt' = [doubt EXCEPT ![k] = {StoreValue(e)}]
    /\ UNCHANGED <<files, up, mutable, immutable, memtables, frozen,
                   immutableWALSegment, tables, store>>
    /\ Kept

\* ... or in neither, after a rotation perhaps.
Pads ==
    /\ up
    /\ segmentID' = AppendSegment
    /\ segments' = Assign(segments, AppendSegment, AppendTo)
    /\ UNCHANGED <<files, up, mutable, immutable, memtables, frozen,
                   immutableWALSegment, tables, store, doubt>>
    /\ Kept

Flushing(p) ==
    \/ FlushBegin(p) \/ FlushWrite(p) \/ FlushInstall(p) \/ FlushClear(p)
    \/ FlushReclaim(p) \/ FlushWriteFails(p)

Compacting ==
    \/ CompactBegin \/ CompactTarget \/ CompactMerge \/ CompactReplace
    \/ CompactFails

StepKind ==
    \/ Passive
    \/ Freezes \/ FreezeStops
    \/ \E k \in Key, e \in Entry : Applies(k, e) \/ Logs(k, e)
    \/ Pads
    \/ \E p \in Writers \cup Readers : Flushing(p)
    \/ \E p \in Readers \cup {Compactor} : Release(p)
    \/ Compacting
    \/ LoseMemory
    \/ Restart

\* Writing, failing to write and freezing are the same for whoever does them.
LEMMA StepKinds ==
  ASSUME IInv, [Next]_vars
  PROVE  StepKind
<1> USE ThreadAssumption, ControlTypes DEF IInv, Calls, Flushes, Down,
        Compacts, Threads, Nil, disk, memory, list, locks, calls, flushing,
        reading, history, Goto, Counted, data, Passive, Kept, FlushKept,
        CompactKept, ReclaimKept
<1>1. ASSUME NEW p \in Writers, NEW k \in Key, NEW e \in Entry, Call(p, k, e)
      PROVE  StepKind
  <2>1. Passive
    BY <1>1 DEF Call
  <2> QED
    BY <2>1 DEF StepKind
<1>2. ASSUME NEW p \in Writers, PrepareWait(p) PROVE StepKind
  <2>1. Passive
    BY <1>2 DEF PrepareWait, CallFlush
  <2> QED
    BY <2>1 DEF StepKind
<1>3. ASSUME NEW p \in Writers, PrepareFreeze(p) PROVE StepKind
  <2>1. Freezes
    BY <1>3 DEF PrepareFreeze, Freezes
  <2> QED
    BY <2>1 DEF StepKind
<1>4. ASSUME NEW p \in Writers, Append(p) PROVE StepKind
  <2>1. op[p] \in Key \X Entry
    BY <1>4 DEF Append
  <2>2. op[p][1] \in Key /\ op[p][2] \in Entry
    BY <2>1
  <2>3. Applies(op[p][1], op[p][2])
    BY <1>4 DEF Append, Applies, CallFlush, ObserveStore
  <2> QED
    BY <2>2, <2>3 DEF StepKind
<1>5. ASSUME NEW p \in Writers, PrepareFails(p) PROVE StepKind
  <2>1. FreezeStops
    BY <1>5 DEF PrepareFails, FreezeStops, FreezeFails, WriteError
  <2> QED
    BY <2>1 DEF StepKind
<1>6. ASSUME NEW p \in Writers, AppendInDoubt(p) PROVE StepKind
  <2>1. op[p] \in Key \X Entry
    BY <1>6 DEF AppendInDoubt
  <2>2. op[p][1] \in Key /\ op[p][2] \in Entry
    BY <2>1
  <2>3. Logs(op[p][1], op[p][2])
    BY <1>6 DEF AppendInDoubt, Logs, WriteError
  <2> QED
    BY <2>2, <2>3 DEF StepKind
<1>7. ASSUME NEW p \in Writers, AppendFails(p) PROVE StepKind
  <2>1. Passive \/ Pads
    BY <1>7 DEF AppendFails, WriteError, RotateFails, Pads
  <2> QED
    BY <2>1 DEF StepKind
<1>8. ASSUME NEW p \in Writers, Flush(p) PROVE StepKind
  <2>1. Passive \/ Freezes \/ FreezeStops
    BY <1>8 DEF Flush, FlushLocked, FlushFreezeFails, FreezeFails, CallFlush,
       Freezes, FreezeStops
  <2> QED
    BY <2>1 DEF StepKind
<1>9. ASSUME NEW p \in Writers, Close(p) PROVE StepKind
  <2>1. Passive \/ Freezes \/ FreezeStops
    BY <1>9 DEF Close, FlushLocked, FlushFreezeFails, FreezeFails, CallFlush,
       Freezes, FreezeStops
  <2> QED
    BY <2>1 DEF StepKind
<1>10. ASSUME NEW p \in Writers \cup Readers, FlushStale(p) PROVE StepKind
  <2>1. Passive
    BY <1>10 DEF FlushStale, FlushEnter, ReturnFromFlush
  <2> QED
    BY <2>1 DEF StepKind
<1>11. ASSUME NEW p \in Writers \cup Readers, FlushBegin(p) PROVE StepKind
  BY <1>11 DEF StepKind, Flushing
<1>12. ASSUME NEW p \in Writers \cup Readers, FlushWrite(p) PROVE StepKind
  BY <1>12 DEF StepKind, Flushing
<1>13. ASSUME NEW p \in Writers \cup Readers, FlushInstall(p) PROVE StepKind
  BY <1>13 DEF StepKind, Flushing
<1>14. ASSUME NEW p \in Writers \cup Readers, FlushClear(p) PROVE StepKind
  BY <1>14 DEF StepKind, Flushing
<1>15. ASSUME NEW p \in Writers \cup Readers, FlushReclaim(p) PROVE StepKind
  BY <1>15 DEF StepKind, Flushing
<1>16. ASSUME NEW p \in Writers \cup Readers, FlushReturn(p) PROVE StepKind
  <2>1. Passive
    BY <1>16 DEF FlushReturn, ReturnFromFlush, EndFlush
  <2> QED
    BY <2>1 DEF StepKind
<1>17. ASSUME NEW p \in Writers \cup Readers, FlushWriteFails(p) PROVE StepKind
  BY <1>17 DEF StepKind, Flushing
<1>18. ASSUME NEW p \in Writers \cup Readers, FlushOpenFails(p) PROVE StepKind
  <2>1. Passive
    BY <1>18 DEF FlushOpenFails, ReturnFromFlush, EndFlush
  <2> QED
    BY <2>1 DEF StepKind
<1>19. ASSUME NEW p \in Writers \cup Readers, FlushReclaimFails(p)
      PROVE  StepKind
  <2>1. count'["removeErrors"] # 0
    BY <1>19 DEF FlushReclaimFails, TypeOK, CallTypes, Counters
  <2>2. Passive
    BY <1>19, <2>1 DEF FlushReclaimFails
  <2> QED
    BY <2>2 DEF StepKind
<1>20. ASSUME NEW r \in Readers, Get(r) PROVE StepKind
  <2>1. Passive
    BY <1>20 DEF Get, GetTables
  <2> QED
    BY <2>1 DEF StepKind
<1>21. ASSUME NEW r \in Readers, GetLookup(r) PROVE StepKind
  <2>1. Passive
    BY <1>21 DEF GetLookup, Forget
  <2> QED
    BY <2>1 DEF StepKind
<1>22. ASSUME NEW r \in Readers, Scan(r) PROVE StepKind
  <2>1. Passive
    BY <1>22 DEF Scan
  <2> QED
    BY <2>1 DEF StepKind
<1>23. ASSUME NEW r \in Readers, SnapshotWait(r) PROVE StepKind
  <2>1. Passive
    BY <1>23 DEF SnapshotWait, CallFlush
  <2> QED
    BY <2>1 DEF StepKind
<1>24. ASSUME NEW r \in Readers, SnapshotForScan(r) PROVE StepKind
  <2>1. Passive \/ Freezes
    BY <1>24 DEF SnapshotForScan, GetTables, Freezes
  <2> QED
    BY <2>1 DEF StepKind
<1>25. ASSUME NEW r \in Readers, SnapshotFails(r) PROVE StepKind
  <2>1. FreezeStops
    BY <1>25 DEF SnapshotFails, FreezeStops, FreezeFails
  <2> QED
    BY <2>1 DEF StepKind
<1>26. ASSUME NEW r \in Readers, ScanClose(r) PROVE StepKind
  <2>1. Passive
    BY <1>26 DEF ScanClose, Forget
  <2> QED
    BY <2>1 DEF StepKind
<1>27. ASSUME NEW p \in Readers \cup {Compactor}, Release(p) PROVE StepKind
  BY <1>27 DEF StepKind
<1>28. ASSUME NEW p \in Readers \cup {Compactor}, ReleaseDone(p) PROVE StepKind
  <2>1. Passive
    BY <1>28 DEF ReleaseDone
  <2> QED
    BY <2>1 DEF StepKind
<1>29. ASSUME CompactBegin PROVE StepKind
  BY <1>29 DEF StepKind, Compacting
<1>30. ASSUME CompactTarget PROVE StepKind
  BY <1>30 DEF StepKind, Compacting
<1>31. ASSUME CompactMerge PROVE StepKind
  BY <1>31 DEF StepKind, Compacting
<1>32. ASSUME CompactReplace PROVE StepKind
  BY <1>32 DEF StepKind, Compacting
<1>33. ASSUME CompactFails PROVE StepKind
  BY <1>33 DEF StepKind, Compacting
<1>34. ASSUME NEW p \in Writers, CloseFinish(p) PROVE StepKind
  BY <1>34 DEF StepKind, CloseFinish
<1>35. ASSUME Crash PROVE StepKind
  BY <1>35 DEF StepKind, Crash
<1>36. ASSUME Restart PROVE StepKind
  BY <1>36 DEF StepKind
<1>37. CASE UNCHANGED vars
  <2>1. Passive
    BY <1>37 DEF vars
  <2> QED
    BY <2>1 DEF StepKind
<1> QED
  BY <1>1, <1>2, <1>3, <1>4, <1>5, <1>6, <1>7, <1>8, <1>9, <1>10, <1>11,
     <1>12, <1>13, <1>14, <1>15, <1>16, <1>17, <1>18, <1>19, <1>20, <1>21,
     <1>22, <1>23, <1>24, <1>25, <1>26, <1>27, <1>28, <1>29, <1>30, <1>31,
     <1>32, <1>33, <1>34, <1>35, <1>36, <1>37
     DEF Next, Writer, Reader, Compaction, Insert, Delete, WriteSteps,
         WriteErrors, FlushSteps, FlushErrors, ReadSteps, ReleaseSteps,
         CompactSteps, RestartFails, Quiet, Entry

-----------------------------------------------------------------------------
(* The conditions only ever become false.                                  *)

\* A step makes at most one call.
LEMMA CountStep ==
  ASSUME IInv, [Next]_vars
  PROVE  \/ count' = count
         \/ \E c \in Counters : count' = [count EXCEPT ![c] = @ + 1]
<1> USE DEF Counted, Counters, vars, reading, history, calls
<1>1. ASSUME NEW p \in Writers, Writer(p)
      PROVE  \/ count' = count
             \/ \E c \in Counters : count' = [count EXCEPT ![c] = @ + 1]
  BY <1>1 DEF Writer, Insert, Delete, Call, Flush, Close, WriteSteps,
     PrepareWait, PrepareFreeze, Append, WriteErrors, PrepareFails,
     AppendInDoubt, AppendFails, WriteError, CloseFinish, FlushSteps,
     FlushStale, FlushBegin, FlushWrite, FlushInstall, FlushClear,
     FlushReclaim, FlushReturn, FlushErrors, FlushWriteFails, FlushOpenFails,
     FlushReclaimFails
<1>2. ASSUME NEW r \in Readers, Reader(r)
      PROVE  \/ count' = count
             \/ \E c \in Counters : count' = [count EXCEPT ![c] = @ + 1]
  BY <1>2 DEF Reader, Get, Scan, ScanClose, ReadSteps, GetLookup, SnapshotWait,
     SnapshotForScan, SnapshotFails, ReleaseSteps, Release, ReleaseDone, Forget,
     FlushSteps, FlushStale, FlushBegin, FlushWrite, FlushInstall, FlushClear,
     FlushReclaim, FlushReturn, FlushErrors, FlushWriteFails, FlushOpenFails,
     FlushReclaimFails
<1>3. ASSUME Compaction
      PROVE  \/ count' = count
             \/ \E c \in Counters : count' = [count EXCEPT ![c] = @ + 1]
  BY <1>3 DEF Compaction, CompactBegin, CompactSteps, CompactTarget,
     CompactMerge, CompactReplace, CompactFails, ReleaseSteps, Release,
     ReleaseDone
<1>4. ASSUME Crash \/ Restart \/ RestartFails \/ Quiet \/ UNCHANGED vars
      PROVE  \/ count' = count
             \/ \E c \in Counters : count' = [count EXCEPT ![c] = @ + 1]
  BY <1>4 DEF Crash, Restart, RestartFails, Quiet
<1> QED
  BY <1>1, <1>2, <1>3, <1>4 DEF Next

\* What holds of the counts after a step held before it.
LEMMA Conditions ==
  ASSUME IInv, [Next]_vars
  PROVE  /\ count'["compactions"] = 0 => count["compactions"] = 0
         /\ count'["restarts"] = 0 => count["restarts"] = 0
         /\ count'["removeErrors"] = 0 => count["removeErrors"] = 0
         /\ NoWindow' => NoWindow
         /\ Clean' => Clean
         /\ Running' => Running
         /\ Undisturbed' => Undisturbed
         /\ Undisturbed => NoWindow
<1>1. \A c \in Counters : count'[c] = 0 => count[c] = 0
  <2>1. count \in [Counters -> Nat]
    BY DEF IInv, TypeOK, CallTypes
  <2>2. CASE count' = count
    BY <2>2
  <2>3. ASSUME NEW c \in Counters, count' = [count EXCEPT ![c] = @ + 1]
        PROVE  \A d \in Counters : count'[d] = 0 => count[d] = 0
    BY <2>1, <2>3
  <2> QED
    BY <2>2, <2>3, CountStep
<1>2. {"compactions", "restarts", "removeErrors"} \subseteq Counters
  BY DEF Counters
<1> QED
  BY <1>1, <1>2 DEF NoWindow, Clean, Running, Undisturbed

-----------------------------------------------------------------------------
(* The parts of SInv about control.                                        *)

\* The database only goes down after a Close call or a crash.
LEMMA RestartedStep ==
  ASSUME IInv, Restarted, [Next]_vars
  PROVE  Restarted'
<1> USE DEF IInv, TypeOK, CallTypes, Counters, Restarted, Threads, Down, disk,
        memory, list, locks, calls, flushing, reading, history, Goto, Counted
<1>1. ASSUME NEW p \in Writers, NEW k \in Key, NEW e \in Entry, Call(p, k, e)
      PROVE  Restarted'
  BY <1>1 DEF Call
<1>2. ASSUME NEW p \in Writers, PrepareWait(p) PROVE Restarted'
  BY <1>2 DEF PrepareWait, CallFlush
<1>3. ASSUME NEW p \in Writers, PrepareFreeze(p) PROVE Restarted'
  BY <1>3 DEF PrepareFreeze, FreezeMutableLocked
<1>4. ASSUME NEW p \in Writers, Append(p) PROVE Restarted'
  BY <1>4 DEF Append, CallFlush, WriteRecord, ObserveStore, StoreValue
<1>5. ASSUME NEW p \in Writers, PrepareFails(p) PROVE Restarted'
  BY <1>5 DEF PrepareFails, FreezeFails, WriteError
<1>6. ASSUME NEW p \in Writers, AppendInDoubt(p) PROVE Restarted'
  BY <1>6 DEF AppendInDoubt, WriteError, WriteRecord
<1>7. ASSUME NEW p \in Writers, AppendFails(p) PROVE Restarted'
  BY <1>7 DEF AppendFails, WriteError
<1>8. ASSUME NEW p \in Writers, Flush(p) PROVE Restarted'
  BY <1>8 DEF Flush, FlushLocked, FlushFreezeFails, FreezeMutableLocked,
     FreezeFails, CallFlush
<1>9. ASSUME NEW p \in Writers, Close(p) PROVE Restarted'
  BY <1>9 DEF Close, FlushLocked, FlushFreezeFails, FreezeMutableLocked,
     FreezeFails, CallFlush
<1>10. ASSUME NEW p \in Writers \cup Readers, FlushStale(p) PROVE Restarted'
  BY <1>10 DEF FlushStale, FlushEnter, ReturnFromFlush
<1>11. ASSUME NEW p \in Writers \cup Readers, FlushBegin(p) PROVE Restarted'
  BY <1>11 DEF FlushBegin, FlushEnter
<1>12. ASSUME NEW p \in Writers \cup Readers, FlushWrite(p) PROVE Restarted'
  BY <1>12 DEF FlushWrite
<1>13. ASSUME NEW p \in Writers \cup Readers, FlushInstall(p) PROVE Restarted'
  BY <1>13 DEF FlushInstall
<1>14. ASSUME NEW p \in Writers \cup Readers, FlushClear(p) PROVE Restarted'
  BY <1>14 DEF FlushClear, SegmentsUpTo
<1>15. ASSUME NEW p \in Writers \cup Readers, FlushReclaim(p) PROVE Restarted'
  BY <1>15 DEF FlushReclaim
<1>16. ASSUME NEW p \in Writers \cup Readers, FlushReturn(p) PROVE Restarted'
  BY <1>16 DEF FlushReturn, ReturnFromFlush, EndFlush
<1>17. ASSUME NEW p \in Writers \cup Readers, FlushWriteFails(p)
      PROVE  Restarted'
  BY <1>17 DEF FlushWriteFails, ReturnFromFlush, EndFlush
<1>18. ASSUME NEW p \in Writers \cup Readers, FlushOpenFails(p)
      PROVE  Restarted'
  BY <1>18 DEF FlushOpenFails, ReturnFromFlush, EndFlush
<1>19. ASSUME NEW p \in Writers \cup Readers, FlushReclaimFails(p)
      PROVE  Restarted'
  BY <1>19 DEF FlushReclaimFails
<1>20. ASSUME NEW r \in Readers, Get(r) PROVE Restarted'
  BY <1>20 DEF Get, GetTables
<1>21. ASSUME NEW r \in Readers, GetLookup(r) PROVE Restarted'
  BY <1>21 DEF GetLookup, Forget
<1>22. ASSUME NEW r \in Readers, Scan(r) PROVE Restarted'
  BY <1>22 DEF Scan
<1>23. ASSUME NEW r \in Readers, SnapshotWait(r) PROVE Restarted'
  BY <1>23 DEF SnapshotWait, CallFlush
<1>24. ASSUME NEW r \in Readers, SnapshotForScan(r) PROVE Restarted'
  BY <1>24 DEF SnapshotForScan, FreezeMutableLocked, GetTables
<1>25. ASSUME NEW r \in Readers, SnapshotFails(r) PROVE Restarted'
  BY <1>25 DEF SnapshotFails, FreezeFails
<1>26. ASSUME NEW r \in Readers, ScanClose(r) PROVE Restarted'
  BY <1>26 DEF ScanClose, Forget
<1>27. ASSUME NEW p \in Readers \cup {Compactor}, Release(p) PROVE Restarted'
  BY <1>27 DEF Release, LastHolder
<1>28. ASSUME NEW p \in Readers \cup {Compactor}, ReleaseDone(p)
      PROVE  Restarted'
  BY <1>28 DEF ReleaseDone
<1>29. ASSUME CompactBegin PROVE Restarted'
  BY <1>29 DEF CompactBegin, GetTables
<1>30. ASSUME CompactTarget PROVE Restarted'
  BY <1>30 DEF CompactTarget
<1>31. ASSUME CompactMerge PROVE Restarted'
  BY <1>31 DEF CompactMerge
<1>32. ASSUME CompactReplace PROVE Restarted'
  BY <1>32 DEF CompactReplace
<1>33. ASSUME CompactFails PROVE Restarted'
  BY <1>33 DEF CompactFails
<1>34. ASSUME NEW p \in Writers, CloseFinish(p) PROVE Restarted'
  BY <1>34 DEF CloseFinish, LoseMemory
<1>35. ASSUME Crash PROVE Restarted'
  BY <1>35 DEF Crash, LoseMemory
<1>36. ASSUME Restart PROVE Restarted'
  BY <1>36 DEF Restart
<1>37. CASE UNCHANGED vars
  BY <1>37 DEF vars
<1> QED
  BY <1>1, <1>2, <1>3, <1>4, <1>5, <1>6, <1>7, <1>8, <1>9, <1>10, <1>11,
     <1>12, <1>13, <1>14, <1>15, <1>16, <1>17, <1>18, <1>19, <1>20, <1>21,
     <1>22, <1>23, <1>24, <1>25, <1>26, <1>27, <1>28, <1>29, <1>30, <1>31,
     <1>32, <1>33, <1>34, <1>35, <1>36, <1>37
     DEF Next, Writer, Reader, Compaction, Insert, Delete, WriteSteps,
         WriteErrors, FlushSteps, FlushErrors, ReadSteps, ReleaseSteps,
         CompactSteps, RestartFails, Quiet, Entry

\* The types of what the WAL's bookkeeping depends on.
LEMMA LogTypes ==
  ASSUME IInv
  PROVE  /\ segmentID \in Nat /\ immutableWALSegment \in Nat
         /\ flushSegment \in Nat
         /\ segments \in [DOMAIN segments -> Buffer]
         /\ DOMAIN segments \subseteq Nat \ {0}
         /\ reclaim \subseteq DOMAIN segments
BY DEF IInv, TypeOK, WALTypes

\* A step that writes to the WAL leaves the segments below the active one.
LEMMA WriteDomain ==
  ASSUME IInv, up, NEW b \in Buffer, segmentID' = AppendSegment,
         segments' = Assign(segments, AppendSegment, b)
  PROVE  /\ AppendSegment \in Nat /\ segmentID <= AppendSegment
         /\ DOMAIN segments' = DOMAIN segments \cup {AppendSegment}
         /\ segments'[AppendSegment] = b
         /\ \A s \in DOMAIN segments :
              s # AppendSegment => segments'[s] = segments[s]
BY LogTypes, AppendTypes DEF IInv, Assign

\* No two flushes are in progress, and the database is open.
LEMMA FlushAlone ==
  ASSUME IInv, NEW p \in Writers \cup Readers, Flushing(p)
  PROVE  /\ up
         /\ p \in Threads /\ p # Compactor
         /\ \A q \in Threads : q # p =>
              pc[q] \notin {"write", "install", "clear", "reclaim"}
BY ThreadAssumption
   DEF Threads, Flushing, FlushBegin, FlushWrite, FlushInstall, FlushClear,
       FlushReclaim, FlushWriteFails, FlushEnter, IInv, Flushes, Down

\* A flush or a failing freeze starts with a memtable in the slot or puts one
\* there, and no segment is removed that is not sealed.
LEMMA SegmentOrderStep ==
  ASSUME IInv, SegmentOrder, [Next]_vars
  PROVE  SegmentOrder'
<1> USE LogTypes, ThreadAssumption DEF SegmentOrder, Sealed, Threads, Nil
<1>1. CASE Passive
  BY <1>1 DEF Passive, data, Kept, FlushKept, ReclaimKept
<1>2. CASE Freezes
  <2>1. DOMAIN segments' = DOMAIN segments \cup {segmentID + 1}
    BY <1>2, FreezeTypes DEF Freezes, IInv
  <2>2. \A s \in DOMAIN segments : s <= segmentID
    BY <1>2 DEF Freezes, IInv, Disk
  <2>3. \A p \in Threads : pc'[p] \notin {"write", "install", "clear"}
    BY <1>2 DEF Freezes, Kept, FlushKept, IInv, Flushes
  <2>4. reclaim' \subseteq reclaim /\ (reclaim' # {} => flushMu' = flushMu)
    BY <1>2 DEF Freezes, Kept, ReclaimKept
  <2>5. /\ immutableWALSegment' = segmentID /\ segmentID' = segmentID + 1
        /\ up' = TRUE
    BY <1>2 DEF Freezes, FreezeMutableLocked, IInv, TypeOK, CallTypes
  <2> QED
    BY <2>1, <2>2, <2>3, <2>4, <2>5
<1>3. CASE FreezeStops
  <2>1. \A p \in Threads : pc'[p] \notin {"write", "install", "clear"}
    BY <1>3 DEF FreezeStops, Kept, FlushKept, IInv, Flushes
  <2> QED
    BY <1>3, <2>1 DEF FreezeStops, Kept, ReclaimKept
<1>4. ASSUME NEW b \in Buffer, up,
             UNCHANGED <<up, immutable, immutableWALSegment>>,
             segmentID' = AppendSegment,
             segments' = Assign(segments, AppendSegment, b), Kept
      PROVE  SegmentOrder'
  BY <1>4, WriteDomain DEF Kept, FlushKept, ReclaimKept
<1>5. ASSUME NEW k \in Key, NEW e \in Entry, Applies(k, e) \/ Logs(k, e)
      PROVE  SegmentOrder'
  <2>1. PutRecord(AppendTo, k, e) \in Buffer
    BY <1>5, AppendTypes, LayerTypes DEF IInv, Applies, Logs
  <2> QED
    BY <1>4, <1>5, <2>1 DEF Applies, Logs, WriteRecord
<1>6. CASE Pads
  <2>1. AppendTo \in Buffer
    BY <1>6, AppendTypes DEF IInv, Pads
  <2> QED
    BY <1>4, <1>6, <2>1 DEF Pads
<1>7. ASSUME NEW p \in Writers \cup Readers, Flushing(p)
      PROVE  SegmentOrder'
  <2> USE DEF disk, memory, list, locks, calls, flushing, Goto
  <2>1. up
    BY <1>7, FlushAlone
  <2>2. \A q \in Threads : q # p =>
           pc[q] \notin {"write", "install", "clear", "reclaim"}
    BY <1>7, FlushAlone
  <2>3. pc \in [Threads -> ControlStates]
    BY ControlTypes DEF IInv
  <2>4. CASE FlushBegin(p)
    BY <2>1, <2>2, <2>3, <2>4 DEF FlushBegin, FlushEnter
  <2>5. CASE FlushWrite(p)
    BY <2>1, <2>2, <2>3, <2>5 DEF FlushWrite
  <2>6. CASE FlushInstall(p)
    BY <2>1, <2>2, <2>3, <2>6 DEF FlushInstall
  <2>7. CASE FlushClear(p)
    <3>1. flushMu = p
      BY <2>7 DEF FlushClear, IInv, Flushes
    <3> QED
      BY <2>1, <2>2, <2>3, <2>7, <3>1 DEF FlushClear, SegmentsUpTo
  <2>8. CASE FlushReclaim(p)
    <3>1. DOMAIN segments' = DOMAIN segments \ {Min(reclaim)}
      BY <2>8, WithoutType DEF FlushReclaim
    <3> QED
      BY <2>1, <2>2, <2>3, <2>8, <3>1 DEF FlushReclaim
  <2>9. CASE FlushWriteFails(p)
    BY <2>1, <2>2, <2>3, <2>9 DEF FlushWriteFails, EndFlush, ReturnFromFlush
  <2> QED
    BY <1>7, <2>4, <2>5, <2>6, <2>7, <2>8, <2>9 DEF Flushing
<1>8. ASSUME NEW p \in Readers \cup {Compactor}, Release(p)
      PROVE  SegmentOrder'
  BY <1>8 DEF Release, memory, list, locks, calls, flushing
<1>9. CASE Compacting
  <2> USE ControlTypes DEF IInv, disk, memory, list, locks, calls, flushing,
          Goto
  <2> QED
    BY <1>9 DEF Compacting, CompactBegin, CompactTarget, CompactMerge,
       CompactReplace, CompactFails
<1>10. CASE LoseMemory
  BY <1>10 DEF LoseMemory
<1>11. CASE Restart
  <2>1. segmentID' \in DOMAIN segments
    BY <1>11, SegmentsMax DEF Restart, IInv
  <2> QED
    BY <1>11, <2>1 DEF Restart, disk, memory, locks, calls, flushing
<1> QED
  BY StepKinds, <1>1, <1>2, <1>3, <1>5, <1>6, <1>7, <1>8, <1>9, <1>10, <1>11
     DEF StepKind

\* Segments are sealed with a memtable in the slot, and when that is dropped
\* they are handed to RemoveSegmentsUpTo.
LEMMA ReclaimingStep ==
  ASSUME IInv, SegmentOrder, Reclaiming, [Next]_vars
  PROVE  Reclaiming'
<1> SUFFICES ASSUME up', immutable' = Nil, count'["removeErrors"] = 0
             PROVE  Sealed' \subseteq reclaim'
  BY DEF Reclaiming
<1> USE LogTypes DEF Sealed, Nil
<1>1. count["removeErrors"] = 0
  BY Conditions
<1>2. up /\ immutable = Nil => Sealed \subseteq reclaim
  BY <1>1 DEF Reclaiming
<1> HIDE DEF Nil
<1>3. CASE Passive
  BY <1>2, <1>3 DEF Passive, data, Kept, ReclaimKept
<1>4. CASE Freezes \/ FreezeStops
  <2>1. immutable' = mutable
    BY <1>4 DEF Freezes, FreezeStops, FreezeMutableLocked
  <2>2. mutable # Nil
    BY ControlTypes DEF IInv, Nil
  <2> QED
    BY <2>1, <2>2
<1>5. ASSUME NEW b \in Buffer, up,
             UNCHANGED <<up, immutable, immutableWALSegment>>,
             segmentID' = AppendSegment,
             segments' = Assign(segments, AppendSegment, b), Kept
      PROVE  Sealed' \subseteq reclaim'
  <2>1. immutableWALSegment < AppendSegment
    BY <1>5, WriteDomain DEF SegmentOrder
  <2> QED
    BY <1>2, <1>5, <2>1, WriteDomain DEF Kept, ReclaimKept
<1>6. ASSUME NEW k \in Key, NEW e \in Entry, Applies(k, e) \/ Logs(k, e)
      PROVE  Sealed' \subseteq reclaim'
  <2>1. PutRecord(AppendTo, k, e) \in Buffer
    BY <1>6, AppendTypes, LayerTypes DEF IInv, Applies, Logs
  <2> QED
    BY <1>5, <1>6, <2>1 DEF Applies, Logs, WriteRecord
<1>7. CASE Pads
  <2>1. AppendTo \in Buffer
    BY <1>7, AppendTypes DEF IInv, Pads
  <2> QED
    BY <1>5, <1>7, <2>1 DEF Pads
<1>8. ASSUME NEW p \in Writers \cup Readers, Flushing(p)
      PROVE  Sealed' \subseteq reclaim'
  <2> USE <1>2, <1>8, FlushAlone DEF disk, memory, flushing
  <2>1. CASE FlushBegin(p) \/ FlushWrite(p) \/ FlushInstall(p)
    BY <2>1 DEF FlushBegin, FlushWrite, FlushInstall
  <2>2. CASE FlushClear(p)
    <3>1. /\ flushSegment = immutableWALSegment
          /\ immutableWALSegment < segmentID
      BY <2>2 DEF FlushClear, SegmentOrder
    <3> QED
      BY <2>2, <3>1 DEF FlushClear, SegmentsUpTo
  <2>3. CASE FlushReclaim(p)
    <3>1. DOMAIN segments' = DOMAIN segments \ {Min(reclaim)}
      BY <2>3, WithoutType DEF FlushReclaim
    <3> QED
      BY <2>3, <3>1 DEF FlushReclaim
  <2>4. CASE FlushWriteFails(p)
    <3>1. immutable # Nil
      BY <2>4 DEF FlushWriteFails, IInv, Flushes
    <3> QED
      BY <2>4, <3>1 DEF FlushWriteFails
  <2> QED
    BY <2>1, <2>2, <2>3, <2>4 DEF Flushing
<1>9. ASSUME NEW p \in Readers \cup {Compactor}, Release(p)
      PROVE  Sealed' \subseteq reclaim'
  BY <1>2, <1>9 DEF Release, memory, flushing
<1>10. CASE Compacting
  BY <1>2, <1>10 DEF Compacting, CompactBegin, CompactTarget, CompactMerge,
     CompactReplace, CompactFails, disk, memory, flushing
<1>11. CASE LoseMemory
  BY <1>11 DEF LoseMemory
<1>12. CASE Restart
  <2>1. immutableWALSegment = 0
    BY <1>12 DEF Restart, SegmentOrder
  <2> QED
    BY <1>12, <2>1 DEF Restart, disk
<1> QED
  BY StepKinds, <1>3, <1>4, <1>6, <1>7, <1>8, <1>9, <1>10, <1>11, <1>12
     DEF StepKind

-----------------------------------------------------------------------------
(* Files, tables and the frozen memtable.                                  *)

\* Generations and segment numbers are bounded.
LEMMA AllBounded ==
  ASSUME IInv
  PROVE  /\ \A S \in SUBSET DOMAIN files : Bounded(S)
         /\ \A S \in SUBSET DOMAIN segments : Bounded(S)
<1>1. DOMAIN files \subseteq Nat /\ DOMAIN segments \subseteq Nat
  BY ControlTypes, LogTypes DEF IInv
<1>2. /\ Max(DOMAIN files \cup {0}) \in Nat
      /\ \A g \in DOMAIN files : g <= Max(DOMAIN files \cup {0})
  BY <1>1, FilesMax DEF IInv
<1>3. /\ Max(DOMAIN segments) \in Nat
      /\ \A s \in DOMAIN segments : s <= Max(DOMAIN segments)
  BY <1>1, SegmentsMax DEF IInv
<1>4. ASSUME NEW S \in SUBSET DOMAIN files PROVE Bounded(S)
  BY <1>1, <1>2, <1>4 DEF Bounded
<1>5. ASSUME NEW S \in SUBSET DOMAIN segments PROVE Bounded(S)
  BY <1>1, <1>3, <1>5 DEF Bounded
<1> QED
  BY <1>4, <1>5

\* A table that is listed, or that a call holds before and after a step, keeps
\* its file.
LEMMA FilesKept ==
  ASSUME IInv, [Next]_vars, NEW g \in DOMAIN files,
         g \in tables \/ \E q \in Threads : g \in held[q] /\ g \in held'[q]
  PROVE  g \in DOMAIN files' /\ files'[g] = files[g]
<1> USE DEF disk
<1>0. \A h : h # g => /\ g \in DOMAIN Without(files, {h})
                      /\ Without(files, {h})[g] = files[g]
  BY DEF Without, Restrict
<1>1. CASE files' = files
  BY <1>1
<1>2. ASSUME NEW p \in Writers \cup Readers, Flushing(p)
      PROVE  g \in DOMAIN files' /\ files'[g] = files[g]
  <2>1. g # nextGen + 1
    BY <1>2, FlushAlone, ControlTypes DEF IInv, Disk
  <2>2. pc[p] \in {"write", "install"} => g # flushGen
    BY <1>2, FlushAlone DEF IInv, Flushes
  <2>3. files \in [DOMAIN files -> SSTFile]
    BY DEF IInv, TypeOK, TableTypes
  <2> QED
    BY <1>0, <1>1, <1>2, <2>1, <2>2, <2>3
       DEF Flushing, FlushBegin, FlushWrite, FlushInstall, FlushClear,
           FlushReclaim, FlushWriteFails, Assign
<1>3. ASSUME NEW p \in Readers \cup {Compactor}, Release(p)
      PROVE  g \in DOMAIN files' /\ files'[g] = files[g]
  <2>1. held \in [Threads -> SUBSET DOMAIN files] /\ p \in Threads
    BY ControlTypes DEF IInv, Threads
  <2>2. CASE files' = Without(files, {Max(held[p])})
    <3>1. held' = [held EXCEPT ![p] = @ \ {Max(held[p])}]
      BY <1>3 DEF Release
    <3>2. CASE g # Max(held[p])
      BY <1>0, <2>2, <3>2
    <3>3. CASE g = Max(held[p]) /\ ~(files' = files)
      <4>1. g \in unlinked /\ LastHolder(p, g)
        BY <1>3, <3>3 DEF Release
      <4>2. g \notin tables
        BY <4>1 DEF IInv, Disk
      <4>3. PICK q \in Threads : g \in held[q] /\ g \in held'[q]
        BY <4>2
      <4>4. q = p
        BY <4>1, <4>3 DEF LastHolder
      <4> QED
        BY <2>1, <3>1, <3>3, <4>3, <4>4
    <3> QED
      BY <1>1, <3>2, <3>3
  <2> QED
    BY <1>1, <1>3, <2>2 DEF Release
<1>4. CASE Compacting
  <2>1. pc[Compactor] = "target" => g # nextGen + 1
    BY ControlTypes DEF IInv, Disk, Down, Threads
  <2>2. pc[Compactor] \in {"merge", "replace"} => g # compactGen
    BY DEF IInv, Compacts
  <2>3. files \in [DOMAIN files -> SSTFile]
    BY DEF IInv, TypeOK, TableTypes
  <2> QED
    BY <1>0, <1>1, <1>4, <2>1, <2>2, <2>3
       DEF Compacting, CompactBegin, CompactTarget, CompactMerge,
           CompactReplace, CompactFails, Assign
<1> QED
  BY StepKinds, <1>1, <1>2, <1>3, <1>4
     DEF StepKind, Passive, data, Freezes, FreezeStops, Applies, Logs, Pads,
         LoseMemory, Restart

\* Such tables show the same before and after the step.
LEMMA StackKept ==
  ASSUME IInv, [Next]_vars, NEW S \in SUBSET DOMAIN files,
         \A g \in S : \/ g \in tables
                      \/ \E q \in Threads : g \in held[q] /\ g \in held'[q]
  PROVE  /\ Overlay(FileCells', S) = Overlay(FileCells, S)
         /\ S \subseteq DOMAIN files'
<1>1. \A g \in S : g \in DOMAIN files' /\ files'[g] = files[g]
  BY FilesKept
<1>2. \A g \in S : FileCells'[g] = FileCells[g]
  BY <1>1 DEF FileCells
<1>3. Bounded(S)
  BY AllBounded
<1> QED
  BY <1>1, <1>2, <1>3, OverlaySame

\* The memtable of a flush in progress stays as it is.
LEMMA SlotKept ==
  ASSUME IInv, [Next]_vars, NEW p \in Threads,
         pc'[p] \in {"write", "install", "clear"}
  PROVE  /\ immutable' = immutable /\ immutable # Nil
         /\ MemCells(immutable)' = MemCells(immutable)
<1>1. \/ pc'[p] = pc[p] /\ pc[p] \in {"write", "install", "clear"}
      \/ \E q \in Writers \cup Readers : Flushing(q)
  <2> USE DEF Threads
  <2>1. CASE Kept
    BY <2>1 DEF Kept, FlushKept
  <2>2. CASE UNCHANGED pc
    BY <2>2
  <2>3. CASE Compacting
    BY <2>3, ControlTypes
       DEF Compacting, CompactBegin, CompactTarget, CompactMerge,
           CompactReplace, CompactFails, Goto, IInv
  <2>4. ASSUME NEW q \in Readers \cup {Compactor}, Release(q)
        PROVE  UNCHANGED pc
    BY <2>4 DEF Release, calls
  <2>5. CASE LoseMemory
    BY <2>5 DEF LoseMemory
  <2>6. CASE Restart
    BY <2>6 DEF Restart, calls
  <2> QED
    BY StepKinds, <2>1, <2>2, <2>3, <2>4, <2>5, <2>6
       DEF StepKind, Passive, Freezes, FreezeStops, Applies, Logs, Pads
<1>2. ASSUME NEW q \in Writers \cup Readers, Flushing(q)
      PROVE  /\ UNCHANGED <<immutable, memtables>>
             /\ immutable # Nil
  <2>1. pc' = [pc EXCEPT ![q] = pc'[q]]
    BY <1>2, ControlTypes
       DEF Flushing, FlushBegin, FlushWrite, FlushInstall, FlushClear,
           FlushReclaim, FlushWriteFails, ReturnFromFlush, Goto, calls, IInv
  <2>2. p = q
    BY <1>2, <2>1, FlushAlone, ControlTypes DEF IInv
  <2>3. FlushBegin(q) \/ FlushWrite(q) \/ FlushInstall(q)
    BY <1>2, <2>2, ControlTypes
       DEF Flushing, FlushClear, FlushReclaim, FlushWriteFails,
           ReturnFromFlush, Goto, calls, IInv
  <2> QED
    BY <2>3, FlushAlone
       DEF FlushBegin, FlushWrite, FlushInstall, Flushing, memory, IInv,
           Flushes
<1>3. CASE /\ pc'[p] = pc[p] /\ pc[p] \in {"write", "install", "clear"}
           /\ ~\E q \in Writers \cup Readers : Flushing(q)
  <2>1. immutable # Nil /\ up
    BY <1>3 DEF IInv, Flushes, Down
  <2>2. immutable = mutable => frozen
    BY DEF IInv, Flushes
  <2>3. ~LoseMemory
    BY <1>3 DEF LoseMemory
  <2>4. immutable' = immutable
    BY StepKinds, <1>3, <2>1, <2>3
       DEF StepKind, Passive, data, Freezes, FreezeStops, Applies, Logs, Pads,
           Release, Compacting, CompactBegin, CompactTarget, CompactMerge,
           CompactReplace, CompactFails, Restart, memory
  <2>5. \/ memtables' = memtables
        \/ immutable # mutable /\ \E k \in Key, e \in Entry : Applies(k, e)
    BY StepKinds, <1>3, <2>1, <2>2, <2>3
       DEF StepKind, Passive, data, Freezes, FreezeStops, Applies, Logs, Pads,
           Release, Compacting, CompactBegin, CompactTarget, CompactMerge,
           CompactReplace, CompactFails, Restart, memory
  <2>6. immutable \in 1..mutable /\ memtables \in [1..mutable -> Buffer]
    BY <2>1 DEF IInv, TypeOK, MemTableTypes, Nil
  <2> QED
    BY <2>1, <2>4, <2>5, <2>6 DEF Applies, MemCells
<1> QED
  BY <1>1, <1>2, <1>3 DEF MemCells

\* Generations are handed out in order, and with no flush in the window of a
\* compaction a flush's is above everything that is listed meanwhile.
LEMMA NewestStep ==
  ASSUME IInv, NoWindow => Newest /\ Merging, NoWindow', [Next]_vars
  PROVE  Newest'
<1> SUFFICES ASSUME NEW p \in Threads, pc'[p] \in {"write", "install"}
             PROVE  /\ \A g \in tables' : g < flushGen'
                    /\ pc'[Compactor] # "target"
                    /\ pc'[Compactor] \in {"merge", "replace"} =>
                         compactGen' < flushGen'
  BY DEF Newest
<1>1. Newest /\ Merging
  BY Conditions
<1> USE <1>1, ControlTypes DEF IInv, Newest, Threads
<1>2. ASSUME Kept, tables' = tables
      PROVE  /\ \A g \in tables' : g < flushGen'
             /\ pc'[Compactor] # "target"
             /\ pc'[Compactor] \in {"merge", "replace"} =>
                  compactGen' < flushGen'
  BY <1>2 DEF Kept, FlushKept, CompactKept
<1>3. ASSUME NEW q \in Writers \cup Readers, Flushing(q)
      PROVE  /\ \A g \in tables' : g < flushGen'
             /\ pc'[Compactor] # "target"
             /\ pc'[Compactor] \in {"merge", "replace"} =>
                  compactGen' < flushGen'
  <2> USE FlushAlone DEF Goto, list, flushing
  <2>1. CASE FlushBegin(q)
    <3>1. pc[Compactor] # "target"
      BY <2>1 DEF FlushBegin, NoWindow, Merging
    <3>2. \A g \in tables : g < nextGen + 1
      BY <1>3 DEF Disk
    <3> QED
      BY <1>3, <2>1, <3>1, <3>2 DEF FlushBegin
  <2>2. CASE FlushWrite(q)
    BY <1>3, <2>2 DEF FlushWrite
  <2>3. CASE FlushInstall(q)
    BY <1>3, <2>3 DEF FlushInstall
  <2>4. CASE FlushClear(q)
    BY <1>3, <2>4 DEF FlushClear
  <2>5. CASE FlushReclaim(q)
    BY <1>3, <2>5 DEF FlushReclaim, calls
  <2>6. CASE FlushWriteFails(q)
    BY <1>3, <2>6 DEF FlushWriteFails, ReturnFromFlush
  <2> QED
    BY <1>3, <2>1, <2>2, <2>3, <2>4, <2>5, <2>6 DEF Flushing
<1>4. ASSUME NEW q \in Readers \cup {Compactor}, Release(q)
      PROVE  UNCHANGED <<pc, tables, flushGen, compactGen>>
  BY <1>4 DEF Release, calls, list, flushing
<1>5. CASE CompactBegin
  <2>1. count'["compactions"] # 0
    BY <1>5 DEF CompactBegin, Counted, TypeOK, CallTypes, Counters
  <2>2. ~FlushPending
    BY <1>5, <2>1 DEF CompactBegin, NoWindow
  <2> QED
    BY <1>5, <2>2, ThreadAssumption DEF CompactBegin, FlushPending, Goto
<1>6. CASE CompactTarget
  BY <1>6, ThreadAssumption DEF CompactTarget, Goto
<1>7. CASE CompactMerge
  BY <1>7 DEF CompactMerge, Goto, list, flushing
<1>8. CASE CompactReplace
  BY <1>8 DEF CompactReplace, Goto, flushing
<1>9. CASE CompactFails
  BY <1>9 DEF CompactFails, Goto, list, flushing
<1>10. CASE LoseMemory
  BY <1>10 DEF LoseMemory
<1>11. CASE Restart
  BY <1>11 DEF Restart, Down, calls
<1> QED
  BY StepKinds, <1>2, <1>3, <1>4, <1>5, <1>6, <1>7, <1>8, <1>9, <1>10, <1>11
     DEF StepKind, Compacting, Passive, data, Freezes, FreezeStops, Applies,
         Logs, Pads

\* A flush installs its table above the compaction in progress, and nothing
\* touches the compaction's own file or its inputs.
LEMMA MergingStep ==
  ASSUME IInv, NoWindow => Newest /\ Merging, NoWindow', [Next]_vars
  PROVE  Merging'
<1>1. Newest /\ Merging
  BY Conditions
<1> USE <1>1, ControlTypes DEF IInv, Threads
<1>2. ASSUME Kept, tables' = tables, files' = files
      PROVE  Merging'
  BY <1>2, Conditions DEF Kept, CompactKept, Merging, FileCells
<1>3. ASSUME UNCHANGED <<unlinked, compactGen>>,
             pc'[Compactor] = pc[Compactor],
             held'[Compactor] = held[Compactor],
             pc[Compactor] = "replace" =>
               /\ compactGen \in DOMAIN files' <=> compactGen \in DOMAIN files
               /\ compactGen \in DOMAIN files =>
                    files'[compactGen] = files[compactGen],
             tables \subseteq tables',
             \A g \in tables' \ tables :
               /\ pc[Compactor] # "target"
               /\ pc[Compactor] \in {"merge", "replace"} => compactGen < g
      PROVE  Merging'
  <2>1. CASE pc[Compactor] \in {"target", "merge", "replace"}
    <3>1. held[Compactor] \subseteq tables
      BY <2>1 DEF Merging
    <3>2. Overlay(FileCells', held[Compactor])
            = Overlay(FileCells, held[Compactor])
      BY <3>1, StackKept
    <3>3. Overlay(FileCells, held[Compactor])'
            = Overlay(FileCells, held[Compactor])
      BY <1>3, <3>2
    <3> QED
      BY <1>3, <2>1, <3>1, <3>3, Conditions DEF Merging
  <2>2. CASE pc[Compactor] \notin {"target", "merge", "replace"}
    BY <1>3, <2>2, Conditions DEF Merging
  <2> QED
    BY <2>1, <2>2
<1>4. ASSUME NEW p \in Writers \cup Readers, Flushing(p)
      PROVE  Merging'
  <2> USE FlushAlone DEF Goto, list, flushing, reading, disk
  <2>1. pc[p] \in {"write", "install"} => flushGen # compactGen
    BY <1>4 DEF Flushes
  <2>2. nextGen + 1 # compactGen /\ nextGen + 1 \notin DOMAIN files
    BY <1>4 DEF Disk
  <2>3. files \in [DOMAIN files -> SSTFile]
    BY DEF TypeOK, TableTypes
  <2>4. compactGen # flushGen =>
          /\ compactGen \in DOMAIN Without(files, {flushGen})
               <=> compactGen \in DOMAIN files
          /\ compactGen \in DOMAIN files =>
               Without(files, {flushGen})[compactGen] = files[compactGen]
    BY DEF Without, Restrict
  <2>5. CASE FlushBegin(p)
    BY <1>3, <1>4, <2>2, <2>3, <2>5 DEF FlushBegin, Assign
  <2>6. CASE FlushWrite(p)
    BY <1>3, <1>4, <2>1, <2>3, <2>6 DEF FlushWrite
  <2>7. CASE FlushInstall(p)
    BY <1>3, <1>4, <2>7 DEF FlushInstall, Newest
  <2>8. CASE FlushClear(p)
    BY <1>3, <1>4, <2>8 DEF FlushClear
  <2>9. CASE FlushReclaim(p)
    BY <1>3, <1>4, <2>9 DEF FlushReclaim, calls
  <2>10. CASE FlushWriteFails(p)
    BY <1>3, <1>4, <2>1, <2>3, <2>4, <2>10 DEF FlushWriteFails, ReturnFromFlush
  <2> QED
    BY <1>4, <2>5, <2>6, <2>7, <2>8, <2>9, <2>10 DEF Flushing
<1>5. ASSUME NEW p \in Readers \cup {Compactor}, Release(p)
      PROVE  Merging'
  <2> USE DEF calls, list, reading
  <2>1. CASE p = Compactor
    BY <1>5, <2>1, Conditions DEF Release, Merging
  <2>2. CASE p # Compactor
    <3>1. held[p] # {} /\ up
      BY <1>5 DEF Release, Down
    <3>2. Max(held[p]) \in held[p]
      BY <3>1, HeldMax
    <3>3. pc[Compactor] \in {"merge", "replace"} => compactGen # Max(held[p])
      BY <3>2 DEF Compacts
    <3>4. compactGen # Max(held[p]) =>
            /\ compactGen \in DOMAIN Without(files, {Max(held[p])})
                 <=> compactGen \in DOMAIN files
            /\ compactGen \in DOMAIN files =>
                 Without(files, {Max(held[p])})[compactGen] = files[compactGen]
      BY DEF Without, Restrict
    <3> QED
      BY <1>3, <1>5, <2>2, <3>3, <3>4 DEF Release
  <2> QED
    BY <2>1, <2>2
<1>6. CASE CompactBegin
  <2>1. count'["compactions"] # 0
    BY <1>6 DEF CompactBegin, Counted, TypeOK, CallTypes, Counters
  <2> QED
    BY <1>6, <2>1 DEF CompactBegin, Goto, GetTables, list, Merging
<1>7. CASE CompactTarget
  <2>1. tables = held[Compactor] /\ up
    BY <1>7 DEF CompactTarget, Merging, Down
  <2>2. \A g \in DOMAIN files : g < nextGen + 1
    BY <2>1 DEF Disk
  <2>3. Overlay(FileCells', held[Compactor])
          = Overlay(FileCells, held[Compactor])
    BY <2>1, StackKept
  <2> QED
    BY <1>7, <2>1, <2>2, <2>3, Conditions
       DEF CompactTarget, Goto, reading, Merging
<1>8. CASE CompactMerge
  <2>1. held[Compactor] \subseteq tables
    BY <1>8 DEF CompactMerge, Merging
  <2>2. Overlay(FileCells', held[Compactor])
          = Overlay(FileCells, held[Compactor])
    BY <2>1, StackKept
  <2>3. files'[compactGen].cells = Visible(Overlay(FileCells, held[Compactor]))
    BY <1>8 DEF CompactMerge, Compacts
  <2> QED
    BY <1>8, <2>1, <2>2, <2>3, Conditions
       DEF CompactMerge, Goto, reading, list, Merging, Compacts
<1>9. CASE CompactReplace
  BY <1>9, Conditions DEF CompactReplace, Goto, Merging
<1>10. CASE CompactFails
  BY <1>10, Conditions DEF CompactFails, Goto, Merging
<1>11. CASE LoseMemory
  BY <1>11 DEF LoseMemory, Merging
<1>12. CASE Restart
  BY <1>12 DEF Restart, Down, calls, reading, Merging
<1> QED
  BY StepKinds, <1>2, <1>4, <1>5, <1>6, <1>7, <1>8, <1>9, <1>10, <1>11, <1>12
     DEF StepKind, Compacting, Passive, data, Freezes, FreezeStops, Applies,
         Logs, Pads

\* An entry that StoreValue has read reads the same again.
LEMMA StoreValueTwice ==
  ASSUME NEW e
  PROVE  StoreValue(StoreValue(e)) = StoreValue(e)
BY CellAssumption DEF StoreValue

\* A compaction swaps its inputs for one table that reads the same, below the
\* tables that were flushed since.
LEMMA ReplaceCells ==
  ASSUME IInv, Merging, CompactReplace, [Next]_vars, NEW k \in Key
  PROVE  StoreValue(Overlay(FileCells, tables)'[k])
           = StoreValue(Overlay(FileCells, tables)[k])
<1> DEFINE H == held[Compactor]
           R == tables \ H
           c == compactGen
<1> USE ControlTypes DEF IInv
<1>1. /\ pc[Compactor] = "replace"
      /\ H \subseteq tables
      /\ \A g \in H : g < c
      /\ \A g \in R : c < g
  BY DEF CompactReplace, Merging
<1>2. tables = H \cup R /\ \A g \in H, h \in R : g < h
  BY <1>1
<1>3. Bounded(tables) /\ Bounded(R)
  BY AllBounded
<1>4. Overlay(FileCells, tables)[k] = IF Overlay(FileCells, R)[k] # Absent
                                        THEN Overlay(FileCells, R)[k]
                                        ELSE Overlay(FileCells, H)[k]
  BY <1>2, <1>3, OverlaySplit
<1>5. Overlay(FileCells', R) = Overlay(FileCells, R)
  BY StackKept
<1>6. CASE c \in DOMAIN files /\ files[c].cells # EmptyLayer
  <2>1. files' = files /\ tables' = R \cup {c}
    BY <1>6 DEF CompactReplace
  <2>2. files[c].cells = Visible(Overlay(FileCells, H))
    BY <1>1, <1>6 DEF Merging
  <2>3. FileCells'[c][k] = StoreValue(Overlay(FileCells, H)[k])
    BY <1>6, <2>1, <2>2 DEF FileCells, Visible
  <2>4. Bounded({c} \cup R)
    BY <1>6, AllBounded
  <2>5. \A g \in {c}, h \in R : g < h
    BY <1>1
  <2>6. {c} \cup R = R \cup {c}
    OBVIOUS
  <2>7. Overlay(FileCells', {c} \cup R)[k]
          = IF Overlay(FileCells', R)[k] # Absent
              THEN Overlay(FileCells', R)[k]
              ELSE Overlay(FileCells', {c})[k]
    BY <2>4, <2>5, OverlaySplit
  <2>8. Overlay(FileCells', {c})[k] = FileCells'[c][k]
    BY OverlayOne
  <2> QED
    BY <1>4, <1>5, <2>1, <2>3, <2>6, <2>7, <2>8, StoreValueTwice
<1>7. CASE ~(c \in DOMAIN files /\ files[c].cells # EmptyLayer)
  <2>1. tables' = R
    BY <1>7 DEF CompactReplace
  <2>2. StoreValue(Overlay(FileCells, H)[k]) = Absent
    <3>1. CASE c \in DOMAIN files
      <4>1. EmptyLayer = Visible(Overlay(FileCells, H))
        BY <1>1, <1>7, <3>1 DEF Merging
      <4> QED
        BY <4>1 DEF EmptyLayer, Visible
    <3>2. CASE c \notin DOMAIN files
      <4>1. Overlay(FileCells, H) = EmptyLayer
        BY <1>1, <3>2 DEF Merging
      <4> QED
        BY <4>1, CellAssumption DEF EmptyLayer, StoreValue
    <3> QED
      BY <3>1, <3>2
  <2>3. StoreValue(Absent) = Absent
    BY CellAssumption DEF StoreValue
  <2>4. Overlay(FileCells, tables)'[k] = Overlay(FileCells, R)[k]
    BY <1>5, <2>1
  <2> QED
    BY <1>4, <2>2, <2>3, <2>4
<1> QED
  BY <1>6, <1>7

\* Only a flush that installs its table, a crash and a restart change what is
\* read from the tables.
LEMMA TablesStep ==
  ASSUME IInv, NoWindow => Newest /\ Merging, NoWindow', [Next]_vars,
         NEW k \in Key
  PROVE  \/ StoreValue(Overlay(FileCells, tables)'[k])
              = StoreValue(Overlay(FileCells, tables)[k])
         \/ \E p \in Writers \cup Readers : FlushInstall(p)
         \/ LoseMemory \/ Restart
<1>1. CASE tables' = tables
  <2>1. Overlay(FileCells', tables) = Overlay(FileCells, tables)
    BY ControlTypes, StackKept DEF IInv
  <2> QED
    BY <1>1, <2>1
<1>2. CASE CompactReplace
  BY <1>2, ReplaceCells, Conditions
<1> QED
  BY StepKinds, <1>1, <1>2
     DEF StepKind, Passive, data, Freezes, FreezeStops, Applies, Logs, Pads,
         Flushing, FlushBegin, FlushWrite, FlushClear, FlushReclaim,
         FlushWriteFails, Release, Compacting, CompactBegin, CompactTarget,
         CompactMerge, CompactFails, list

\* A flush puts the frozen memtable's entries on top of the tables.
LEMMA InstallCells ==
  ASSUME IInv, Newest, NEW p \in Writers \cup Readers, FlushInstall(p),
         [Next]_vars, NEW k \in Key
  PROVE  Overlay(FileCells, tables)'[k]
           = IF MemCells(immutable)[k] # Absent
               THEN MemCells(immutable)[k] ELSE Overlay(FileCells, tables)[k]
<1> USE ControlTypes DEF IInv, Threads
<1>1. p \in Threads /\ pc[p] = "install"
  BY DEF FlushInstall
<1>2. /\ flushGen \in DOMAIN files
      /\ files[flushGen].cells = MemCells(immutable)
      /\ \A g \in tables : g < flushGen
  BY <1>1 DEF Flushes, Copies, Newest
<1>3. files' = files /\ tables' = tables \cup {flushGen}
  BY DEF FlushInstall, disk
<1>4. Bounded(tables)
  BY AllBounded
<1>5. Overlay(FileCells, tables \cup {flushGen})[k]
        = IF FileCells[flushGen][k] # Absent
            THEN FileCells[flushGen][k] ELSE Overlay(FileCells, tables)[k]
  <2>1. flushGen \in Nat
    OBVIOUS
  <2> HIDE DEF IInv
  <2> QED
    BY <1>2, <1>4, <2>1, OverlayAdd
<1>6. FileCells' = FileCells /\ FileCells[flushGen] = MemCells(immutable)
  BY <1>2, <1>3 DEF FileCells
<1> QED
  BY <1>3, <1>5, <1>6

\* The tables go on to show what the flushed memtable holds.
LEMMA InstalledStep ==
  ASSUME IInv, NoWindow => Newest /\ Merging /\ Installed, NoWindow',
         [Next]_vars
  PROVE  Installed'
<1> SUFFICES ASSUME NEW p \in Threads, pc'[p] = "clear", NEW k \in Key,
                    MemCells(immutable)'[k] # Absent
             PROVE  StoreValue(Overlay(FileCells, tables)'[k])
                      = StoreValue(MemCells(immutable)'[k])
  BY DEF Installed
<1>1. Newest /\ Merging /\ Installed
  BY Conditions
<1>2. MemCells(immutable)' = MemCells(immutable)
  BY SlotKept
<1>3. ASSUME NEW q \in Writers \cup Readers, FlushInstall(q)
      PROVE  StoreValue(Overlay(FileCells, tables)'[k])
               = StoreValue(MemCells(immutable)'[k])
  BY <1>1, <1>2, <1>3, InstallCells
<1>4. CASE pc[p] = "clear" /\ ~LoseMemory /\ ~Restart
  BY <1>1, <1>2, <1>3, <1>4, TablesStep DEF Installed
<1>5. CASE LoseMemory
  BY <1>5 DEF LoseMemory
<1>6. CASE Restart
  BY <1>6 DEF Restart, calls, IInv, Down
<1>7. CASE Kept
  BY <1>4, <1>5, <1>6, <1>7 DEF Kept, FlushKept
<1>8. ASSUME NEW q \in Writers \cup Readers, Flushing(q), ~FlushInstall(q)
      PROVE  pc[p] = "clear"
  BY <1>8, ControlTypes
     DEF Flushing, FlushBegin, FlushWrite, FlushClear, FlushReclaim,
         FlushWriteFails, ReturnFromFlush, Goto, calls, IInv
<1>9. ASSUME NEW q \in Readers \cup {Compactor}, Release(q)
      PROVE  pc[p] = "clear"
  BY <1>9 DEF Release, calls
<1>10. CASE Compacting
  <2>1. pc[p] = "clear"
    BY <1>10, ControlTypes
       DEF Compacting, CompactBegin, CompactTarget, CompactMerge,
           CompactReplace, CompactFails, Goto, IInv
  <2> QED
    BY <1>4, <1>5, <1>6, <2>1
<1> QED
  BY StepKinds, <1>3, <1>4, <1>5, <1>6, <1>7, <1>8, <1>9, <1>10
     DEF StepKind, Passive, Freezes, FreezeStops, Applies, Logs, Pads

-----------------------------------------------------------------------------
(* What readers see.                                                       *)

\* A lookup takes the first entry on its way.
LEMMA ViewCells ==
  ASSUME NEW k \in Key
  PROVE  /\ View[k] = StoreValue(IF MemCells(mutable)[k] # Absent
                                   THEN MemCells(mutable)[k]
                                   ELSE IF MemCells(immutable)[k] # Absent
                                          THEN MemCells(immutable)[k]
                                          ELSE Overlay(FileCells, tables)[k])
         /\ View'[k] = StoreValue(IF MemCells(mutable)'[k] # Absent
                                    THEN MemCells(mutable)'[k]
                                    ELSE IF MemCells(immutable)'[k] # Absent
                                           THEN MemCells(immutable)'[k]
                                           ELSE Overlay(FileCells, tables)'[k])
BY DEF View, LookupOrder, Visible, Over

\* Only what the steps of the engine do to memory changes what a lookup finds,
\* and of these only the writes change what was stored.
LEMMA LiveViewStep ==
  ASSUME IInv, SInv, Undisturbed', [Next]_vars
  PROVE  LiveView'
<1> SUFFICES ASSUME up', NEW k \in Key
             PROVE  View'[k] = store'[k]
  <2>1. store' \in [Key -> Value \cup {Absent}]
    BY HistoryTypeStep DEF HistoryTypes
  <2>2. View' = [k \in Key |-> View'[k]]
    BY DEF View, LookupOrder, Visible
  <2> QED
    BY <2>1, <2>2 DEF LiveView
<1>1. /\ Undisturbed /\ NoWindow /\ NoWindow' /\ LiveView
      /\ Newest /\ Merging /\ Installed
  BY Conditions DEF SInv, Undisturbed, NoWindow, Clean, Running
<1>2. up => View[k] = store[k]
  BY <1>1 DEF LiveView
<1>3. /\ mutable \in Nat \ {0} /\ immutable \in 0..mutable
      /\ memtables \in [1..mutable -> Buffer]
      /\ store \in [Key -> Value \cup {Absent}]
  BY DEF IInv, TypeOK, MemTableTypes, HistoryTypes
<1>4. \A j \in Key : MemCells(Nil)[j] = Absent
  BY DEF MemCells, EmptyLayer
<1> USE ViewCells
<1>5. ASSUME up, UNCHANGED <<mutable, immutable, memtables, store>>,
             StoreValue(Overlay(FileCells, tables)'[k])
               = StoreValue(Overlay(FileCells, tables)[k])
      PROVE  View'[k] = store'[k]
  <2>1. /\ MemCells(mutable)' = MemCells(mutable)
        /\ MemCells(immutable)' = MemCells(immutable)
    BY <1>5 DEF MemCells
  <2> QED
    BY <1>2, <1>5, <2>1
<1>6. ASSUME tables' = tables, files' = files
      PROVE  Overlay(FileCells, tables)'[k] = Overlay(FileCells, tables)[k]
  BY <1>6 DEF FileCells
<1>7. CASE Freezes
  <2>1. /\ mutable' = mutable + 1 /\ immutable' = mutable
        /\ memtables' = Assign(memtables, mutable + 1, EmptyBuffer)
        /\ up /\ immutable = Nil
        /\ UNCHANGED <<files, tables, store>>
    BY <1>7 DEF Freezes, FreezeMutableLocked
  <2>2. MemCells(mutable)' = EmptyLayer
    BY <1>3, <2>1 DEF MemCells, Assign, EmptyBuffer, Nil
  <2>3. MemCells(immutable)' = MemCells(mutable)
    BY <1>3, <2>1 DEF MemCells, Assign, Nil
  <2>4. MemCells(mutable)'[k] = Absent /\ MemCells(immutable)[k] = Absent
    BY <1>4, <2>1, <2>2 DEF EmptyLayer
  <2> QED
    BY <1>2, <1>6, <2>1, <2>3, <2>4
<1>8. CASE FreezeStops
  <2>1. /\ mutable' = mutable /\ immutable' = mutable
        /\ up /\ immutable = Nil
        /\ UNCHANGED <<files, tables, memtables, store>>
    BY <1>8 DEF FreezeStops
  <2>2. /\ MemCells(mutable)' = MemCells(mutable)
        /\ MemCells(immutable)' = MemCells(mutable)
    BY <2>1 DEF MemCells
  <2> QED
    BY <1>2, <1>4, <1>6, <2>1, <2>2
<1>9. ASSUME NEW j \in Key, NEW e \in Entry, Applies(j, e)
      PROVE  View'[k] = store'[k]
  <2>1. /\ memtables' = [memtables EXCEPT ![mutable] = PutRecord(@, j, e)]
        /\ store' = [store EXCEPT ![j] = StoreValue(e)]
        /\ up /\ ~frozen
        /\ UNCHANGED <<files, tables, mutable, immutable>>
    BY <1>9 DEF Applies
  <2>2. immutable # mutable
    BY <2>1 DEF IInv, Flushes
  <2>3. MemCells(immutable)' = MemCells(immutable)
    BY <1>3, <2>1, <2>2 DEF MemCells, Nil
  <2>4. MemCells(mutable)'[k] = IF k = j THEN e ELSE MemCells(mutable)[k]
    BY <1>3, <2>1 DEF MemCells, Nil, PutRecord, Buffer, Layer
  <2>5. e # Absent
    BY CellAssumption DEF Entry
  <2> QED
    BY <1>2, <1>3, <1>6, <2>1, <2>3, <2>4, <2>5
<1>10. ASSUME NEW p \in Writers \cup Readers, Flushing(p)
       PROVE  View'[k] = store'[k]
  <2> USE FlushAlone DEF memory, history
  <2>1. CASE FlushInstall(p)
    <3>1. /\ MemCells(mutable)' = MemCells(mutable)
          /\ MemCells(immutable)' = MemCells(immutable)
      BY <2>1 DEF FlushInstall, MemCells
    <3>2. up /\ store' = store
      BY <1>10, <2>1 DEF FlushInstall
    <3> QED
      BY <1>1, <1>2, <2>1, <3>1, <3>2, InstallCells
  <2>2. CASE FlushClear(p)
    <3>1. /\ immutable = want[p] /\ pc[p] = "clear"
          /\ UNCHANGED <<files, tables, mutable, memtables, store>> /\ up
      BY <1>10, <2>2 DEF FlushClear, IInv, Flushes, disk, list
    <3>2. immutable' = Nil
      BY <2>2, <3>1 DEF FlushClear
    <3>3. MemCells(immutable)'[k] = Absent
      BY <3>2 DEF MemCells, EmptyLayer
    <3>4. MemCells(mutable)' = MemCells(mutable)
      BY <3>1 DEF MemCells
    <3>5. MemCells(immutable)[k] # Absent =>
            StoreValue(Overlay(FileCells, tables)[k])
              = StoreValue(MemCells(immutable)[k])
      BY <1>1, <1>10, <3>1 DEF Installed
    <3> QED
      BY <1>2, <1>6, <3>1, <3>3, <3>4, <3>5
  <2>3. CASE ~FlushInstall(p) /\ ~FlushClear(p)
    <3>1. tables' = tables /\ up
      BY <1>10, <2>3
         DEF Flushing, FlushBegin, FlushWrite, FlushReclaim, FlushWriteFails,
             list
    <3>2. Overlay(FileCells', tables) = Overlay(FileCells, tables)
      BY ControlTypes, StackKept DEF IInv
    <3> QED
      BY <1>5, <1>10, <2>3, <3>1, <3>2
         DEF Flushing, FlushBegin, FlushWrite, FlushReclaim, FlushWriteFails
  <2> QED
    BY <2>1, <2>2, <2>3
<1>11. CASE Restart
  <2>1. ~Running /\ ~up
    BY <1>11 DEF SInv, Restarted, Running, Restart
  <2>2. Recovered = store
    BY <1>1, <2>1 DEF SInv, Undisturbed, DiskRight, DownExact
  <2>3. /\ mutable' = 1 /\ immutable' = Nil
        /\ memtables'[1].cells = Replayed
        /\ tables' = Complete
        /\ UNCHANGED <<files, store>>
    BY <1>11, <2>1
       DEF Restart, CanOpen, disk, history, IInv, Down, SInv, SegmentOrder
  <2>4. /\ MemCells(mutable)' = Replayed
        /\ MemCells(immutable)'[k] = Absent
        /\ Overlay(FileCells, tables)' = Overlay(FileCells, Complete)
    BY <2>3 DEF MemCells, EmptyLayer, FileCells, Nil
  <2>5. Recovered[k] = StoreValue(IF Replayed[k] # Absent
                                    THEN Replayed[k]
                                    ELSE Overlay(FileCells, Complete)[k])
    BY DEF Recovered, Visible, Over
  <2> QED
    BY <2>2, <2>3, <2>4, <2>5
<1>12. CASE LoseMemory
  BY <1>12 DEF LoseMemory
<1>13. ASSUME ~\E p \in Writers \cup Readers : Flushing(p),
              ~LoseMemory, ~Restart
       PROVE  StoreValue(Overlay(FileCells, tables)'[k])
                = StoreValue(Overlay(FileCells, tables)[k])
  BY <1>1, <1>13, TablesStep DEF Flushing
<1> QED
  BY StepKinds, <1>5, <1>7, <1>8, <1>9, <1>10, <1>11, <1>12, <1>13
     DEF StepKind, Passive, data, Logs, Pads, Release, Compacting,
         CompactBegin, CompactTarget, CompactMerge, CompactReplace,
         CompactFails, memory, history

-----------------------------------------------------------------------------
(* What is on disk.                                                        *)

\* Replay takes an entry from the active segments, if there is one, and else
\* from the sealed ones.
LEMMA LogSplit ==
  ASSUME IInv, NEW k \in Key
  PROVE  Replayed[k] = IF ActiveCells[k] # Absent
                         THEN ActiveCells[k] ELSE SealedCells[k]
<1>1. Bounded(DOMAIN segments)
  BY AllBounded
<1>2. DOMAIN segments = Sealed \cup Active
  BY LogTypes DEF Sealed, Active
<1>3. \A s \in Sealed, t \in Active : s < t
  BY LogTypes DEF Sealed, Active
<1> QED
  BY <1>1, <1>2, <1>3, OverlaySplit DEF Replayed, ActiveCells, SealedCells

\* AppendRecord leaves the sealed segments alone.
LEMMA SealedKept ==
  ASSUME IInv, SegmentOrder, up, NEW b \in Buffer, segmentID' = AppendSegment,
         segments' = Assign(segments, AppendSegment, b),
         immutableWALSegment' = immutableWALSegment
  PROVE  /\ Sealed' = Sealed
         /\ \A s \in Sealed : segments'[s] = segments[s]
         /\ SealedCells' = SealedCells
<1>1. /\ AppendSegment \in Nat /\ AppendSegment > immutableWALSegment
      /\ DOMAIN segments' = DOMAIN segments \cup {AppendSegment}
      /\ \A s \in DOMAIN segments :
           s # AppendSegment => segments'[s] = segments[s]
  BY WriteDomain, LogTypes DEF SegmentOrder
<1>2. /\ Sealed' = Sealed /\ AppendSegment \notin Sealed
      /\ Sealed \in SUBSET DOMAIN segments
  BY <1>1, LogTypes DEF Sealed
<1>3. Bounded(Sealed)
  BY <1>2, AllBounded
<1>4. \A s \in Sealed : SegmentCells'[s] = SegmentCells[s]
  BY <1>1, <1>2 DEF SegmentCells
<1>5. Overlay(SegmentCells', Sealed) = Overlay(SegmentCells, Sealed)
  BY <1>3, <1>4, OverlaySame
<1> QED
  BY <1>1, <1>2, <1>5 DEF SealedCells

\* It puts its record on top of the active ones.
LEMMA LogWrite ==
  ASSUME IInv, SegmentOrder, up, NEW b \in Buffer, segmentID' = AppendSegment,
         segments' = Assign(segments, AppendSegment, b),
         immutableWALSegment' = immutableWALSegment, NEW k \in Key
  PROVE  /\ b.cells[k] # Absent => ActiveCells'[k] = b.cells[k]
         /\ b.cells[k] = AppendTo.cells[k] => ActiveCells'[k] = ActiveCells[k]
<1>1. PICK a \in Nat : a = AppendSegment
  BY WriteDomain
<1>2. /\ a > immutableWALSegment /\ segmentID <= a
      /\ DOMAIN segments' = DOMAIN segments \cup {a}
      /\ segments'[a] = b
      /\ \A s \in DOMAIN segments : s # a => segments'[s] = segments[s]
      /\ \A s \in DOMAIN segments : s <= segmentID
      /\ segmentID \in DOMAIN segments
  BY <1>1, WriteDomain, LogTypes DEF SegmentOrder, IInv, Disk
<1>3. PICK S \in SUBSET DOMAIN segments : S = Active \ {a}
  BY DEF Active
<1>4. Active' = S \cup {a} /\ \A s \in S : s < a
  BY <1>2, <1>3, LogTypes DEF Active
<1>5. Bounded(S)
  BY <1>3, AllBounded
<1>6. \A s \in S : SegmentCells'[s] = SegmentCells[s]
  BY <1>2, <1>3 DEF SegmentCells
<1>7. Overlay(SegmentCells', S) = Overlay(SegmentCells, S)
  BY <1>5, <1>6, OverlaySame
<1>8. SegmentCells'[a] = b.cells
  BY <1>2 DEF SegmentCells
<1>9. \A s \in S : s < a
  BY <1>4
<1>10. Overlay(SegmentCells', S \cup {a})[k]
         = IF SegmentCells'[a][k] # Absent
             THEN SegmentCells'[a][k] ELSE Overlay(SegmentCells', S)[k]
  BY <1>5, <1>9, OverlayAdd
<1>11. Overlay(SegmentCells, S \cup {a})[k]
         = IF SegmentCells[a][k] # Absent
             THEN SegmentCells[a][k] ELSE Overlay(SegmentCells, S)[k]
  <2>1. PICK f : f = SegmentCells
    OBVIOUS
  <2>2. Overlay(f, S \cup {a})[k] = IF f[a][k] # Absent
                                      THEN f[a][k] ELSE Overlay(f, S)[k]
    BY <1>5, <1>9, OverlayAdd
  <2> QED
    BY <2>1, <2>2
<1>12. ActiveCells'[k] = IF b.cells[k] # Absent
                           THEN b.cells[k] ELSE Overlay(SegmentCells, S)[k]
  BY <1>4, <1>7, <1>8, <1>10 DEF ActiveCells
<1>13. ActiveCells[k] = IF AppendTo.cells[k] # Absent
                          THEN AppendTo.cells[k]
                          ELSE Overlay(SegmentCells, S)[k]
  <2>1. CASE MustRotate
    <3>1. a \notin DOMAIN segments
      BY <2>1, <1>1, <1>2, LogTypes DEF AppendSegment
    <3>2. S = Active
      BY <1>3, <3>1 DEF Active
    <3>3. AppendTo.cells[k] = Absent
      BY <2>1 DEF AppendTo, EmptyBuffer, EmptyLayer
    <3> QED
      BY <3>2, <3>3 DEF ActiveCells
  <2>2. CASE ~MustRotate
    <3>1. a = segmentID /\ AppendTo = segments[segmentID]
      BY <1>1, <2>2 DEF AppendSegment, AppendTo
    <3>2. Active = S \cup {a} /\ SegmentCells[a] = AppendTo.cells
      BY <1>2, <1>3, <3>1 DEF Active, SegmentCells
    <3> QED
      BY <1>11, <3>2 DEF ActiveCells
  <2> QED
    BY <2>1, <2>2
<1> QED
  BY <1>12, <1>13

\* A record is the last one of its key.
LEMMA LogRecord ==
  ASSUME IInv, SegmentOrder, up, NEW j \in Key, NEW e \in Entry,
         WriteRecord(j, e), immutableWALSegment' = immutableWALSegment
  PROVE  /\ \A k \in Key :
              ActiveCells'[k] = IF k = j THEN e ELSE ActiveCells[k]
         /\ Sealed' = Sealed
         /\ \A s \in Sealed : segments'[s] = segments[s]
         /\ SealedCells' = SealedCells
<1>1. AppendTo \in Buffer
  BY AppendTypes DEF IInv
<1>2. PutRecord(AppendTo, j, e) \in Buffer
  BY <1>1, LayerTypes
<1>3. /\ segmentID' = AppendSegment
      /\ segments' = Assign(segments, AppendSegment, PutRecord(AppendTo, j, e))
  BY DEF WriteRecord
<1>4. e # Absent
  BY CellAssumption DEF Entry
<1>5. ASSUME NEW k \in Key
      PROVE  ActiveCells'[k] = IF k = j THEN e ELSE ActiveCells[k]
  <2>1. PutRecord(AppendTo, j, e).cells[k]
          = IF k = j THEN e ELSE AppendTo.cells[k]
    BY <1>1 DEF PutRecord, Buffer, Layer
  <2> QED
    BY <1>2, <1>3, <1>4, <2>1, LogWrite
<1> QED
  BY <1>2, <1>3, <1>5, SealedKept

\* A rotation alone changes nothing that is replayed.
LEMMA LogPad ==
  ASSUME IInv, SegmentOrder, Pads
  PROVE  /\ \A k \in Key : ActiveCells'[k] = ActiveCells[k]
         /\ Sealed' = Sealed
         /\ \A s \in Sealed : segments'[s] = segments[s]
         /\ SealedCells' = SealedCells
<1>1. AppendTo \in Buffer /\ up
  BY AppendTypes DEF IInv, Pads
<1>2. /\ segmentID' = AppendSegment
      /\ segments' = Assign(segments, AppendSegment, AppendTo)
      /\ immutableWALSegment' = immutableWALSegment
  BY DEF Pads
<1> QED
  BY <1>1, <1>2, LogWrite, SealedKept

\* Hidden layers do not count.
LEMMA OverlayHidden ==
  ASSUME NEW f, NEW S, Bounded(S), NEW T, T \subseteq S, NEW k \in Key,
         \A i \in S \ T : f[i][k] # Absent =>
            \E j \in T : j > i /\ f[j][k] # Absent
  PROVE  Overlay(f, S)[k] = Overlay(f, T)[k]
<1>1. Bounded(T) /\ S \subseteq Nat
  BY DEF Bounded
<1>2. TopCell(f, S, k, Overlay(f, S)[k]) /\ TopCell(f, T, k, Overlay(f, T)[k])
  BY <1>1, OverlayTop
<1>3. TopCell(f, S, k, Overlay(f, T)[k])
  <2>1. CASE \A i \in T : f[i][k] = Absent
    <3>1. \A i \in S : f[i][k] = Absent
      BY <2>1
    <3> QED
      BY <1>2, <2>1, <3>1 DEF TopCell
  <2>2. CASE ~\A i \in T : f[i][k] = Absent
    <3>1. PICK i \in T : /\ f[i][k] # Absent
                         /\ Overlay(f, T)[k] = f[i][k]
                         /\ \A j \in T : f[j][k] # Absent => j <= i
      BY <1>2, <2>2 DEF TopCell
    <3>2. ASSUME NEW j \in S \ T, f[j][k] # Absent PROVE j <= i
      <4>1. PICK h \in T : h > j /\ f[h][k] # Absent
        BY <3>2
      <4>2. h <= i /\ h \in Nat /\ i \in Nat /\ j \in Nat
        BY <1>1, <3>1, <4>1
      <4> QED
        BY <4>1, <4>2
    <3> QED
      BY <3>1, <3>2 DEF TopCell
  <2> QED
    BY <2>1, <2>2
<1> QED
  BY <1>2, <1>3, TopUnique

\* If the disk is right, a restart finds every write that took effect: in the
\* active segments, in what is left of the sealed ones, or in the tables.
LEMMA DurableNow ==
  ASSUME IInv, SegmentOrder, LiveView, DiskRight
  PROVE  Durable
<1>1. CASE ~up
  BY <1>1 DEF DiskRight, DownExact, Durable
<1>2. CASE up
  <2> SUFFICES ASSUME NEW k \in Key
               PROVE  Recovered[k] \in {store[k]} \cup doubt[k]
    BY DEF Durable
  <2>1. Recovered[k] = StoreValue(IF Replayed[k] # Absent
                                    THEN Replayed[k]
                                    ELSE Overlay(FileCells, Complete)[k])
    BY DEF Recovered, Visible, Over
  <2>2. store[k] = View[k]
    BY <1>2 DEF LiveView
  <2>3. \/ ActiveCells[k] = MemCells(mutable)[k]
        \/ /\ ActiveCells[k] # Absent
           /\ StoreValue(ActiveCells[k]) \in doubt[k]
    BY <1>2 DEF DiskRight, MutableLogged
  <2>4. CASE ActiveCells[k] # Absent
    BY <2>1, <2>2, <2>3, <2>4, LogSplit, ViewCells
  <2>5. CASE ActiveCells[k] = Absent /\ SealedCells[k] # Absent
    BY <2>1, <2>5, LogSplit DEF DiskRight, SealedRight
  <2>6. CASE ActiveCells[k] = Absent /\ SealedCells[k] = Absent
    <3>1. MemCells(mutable)[k] = Absent
      BY <2>3, <2>6
    <3>2. \A s \in Sealed : segments[s].cells[k] = Absent
      <4>1. Sealed \in SUBSET DOMAIN segments
        BY DEF Sealed
      <4>2. Bounded(Sealed)
        BY <4>1, AllBounded
      <4>3. TopCell(SegmentCells, Sealed, k, Absent)
        BY <2>6, <4>2, OverlayTop DEF SealedCells
      <4>4. \A s \in Sealed : SegmentCells[s][k] = Absent
        BY <4>3 DEF TopCell
      <4> QED
        BY <4>1, <4>4 DEF SegmentCells
    <3>3. MemCells(immutable)[k] = Absent
      <4>1. CASE immutable = Nil
        BY <4>1 DEF MemCells, EmptyLayer
      <4>2. CASE immutable = mutable
        BY <3>1, <4>2
      <4>3. CASE immutable \notin {Nil, mutable}
        BY <3>2, <4>3 DEF DiskRight, ImmutableLogged
      <4> QED
        BY <4>1, <4>2, <4>3
    <3>4. Overlay(FileCells, Complete)[k] = Overlay(FileCells, tables)[k]
      <4>1. Complete \in SUBSET DOMAIN files /\ tables \subseteq Complete
        BY DEF Complete, DiskRight, FlushedFile
      <4>2. Bounded(Complete)
        BY <4>1, AllBounded
      <4>3. \A g \in Complete \ tables : FileCells[g][k] # Absent =>
               \E h \in tables : h > g /\ FileCells[h][k] # Absent
        <5>1. \A g \in Complete : FileCells[g][k] = files[g].cells[k]
          BY <4>1 DEF FileCells
        <5> QED
          BY <1>2, <3>3, <4>1, <5>1 DEF DiskRight, ExtraFiles
      <4> QED
        BY <4>1, <4>2, <4>3, OverlayHidden
    <3> QED
      BY <2>1, <2>2, <2>6, <3>1, <3>3, <3>4, LogSplit, ViewCells
  <2> QED
    BY <2>4, <2>5, <2>6
<1>3. up \/ ~up
  OBVIOUS
<1> QED
  BY <1>1, <1>2, <1>3

\* Without compactions, the steps that matter are those of writes and flushes.
LEMMA CleanKinds ==
  ASSUME IInv, SInv, Clean', [Next]_vars
  PROVE  /\ LiveView /\ DiskRight
         /\ \/ Passive
            \/ Freezes \/ FreezeStops
            \/ \E k \in Key, e \in Entry : Applies(k, e) \/ Logs(k, e)
            \/ Pads
            \/ \E p \in Writers \cup Readers : Flushing(p)
            \/ LoseMemory
            \/ Restart
<1>1. Clean /\ Undisturbed /\ NoWindow
  BY Conditions DEF Undisturbed
<1>2. LiveView /\ DiskRight /\ Merging
  BY <1>1 DEF SInv
<1>3. pc[Compactor] = "idle" /\ held[Compactor] = {} /\ unlinked = {}
  BY <1>1, <1>2 DEF Clean, Merging
<1>4. ~Compacting
  <2>1. ASSUME CompactBegin PROVE FALSE
    <3>1. count'["compactions"] # 0
      BY <2>1 DEF CompactBegin, Counted, IInv, TypeOK, CallTypes, Counters
    <3> QED
      BY <3>1 DEF Clean
  <2> QED
    BY <1>3, <2>1
       DEF Compacting, CompactTarget, CompactMerge, CompactReplace, CompactFails
<1>5. ASSUME NEW p \in Readers \cup {Compactor}, Release(p)
      PROVE  Passive
  <2>1. p # Compactor
    BY <1>3, <1>5 DEF Release
  <2>2. held'[Compactor] = held[Compactor]
    BY <1>5, <2>1, ControlTypes DEF Release, IInv, Threads
  <2> QED
    BY <1>3, <1>5, <2>2
       DEF Release, Passive, data, Kept, FlushKept, CompactKept, ReclaimKept,
           memory, list, locks, calls, flushing, history
<1> QED
  BY StepKinds, <1>2, <1>4, <1>5 DEF StepKind

\* The WAL goes on to hold what memory holds, and segments that are no longer
\* needed go from the oldest on.
LEMMA LoggedStep ==
  ASSUME IInv, SInv, Clean', [Next]_vars
  PROVE  ReclaimOldest' /\ MutableLogged' /\ ImmutableLogged' /\ SealedRight'
<1>1. /\ ReclaimOldest /\ MutableLogged /\ ImmutableLogged /\ SealedRight
      /\ LiveView /\ SegmentOrder
      /\ count'["removeErrors"] = 0
  BY CleanKinds DEF SInv, DiskRight, Clean
<1>2. /\ mutable \in Nat \ {0} /\ immutable \in 0..mutable
      /\ memtables \in [1..mutable -> Buffer]
      /\ doubt \in [Key -> SUBSET (Value \cup {Absent})]
      /\ store \in [Key -> Value \cup {Absent}]
  BY DEF IInv, TypeOK, MemTableTypes, HistoryTypes
<1>3. ASSUME UNCHANGED <<segments, immutableWALSegment>>
      PROVE  /\ Sealed' = Sealed
             /\ ActiveCells' = ActiveCells /\ SealedCells' = SealedCells
  BY <1>3 DEF Sealed, Active, ActiveCells, SealedCells, SegmentCells
<1>4. ASSUME UNCHANGED <<segments, immutableWALSegment, store, doubt, up,
                         mutable, memtables>>
      PROVE  MutableLogged' /\ SealedRight'
  BY <1>1, <1>3, <1>4 DEF MutableLogged, SealedRight, MemCells
<1>5. ASSUME ReclaimKept
      PROVE  /\ reclaim' \subseteq reclaim
             /\ reclaim' # {} => reclaim' = reclaim
  BY <1>1, <1>5 DEF ReclaimKept
<1>6. CASE Passive
  <2>1. ReclaimOldest'
    BY <1>1, <1>5, <1>6 DEF ReclaimOldest, Passive, data, Kept
  <2>2. ImmutableLogged'
    BY <1>1, <1>3, <1>5, <1>6
       DEF ImmutableLogged, Passive, data, Kept, MemCells
  <2> QED
    BY <1>4, <1>6, <2>1, <2>2 DEF Passive, data
<1>7. CASE Freezes
  <2>1. /\ up /\ immutable = Nil
        /\ mutable' = mutable + 1 /\ immutable' = mutable
        /\ memtables' = Assign(memtables, mutable + 1, EmptyBuffer)
        /\ immutableWALSegment' = segmentID
        /\ segments' = Assign(segments, segmentID + 1, EmptyBuffer)
        /\ UNCHANGED <<store, doubt>>
        /\ reclaim' \subseteq reclaim
        /\ reclaim' # {} => reclaim' = reclaim
    BY <1>5, <1>7 DEF Freezes, FreezeMutableLocked, Kept
  <2>2. \A s \in DOMAIN segments : s <= segmentID
    BY <2>1 DEF IInv, Disk
  <2>3. /\ DOMAIN segments' = DOMAIN segments \cup {segmentID + 1}
        /\ segments'[segmentID + 1] = EmptyBuffer
        /\ \A s \in DOMAIN segments : segments'[s] = segments[s]
    BY <2>1, <2>2, LogTypes DEF Assign
  <2>4. Active' = {segmentID + 1} /\ Sealed' = DOMAIN segments
    <3>1. \A s \in DOMAIN segments' : s > segmentID <=> s = segmentID + 1
      BY <2>2, <2>3, LogTypes
    <3>2. \A s \in DOMAIN segments' : s <= segmentID <=> s \in DOMAIN segments
      BY <2>2, <2>3, LogTypes
    <3>3. /\ Active' = {s \in DOMAIN segments' : s > segmentID}
          /\ Sealed' = {s \in DOMAIN segments' : s <= segmentID}
      BY <2>1 DEF Active, Sealed
    <3> QED
      BY <2>3, <3>1, <3>2, <3>3
  <2>5. ASSUME NEW k \in Key
        PROVE  ActiveCells'[k] = Absent
    <3>1. Overlay(SegmentCells', {segmentID + 1})[k]
            = SegmentCells'[segmentID + 1][k]
      <4>1. PICK n \in Nat : n = segmentID + 1
        BY LogTypes
      <4> QED
        BY <4>1, OverlayOne
    <3>2. SegmentCells'[segmentID + 1][k] = Absent
      BY <2>3 DEF SegmentCells, EmptyBuffer, EmptyLayer
    <3> QED
      BY <2>4, <3>1, <3>2 DEF ActiveCells
  <2>6. SealedCells' = Replayed
    <3>1. Bounded(DOMAIN segments)
      BY AllBounded
    <3>2. \A s \in DOMAIN segments : SegmentCells'[s] = SegmentCells[s]
      BY <2>3 DEF SegmentCells
    <3>3. Overlay(SegmentCells', DOMAIN segments)
            = Overlay(SegmentCells, DOMAIN segments)
      BY <3>1, <3>2, OverlaySame
    <3> QED
      BY <2>4, <3>3 DEF SealedCells, Replayed
  <2>7. /\ MemCells(mutable)' = EmptyLayer
        /\ MemCells(immutable)' = MemCells(mutable)
    BY <1>2, <2>1 DEF MemCells, Assign, EmptyBuffer, Nil
  <2>8. ReclaimOldest'
    <3>1. \A s \in reclaim : s <= segmentID
      BY <2>2, LogTypes
    <3> QED
      BY <1>1, <2>1, <2>3, <3>1, LogTypes DEF ReclaimOldest
  <2>9. MutableLogged'
    BY <2>5, <2>7 DEF MutableLogged, EmptyLayer
  <2>10. ImmutableLogged'
    <3> SUFFICES ASSUME NEW k \in Key, MemCells(mutable)[k] # Absent
                 PROVE  \E s \in DOMAIN segments \ reclaim :
                           segments[s].cells[k] # Absent
      BY <2>1, <2>3, <2>4, <2>7 DEF ImmutableLogged
    <3>1. ActiveCells[k] # Absent
      BY <1>1, <2>1 DEF MutableLogged
    <3>2. Active \in SUBSET DOMAIN segments
      BY DEF Active
    <3>3. Bounded(Active)
      BY <3>2, AllBounded
    <3>4. TopCell(SegmentCells, Active, k, ActiveCells[k])
      BY <3>3, OverlayTop DEF ActiveCells
    <3>5. PICK s \in Active : SegmentCells[s][k] # Absent
      BY <3>1, <3>4 DEF TopCell
    <3>6. s \notin reclaim
      BY <1>1, <3>5, LogTypes DEF SegmentOrder, Active, Sealed
    <3> QED
      BY <3>2, <3>5, <3>6 DEF SegmentCells
  <2>11. SealedRight'
    <3> SUFFICES ASSUME NEW k \in Key, Replayed[k] # Absent
                 PROVE  StoreValue(Replayed[k]) \in {store[k]} \cup doubt[k]
      BY <2>1, <2>6 DEF SealedRight
    <3>1. store[k] = View[k]
      BY <1>1, <2>1 DEF LiveView
    <3>2. CASE ActiveCells[k] # Absent
      BY <1>1, <2>1, <3>1, <3>2, LogSplit, ViewCells DEF MutableLogged
    <3>3. CASE ActiveCells[k] = Absent
      BY <1>1, <3>3, LogSplit DEF SealedRight
    <3> QED
      BY <3>2, <3>3
  <2> QED
    BY <2>8, <2>9, <2>10, <2>11
<1>8. CASE FreezeStops
  <2>1. ReclaimOldest'
    BY <1>1, <1>5, <1>8 DEF ReclaimOldest, FreezeStops, Kept
  <2>2. ImmutableLogged'
    BY <1>8 DEF ImmutableLogged, FreezeStops
  <2> QED
    BY <1>4, <1>8, <2>1, <2>2 DEF FreezeStops
<1>9. ASSUME up, segmentID' = AppendSegment, NEW b \in Buffer,
             segments' = Assign(segments, AppendSegment, b),
             UNCHANGED <<immutableWALSegment, immutable, mutable>>,
             immutable # mutable => UNCHANGED MemCells(immutable), Kept
      PROVE  ReclaimOldest' /\ ImmutableLogged'
  <2>1. /\ DOMAIN segments' = DOMAIN segments \cup {AppendSegment}
        /\ AppendSegment > immutableWALSegment /\ AppendSegment \in Nat
    BY <1>1, <1>9, WriteDomain, LogTypes DEF SegmentOrder
  <2>2. \A s \in reclaim : s <= immutableWALSegment
    BY <1>1 DEF SegmentOrder, Sealed
  <2>3. ReclaimOldest'
    BY <1>1, <1>5, <1>9, <2>1, <2>2, LogTypes DEF ReclaimOldest, Kept
  <2>4. Sealed' = Sealed /\ \A s \in Sealed : segments'[s] = segments[s]
    BY <1>1, <1>9, SealedKept
  <2>5. ImmutableLogged'
    BY <1>1, <1>5, <1>9, <2>4 DEF ImmutableLogged, Kept
  <2> QED
    BY <2>3, <2>5
<1>10. ASSUME NEW j \in Key, NEW e \in Entry, Applies(j, e) \/ Logs(j, e)
       PROVE  /\ ReclaimOldest' /\ MutableLogged'
              /\ ImmutableLogged' /\ SealedRight'
  <2>1. /\ up /\ WriteRecord(j, e) /\ Kept
        /\ UNCHANGED <<up, immutableWALSegment, immutable, mutable>>
    BY <1>10 DEF Applies, Logs
  <2>2. /\ \A k \in Key :
             ActiveCells'[k] = IF k = j THEN e ELSE ActiveCells[k]
        /\ SealedCells' = SealedCells
    BY <1>1, <2>1, LogRecord
  <2>3. e # Absent
    BY CellAssumption DEF Entry
  <2>4. /\ \A k \in Key : k # j =>
             /\ MemCells(mutable)'[k] = MemCells(mutable)[k]
             /\ store'[k] = store[k]
             /\ doubt'[k] = doubt[k]
        /\ \/ MemCells(mutable)'[j] = e
           \/ StoreValue(e) \in doubt'[j]
        /\ immutable # mutable => UNCHANGED MemCells(immutable)
    <3>1. CASE Applies(j, e)
      <4>1. /\ memtables' = [memtables EXCEPT ![mutable] = PutRecord(@, j, e)]
            /\ store' = [store EXCEPT ![j] = StoreValue(e)]
            /\ doubt' = [doubt EXCEPT ![j] = {}]
            /\ UNCHANGED <<mutable, immutable>>
        BY <3>1 DEF Applies
      <4>2. \A k \in Key : MemCells(mutable)'[k]
                             = IF k = j THEN e ELSE MemCells(mutable)[k]
        BY <1>2, <4>1 DEF MemCells, Nil, PutRecord, Buffer, Layer
      <4>3. immutable # mutable => UNCHANGED MemCells(immutable)
        BY <1>2, <4>1 DEF MemCells, Nil
      <4> QED
        BY <1>2, <4>1, <4>2, <4>3
    <3>2. CASE Logs(j, e)
      BY <1>2, <3>2 DEF Logs, MemCells
    <3> QED
      BY <1>10, <3>1, <3>2
  <2>5. MutableLogged'
    BY <1>1, <2>1, <2>2, <2>3, <2>4 DEF MutableLogged
  <2>6. SealedRight'
    BY <1>1, <2>1, <2>2, <2>3, <2>4 DEF SealedRight
  <2>7. PutRecord(AppendTo, j, e) \in Buffer
    BY <2>1, AppendTypes, LayerTypes DEF IInv
  <2> QED
    BY <1>9, <2>1, <2>4, <2>5, <2>6, <2>7 DEF WriteRecord
<1>11. CASE Pads
  <2>1. /\ up /\ segmentID' = AppendSegment /\ Kept
        /\ segments' = Assign(segments, AppendSegment, AppendTo)
        /\ UNCHANGED <<up, immutableWALSegment, immutable, mutable, memtables,
                       store, doubt>>
    BY <1>11 DEF Pads
  <2>2. AppendTo \in Buffer
    BY <2>1, AppendTypes DEF IInv
  <2>3. ReclaimOldest' /\ ImmutableLogged'
    BY <1>9, <2>1, <2>2 DEF MemCells
  <2>4. MutableLogged'
    BY <1>1, <1>11, <2>1, LogPad DEF MutableLogged, MemCells
  <2>5. SealedRight'
    BY <1>1, <1>11, <2>1, LogPad DEF SealedRight
  <2> QED
    BY <2>3, <2>4, <2>5
<1>12. ASSUME NEW p \in Writers \cup Readers, Flushing(p)
       PROVE  /\ ReclaimOldest' /\ MutableLogged'
              /\ ImmutableLogged' /\ SealedRight'
  <2> USE FlushAlone DEF disk, memory, history, flushing
  <2>1. CASE FlushBegin(p) \/ FlushWrite(p) \/ FlushInstall(p)
             \/ FlushWriteFails(p)
    <3>1. /\ UNCHANGED <<segments, immutableWALSegment, store, doubt, up,
                         mutable, immutable, memtables>>
          /\ reclaim' \in {reclaim, {}}
      BY <2>1 DEF FlushBegin, FlushWrite, FlushInstall, FlushWriteFails,
         EndFlush
    <3>2. ReclaimOldest'
      BY <1>1, <3>1 DEF ReclaimOldest
    <3>3. ImmutableLogged'
      BY <1>1, <1>3, <3>1 DEF ImmutableLogged, MemCells
    <3> QED
      BY <1>4, <3>1, <3>2, <3>3
  <2>2. CASE FlushClear(p)
    <3>1. /\ UNCHANGED <<segments, immutableWALSegment, store, doubt, up,
                         mutable, memtables>>
          /\ reclaim' = {s \in DOMAIN segments :
                           s <= immutableWALSegment /\ s # segmentID}
          /\ immutableWALSegment < segmentID
          /\ immutable' = Nil
      BY <1>1, <1>12, <2>2
         DEF FlushClear, SegmentsUpTo, SegmentOrder, IInv, Flushes
    <3>2. ReclaimOldest'
      BY <3>1, LogTypes DEF ReclaimOldest
    <3>3. ImmutableLogged'
      BY <3>1 DEF ImmutableLogged
    <3> QED
      BY <1>4, <3>1, <3>2, <3>3
  <2>3. CASE FlushReclaim(p)
    <3>1. PICK m \in reclaim : m = Min(reclaim)
      BY <2>3, ReclaimMin DEF FlushReclaim, IInv
    <3>2. /\ segments' = Without(segments, {m}) /\ reclaim' = reclaim \ {m}
          /\ UNCHANGED <<immutableWALSegment, store, doubt, up, mutable,
                         immutable, memtables>>
      BY <2>3, <3>1 DEF FlushReclaim
    <3>3. \A s \in DOMAIN segments : m <= s
      <4>1. \A s \in reclaim : m <= s
        BY <3>1, LogTypes, MinInSet
      <4> QED
        BY <1>1, <3>1, <4>1, LogTypes DEF ReclaimOldest
    <3>4. /\ DOMAIN segments' = DOMAIN segments \ {m}
          /\ \A s \in DOMAIN segments' : segments'[s] = segments[s]
      BY <3>2 DEF Without, Restrict
    <3>5. m \in Sealed
      BY <1>1, <3>1 DEF SegmentOrder
    <3>6. Active' = Active /\ Sealed' = Sealed \ {m}
      <4>1. m <= immutableWALSegment /\ m \in Nat /\ immutableWALSegment \in Nat
        BY <3>5, LogTypes DEF Sealed
      <4>2. m \notin Active
        BY <4>1 DEF Active
      <4>3. immutableWALSegment' = immutableWALSegment
        BY <3>2
      <4> QED
        BY <3>4, <4>2, <4>3 DEF Active, Sealed
    <3>7. \A s \in Active \cup (Sealed \ {m}) :
             SegmentCells'[s] = SegmentCells[s]
      BY <3>4, <3>6 DEF SegmentCells, Active, Sealed
    <3>8. /\ Active \in SUBSET DOMAIN segments
          /\ Sealed \in SUBSET DOMAIN segments
          /\ Sealed \ {m} \in SUBSET DOMAIN segments
      BY DEF Active, Sealed
    <3>9. Bounded(Active) /\ Bounded(Sealed) /\ Bounded(Sealed \ {m})
      BY <3>8, AllBounded
    <3>10. /\ Overlay(SegmentCells', Active) = Overlay(SegmentCells, Active)
           /\ Overlay(SegmentCells', Sealed \ {m})
                = Overlay(SegmentCells, Sealed \ {m})
      BY <3>7, <3>9, OverlaySame
    <3>11. ActiveCells' = ActiveCells
      BY <3>6, <3>10 DEF ActiveCells
    <3>12. ASSUME NEW k \in Key
           PROVE  SealedCells'[k] \in {SealedCells[k], Absent}
      <4>1. \A s \in Sealed : m <= s
        BY <3>3, <3>8
      <4>2. \/ Overlay(SegmentCells, Sealed \ {m})[k]
                 = Overlay(SegmentCells, Sealed)[k]
            \/ Overlay(SegmentCells, Sealed \ {m})[k] = Absent
        BY <3>5, <3>9, <4>1, OverlayDrop
      <4> QED
        BY <3>6, <3>10, <4>2 DEF SealedCells
    <3>13. ReclaimOldest'
      BY <1>1, <3>2, <3>4 DEF ReclaimOldest
    <3>14. MutableLogged'
      BY <1>1, <3>2, <3>11 DEF MutableLogged, MemCells
    <3>15. ImmutableLogged'
      <4>1. Sealed' \ reclaim' = Sealed \ reclaim
        BY <3>1, <3>2, <3>6
      <4>2. \A s \in Sealed' : segments'[s] = segments[s]
        BY <3>4 DEF Sealed
      <4> QED
        BY <1>1, <3>2, <4>1, <4>2 DEF ImmutableLogged, MemCells
    <3>16. SealedRight'
      BY <1>1, <3>2, <3>11, <3>12 DEF SealedRight
    <3> QED
      BY <3>13, <3>14, <3>15, <3>16
  <2> QED
    BY <1>12, <2>1, <2>2, <2>3 DEF Flushing
<1>13. ASSUME immutableWALSegment' = 0, segments' = segments, reclaim' = {},
              immutable' = Nil,
              up' => MemCells(mutable)' = Replayed
       PROVE  /\ ReclaimOldest' /\ MutableLogged'
              /\ ImmutableLogged' /\ SealedRight'
  <2>1. Active' = DOMAIN segments /\ Sealed' = {}
    BY <1>13, LogTypes DEF Active, Sealed
  <2>2. ActiveCells' = Replayed
    BY <1>13, <2>1 DEF ActiveCells, Replayed, SegmentCells
  <2>3. \A k \in Key : SealedCells'[k] = Absent
    BY <2>1 DEF SealedCells, Overlay, Holding
  <2> QED
    BY <1>13, <2>2, <2>3
       DEF ReclaimOldest, MutableLogged, ImmutableLogged, SealedRight
<1>14. CASE LoseMemory
  BY <1>13, <1>14 DEF LoseMemory, disk
<1>15. CASE Restart
  <2>1. /\ reclaim = {} /\ immutable = Nil /\ immutableWALSegment = 0
        /\ mutable = 1
    BY <1>1, <1>15 DEF Restart, SegmentOrder, IInv, Down
  <2>2. MemCells(mutable)' = Replayed
    BY <1>15, <2>1 DEF Restart, MemCells, Nil
  <2> QED
    BY <1>13, <1>15, <2>1, <2>2 DEF Restart, disk, flushing
<1> QED
  BY CleanKinds, <1>6, <1>7, <1>8, <1>10, <1>11, <1>12, <1>14, <1>15

\* A file is only left behind where it does not matter.
LEMMA FilesRightStep ==
  ASSUME IInv, SInv, Clean', [Next]_vars
  PROVE  ExtraFiles' /\ FlushedFile'
<1>1. ExtraFiles /\ FlushedFile
  BY CleanKinds DEF DiskRight
<1>2. /\ mutable \in Nat \ {0} /\ immutable \in 0..mutable
      /\ memtables \in [1..mutable -> Buffer]
      /\ files \in [DOMAIN files -> SSTFile]
      /\ pc \in [Threads -> ControlStates]
      /\ flushGen \in Nat /\ nextGen \in Nat /\ flushGen <= nextGen
      /\ DOMAIN files \subseteq Nat \ {0}
  BY ControlTypes DEF IInv, TypeOK, MemTableTypes, TableTypes
<1>3. \A k \in Key : MemCells(Nil)[k] = Absent
  BY DEF MemCells, EmptyLayer
<1>4. ASSUME Kept, UNCHANGED <<files, tables>>
      PROVE  FlushedFile'
  <2>1. \A p \in Threads : pc'[p] = "clear" =>
           MemCells(immutable)' = MemCells(immutable)
    BY SlotKept
  <2> QED
    BY <1>1, <1>4, <2>1 DEF Kept, FlushKept, FlushedFile, Complete
<1>5. CASE Passive \/ Pads \/ \E k \in Key, e \in Entry : Logs(k, e)
  <2>1. /\ UNCHANGED <<files, tables, immutable, memtables, up>> /\ Kept
    BY <1>5 DEF Passive, data, Pads, Logs
  <2>2. ExtraFiles'
    BY <1>1, <2>1 DEF ExtraFiles, Complete, MemCells
  <2> QED
    BY <1>4, <2>1, <2>2
<1>6. CASE Freezes \/ FreezeStops
  <2>1. UNCHANGED <<files, tables, up>> /\ immutable = Nil /\ Kept
    BY <1>6 DEF Freezes, FreezeStops
  <2>2. ExtraFiles'
    BY <1>1, <1>3, <2>1 DEF ExtraFiles, Complete
  <2> QED
    BY <1>4, <2>1, <2>2
<1>7. ASSUME NEW j \in Key, NEW e \in Entry, Applies(j, e)
      PROVE  ExtraFiles' /\ FlushedFile'
  <2>1. UNCHANGED <<files, tables, up>> /\ Kept
    BY <1>7 DEF Applies
  <2>2. MemCells(immutable)' = MemCells(immutable)
    BY <1>2, <1>7 DEF Applies, MemCells, Nil, IInv, Flushes
  <2>3. ExtraFiles'
    BY <1>1, <2>1, <2>2 DEF ExtraFiles, Complete
  <2> QED
    BY <1>4, <2>1, <2>3
<1>8. ASSUME NEW p \in Writers \cup Readers, Flushing(p)
      PROVE  ExtraFiles' /\ FlushedFile'
  <2>1. /\ up /\ p \in Threads
        /\ \A q \in Threads : q # p =>
             pc[q] \notin {"write", "install", "clear", "reclaim"}
    BY <1>8, FlushAlone
  <2>2. \A g \in tables : g \in DOMAIN files' /\ files'[g] = files[g]
    BY ControlTypes, FilesKept DEF IInv
  <2>3. tables \subseteq Complete'
    BY <1>1, <2>2 DEF Complete, FlushedFile
  <2> USE DEF Goto, disk, memory, list, flushing
  <2>4. CASE FlushBegin(p)
    <3>1. /\ DOMAIN files' = DOMAIN files \cup {nextGen + 1}
          /\ \A g \in DOMAIN files : files'[g] = files[g]
          /\ files'[nextGen + 1].complete = FALSE
          /\ \A g \in DOMAIN files : g <= nextGen
      BY <1>2, <2>1, <2>4 DEF FlushBegin, Assign, IInv, Disk
    <3>2. Complete' = Complete
      BY <3>1 DEF Complete
    <3>3. UNCHANGED <<tables, immutable, memtables, up>>
      BY <2>4 DEF FlushBegin
    <3>4. ExtraFiles'
      <4>1. \A g \in Complete : files'[g] = files[g]
        BY <3>1 DEF Complete
      <4> QED
        BY <1>1, <2>2, <3>2, <3>3, <4>1 DEF ExtraFiles, MemCells
    <3>5. FlushedFile'
      <4>1. /\ pc' = [pc EXCEPT ![p] = "write"] /\ flushGen' = nextGen + 1
        BY <2>4 DEF FlushBegin
      <4>2. \A q \in Threads : pc'[q] # "clear"
        BY <1>2, <2>1, <4>1
      <4>3. \A g \in DOMAIN files' : g <= flushGen'
        BY <1>2, <3>1, <4>1
      <4> QED
        BY <2>3, <3>3, <4>2, <4>3 DEF FlushedFile
    <3> QED
      BY <3>4, <3>5
  <2>5. ASSUME pc[p] = "write",
               UNCHANGED <<tables, immutable, memtables, up>>,
               DOMAIN files' \subseteq DOMAIN files,
               \A g \in DOMAIN files' : g # flushGen => files'[g] = files[g],
               flushGen \in Complete' => \A k \in Key :
                  files'[flushGen].cells[k] \in {MemCells(immutable)[k], Absent}
        PROVE  ExtraFiles'
    <3>1. \A g \in Complete' : g = flushGen \/ g \in Complete
      BY <2>5 DEF Complete
    <3>2. \A g \in Complete' : g \in DOMAIN files'
      BY DEF Complete
    <3> QED
      BY <1>1, <2>2, <2>5, <3>1, <3>2 DEF ExtraFiles, MemCells
  <2>6. CASE FlushWrite(p)
    <3>1. /\ pc[p] = "write" /\ immutable = want[p] /\ flushGen \in DOMAIN files
          /\ UNCHANGED <<tables, immutable, memtables, up>>
          /\ files' = [files EXCEPT ![flushGen] =
                          [complete |-> TRUE, cells |-> MemCells(immutable)]]
      BY <2>1, <2>6 DEF FlushWrite, IInv, Flushes
    <3>2. ExtraFiles'
      BY <1>2, <2>5, <3>1
    <3>3. FlushedFile'
      BY <1>1, <1>2, <2>1, <2>3, <2>6, <3>1 DEF FlushedFile, FlushWrite
    <3> QED
      BY <3>2, <3>3
  <2>7. CASE FlushInstall(p)
    <3>1. /\ pc[p] = "install" /\ flushGen \in DOMAIN files
          /\ files[flushGen]
               = [complete |-> TRUE, cells |-> MemCells(immutable)]
          /\ UNCHANGED <<files, immutable, memtables, up, flushGen>>
          /\ tables' = tables \cup {flushGen}
      BY <2>1, <2>7 DEF FlushInstall, IInv, Flushes, Copies
    <3>2. Complete' = Complete /\ flushGen \in Complete
      BY <3>1 DEF Complete
    <3>3. ExtraFiles'
      BY <1>1, <3>1, <3>2 DEF ExtraFiles, MemCells
    <3>4. MemCells(immutable)' = MemCells(immutable)
      BY <3>1 DEF MemCells
    <3>5. FlushedFile'
      BY <1>1, <1>2, <2>1, <2>7, <3>1, <3>2, <3>4 DEF FlushedFile, FlushInstall
    <3> QED
      BY <3>3, <3>5
  <2>8. CASE FlushClear(p)
    <3>1. /\ pc[p] = "clear" /\ UNCHANGED <<files, tables, up>>
      BY <2>8 DEF FlushClear
    <3>2. /\ \A g \in DOMAIN files : g <= flushGen
          /\ flushGen \in tables
          /\ files[flushGen].cells = MemCells(immutable)
      BY <1>1, <2>1, <3>1 DEF FlushedFile
    <3>3. \A g \in Complete \ tables : flushGen > g
      BY <1>2, <3>2 DEF Complete
    <3>4. ExtraFiles'
      BY <1>1, <2>1, <3>1, <3>2, <3>3 DEF ExtraFiles, Complete
    <3>5. FlushedFile'
      BY <1>1, <1>2, <2>1, <2>8 DEF FlushedFile, FlushClear, Complete
    <3> QED
      BY <3>4, <3>5
  <2>9. CASE FlushReclaim(p)
    <3>1. UNCHANGED <<files, tables, immutable, memtables, up, pc, flushGen>>
      BY <2>9 DEF FlushReclaim, calls
    <3> QED
      BY <1>1, <3>1 DEF ExtraFiles, FlushedFile, Complete, MemCells
  <2>10. CASE FlushWriteFails(p)
    <3>1. /\ pc[p] = "write" /\ immutable = want[p] /\ flushGen \in DOMAIN files
          /\ UNCHANGED <<tables, immutable, memtables, up>>
      BY <2>1, <2>10 DEF FlushWriteFails, IInv, Flushes
    <3>2. FlushedFile'
      BY <1>2, <2>1, <2>3, <2>10 DEF FlushedFile, FlushWriteFails,
         ReturnFromFlush
    <3>3. CASE files' = files
      BY <1>1, <3>1, <3>2, <3>3 DEF ExtraFiles, Complete, MemCells
    <3>4. CASE files' = Without(files, {flushGen})
      <4>1. /\ DOMAIN files' = DOMAIN files \ {flushGen}
            /\ \A g \in DOMAIN files' : files'[g] = files[g]
        BY <3>4 DEF Without, Restrict
      <4>2. flushGen \notin Complete'
        BY <4>1 DEF Complete
      <4> QED
        BY <2>5, <3>1, <3>2, <4>1, <4>2
    <3>5. ASSUME NEW ks \in SUBSET Key,
                 files' = [files EXCEPT ![flushGen] =
                              [complete |-> TRUE,
                               cells |-> Only(MemCells(want[p]), ks)]]
          PROVE  ExtraFiles' /\ FlushedFile'
      <4>1. files'[flushGen].cells = Only(MemCells(immutable), ks)
        BY <1>2, <3>1, <3>5
      <4>2. \A k \in Key : files'[flushGen].cells[k]
                             \in {MemCells(immutable)[k], Absent}
        BY <4>1 DEF Only
      <4> QED
        BY <1>2, <2>5, <3>1, <3>2, <3>5, <4>2
    <3> QED
      BY <2>10, <3>3, <3>4, <3>5 DEF FlushWriteFails
  <2> QED
    BY <1>8, <2>4, <2>6, <2>7, <2>8, <2>9, <2>10 DEF Flushing
<1>9. CASE LoseMemory
  BY <1>9 DEF LoseMemory, ExtraFiles, FlushedFile
<1>10. CASE Restart
  <2>1. tables' = Complete' /\ \A p \in Threads : pc'[p] = "idle"
    BY <1>10 DEF Restart, CanOpen, Complete, disk, calls, IInv, Down
  <2> QED
    BY <2>1 DEF ExtraFiles, FlushedFile
<1> QED
  BY CleanKinds, <1>5, <1>6, <1>7, <1>8, <1>9, <1>10

\* A crash settles what was in doubt.
LEMMA DownExactStep ==
  ASSUME IInv, SInv, Clean', [Next]_vars
  PROVE  DownExact'
<1>1. LiveView /\ DiskRight /\ SegmentOrder
  BY CleanKinds DEF SInv
<1>2. CASE LoseMemory
  <2>1. Durable
    BY <1>1, DurableNow
  <2>2. /\ UNCHANGED <<segments, files>>
        /\ store' = [k \in Key |-> IF Recovered[k] \in doubt[k]
                                     THEN Recovered[k] ELSE store[k]]
        /\ doubt' = [k \in Key |-> {}]
    BY <1>2 DEF LoseMemory, disk
  <2>3. Recovered' = Recovered
    BY <2>2 DEF Recovered, Replayed, Complete, FileCells, SegmentCells
  <2>4. \A k \in Key : store'[k] = Recovered[k]
    BY <2>1, <2>2 DEF Durable
  <2>5. Recovered = [k \in Key |-> Recovered[k]]
    BY DEF Recovered, Visible
  <2>6. store' = [k \in Key |-> store'[k]]
    BY <2>2
  <2> QED
    BY <2>2, <2>3, <2>4, <2>5, <2>6 DEF DownExact
<1>3. CASE ~LoseMemory
  <2>1. up' \/ ~up
    BY CleanKinds, <1>3, FlushAlone
       DEF Passive, data, Freezes, FreezeStops, Applies, Logs, Pads, Flushing,
           FlushBegin, FlushWrite, FlushInstall, FlushClear, FlushReclaim,
           FlushWriteFails, Restart
  <2>2. CASE up'
    BY <2>2 DEF DownExact
  <2>3. CASE ~up' /\ ~up
    <3>1. Passive
      BY CleanKinds, <1>3, <2>3, FlushAlone
         DEF Freezes, FreezeStops, Applies, Logs, Pads, Restart
    <3>2. Recovered' = Recovered
      BY <3>1
         DEF Passive, data, Recovered, Replayed, Complete, FileCells,
             SegmentCells
    <3> QED
      BY <1>1, <2>3, <3>1, <3>2 DEF DiskRight, DownExact, Passive, data
  <2> QED
    BY <2>1, <2>2, <2>3
<1> QED
  BY <1>2, <1>3

-----------------------------------------------------------------------------
(* Readers.                                                                *)

\* The types of what readers depend on.
LEMMA SnapTypes ==
  ASSUME IInv
  PROVE  /\ snap \in [Threads -> [mut : 0..mutable, imm : 0..mutable]]
         /\ held \in [Threads -> SUBSET DOMAIN files]
         /\ seen \in [Threads -> SUBSET [Key -> Value \cup {Absent}]]
         /\ mutable \in Nat \ {0}
         /\ memtables \in [1..mutable -> Buffer]
BY DEF IInv, TypeOK, MemTableTypes, TableTypes, HistoryTypes

\* A Get or Scan in progress keeps what it captured.  It has seen every store
\* that a write to a memtable makes.
ReaderKept(r) ==
    /\ pc'[r] = pc[r] /\ snap'[r] = snap[r] /\ held'[r] = held[r]
    /\ pc[r] = "scan" => seen'[r] = seen[r]
    /\ pc[r] = "get" =>
         /\ seen[r] \subseteq seen'[r]
         /\ \/ store' \in seen'[r]
            \/ \A m \in 1..mutable : memtables'[m] = memtables[m]

ReadersStep ==
    \A r \in Readers : pc'[r] \in {"get", "scan"} =>
        ReaderKept(r) \/ Get(r) \/ SnapshotForScan(r)

\* Nobody but the reader itself changes what it captured.
LEMMA ReaderSteps ==
  ASSUME IInv, [Next]_vars
  PROVE  ReadersStep
<1> USE ThreadAssumption, ControlTypes, SnapTypes DEF IInv, ReadersStep,
        ReaderKept, Calls, Down, Threads, Nil, Compacts, disk, memory, list,
        locks, calls, flushing, reading, history, Goto, Counted
<1>1. ASSUME NEW p \in Writers, NEW k \in Key, NEW e \in Entry, Call(p, k, e)
      PROVE  ReadersStep
  BY <1>1 DEF Call
<1>2. ASSUME NEW p \in Writers, PrepareWait(p) PROVE ReadersStep
  BY <1>2 DEF PrepareWait, CallFlush
<1>3. ASSUME NEW p \in Writers, PrepareFreeze(p) PROVE ReadersStep
  BY <1>3 DEF PrepareFreeze, FreezeMutableLocked, Assign
<1>4. ASSUME NEW p \in Writers, Append(p) PROVE ReadersStep
  BY <1>4 DEF Append, CallFlush, WriteRecord, ObserveStore, StoreValue
<1>5. ASSUME NEW p \in Writers, PrepareFails(p) PROVE ReadersStep
  BY <1>5 DEF PrepareFails, FreezeFails, WriteError
<1>6. ASSUME NEW p \in Writers, AppendInDoubt(p) PROVE ReadersStep
  BY <1>6 DEF AppendInDoubt, WriteError, WriteRecord
<1>7. ASSUME NEW p \in Writers, AppendFails(p) PROVE ReadersStep
  BY <1>7 DEF AppendFails, WriteError
<1>8. ASSUME NEW p \in Writers, Flush(p) PROVE ReadersStep
  <2>1. /\ pc' = [pc EXCEPT ![p] = pc'[p]] /\ UNCHANGED reading
        /\ \/ memtables' = memtables
           \/ memtables' = Assign(memtables, mutable + 1, EmptyBuffer)
    BY <1>8 DEF Flush, FlushLocked, FlushFreezeFails, FreezeMutableLocked,
       FreezeFails, CallFlush
  <2>2. \A m \in 1..mutable : memtables'[m] = memtables[m]
    BY <2>1 DEF Assign
  <2>3. \A r \in Readers : pc'[r] = pc[r]
    BY <2>1
  <2> QED
    BY <2>1, <2>2, <2>3
<1>9. ASSUME NEW p \in Writers, Close(p) PROVE ReadersStep
  <2>1. /\ pc' = [pc EXCEPT ![p] = pc'[p]] /\ UNCHANGED reading
        /\ \/ memtables' = memtables
           \/ memtables' = Assign(memtables, mutable + 1, EmptyBuffer)
    BY <1>9 DEF Close, FlushLocked, FlushFreezeFails, FreezeMutableLocked,
       FreezeFails, CallFlush
  <2>2. \A m \in 1..mutable : memtables'[m] = memtables[m]
    BY <2>1 DEF Assign
  <2>3. \A r \in Readers : pc'[r] = pc[r]
    BY <2>1
  <2> QED
    BY <2>1, <2>2, <2>3
<1>10. ASSUME NEW p \in Writers \cup Readers, FlushStale(p) PROVE ReadersStep
  BY <1>10 DEF FlushStale, FlushEnter, ReturnFromFlush
<1>11. ASSUME NEW p \in Writers \cup Readers, FlushBegin(p) PROVE ReadersStep
  BY <1>11 DEF FlushBegin, FlushEnter
<1>12. ASSUME NEW p \in Writers \cup Readers, FlushWrite(p) PROVE ReadersStep
  BY <1>12 DEF FlushWrite
<1>13. ASSUME NEW p \in Writers \cup Readers, FlushInstall(p) PROVE ReadersStep
  BY <1>13 DEF FlushInstall
<1>14. ASSUME NEW p \in Writers \cup Readers, FlushClear(p) PROVE ReadersStep
  BY <1>14 DEF FlushClear, SegmentsUpTo
<1>15. ASSUME NEW p \in Writers \cup Readers, FlushReclaim(p) PROVE ReadersStep
  BY <1>15 DEF FlushReclaim
<1>16. ASSUME NEW p \in Writers \cup Readers, FlushReturn(p) PROVE ReadersStep
  BY <1>16 DEF FlushReturn, ReturnFromFlush, EndFlush
<1>17. ASSUME NEW p \in Writers \cup Readers, FlushWriteFails(p)
      PROVE  ReadersStep
  BY <1>17 DEF FlushWriteFails, ReturnFromFlush, EndFlush
<1>18. ASSUME NEW p \in Writers \cup Readers, FlushOpenFails(p)
      PROVE  ReadersStep
  BY <1>18 DEF FlushOpenFails, ReturnFromFlush, EndFlush
<1>19. ASSUME NEW p \in Writers \cup Readers, FlushReclaimFails(p)
      PROVE  ReadersStep
  BY <1>19 DEF FlushReclaimFails
<1>20. ASSUME NEW r \in Readers, Get(r) PROVE ReadersStep
  <2>1. ASSUME NEW q \in Readers, q # r PROVE pc'[q] = pc[q] /\ ReaderKept(q)
    BY <1>20, <2>1 DEF Get, GetTables
  <2> QED
    BY <1>20, <2>1
<1>21. ASSUME NEW r \in Readers, GetLookup(r) PROVE ReadersStep
  BY <1>21 DEF GetLookup, Forget
<1>22. ASSUME NEW r \in Readers, Scan(r) PROVE ReadersStep
  BY <1>22 DEF Scan
<1>23. ASSUME NEW r \in Readers, SnapshotWait(r) PROVE ReadersStep
  BY <1>23 DEF SnapshotWait, CallFlush
<1>24. ASSUME NEW r \in Readers, SnapshotForScan(r) PROVE ReadersStep
  <2>1. ASSUME NEW q \in Readers, q # r PROVE pc'[q] = pc[q] /\ ReaderKept(q)
    BY <1>24, <2>1 DEF SnapshotForScan, FreezeMutableLocked, GetTables, Assign
  <2> QED
    BY <1>24, <2>1
<1>25. ASSUME NEW r \in Readers, SnapshotFails(r) PROVE ReadersStep
  BY <1>25 DEF SnapshotFails, FreezeFails
<1>26. ASSUME NEW r \in Readers, ScanClose(r) PROVE ReadersStep
  BY <1>26 DEF ScanClose, Forget
<1>27. ASSUME NEW p \in Readers \cup {Compactor}, Release(p) PROVE ReadersStep
  BY <1>27 DEF Release, LastHolder
<1>28. ASSUME NEW p \in Readers \cup {Compactor}, ReleaseDone(p)
      PROVE  ReadersStep
  BY <1>28 DEF ReleaseDone
<1>29. ASSUME CompactBegin PROVE ReadersStep
  BY <1>29 DEF CompactBegin, GetTables
<1>30. ASSUME CompactTarget PROVE ReadersStep
  BY <1>30 DEF CompactTarget
<1>31. ASSUME CompactMerge PROVE ReadersStep
  BY <1>31 DEF CompactMerge
<1>32. ASSUME CompactReplace PROVE ReadersStep
  BY <1>32 DEF CompactReplace
<1>33. ASSUME CompactFails PROVE ReadersStep
  BY <1>33 DEF CompactFails
<1>34. ASSUME NEW p \in Writers, CloseFinish(p) PROVE ReadersStep
  BY <1>34 DEF CloseFinish, LoseMemory
<1>35. ASSUME Crash PROVE ReadersStep
  BY <1>35 DEF Crash, LoseMemory
<1>36. ASSUME Restart PROVE ReadersStep
  BY <1>36 DEF Restart
<1>37. CASE UNCHANGED vars
  BY <1>37 DEF vars
<1> QED
  BY <1>1, <1>2, <1>3, <1>4, <1>5, <1>6, <1>7, <1>8, <1>9, <1>10, <1>11,
     <1>12, <1>13, <1>14, <1>15, <1>16, <1>17, <1>18, <1>19, <1>20, <1>21,
     <1>22, <1>23, <1>24, <1>25, <1>26, <1>27, <1>28, <1>29, <1>30, <1>31,
     <1>32, <1>33, <1>34, <1>35, <1>36, <1>37
     DEF Next, Writer, Reader, Compaction, Insert, Delete, WriteSteps,
         WriteErrors, FlushSteps, FlushErrors, ReadSteps, ReleaseSteps,
         CompactSteps, RestartFails, Quiet, Entry

\* Only a write changes a memtable, and only the mutable one.
LEMMA MemTablesStep ==
  ASSUME IInv, [Next]_vars, ~LoseMemory, ~Restart
  PROVE  /\ \/ mutable' = mutable /\ (frozen => frozen')
            \/ mutable' = mutable + 1 /\ memtables'[mutable + 1] = EmptyBuffer
         /\ \/ \A m \in 1..mutable : memtables'[m] = memtables[m]
            \/ /\ mutable' = mutable
               /\ \E k \in Key, e \in Entry : Applies(k, e)
<1>1. CASE UNCHANGED <<mutable, memtables, frozen>>
  BY <1>1
<1>2. CASE Freezes
  BY <1>2, SnapTypes DEF Freezes, FreezeMutableLocked, Assign
<1>3. CASE FreezeStops
  BY <1>3 DEF FreezeStops
<1>4. ASSUME NEW k \in Key, NEW e \in Entry, Applies(k, e)
      PROVE  mutable' = mutable /\ frozen' = frozen
  BY <1>4 DEF Applies
<1>5. ASSUME NEW p \in Writers \cup Readers, Flushing(p)
      PROVE  UNCHANGED <<mutable, memtables, frozen>>
  BY <1>5 DEF Flushing, FlushBegin, FlushWrite, FlushInstall, FlushClear,
     FlushReclaim, FlushWriteFails, memory
<1> QED
  BY StepKinds, <1>1, <1>2, <1>3, <1>4, <1>5
     DEF StepKind, Passive, data, Logs, Pads, Release, Compacting,
         CompactBegin, CompactTarget, CompactMerge, CompactReplace,
         CompactFails, memory

\* A segment counts its records from none on.
LEMMA SegmentSizesStep ==
  ASSUME IInv, Sizes, [Next]_vars, NEW s \in DOMAIN segments',
         segments'[s].size = 0
  PROVE  segments'[s].cells = EmptyLayer
<1>1. \A t \in DOMAIN segments :
        segments[t].size = 0 => segments[t].cells = EmptyLayer
  BY DEF Sizes
<1>2. EmptyBuffer.cells = EmptyLayer /\ EmptyBuffer.size = 0
  BY DEF EmptyBuffer
<1>3. CASE UNCHANGED segments
  BY <1>1, <1>3
<1>4. CASE Freezes
  BY <1>1, <1>2, <1>4 DEF Freezes, FreezeMutableLocked, Assign
<1>5. up => /\ AppendTo \in Buffer
            /\ AppendTo.size = 0 => AppendTo.cells = EmptyLayer
  <2> SUFFICES ASSUME up
               PROVE  /\ AppendTo \in Buffer
                      /\ AppendTo.size = 0 => AppendTo.cells = EmptyLayer
    OBVIOUS
  <2>1. segmentID \in DOMAIN segments
    BY DEF IInv, Disk
  <2>2. EmptyBuffer \in Buffer
    BY LayerTypes
  <2> QED
    BY <1>1, <1>2, <2>1, <2>2, LogTypes DEF AppendTo
<1>6. ASSUME NEW k \in Key, NEW e \in Entry, up, WriteRecord(k, e)
      PROVE  segments'[s].cells = EmptyLayer
  <2>1. segments' = Assign(segments, AppendSegment, PutRecord(AppendTo, k, e))
    BY <1>6 DEF WriteRecord
  <2>2. PutRecord(AppendTo, k, e).size # 0
    BY <1>5, <1>6 DEF PutRecord, Buffer
  <2> QED
    BY <1>1, <2>1, <2>2 DEF Assign
<1>7. CASE Pads
  <2>1. up /\ segments' = Assign(segments, AppendSegment, AppendTo)
    BY <1>7 DEF Pads
  <2> QED
    BY <1>1, <1>5, <2>1 DEF Assign
<1>8. ASSUME NEW p, FlushReclaim(p)
      PROVE  segments'[s].cells = EmptyLayer
  BY <1>1, <1>8 DEF FlushReclaim, Without, Restrict
<1>9. ASSUME NEW p \in Writers \cup Readers, Flushing(p)
      PROVE  FlushReclaim(p) \/ UNCHANGED segments
  BY <1>9 DEF Flushing, FlushBegin, FlushWrite, FlushInstall, FlushClear,
     FlushWriteFails, disk
<1> QED
  BY StepKinds, <1>3, <1>4, <1>6, <1>7, <1>8, <1>9
     DEF StepKind, Passive, data, FreezeStops, Applies, Logs, Release,
         Compacting, CompactBegin, CompactTarget, CompactMerge, CompactReplace,
         CompactFails, LoseMemory, Restart, disk

\* A memtable counts its records from none on, and one that is replayed from the
\* WAL counts those of all segments.
LEMMA SizesStep ==
  ASSUME IInv, Sizes, [Next]_vars
  PROVE  Sizes'
<1> SUFFICES ASSUME NEW n \in 1..mutable', memtables'[n].size = 0
             PROVE  memtables'[n].cells = EmptyLayer
  BY SegmentSizesStep DEF Sizes
<1>1. \A m \in 1..mutable :
        memtables[m].size = 0 => memtables[m].cells = EmptyLayer
  BY DEF Sizes
<1>2. CASE LoseMemory
  BY <1>2 DEF LoseMemory, EmptyBuffer
<1>3. CASE Restart
  <2>1. n = 1 /\ memtables'[n].cells = Replayed /\ RecordCount = 0
    BY <1>3 DEF Restart, IInv, Down
  <2>2. \A s \in DOMAIN segments : segments[s].cells = EmptyLayer
    BY <2>1, RecordsCounted DEF Sizes, IInv
  <2>3. ASSUME NEW k \in Key
        PROVE  Holding(SegmentCells, DOMAIN segments, k) = {}
    BY <2>2 DEF Holding, SegmentCells, EmptyLayer
  <2>4. Replayed = [k \in Key |-> Absent]
    BY <2>3 DEF Replayed, Overlay
  <2> QED
    BY <2>1, <2>4 DEF EmptyLayer
<1>4. CASE ~LoseMemory /\ ~Restart
  <2>1. /\ \/ mutable' = mutable
           \/ mutable' = mutable + 1 /\ memtables'[mutable + 1] = EmptyBuffer
        /\ \/ \A m \in 1..mutable : memtables'[m] = memtables[m]
           \/ /\ mutable' = mutable
              /\ \E k \in Key, e \in Entry : Applies(k, e)
    BY <1>4, MemTablesStep
  <2>2. CASE \A m \in 1..mutable : memtables'[m] = memtables[m]
    BY <1>1, <2>1, <2>2, SnapTypes DEF EmptyBuffer
  <2>3. ASSUME mutable' = mutable, NEW k \in Key, NEW e \in Entry, Applies(k, e)
        PROVE  memtables'[n].cells = EmptyLayer
    <3>1. memtables' = [memtables EXCEPT ![mutable]
                          = PutRecord(memtables[mutable], k, e)]
      BY <2>3 DEF Applies
    <3>2. PutRecord(memtables[mutable], k, e).size # 0
      BY SnapTypes DEF PutRecord, Buffer
    <3> QED
      BY <1>1, <2>3, <3>1, <3>2, SnapTypes
  <2> QED
    BY <2>1, <2>2, <2>3
<1> QED
  BY <1>2, <1>3, <1>4

\* A captured memtable that is no longer written stays so.
LEMMA SnapBoundsStep ==
  ASSUME IInv, SnapBounds, [Next]_vars
  PROVE  SnapBounds'
<1> SUFFICES ASSUME NEW r \in Readers, pc'[r] \in {"get", "scan"},
                    snap'[r].imm = mutable'
             PROVE  frozen'
  BY DEF SnapBounds
<1>1. r \in Threads
  BY DEF Threads
<1>2. immutable' = mutable' => frozen'
  BY IInvStep DEF IInv, Flushes
<1>3. CASE ReaderKept(r)
  <2>1. ~LoseMemory /\ ~Restart
    BY <1>1, <1>3 DEF LoseMemory, Restart, calls, IInv, Down
  <2>2. snap[r].imm = mutable' /\ snap[r].imm \in 0..mutable
    BY <1>1, <1>3, SnapTypes DEF ReaderKept
  <2>3. mutable' = mutable /\ (frozen => frozen')
    BY <2>1, <2>2, MemTablesStep, SnapTypes
  <2> QED
    BY <1>3, <2>2, <2>3 DEF SnapBounds, ReaderKept
<1>4. CASE Get(r)
  BY <1>1, <1>2, <1>4, SnapTypes DEF Get, memory
<1>5. CASE SnapshotForScan(r)
  BY <1>1, <1>2, <1>5, SnapTypes DEF SnapshotForScan
<1> QED
  BY ReaderSteps, <1>3, <1>4, <1>5 DEF ReadersStep

\* What a lookup in captured memtables and tables finds.
LEMMA ResultCells ==
  ASSUME NEW r, NEW k \in Key
  PROVE  /\ GetResult(r)[k]
              = StoreValue(IF MemCells(snap[r].mut)[k] # Absent
                             THEN MemCells(snap[r].mut)[k]
                             ELSE IF MemCells(snap[r].imm)[k] # Absent
                                    THEN MemCells(snap[r].imm)[k]
                                    ELSE Overlay(FileCells, held[r])[k])
         /\ GetResult(r)'[k]
              = StoreValue(IF MemCells(snap[r].mut)'[k] # Absent
                             THEN MemCells(snap[r].mut)'[k]
                             ELSE IF MemCells(snap[r].imm)'[k] # Absent
                                    THEN MemCells(snap[r].imm)'[k]
                                    ELSE Overlay(FileCells, held[r])'[k])
BY DEF GetResult, LookupOrder, Visible, Over

\* The frozen memtable and the tables that a reader captured stay as they are,
\* and the mutable one changes only by a write.
LEMMA CapturedKept ==
  ASSUME IInv, SnapBounds, [Next]_vars, NEW r \in Readers,
         pc'[r] \in {"get", "scan"}, ReaderKept(r)
  PROVE  /\ Overlay(FileCells, held[r])' = Overlay(FileCells, held[r])
         /\ MemCells(snap[r].imm)' = MemCells(snap[r].imm)
         /\ \/ MemCells(snap[r].mut)' = MemCells(snap[r].mut)
            \/ /\ snap[r].mut = mutable
               /\ ~\A m \in 1..mutable : memtables'[m] = memtables[m]
               /\ \E k \in Key, e \in Entry : Applies(k, e)
<1>1. /\ r \in Threads /\ pc[r] \in {"get", "scan"}
      /\ snap'[r] = snap[r] /\ held'[r] = held[r]
      /\ snap[r].imm \in 0..mutable /\ snap[r].mut \in 0..mutable
      /\ held[r] \subseteq DOMAIN files
  BY SnapTypes DEF ReaderKept, Threads
<1>2. ~LoseMemory /\ ~Restart
  BY <1>1 DEF LoseMemory, Restart, calls, IInv, Down
<1>3. Overlay(FileCells, held[r])' = Overlay(FileCells, held[r])
  <2>1. Overlay(FileCells', held[r]) = Overlay(FileCells, held[r])
    BY <1>1, StackKept
  <2> QED
    BY <1>1, <2>1
<1>4. CASE \A m \in 1..mutable : memtables'[m] = memtables[m]
  BY <1>1, <1>3, <1>4, SnapTypes DEF MemCells, Nil
<1>5. CASE ~\A m \in 1..mutable : memtables'[m] = memtables[m]
  <2>1. PICK k \in Key, e \in Entry : Applies(k, e)
    BY <1>2, <1>5, MemTablesStep
  <2>2. /\ ~frozen
        /\ memtables' = [memtables EXCEPT ![mutable] = PutRecord(@, k, e)]
    BY <2>1 DEF Applies
  <2>3. snap[r].imm # mutable
    BY <1>1, <2>2 DEF SnapBounds
  <2>4. \A m \in 0..mutable : m # mutable => MemCells(m)' = MemCells(m)
    BY <2>2, SnapTypes DEF MemCells, Nil
  <2> QED
    BY <1>1, <1>3, <1>5, <2>1, <2>3, <2>4
<1> QED
  BY <1>4, <1>5

\* A Get finds what was stored when it captured its snapshot, or what a write
\* to the memtable it captured has stored since.
LEMMA GetStep ==
  ASSUME IInv, SInv, Undisturbed', [Next]_vars
  PROVE  GetLinearizable'
<1> SUFFICES ASSUME NEW r \in Readers, pc'[r] = "get", NEW k \in Key
             PROVE  \E s \in seen'[r] : GetResult(r)'[k] = s[k]
  BY DEF GetLinearizable
<1>1. GetLinearizable /\ LiveView /\ SnapBounds /\ r \in Threads
  BY Conditions DEF SInv, Threads
<1>2. CASE Get(r)
  <2>1. /\ up /\ UNCHANGED <<files, memtables>>
        /\ snap'[r] = [mut |-> mutable, imm |-> immutable]
        /\ held'[r] = tables
        /\ seen'[r] = {store}
    BY <1>1, <1>2, SnapTypes DEF Get, GetTables, disk, memory
  <2>2. /\ MemCells(snap[r].mut)' = MemCells(mutable)
        /\ MemCells(snap[r].imm)' = MemCells(immutable)
        /\ Overlay(FileCells, held[r])' = Overlay(FileCells, tables)
    BY <2>1 DEF MemCells, FileCells
  <2>3. GetResult(r)'[k] = View[k]
    BY <2>2, ResultCells, ViewCells
  <2> QED
    BY <1>1, <2>1, <2>3 DEF LiveView
<1>3. CASE ReaderKept(r)
  <2>1. /\ Overlay(FileCells, held[r])' = Overlay(FileCells, held[r])
        /\ MemCells(snap[r].imm)' = MemCells(snap[r].imm)
        /\ \/ MemCells(snap[r].mut)' = MemCells(snap[r].mut)
           \/ /\ snap[r].mut = mutable
              /\ ~\A m \in 1..mutable : memtables'[m] = memtables[m]
              /\ \E j \in Key, e \in Entry : Applies(j, e)
    BY <1>1, <1>3, CapturedKept
  <2>2. PICK s \in seen[r] : GetResult(r)[k] = s[k]
    BY <1>1, <1>3 DEF GetLinearizable, ReaderKept
  <2>3. s \in seen'[r]
    BY <1>3, <2>2 DEF ReaderKept
  <2>4. CASE MemCells(snap[r].mut)'[k] = MemCells(snap[r].mut)[k]
    <3>1. GetResult(r)'[k] = GetResult(r)[k]
      BY <2>1, <2>4, ResultCells
    <3> QED
      BY <2>2, <2>3, <3>1
  <2>5. ASSUME snap[r].mut = mutable,
               ~\A m \in 1..mutable : memtables'[m] = memtables[m],
               NEW j \in Key, NEW e \in Entry, Applies(j, e)
        PROVE  \E t \in seen'[r] : GetResult(r)'[k] = t[k]
    <3>1. /\ memtables' = [memtables EXCEPT ![mutable] = PutRecord(@, j, e)]
          /\ store' = [store EXCEPT ![j] = StoreValue(e)]
      BY <2>5 DEF Applies
    <3>2. snap'[r] = snap[r] /\ store' \in seen'[r]
      BY <1>3, <2>5 DEF ReaderKept
    <3>3. MemCells(snap[r].mut)'[k]
            = IF k = j THEN e ELSE MemCells(snap[r].mut)[k]
      BY <2>5, <3>1, <3>2, SnapTypes
         DEF MemCells, Nil, PutRecord, Buffer, Layer
    <3>4. CASE k # j
      BY <2>4, <3>3, <3>4
    <3>5. CASE k = j
      <4>1. e # Absent
        BY CellAssumption DEF Entry
      <4>2. GetResult(r)'[k] = StoreValue(e)
        BY <3>3, <3>5, <4>1, ResultCells
      <4>3. store'[k] = StoreValue(e)
        BY <3>1, <3>5 DEF IInv, TypeOK, HistoryTypes
      <4> QED
        BY <3>2, <4>2, <4>3
    <3> QED
      BY <3>4, <3>5
  <2> QED
    BY <2>1, <2>4, <2>5
<1>4. ~SnapshotForScan(r)
  BY <1>1, ControlTypes DEF SnapshotForScan, Goto, IInv
<1> QED
  BY ReaderSteps, <1>2, <1>3, <1>4 DEF ReadersStep

\* A Scan finds what was stored when it took its snapshot.
LEMMA ScanStep ==
  ASSUME IInv, SInv, Undisturbed', [Next]_vars
  PROVE  ScanSnapshotExact'
<1> SUFFICES ASSUME NEW r \in Readers, pc'[r] = "scan"
             PROVE  seen'[r] = {ScanResult(r)'}
  BY DEF ScanSnapshotExact
<1>1. ScanSnapshotExact /\ SnapBounds /\ r \in Threads /\ Sizes
  BY Conditions DEF SInv, Threads
<1>2. CASE ReaderKept(r)
  <2>1. /\ Overlay(FileCells, held[r])' = Overlay(FileCells, held[r])
        /\ MemCells(snap[r].imm)' = MemCells(snap[r].imm)
    BY <1>1, <1>2, CapturedKept
  <2>2. ScanResult(r)' = ScanResult(r)
    <3>1. MemCells(Nil)' = MemCells(Nil)
      BY DEF MemCells
    <3> QED
      BY <2>1, <3>1 DEF ScanResult, LookupOrder
  <2> QED
    BY <1>1, <1>2, <2>2 DEF ScanSnapshotExact, ReaderKept
<1>3. CASE SnapshotForScan(r)
  <2>1. /\ snap'[r].imm = immutable'
        /\ held'[r] = tables /\ tables' = tables
        /\ seen'[r] = {store} /\ store' = store
        /\ up' = up /\ pc[r] = "snapshot"
    BY <1>1, <1>3, SnapTypes
       DEF SnapshotForScan, GetTables, list, history
  <2>2. View' = store'
    BY <1>1, <2>1, LiveViewStep DEF LiveView, IInv, Down
  <2>3. MemCells(mutable)' = EmptyLayer
    <3>1. CASE memtables[mutable].size > 0
      <4>1. /\ mutable' = mutable + 1
            /\ memtables' = Assign(memtables, mutable + 1, EmptyBuffer)
        BY <1>3, <3>1 DEF SnapshotForScan, FreezeMutableLocked
      <4> QED
        BY <4>1, SnapTypes DEF MemCells, Assign, EmptyBuffer, Nil
    <3>2. CASE ~(memtables[mutable].size > 0)
      <4>1. UNCHANGED <<mutable, memtables>>
        BY <1>3, <3>2 DEF SnapshotForScan, memory
      <4>2. memtables[mutable].size = 0
        BY <3>2, SnapTypes DEF Buffer
      <4> QED
        BY <1>1, <4>1, <4>2, SnapTypes DEF Sizes, MemCells, Nil
    <3> QED
      BY <3>1, <3>2
  <2>4. MemCells(Nil)' = EmptyLayer
    BY DEF MemCells
  <2>5. ScanResult(r)' = View'
    BY <2>1, <2>3, <2>4 DEF ScanResult, View, LookupOrder, MemCells
  <2> QED
    BY <2>1, <2>2, <2>5
<1>4. ~Get(r)
  BY <1>1, ControlTypes DEF Get, Goto, IInv
<1> QED
  BY ReaderSteps, <1>2, <1>3, <1>4 DEF ReadersStep

-----------------------------------------------------------------------------
(* The invariant is inductive.                                             *)

\* Every step preserves the invariant: each part by its own lemma above.
LEMMA SInvStep ==
  ASSUME IInv, SInv, [Next]_vars
  PROVE  SInv'
<1>1. Restarted' /\ SegmentOrder' /\ Reclaiming' /\ SnapBounds'
  BY RestartedStep, SegmentOrderStep, ReclaimingStep, SnapBoundsStep DEF SInv
<1>2. Sizes'
  BY SizesStep DEF SInv
<1>3. (NoWindow => Newest /\ Installed /\ Merging)'
  BY NewestStep, MergingStep, InstalledStep DEF SInv
<1>4. (Undisturbed => LiveView /\ GetLinearizable /\ ScanSnapshotExact)'
  BY LiveViewStep, GetStep, ScanStep
<1>5. (Clean => DiskRight)'
  BY LoggedStep, FilesRightStep, DownExactStep DEF DiskRight
<1> QED
  BY <1>1, <1>2, <1>3, <1>4, <1>5 DEF SInv

\* A new database meets it.
LEMMA InitSInv == Init => SInv
<1> SUFFICES ASSUME Init PROVE SInv
  OBVIOUS
<1> USE ThreadAssumption DEF Threads, Nil
<1>1. /\ segments = [s \in {1} |-> EmptyBuffer] /\ DOMAIN segments = {1}
      /\ DOMAIN files = {} /\ up /\ mutable = 1 /\ immutable = 0
      /\ memtables = [m \in {1} |-> EmptyBuffer] /\ ~frozen
      /\ immutableWALSegment = 0 /\ segmentID = 1 /\ tables = {}
      /\ reclaim = {} /\ unlinked = {} /\ held[Compactor] = {}
      /\ store = EmptyLayer
      /\ \A p \in Threads : pc[p] = "idle" /\ resume[p] = "idle"
  BY DEF Init
<1>2. Restarted /\ SegmentOrder /\ SnapBounds /\ Newest /\ Installed /\ Merging
  BY <1>1 DEF Restarted, SegmentOrder, Sealed, SnapBounds, Newest, Installed,
     Merging
<1>3. Sealed = {} /\ Active = {1}
  BY <1>1 DEF Sealed, Active
<1>4. Reclaiming
  BY <1>3 DEF Reclaiming
<1>5. \A k \in Key : EmptyLayer[k] = Absent
  BY DEF EmptyLayer
<1>6. EmptyBuffer.cells = EmptyLayer
  BY DEF EmptyBuffer
<1>7. Sizes
  BY <1>1, <1>6 DEF Sizes
<1>8. Bounded({})
  BY DEF Bounded
<1>9. ASSUME NEW f, NEW k \in Key
      PROVE  Overlay(f, {})[k] = Absent
  <2>1. TopCell(f, {}, k, Overlay(f, {})[k])
    BY <1>8, OverlayTop
  <2> QED
    BY <2>1 DEF TopCell
<1>10. \A k \in Key :
         MemCells(mutable)[k] = Absent /\ MemCells(immutable)[k] = Absent
  BY <1>1, <1>5, <1>6 DEF MemCells
<1>11. \A k \in Key : View[k] = Absent
  <2> TAKE k \in Key
  <2>1. Overlay(FileCells, tables)[k] = Absent
    BY <1>1, <1>9
  <2> QED
    BY <2>1, <1>10, ViewCells, CellAssumption DEF StoreValue
<1>12. LiveView
  BY <1>1, <1>5, <1>11 DEF LiveView, View, LookupOrder, Visible, EmptyLayer
<1>13. GetLinearizable /\ ScanSnapshotExact
  BY <1>1 DEF GetLinearizable, ScanSnapshotExact
<1>14. \A k \in Key : ActiveCells[k] = Absent /\ SealedCells[k] = Absent
  <2> TAKE k \in Key
  <2>1. SealedCells[k] = Absent
    BY <1>3, <1>9 DEF SealedCells
  <2>2. PICK f : f = SegmentCells
    OBVIOUS
  <2>3. Overlay(f, {1})[k] = f[1][k]
    BY OverlayOne
  <2>4. f[1] = EmptyLayer
    BY <2>2, <1>1, <1>6 DEF SegmentCells
  <2> QED
    BY <2>1, <2>2, <2>3, <2>4, <1>3, <1>5 DEF ActiveCells
<1>15. /\ ReclaimOldest /\ MutableLogged /\ ImmutableLogged /\ SealedRight
       /\ DownExact
  BY <1>1, <1>10, <1>14 DEF ReclaimOldest, MutableLogged, ImmutableLogged,
     SealedRight, DownExact
<1>16. ExtraFiles /\ FlushedFile
  BY <1>1 DEF ExtraFiles, FlushedFile, Complete
<1> QED
  BY <1>2, <1>4, <1>7, <1>12, <1>13, <1>15, <1>16 DEF SInv, DiskRight

\* The invariant holds in every state the engine can reach.
THEOREM StoreInductive == Spec => [](IInv /\ SInv)
<1>1. Init => IInv /\ SInv
  BY InitIInv, InitSInv
<1>2. IInv /\ SInv /\ [Next]_vars => (IInv /\ SInv)'
  BY IInvStep, SInvStep
<1> QED
  BY <1>1, <1>2, PTL DEF Spec

-----------------------------------------------------------------------------
(* What the engine promises.                                               *)

\* Get finds the last acknowledged write of every key at every instant: over any
\* number of crashes and restarts before the first compaction, and under any
\* number of compactions before the first restart.
THEOREM ReadsRight == Spec => [](Undisturbed => LiveView)
<1>1. IInv /\ SInv => (Undisturbed => LiveView)
  BY DEF SInv
<1> QED
  BY <1>1, StoreInductive, PTL

\* The disk alone holds every write that took effect, whatever step of a write,
\* a freeze, a flush or a removal of WAL segments the process stops at.
THEOREM CrashSafe == Spec => [](Clean => Durable)
<1>1. IInv /\ SInv => (Clean => Durable)
  BY DurableNow DEF SInv, Undisturbed
<1> QED
  BY <1>1, StoreInductive, PTL

\* A Get returns a value that its key had between the call and its return,
\* although it reads what it captured after releasing the lock.
THEOREM GetsLinearizable == Spec => [](Undisturbed => GetLinearizable)
<1>1. IInv /\ SInv => (Undisturbed => GetLinearizable)
  BY DEF SInv
<1> QED
  BY <1>1, StoreInductive, PTL

\* An open iterator shows the store of its snapshot, whatever is written,
\* flushed or compacted meanwhile, under the same conditions.
THEOREM ScansExact == Spec => [](Undisturbed => ScanSnapshotExact)
<1>1. IInv /\ SInv => (Undisturbed => ScanSnapshotExact)
  BY DEF SInv
<1> QED
  BY <1>1, StoreInductive, PTL

\* Once everything is flushed and every call has returned, no segment older than
\* the last freeze is left, whichever thread flushed for whom.
THEOREM WALBounded == Spec => []WALReclaimed
<1>1. IInv /\ SInv => WALReclaimed
  <2> SUFFICES ASSUME IInv, SegmentOrder, Reclaiming, up, immutable = Nil,
                      \A p \in Threads : pc[p] \in {"idle", "scan"},
                      count["removeErrors"] = 0,
                      NEW s \in DOMAIN segments
               PROVE  s > immutableWALSegment
    BY DEF WALReclaimed, SInv
  <2>1. flushMu = NoThread
    BY DEF IInv, Flushes, TypeOK, CallTypes
  <2>2. Sealed = {}
    BY <2>1 DEF Reclaiming, SegmentOrder
  <2> QED
    BY <2>2, LogTypes DEF Sealed
<1> QED
  BY <1>1, StoreInductive, PTL

\* A frozen memtable leaves its slot only when the table with its entries is in
\* the list, and no Get can tell the difference.
THEOREM DroppedFlushed == Spec /\ []NoWindow => DroppedOnlyWhenFlushed
<1> DEFINE Dropped ==
      up' /\ immutable # Nil /\ immutable' # immutable =>
        immutable' = Nil /\ View' = View
<1>1. ASSUME IInv, SInv, NoWindow, [Next]_vars
      PROVE  [Dropped]_vars
  <2> SUFFICES ASSUME up', immutable # Nil, immutable' # immutable
               PROVE  immutable' = Nil /\ View' = View
    OBVIOUS
  <2>1. PICK p \in Writers \cup Readers : FlushClear(p)
    <3>1. ~Passive /\ ~Freezes /\ ~FreezeStops /\ ~Pads
      BY DEF Passive, data, Freezes, FreezeStops, Pads
    <3>2. \A k \in Key, e \in Entry : ~Applies(k, e) /\ ~Logs(k, e)
      BY DEF Applies, Logs
    <3>3. \A p \in Readers \cup {Compactor} : ~Release(p)
      BY DEF Release, memory
    <3>4. ~Compacting
      BY DEF Compacting, CompactBegin, CompactTarget, CompactMerge,
         CompactReplace, CompactFails, memory
    <3>5. ~LoseMemory
      BY DEF LoseMemory
    <3>6. ~Restart
      BY DEF Restart
    <3>7. PICK p \in Writers \cup Readers : Flushing(p)
      BY <1>1, <3>1, <3>2, <3>3, <3>4, <3>5, <3>6, StepKinds DEF StepKind
    <3> QED
      BY <3>7 DEF Flushing, FlushBegin, FlushWrite, FlushInstall, FlushReclaim,
         FlushWriteFails, memory
  <2>2. p \in Threads /\ pc[p] = "clear" /\ immutable = want[p]
    BY <1>1, <2>1 DEF FlushClear, Threads, IInv, Flushes
  <2>3. immutable' = Nil
    BY <2>1, <2>2 DEF FlushClear
  <2>4. \A k \in Key : MemCells(immutable)[k] # Absent =>
            StoreValue(Overlay(FileCells, tables)[k])
              = StoreValue(MemCells(immutable)[k])
    BY <1>1, <2>2 DEF SInv, Installed
  <2>5. /\ mutable' = mutable /\ memtables' = memtables
        /\ files' = files /\ tables' = tables
    BY <2>1 DEF FlushClear, disk, list
  <2>6. /\ MemCells(mutable)' = MemCells(mutable)
        /\ MemCells(immutable)' = EmptyLayer
        /\ Overlay(FileCells, tables)' = Overlay(FileCells, tables)
    BY <2>3, <2>5 DEF MemCells, FileCells
  <2>7. ASSUME NEW k \in Key PROVE View'[k] = View[k]
    <3>1. EmptyLayer[k] = Absent
      BY DEF EmptyLayer
    <3> QED
      BY <3>1, <2>4, <2>6, ViewCells
  <2>8. View' = [k \in Key |-> View'[k]] /\ View = [k \in Key |-> View[k]]
    BY DEF View, LookupOrder, Visible
  <2> QED
    BY <2>3, <2>7, <2>8
<1> QED
  BY <1>1, StoreInductive, PTL DEF Spec, DroppedOnlyWhenFlushed

-----------------------------------------------------------------------------
(* The engine implements KVStore.                                          *)

\* Only a call of Insert or Delete that has not returned has a record to write.
OneWrite ==
    \A p \in Threads : op[p] # << >> =>
        pc[p] \in {"prepare", "flush", "write", "install", "clear", "reclaim"}

\* What the steps do for the clients.
Invokes(p) ==
    /\ op[p] = << >>
    /\ \E k \in Key, e \in Entry : op' = [op EXCEPT ![p] = <<k, e>>]
    /\ UNCHANGED history

Serves(p) ==
    /\ op[p] \in Key \X Entry
    /\ store' = [store EXCEPT ![op[p][1]] = StoreValue(op[p][2])]
    /\ doubt' = [doubt EXCEPT ![op[p][1]] = {}]
    /\ op' = [op EXCEPT ![p] = << >>]

FailsInDoubt(p) ==
    /\ op[p] \in Key \X Entry
    /\ doubt' = [doubt EXCEPT ![op[p][1]] = {StoreValue(op[p][2])}]
    /\ op' = [op EXCEPT ![p] = << >>]
    /\ UNCHANGED store

Fails(p) == op' = [op EXCEPT ![p] = << >>] /\ UNCHANGED history

ClientStep ==
    \/ UNCHANGED <<op, store, doubt>>
    \/ \E p \in Threads :
         Invokes(p) \/ Serves(p) \/ FailsInDoubt(p) \/ Fails(p)
    \/ LoseMemory

\* A call gets its record when it is made and drops it when it returns.
LEMMA OneWriteStep ==
  ASSUME IInv, OneWrite, [Next]_vars
  PROVE  OneWrite'
<1> USE ThreadAssumption, ControlTypes DEF IInv, Calls, Down, Threads, Nil,
        Compacts, disk, memory, list, locks, calls, flushing, reading,
        history, Goto, Counted, OneWrite, TypeOK, CallTypes
<1>1. ASSUME NEW p \in Writers, NEW k \in Key, NEW e \in Entry, Call(p, k, e)
      PROVE  OneWrite'
  BY <1>1 DEF Call
<1>2. ASSUME NEW p \in Writers, PrepareWait(p) PROVE OneWrite'
  BY <1>2 DEF PrepareWait, CallFlush
<1>3. ASSUME NEW p \in Writers, PrepareFreeze(p) PROVE OneWrite'
  BY <1>3 DEF PrepareFreeze, FreezeMutableLocked
<1>4. ASSUME NEW p \in Writers, Append(p) PROVE OneWrite'
  BY <1>4 DEF Append, CallFlush, WriteRecord, ObserveStore, StoreValue
<1>5. ASSUME NEW p \in Writers, PrepareFails(p) PROVE OneWrite'
  BY <1>5 DEF PrepareFails, FreezeFails, WriteError
<1>6. ASSUME NEW p \in Writers, AppendInDoubt(p) PROVE OneWrite'
  BY <1>6 DEF AppendInDoubt, WriteError, WriteRecord
<1>7. ASSUME NEW p \in Writers, AppendFails(p) PROVE OneWrite'
  BY <1>7 DEF AppendFails, WriteError
<1>8. ASSUME NEW p \in Writers, Flush(p) PROVE OneWrite'
  BY <1>8 DEF Flush, FlushLocked, FlushFreezeFails, FreezeMutableLocked,
     FreezeFails, CallFlush
<1>9. ASSUME NEW p \in Writers, Close(p) PROVE OneWrite'
  BY <1>9 DEF Close, FlushLocked, FlushFreezeFails, FreezeMutableLocked,
     FreezeFails, CallFlush
<1>10. ASSUME NEW p \in Writers \cup Readers, FlushStale(p) PROVE OneWrite'
  BY <1>10 DEF FlushStale, FlushEnter, ReturnFromFlush
<1>11. ASSUME NEW p \in Writers \cup Readers, FlushBegin(p) PROVE OneWrite'
  BY <1>11 DEF FlushBegin, FlushEnter
<1>12. ASSUME NEW p \in Writers \cup Readers, FlushWrite(p) PROVE OneWrite'
  BY <1>12 DEF FlushWrite
<1>13. ASSUME NEW p \in Writers \cup Readers, FlushInstall(p) PROVE OneWrite'
  BY <1>13 DEF FlushInstall
<1>14. ASSUME NEW p \in Writers \cup Readers, FlushClear(p) PROVE OneWrite'
  BY <1>14 DEF FlushClear, SegmentsUpTo
<1>15. ASSUME NEW p \in Writers \cup Readers, FlushReclaim(p) PROVE OneWrite'
  BY <1>15 DEF FlushReclaim
<1>16. ASSUME NEW p \in Writers \cup Readers, FlushReturn(p) PROVE OneWrite'
  BY <1>16 DEF FlushReturn, ReturnFromFlush, EndFlush
<1>17. ASSUME NEW p \in Writers \cup Readers, FlushWriteFails(p)
      PROVE  OneWrite'
  BY <1>17 DEF FlushWriteFails, ReturnFromFlush, EndFlush
<1>18. ASSUME NEW p \in Writers \cup Readers, FlushOpenFails(p) PROVE OneWrite'
  BY <1>18 DEF FlushOpenFails, ReturnFromFlush, EndFlush
<1>19. ASSUME NEW p \in Writers \cup Readers, FlushReclaimFails(p)
      PROVE  OneWrite'
  BY <1>19 DEF FlushReclaimFails
<1>20. ASSUME NEW r \in Readers, Get(r) PROVE OneWrite'
  BY <1>20 DEF Get, GetTables
<1>21. ASSUME NEW r \in Readers, GetLookup(r) PROVE OneWrite'
  BY <1>21 DEF GetLookup, Forget
<1>22. ASSUME NEW r \in Readers, Scan(r) PROVE OneWrite'
  BY <1>22 DEF Scan
<1>23. ASSUME NEW r \in Readers, SnapshotWait(r) PROVE OneWrite'
  BY <1>23 DEF SnapshotWait, CallFlush
<1>24. ASSUME NEW r \in Readers, SnapshotForScan(r) PROVE OneWrite'
  BY <1>24 DEF SnapshotForScan, FreezeMutableLocked, GetTables
<1>25. ASSUME NEW r \in Readers, SnapshotFails(r) PROVE OneWrite'
  BY <1>25 DEF SnapshotFails, FreezeFails
<1>26. ASSUME NEW r \in Readers, ScanClose(r) PROVE OneWrite'
  BY <1>26 DEF ScanClose, Forget
<1>27. ASSUME NEW p \in Readers \cup {Compactor}, Release(p) PROVE OneWrite'
  BY <1>27 DEF Release, LastHolder
<1>28. ASSUME NEW p \in Readers \cup {Compactor}, ReleaseDone(p)
      PROVE  OneWrite'
  BY <1>28 DEF ReleaseDone
<1>29. ASSUME CompactBegin PROVE OneWrite'
  BY <1>29 DEF CompactBegin, GetTables
<1>30. ASSUME CompactTarget PROVE OneWrite'
  BY <1>30 DEF CompactTarget
<1>31. ASSUME CompactMerge PROVE OneWrite'
  BY <1>31 DEF CompactMerge
<1>32. ASSUME CompactReplace PROVE OneWrite'
  BY <1>32 DEF CompactReplace
<1>33. ASSUME CompactFails PROVE OneWrite'
  BY <1>33 DEF CompactFails
<1>34. ASSUME NEW p \in Writers, CloseFinish(p) PROVE OneWrite'
  BY <1>34 DEF CloseFinish, LoseMemory
<1>35. ASSUME Crash PROVE OneWrite'
  BY <1>35 DEF Crash, LoseMemory
<1>36. ASSUME Restart PROVE OneWrite'
  BY <1>36 DEF Restart
<1>37. CASE UNCHANGED vars
  BY <1>37 DEF vars
<1> QED
  BY <1>1, <1>2, <1>3, <1>4, <1>5, <1>6, <1>7, <1>8, <1>9, <1>10, <1>11,
     <1>12, <1>13, <1>14, <1>15, <1>16, <1>17, <1>18, <1>19, <1>20, <1>21,
     <1>22, <1>23, <1>24, <1>25, <1>26, <1>27, <1>28, <1>29, <1>30, <1>31,
     <1>32, <1>33, <1>34, <1>35, <1>36, <1>37
     DEF Next, Writer, Reader, Compaction, Insert, Delete, WriteSteps,
         WriteErrors, FlushSteps, FlushErrors, ReadSteps, ReleaseSteps,
         CompactSteps, RestartFails, Quiet, Entry

\* Every step does one of these for the clients.
LEMMA ClientSteps ==
  ASSUME IInv, OneWrite, [Next]_vars
  PROVE  ClientStep
<1> USE ThreadAssumption, ControlTypes DEF IInv, Calls, Down, Threads, Nil,
        Compacts, disk, memory, list, locks, calls, flushing, reading,
        history, Goto, Counted
<1>0. \A p \in Threads : pc[p] = "idle" => op[p] = << >>
  BY DEF OneWrite
<1>1. ASSUME NEW p \in Writers, NEW k \in Key, NEW e \in Entry, Call(p, k, e)
      PROVE  ClientStep
  <2>1. Invokes(p)
    BY <1>1, <1>0 DEF Call, Invokes
  <2> QED
    BY <2>1 DEF ClientStep
<1>2. ASSUME NEW p \in Writers, PrepareWait(p) PROVE ClientStep
  BY <1>2 DEF PrepareWait, CallFlush, ClientStep
<1>3. ASSUME NEW p \in Writers, PrepareFreeze(p) PROVE ClientStep
  BY <1>3 DEF PrepareFreeze, FreezeMutableLocked, ClientStep
<1>4. ASSUME NEW p \in Writers, Append(p) PROVE ClientStep
  <2>1. Serves(p)
    BY <1>4 DEF Append, Serves
  <2> QED
    BY <2>1 DEF ClientStep
<1>5. ASSUME NEW p \in Writers, PrepareFails(p) PROVE ClientStep
  <2>1. Fails(p)
    BY <1>5 DEF PrepareFails, Fails, WriteError
  <2> QED
    BY <2>1 DEF ClientStep
<1>6. ASSUME NEW p \in Writers, AppendInDoubt(p) PROVE ClientStep
  <2>1. FailsInDoubt(p)
    BY <1>6 DEF AppendInDoubt, FailsInDoubt, WriteError
  <2> QED
    BY <2>1 DEF ClientStep
<1>7. ASSUME NEW p \in Writers, AppendFails(p) PROVE ClientStep
  <2>1. Fails(p)
    BY <1>7 DEF AppendFails, Fails, WriteError
  <2> QED
    BY <2>1 DEF ClientStep
<1>8. ASSUME NEW p \in Writers, Flush(p) PROVE ClientStep
  BY <1>8 DEF Flush, FlushLocked, FlushFreezeFails, FreezeMutableLocked,
     FreezeFails, CallFlush, ClientStep
<1>9. ASSUME NEW p \in Writers, Close(p) PROVE ClientStep
  BY <1>9 DEF Close, FlushLocked, FlushFreezeFails, FreezeMutableLocked,
     FreezeFails, CallFlush, ClientStep
<1>10. ASSUME NEW p \in Writers \cup Readers, FlushStale(p) PROVE ClientStep
  <2>1. op' = op \/ op' = [op EXCEPT ![p] = << >>]
    BY <1>10 DEF FlushStale, FlushEnter, ReturnFromFlush, TypeOK, CallTypes
  <2> QED
    BY <1>10, <2>1 DEF FlushStale, ClientStep, Fails
<1>11. ASSUME NEW p \in Writers \cup Readers, FlushBegin(p) PROVE ClientStep
  BY <1>11 DEF FlushBegin, FlushEnter, ClientStep
<1>12. ASSUME NEW p \in Writers \cup Readers, FlushWrite(p) PROVE ClientStep
  BY <1>12 DEF FlushWrite, ClientStep
<1>13. ASSUME NEW p \in Writers \cup Readers, FlushInstall(p) PROVE ClientStep
  BY <1>13 DEF FlushInstall, ClientStep
<1>14. ASSUME NEW p \in Writers \cup Readers, FlushClear(p) PROVE ClientStep
  BY <1>14 DEF FlushClear, SegmentsUpTo, ClientStep
<1>15. ASSUME NEW p \in Writers \cup Readers, FlushReclaim(p) PROVE ClientStep
  BY <1>15 DEF FlushReclaim, ClientStep
<1>16. ASSUME NEW p \in Writers \cup Readers, FlushReturn(p) PROVE ClientStep
  <2>1. op' = op \/ op' = [op EXCEPT ![p] = << >>]
    BY <1>16 DEF FlushReturn, ReturnFromFlush, EndFlush, TypeOK, CallTypes
  <2> QED
    BY <1>16, <2>1 DEF FlushReturn, ClientStep, Fails
<1>17. ASSUME NEW p \in Writers \cup Readers, FlushWriteFails(p)
      PROVE  ClientStep
  <2>1. op' = op \/ op' = [op EXCEPT ![p] = << >>]
    BY <1>17 DEF FlushWriteFails, ReturnFromFlush, EndFlush, TypeOK, CallTypes
  <2> QED
    BY <1>17, <2>1 DEF FlushWriteFails, ClientStep, Fails
<1>18. ASSUME NEW p \in Writers \cup Readers, FlushOpenFails(p)
      PROVE  ClientStep
  <2>1. op' = op \/ op' = [op EXCEPT ![p] = << >>]
    BY <1>18 DEF FlushOpenFails, ReturnFromFlush, EndFlush, TypeOK, CallTypes
  <2> QED
    BY <1>18, <2>1 DEF FlushOpenFails, ClientStep, Fails
<1>19. ASSUME NEW p \in Writers \cup Readers, FlushReclaimFails(p)
      PROVE  ClientStep
  BY <1>19 DEF FlushReclaimFails, ClientStep
<1>20. ASSUME NEW r \in Readers, Get(r) PROVE ClientStep
  BY <1>20 DEF Get, GetTables, ClientStep
<1>21. ASSUME NEW r \in Readers, GetLookup(r) PROVE ClientStep
  BY <1>21 DEF GetLookup, Forget, ClientStep
<1>22. ASSUME NEW r \in Readers, Scan(r) PROVE ClientStep
  BY <1>22 DEF Scan, ClientStep
<1>23. ASSUME NEW r \in Readers, SnapshotWait(r) PROVE ClientStep
  BY <1>23 DEF SnapshotWait, CallFlush, ClientStep
<1>24. ASSUME NEW r \in Readers, SnapshotForScan(r) PROVE ClientStep
  BY <1>24 DEF SnapshotForScan, FreezeMutableLocked, GetTables, ClientStep
<1>25. ASSUME NEW r \in Readers, SnapshotFails(r) PROVE ClientStep
  BY <1>25 DEF SnapshotFails, FreezeFails, ClientStep
<1>26. ASSUME NEW r \in Readers, ScanClose(r) PROVE ClientStep
  BY <1>26 DEF ScanClose, Forget, ClientStep
<1>27. ASSUME NEW p \in Readers \cup {Compactor}, Release(p) PROVE ClientStep
  BY <1>27 DEF Release, LastHolder, ClientStep
<1>28. ASSUME NEW p \in Readers \cup {Compactor}, ReleaseDone(p)
      PROVE  ClientStep
  BY <1>28 DEF ReleaseDone, ClientStep
<1>29. ASSUME CompactBegin PROVE ClientStep
  BY <1>29 DEF CompactBegin, GetTables, ClientStep
<1>30. ASSUME CompactTarget PROVE ClientStep
  BY <1>30 DEF CompactTarget, ClientStep
<1>31. ASSUME CompactMerge PROVE ClientStep
  BY <1>31 DEF CompactMerge, ClientStep
<1>32. ASSUME CompactReplace PROVE ClientStep
  BY <1>32 DEF CompactReplace, ClientStep
<1>33. ASSUME CompactFails PROVE ClientStep
  BY <1>33 DEF CompactFails, ClientStep
<1>34. ASSUME NEW p \in Writers, CloseFinish(p) PROVE ClientStep
  BY <1>34 DEF CloseFinish, ClientStep
<1>35. ASSUME Crash PROVE ClientStep
  BY <1>35 DEF Crash, ClientStep
<1>36. ASSUME Restart PROVE ClientStep
  BY <1>36 DEF Restart, ClientStep
<1>37. CASE UNCHANGED vars
  BY <1>37 DEF vars, ClientStep
<1> QED
  BY <1>1, <1>2, <1>3, <1>4, <1>5, <1>6, <1>7, <1>8, <1>9, <1>10, <1>11,
     <1>12, <1>13, <1>14, <1>15, <1>16, <1>17, <1>18, <1>19, <1>20, <1>21,
     <1>22, <1>23, <1>24, <1>25, <1>26, <1>27, <1>28, <1>29, <1>30, <1>31,
     <1>32, <1>33, <1>34, <1>35, <1>36, <1>37
     DEF Next, Writer, Reader, Compaction, Insert, Delete, WriteSteps,
         WriteErrors, FlushSteps, FlushErrors, ReadSteps, ReleaseSteps,
         CompactSteps, RestartFails, Quiet, Entry

\* The abstract store is the history's, the abstract calls those with a record.
Mapped == (IF up THEN View ELSE Recovered) = store

Pending ==
    [p \in Threads |->
       IF op[p] = << >> THEN << >> ELSE <<op[p][1], StoreValue(op[p][2])>>]

\* An entry's meaning for the store is a value or none.
LEMMA StoreValueType ==
  ASSUME NEW e \in Entry
  PROVE  StoreValue(e) \in Value \cup {Absent}
BY DEF StoreValue, Entry

\* The abstract calls change with the record of the call concerned.
LEMMA PendingStep ==
  ASSUME IInv, NEW p \in Threads, NEW x, op' = [op EXCEPT ![p] = x]
  PROVE  Pending' = [Pending EXCEPT ![p] =
                       IF x = << >> THEN << >> ELSE <<x[1], StoreValue(x[2])>>]
<1>1. op \in [Threads -> (Key \X Entry) \cup {<< >>}]
  BY DEF IInv, TypeOK, CallTypes
<1>2. /\ op'[p] = x
      /\ \A q \in Threads : q # p => op'[q] = op[q]
  BY <1>1
<1> QED
  BY <1>1, <1>2 DEF Pending

\* Every step of the engine is a step of KVStore, or changes nothing there.
LEMMA KVStep ==
  ASSUME IInv, OneWrite, Mapped, Mapped', [Next]_vars
  PROVE  [KV!Next]_(KV!vars)
<1> DEFINE now == IF up THEN View ELSE Recovered
<1>1. now = store /\ now' = store'
  BY DEF Mapped
<1>2. op \in [Threads -> (Key \X Entry) \cup {<< >>}]
  BY DEF IInv, TypeOK, CallTypes
<1>3. CASE UNCHANGED <<op, store, doubt>>
  <2>1. Pending' = Pending
    BY <1>3 DEF Pending
  <2>2. UNCHANGED <<now, Pending, doubt>>
    BY <1>1, <1>3, <2>1
  <2> QED
    BY <2>2 DEF KV!vars, Pending
<1>4. ASSUME NEW p \in Threads, Invokes(p)
      PROVE  KV!Next
  <2>1. PICK k \in Key, e \in Entry : op' = [op EXCEPT ![p] = <<k, e>>]
    BY <1>4 DEF Invokes
  <2>2. Pending[p] = << >>
    BY <1>4 DEF Invokes, Pending
  <2>3. Pending' = [Pending EXCEPT ![p] = <<k, StoreValue(e)>>]
    BY <2>1, PendingStep
  <2>4. now' = now /\ doubt' = doubt
    BY <1>1, <1>4 DEF Invokes, history
  <2>5. KV!Invoke(p)
    BY <2>2, <2>3, <2>4, StoreValueType DEF KV!Invoke, Pending
  <2> QED
    BY <2>5 DEF KV!Next
<1>5. ASSUME NEW p \in Threads, Serves(p)
      PROVE  KV!Next
  <2>1. op[p] # << >>
    BY <1>5 DEF Serves
  <2>2. Pending[p] = <<op[p][1], StoreValue(op[p][2])>> /\ Pending[p] # << >>
    BY <2>1 DEF Pending
  <2>3. Pending' = [Pending EXCEPT ![p] = << >>]
    BY <1>5, PendingStep DEF Serves
  <2>4. /\ now' = [now EXCEPT ![Pending[p][1]] = Pending[p][2]]
        /\ doubt' = [doubt EXCEPT ![Pending[p][1]] = {}]
    <3>1. Pending[p][1] = op[p][1] /\ Pending[p][2] = StoreValue(op[p][2])
      BY <2>2
    <3>2. store' = [store EXCEPT ![Pending[p][1]] = Pending[p][2]]
      BY <1>5, <3>1 DEF Serves
    <3>3. doubt' = [doubt EXCEPT ![Pending[p][1]] = {}]
      BY <1>5, <3>1 DEF Serves
    <3> HIDE DEF now
    <3> QED
      BY <1>1, <3>2, <3>3
  <2>5. KV!TakeEffect(p)
    BY <2>2, <2>3, <2>4 DEF KV!TakeEffect, Pending
  <2> QED
    BY <2>5 DEF KV!Next
<1>6. ASSUME NEW p \in Threads, FailsInDoubt(p)
      PROVE  KV!Next
  <2>1. op[p] # << >>
    BY <1>6 DEF FailsInDoubt
  <2>2. Pending[p] = <<op[p][1], StoreValue(op[p][2])>> /\ Pending[p] # << >>
    BY <2>1 DEF Pending
  <2>3. Pending' = [Pending EXCEPT ![p] = << >>]
    BY <1>6, PendingStep DEF FailsInDoubt
  <2>4. /\ now' = now
        /\ doubt' = [doubt EXCEPT ![Pending[p][1]] = {Pending[p][2]}]
    BY <1>1, <1>6, <2>2 DEF FailsInDoubt
  <2>5. KV!InDoubt(p)
    BY <2>2, <2>3, <2>4 DEF KV!InDoubt, Pending
  <2> QED
    BY <2>5 DEF KV!Next
<1>7. ASSUME NEW p \in Threads, Fails(p)
      PROVE  KV!Next
  <2>1. Pending' = [Pending EXCEPT ![p] = << >>]
    BY <1>7, PendingStep DEF Fails
  <2>2. now' = now /\ doubt' = doubt
    BY <1>1, <1>7 DEF Fails, history
  <2>3. KV!Fail(p)
    BY <2>1, <2>2 DEF KV!Fail, Pending
  <2> QED
    BY <2>3 DEF KV!Next
<1>8. CASE LoseMemory
  <2>1. /\ op' = [p \in Threads |-> << >>]
        /\ store' = [k \in Key |-> IF Recovered[k] \in doubt[k]
                                     THEN Recovered[k] ELSE store[k]]
        /\ doubt' = [k \in Key |-> {}]
    BY <1>8 DEF LoseMemory
  <2>2. Pending' = [p \in Threads |-> << >>]
    BY <2>1 DEF Pending
  <2>3. /\ DOMAIN now' = Key
        /\ \A k \in Key : now'[k] \in {now[k]} \cup doubt[k]
    BY <1>1, <2>1
  <2>4. KV!Settle
    BY <2>1, <2>2, <2>3 DEF KV!Settle, Pending
  <2> QED
    BY <2>4 DEF KV!Next
<1> QED
  BY ClientSteps, <1>3, <1>4, <1>5, <1>6, <1>7, <1>8 DEF ClientStep

\* For as long as no compaction has been followed by a restart, no segment has
\* survived its removal and no flush has slipped into the window of a
\* compaction, the engine is one map that only Insert and Delete change, each
\* once and in one step; a call that failed may still take effect at a restart.
THEOREM ImplementsKV == Spec /\ []Undisturbed => KVSpec
<1>1. Init => KV!Init /\ OneWrite
  <2> SUFFICES ASSUME Init PROVE KV!Init /\ OneWrite
    OBVIOUS
  <2>1. SInv /\ Clean
    BY InitSInv DEF Init, Clean, Counters
  <2>2. up /\ store = EmptyLayer /\ op = [p \in Threads |-> << >>]
        /\ doubt = [k \in Key |-> {}]
    BY DEF Init
  <2>3. View = store
    BY <2>1, <2>2 DEF SInv, Undisturbed, LiveView
  <2>4. KV!Init
    BY <2>2, <2>3 DEF KV!Init, EmptyLayer
  <2> QED
    BY <2>2, <2>4 DEF OneWrite
<1>2. IInv /\ SInv /\ Undisturbed => Mapped
  BY DEF SInv, Undisturbed, Running, Restarted, DiskRight, DownExact, LiveView,
     Mapped
<1>3. IInv /\ OneWrite /\ [Next]_vars => OneWrite'
  BY OneWriteStep
<1>4. IInv /\ OneWrite /\ Mapped /\ Mapped' /\ [Next]_vars
        => [KV!Next]_(KV!vars)
  BY KVStep
<1> QED
  BY <1>1, <1>2, <1>3, <1>4, StoreInductive, PTL DEF Spec, KVSpec, KV!Spec

=============================================================================
