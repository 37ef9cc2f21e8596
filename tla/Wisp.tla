-------------------------------- MODULE Wisp --------------------------------
(***************************************************************************)
(* The Wisp engine (wisp.go) with the parts of the WAL, the SSTable list   *)
(* and the compactor that it drives: concurrent Insert, Delete, Get, Scan, *)
(* Flush, Compact and Close calls, a crash at any step, and recovery.      *)
(*                                                                         *)
(* Granularity.  A critical section of w.mu is one step, except that the   *)
(* lock is held from freezing a full memtable to appending the record that *)
(* found it full.  Everything flushImmutable and CompactAll do between two *)
(* lock regions, or between two changes of the disk, is a step of its own. *)
(* A read of a frozen memtable or of a pinned SSTable never changes, so a  *)
(* call's lookups there take place in one step.                            *)
(*                                                                         *)
(* Sizes count records: one unit per Insert or Delete, in the memtable and *)
(* in a WAL segment alike.                                                 *)
(***************************************************************************)
EXTENDS Layers

CONSTANTS
    Writers,             \* goroutines that call Insert, Delete, Flush, Close
    Readers,             \* goroutines that call Get and Scan
    Compactor,           \* the goroutine that calls Compact
    NoThread,            \* holder of a free lock
    FlushThreshold,      \* MemTableFlushThreshold
    MaxSegmentSize,      \* WALMaxSegmentSize
    FlushInCompactWindow,\* FALSE: no flush holds an uninstalled generation
                         \* between Compact's GetTables and its NextGen
    MaxWrites,           \* bounds: Insert and Delete calls,
    MaxFlushes,          \*   Flush calls,
    MaxReads,            \*   Get and Scan calls,
    MaxCompactions,      \*   Compact calls,
    MaxRestarts,         \*   crashes and Close calls,
    MaxIOErrors,         \*   failing writes and opens of an SSTable,
    MaxRemoveErrors,     \*   failing removals of a WAL segment,
    MaxWALErrors         \*   failing calls of AppendRecord and Rotate

ASSUME ConfigAssumption ==
    /\ FlushThreshold \in Nat \ {0}
    /\ MaxSegmentSize \in Nat \ {0}
    /\ FlushInCompactWindow \in BOOLEAN

ASSUME ThreadAssumption ==
    /\ Writers \cap Readers = {}
    /\ Compactor \notin Writers \cup Readers
    /\ NoThread \notin Writers \cup Readers \cup {Compactor}

Threads == Writers \cup Readers \cup {Compactor}

Nil == 0        \* the nil memtable pointer; memtables are numbered from 1

VARIABLES
    \* The disk.
    segments,            \* WAL segment id -> its records
    files,               \* SSTable generation -> the file's state
    \* The engine in memory.
    up,                  \* the process runs with the database open
    mutable,             \* w.mutableMemTable
    immutable,           \* w.immutableMemTable
    memtables,           \* memtable pointer -> contents
    frozen,              \* the mutable memtable refuses to be written
    immutableWALSegment, \* w.immutableWALSegment
    wal,                 \* the WAL's file: "open", "nil" (a rotation could not
                         \* open one) or "broken" (closed by a failing Close)
    segmentID,           \* the WAL's active segment
    tables,              \* generations in the SSTableList
    nextGen,             \* SSTableList.nextGen
    unlinked,            \* generations replaced by a compaction
    \* Locks.
    mu,                  \* the holder of w.mu across steps, if any
    flushMu,             \* the holder of w.flushMu
    \* Control and local variables of the calls in progress.
    pc,
    op,                  \* the record an Insert or Delete is to write
    want,                \* flushImmutable's argument
    resume,              \* what the caller of flushImmutable does next
    flushGen,            \* nextGen in flushImmutable (owner: flushMu's holder)
    flushSegment,        \* sealedSegment in flushImmutable
    reclaim,             \* segments RemoveSegmentsUpTo has yet to remove
    compactGen,          \* targetGen in CompactAll
    snap,                \* memtables a Get or Scan captured
    held,                \* SSTables a call has pinned with GetTables
    \* History.
    store,               \* what the Inserts and Deletes so far add up to
    doubt,               \* per key, the write that failed after its record had
                         \* reached the WAL, if it is the last one
    walErrors,           \* failing calls of AppendRecord and Rotate so far
    seen,                \* the stores during a Get, or at a Scan's snapshot
    count                \* calls made so far, per bound

disk == <<segments, files>>
memory == <<mutable, immutable, memtables, frozen, immutableWALSegment, wal,
            segmentID, walErrors>>
list == <<tables, nextGen, unlinked>>
locks == <<mu, flushMu>>
calls == <<pc, op, want, resume>>
flushing == <<flushGen, flushSegment, reclaim>>
reading == <<snap, held, seen>>
history == <<store, doubt>>
vars == <<disk, up, memory, list, locks, calls, flushing, compactGen, reading,
          history, count>>

-----------------------------------------------------------------------------
(* State functions.                                                        *)

SSTFile == [complete : BOOLEAN, cells : Layer]

Counters == {"writes", "flushes", "reads", "compactions", "restarts", "errors",
             "removeErrors"}

ControlStates == {"idle", "prepare", "flush", "write", "install", "clear",
                  "reclaim", "close", "snapshot", "get", "scan", "release",
                  "target", "merge", "replace"}

MemCells(m) == IF m = Nil THEN EmptyLayer ELSE memtables[m].cells

FileCells == [g \in DOMAIN files |-> files[g].cells]

SegmentCells == [s \in DOMAIN segments |-> segments[s].cells]

\* A wrong variant of Replayed: only the segment that stays active.
ReplayedLast == Overlay(SegmentCells, {Max(DOMAIN segments)})

\* What Recover replays into the memtable: every segment, oldest first.
Replayed == Overlay(SegmentCells, DOMAIN segments)

\* The records it replays, each of which adds to the memtable's size.
RecordCount == MapThenSumSet(LAMBDA s : segments[s].size, DOMAIN segments)

IsFull(m) == memtables[m].size >= FlushThreshold

\* A wrong variant of LookupOrder: the frozen memtable before the mutable one.
LookupFrozenFirst(m, i, ts) ==
    Visible(Over(MemCells(i), Over(MemCells(m), Overlay(FileCells, ts))))

\* What the lookups of Get find: mutable memtable m first, then the immutable
\* memtable i, then the SSTables ts from the newest generation down.
LookupOrder(m, i, ts) ==
    Visible(Over(MemCells(m), Over(MemCells(i), Overlay(FileCells, ts))))

\* The map a Get running alone would read.
View == LookupOrder(mutable, immutable, tables)

\* Files a restart can open.
Complete == {g \in DOMAIN files : files[g].complete}

\* The map a Get would read after a restart from the present disk: the WAL
\* replayed into the memtable, on top of every SSTable that opens.
Recovered ==
    Visible(Over(Replayed, Overlay(FileCells, Complete)))

\* Load opens every file that has an SSTable name, and fails if one is torn.
CanOpen == Complete = DOMAIN files

Init ==
    /\ segments = [s \in {1} |-> EmptyBuffer]
    /\ files = [g \in {} |-> [complete |-> TRUE, cells |-> EmptyLayer]]
    /\ up = TRUE
    /\ mutable = 1
    /\ immutable = Nil
    /\ memtables = [m \in {1} |-> EmptyBuffer]
    /\ frozen = FALSE
    /\ immutableWALSegment = 0
    /\ wal = "open"
    /\ segmentID = 1
    /\ tables = {}
    /\ nextGen = 0
    /\ unlinked = {}
    /\ mu = NoThread
    /\ flushMu = NoThread
    /\ pc = [p \in Threads |-> "idle"]
    /\ op = [p \in Threads |-> << >>]
    /\ want = [p \in Threads |-> Nil]
    /\ resume = [p \in Threads |-> "idle"]
    /\ flushGen = 0
    /\ flushSegment = 0
    /\ reclaim = {}
    /\ compactGen = 0
    /\ snap = [p \in Threads |-> [mut |-> Nil, imm |-> Nil]]
    /\ held = [p \in Threads |-> {}]
    /\ store = EmptyLayer
    /\ doubt = [k \in Key |-> {}]
    /\ walErrors = 0
    /\ seen = [p \in Threads |-> {}]
    /\ count = [c \in Counters |-> 0]

\* The next call of kind c, within its bound b.
Counted(c, b) ==
    /\ count[c] < b
    /\ count' = [count EXCEPT ![c] = @ + 1]

\* AppendRecord or Rotate fails.
CountWALError ==
    /\ walErrors < MaxWALErrors
    /\ walErrors' = walErrors + 1

Goto(p, l) == pc' = [pc EXCEPT ![p] = l]

\* p calls flushImmutable(m) and goes on at l when it returns nil.
CallFlush(p, m, l) ==
    /\ want' = [want EXCEPT ![p] = m]
    /\ resume' = [resume EXCEPT ![p] = l]
    /\ Goto(p, "flush")

\* A wrong variant of ReturnFromFlush: the caller looks for its memtable again.
FlushAgain(p, l) == UNCHANGED <<want, resume, op, pc>>

\* flushImmutable returns: nil at l = resume[p], an error at l = "idle".
ReturnFromFlush(p, l) ==
    /\ want' = [want EXCEPT ![p] = Nil]
    /\ resume' = [resume EXCEPT ![p] = "idle"]
    /\ op' = [op EXCEPT ![p] = IF l = "prepare" THEN @ ELSE << >>]
    /\ Goto(p, l)

\* Readers in the middle of a Get also see the store as it is after this step.
ObserveStore ==
    seen' = [p \in Threads |->
                IF pc[p] = "get" THEN seen[p] \cup {store'} ELSE seen[p]]

-----------------------------------------------------------------------------
(* Insert and Delete.                                                      *)

Call(p, k, e) ==
    /\ up
    /\ pc[p] = "idle"
    /\ Counted("writes", MaxWrites)
    /\ op' = [op EXCEPT ![p] = <<k, e>>]
    /\ Goto(p, "prepare")
    /\ UNCHANGED <<disk, up, memory, list, locks, want, resume, flushing,
                   compactGen, reading, history>>

Insert(p) == \E k \in Key, v \in Value : Call(p, k, v)

Delete(p) == \E k \in Key : Call(p, k, Tombstone)

\* A wrong variant of FreezeMutableLocked: the sealed segment's id is read after
\* the rotation.
FreezeLateSegmentID ==
    /\ wal # "broken" /\ wal' = "open"
    /\ immutable' = mutable
    /\ mutable' = mutable + 1
    /\ frozen' = FALSE
    /\ memtables' = Assign(memtables, mutable + 1, EmptyBuffer)
    /\ immutableWALSegment' = segmentID + 1
    /\ segmentID' = segmentID + 1
    /\ segments' = Assign(segments, segmentID + 1, EmptyBuffer)
    /\ UNCHANGED walErrors

\* freezeMutableLocked, w.mu held: seal the memtable and its WAL segments.
\* Rotate needs no file, but Sync and Close of a closed one fail.
FreezeMutableLocked ==
    /\ wal # "broken" /\ wal' = "open"
    /\ immutable' = mutable
    /\ mutable' = mutable + 1
    /\ frozen' = FALSE
    /\ memtables' = Assign(memtables, mutable + 1, EmptyBuffer)
    /\ immutableWALSegment' = segmentID
    /\ segmentID' = segmentID + 1
    /\ segments' = Assign(segments, segmentID + 1, EmptyBuffer)
    /\ UNCHANGED walErrors

\* What a failing rotation leaves of the WAL's file: Sync changes nothing, Close
\* leaves a closed file, openSegment none.
RotateFails ==
    \/ wal = "open" /\ CountWALError /\ wal' \in {"open", "broken", "nil"}
    \/ wal = "nil" /\ CountWALError /\ UNCHANGED wal
    \/ wal = "broken" /\ UNCHANGED <<wal, walErrors>>

\* freezeMutableLocked returns the error of Rotate: the memtable is in the slot
\* and refuses to be written, but it is still the mutable one.
FreezeFails ==
    /\ RotateFails
    /\ immutable' = mutable
    /\ frozen' = TRUE
    /\ UNCHANGED <<segments, mutable, memtables, immutableWALSegment,
                   segmentID>>

Free(p) == mu \in {NoThread, p}

\* prepareMutableMemTableLocked, memtable full and the slot for the frozen
\* memtable taken: release w.mu, help flush, and try again.
PrepareWait(p) ==
    /\ pc[p] = "prepare" /\ Free(p)
    /\ IsFull(mutable) /\ immutable # Nil
    /\ CallFlush(p, immutable, "prepare")
    /\ mu' = NoThread
    /\ UNCHANGED <<disk, up, memory, list, flushMu, op, flushing, compactGen,
                   reading, history, count>>

\* prepareMutableMemTableLocked, memtable full and the slot free.
PrepareFreeze(p) ==
    /\ pc[p] = "prepare" /\ Free(p)
    /\ IsFull(mutable) /\ immutable = Nil
    /\ FreezeMutableLocked
    /\ mu' = p
    /\ UNCHANGED <<files, up, list, flushMu, calls, flushing, compactGen,
                   reading, history, count>>

\* An Insert or Delete returns an error from within its critical section.
WriteError(p) ==
    /\ mu' = NoThread
    /\ op' = [op EXCEPT ![p] = << >>]
    /\ Goto(p, "idle")
    /\ UNCHANGED <<files, up, list, flushMu, want, resume, flushing, compactGen,
                   reading, store, count>>

\* prepareMutableMemTableLocked returns the error of freezeMutableLocked.
PrepareFails(p) ==
    /\ pc[p] = "prepare" /\ Free(p)
    /\ IsFull(mutable) /\ immutable = Nil
    /\ FreezeFails
    /\ WriteError(p)
    /\ UNCHANGED doubt

\* AppendRecord has to rotate: the record would overflow a segment that already
\* has records.
MustRotate ==
    /\ segments[segmentID].size > 0
    /\ segments[segmentID].size + 1 > MaxSegmentSize

\* The segment AppendRecord writes to, and what that holds before.
AppendSegment == IF MustRotate THEN segmentID + 1 ELSE segmentID

AppendTo == IF MustRotate THEN EmptyBuffer ELSE segments[segmentID]

\* AppendRecord(<<k, e>>) writes its record.
WriteRecord(k, e) ==
    /\ wal = "open"
    /\ segmentID' = AppendSegment
    /\ segments' = Assign(segments, AppendSegment, PutRecord(AppendTo, k, e))

\* The rest of Insert's and Delete's critical section: append to the WAL, put
\* into the memtable, and note the frozen memtable to flush after unlocking.
Append(p) ==
    /\ pc[p] = "prepare" /\ Free(p)
    /\ ~IsFull(mutable) /\ ~frozen
    /\ LET k == op[p][1]
           e == op[p][2]
       IN  /\ WriteRecord(k, e)
           /\ memtables' = [memtables EXCEPT ![mutable] = PutRecord(@, k, e)]
           /\ store' = [store EXCEPT ![k] = StoreValue(e)]
           /\ doubt' = [doubt EXCEPT ![k] = {}]
    /\ ObserveStore
    /\ mu' = NoThread
    /\ op' = [op EXCEPT ![p] = << >>]
    /\ IF immutable # Nil
         THEN CallFlush(p, immutable, "idle")
         ELSE Goto(p, "idle") /\ UNCHANGED <<want, resume>>
    /\ UNCHANGED <<files, up, mutable, immutable, frozen, immutableWALSegment,
                   wal, walErrors, list, flushMu, flushing, compactGen, snap,
                   held, count>>

\* The record is in the WAL, but the call fails: Sync returns an error, or the
\* memtable, left over from a failing freeze, refuses the record.
AppendInDoubt(p) ==
    /\ pc[p] = "prepare" /\ Free(p)
    /\ ~IsFull(mutable)
    /\ LET k == op[p][1]
           e == op[p][2]
       IN  /\ WriteRecord(k, e)
           /\ doubt' = [doubt EXCEPT ![k] = {StoreValue(e)}]
    /\ CountWALError \/ (frozen /\ UNCHANGED walErrors)
    /\ WriteError(p)
    /\ UNCHANGED <<mutable, immutable, memtables, frozen, immutableWALSegment,
                   wal>>

\* AppendRecord fails without having written: there is no usable file, the
\* rotation by size fails, or Write does after it.
AppendFails(p) ==
    /\ pc[p] = "prepare" /\ Free(p)
    /\ ~IsFull(mutable)
    /\ \/ /\ wal # "open"
          /\ UNCHANGED <<segments, segmentID, wal, walErrors>>
       \/ /\ wal = "open" /\ MustRotate
          /\ RotateFails
          /\ UNCHANGED <<segments, segmentID>>
       \/ /\ wal = "open" /\ CountWALError
          /\ segmentID' = AppendSegment
          /\ segments' = Assign(segments, AppendSegment, AppendTo)
          /\ UNCHANGED wal
    /\ WriteError(p)
    /\ UNCHANGED <<mutable, immutable, memtables, frozen, immutableWALSegment,
                   doubt>>

-----------------------------------------------------------------------------
(* Flush, Close and flushImmutable.                                        *)

\* The critical section of Flush, which Close calls first.  A memtable that
\* is full is left to the next writer.
FlushLocked(p, l) ==
    /\ up
    /\ pc[p] = "idle" /\ mu = NoThread
    /\ \/ /\ immutable # Nil
          /\ CallFlush(p, immutable, l)
          /\ UNCHANGED <<segments, memory>>
       \/ /\ immutable = Nil
          /\ memtables[mutable].size > 0 /\ ~IsFull(mutable)
          /\ FreezeMutableLocked
          /\ CallFlush(p, mutable, l)
       \/ /\ immutable = Nil
          /\ memtables[mutable].size = 0 \/ IsFull(mutable)
          /\ Goto(p, l)
          /\ UNCHANGED <<segments, memory, want, resume>>
    /\ UNCHANGED <<files, up, list, locks, op, flushing, compactGen, reading,
                   history>>

\* Flush returns the error of freezeMutableLocked, and flushes nothing.
FlushFreezeFails(p) ==
    /\ up
    /\ pc[p] = "idle" /\ mu = NoThread
    /\ immutable = Nil
    /\ memtables[mutable].size > 0 /\ ~IsFull(mutable)
    /\ FreezeFails
    /\ UNCHANGED <<files, up, list, locks, calls, flushing, compactGen, reading,
                   history>>

Flush(p) ==
    /\ Counted("flushes", MaxFlushes)
    /\ FlushLocked(p, "idle") \/ FlushFreezeFails(p)

Close(p) ==
    /\ Counted("restarts", MaxRestarts)
    /\ FlushLocked(p, "close") \/ FlushFreezeFails(p)

\* A wrong variant of FlushEnter: w.mu is enough.
FlushEnterUnlocked(p) == pc[p] = "flush" /\ mu = NoThread

\* flushImmutable gets both locks.
FlushEnter(p) == pc[p] = "flush" /\ flushMu = NoThread /\ mu = NoThread

\* flushImmutable finds that somebody else flushed its memtable.
FlushStale(p) ==
    /\ FlushEnter(p)
    /\ immutable = Nil \/ immutable # want[p]
    /\ ReturnFromFlush(p, resume[p])
    /\ UNCHANGED <<disk, up, memory, list, locks, flushing, compactGen,
                   reading, history, count>>

\* flushImmutable takes flushMu, allocates a generation and creates the file.
FlushBegin(p) ==
    /\ FlushEnter(p)
    /\ immutable # Nil /\ immutable = want[p]
    /\ FlushInCompactWindow \/ pc[Compactor] # "target"
    /\ flushMu' = p
    /\ flushSegment' = immutableWALSegment
    /\ nextGen' = nextGen + 1
    /\ flushGen' = nextGen + 1
    /\ files' = Assign(files, nextGen + 1,
                       [complete |-> FALSE, cells |-> EmptyLayer])
    /\ Goto(p, "write")
    /\ UNCHANGED <<segments, up, memory, tables, unlinked, mu, op, want, resume,
                   reclaim, compactGen, reading, history, count>>

\* A wrong variant of FlushWrite: the table is not added to the list.
FlushWriteNoInstall(p) ==
    /\ pc[p] = "write"
    /\ files' = [files EXCEPT ![flushGen] =
                    [complete |-> TRUE, cells |-> MemCells(want[p])]]
    /\ Goto(p, "clear")
    /\ UNCHANGED <<segments, up, memory, list, locks, op, want, resume,
                   flushing, compactGen, reading, history, count>>

\* The frozen memtable is written out, footer and checksum last, and synced.
FlushWrite(p) ==
    /\ pc[p] = "write"
    /\ files' = [files EXCEPT ![flushGen] =
                    [complete |-> TRUE, cells |-> MemCells(want[p])]]
    /\ Goto(p, "install")
    /\ UNCHANGED <<segments, up, memory, list, locks, op, want, resume,
                   flushing, compactGen, reading, history, count>>

\* SSTableList.Add
FlushInstall(p) ==
    /\ pc[p] = "install"
    /\ tables' = tables \cup {flushGen}
    /\ Goto(p, "clear")
    /\ UNCHANGED <<disk, up, memory, nextGen, unlinked, locks, op, want, resume,
                   flushing, compactGen, reading, history, count>>

\* A wrong variant of SegmentsUpTo: the sealed segment itself stays.
SegmentsBefore(id) == {s \in DOMAIN segments : s < id /\ s # segmentID}

\* The segments RemoveSegmentsUpTo(id) removes.
SegmentsUpTo(id) == {s \in DOMAIN segments : s <= id /\ s # segmentID}

\* The frozen memtable is dropped; its WAL segments are next.
FlushClear(p) ==
    /\ pc[p] = "clear" /\ mu = NoThread
    /\ immutable' = IF immutable = want[p] THEN Nil ELSE immutable
    /\ reclaim' = SegmentsUpTo(flushSegment)
    /\ Goto(p, "reclaim")
    /\ UNCHANGED <<disk, up, mutable, memtables, frozen, immutableWALSegment,
                   wal, segmentID, walErrors, list, locks, op, want, resume,
                   flushGen, flushSegment, compactGen, reading, history,
                   count>>

\* RemoveSegmentsUpTo removes the segments one by one, oldest first.  It holds
\* the WAL's mutex, but the steps of others in between only touch segments
\* younger than the ones it removes.
FlushReclaim(p) ==
    /\ pc[p] = "reclaim" /\ reclaim # {}
    /\ segments' = Without(segments, {Min(reclaim)})
    /\ reclaim' = reclaim \ {Min(reclaim)}
    /\ UNCHANGED <<files, up, memory, list, locks, calls, flushGen,
                   flushSegment, compactGen, reading, history, count>>

\* flushMu is released; the locals go out of scope.
EndFlush ==
    /\ flushMu' = NoThread
    /\ flushGen' = 0
    /\ flushSegment' = 0
    /\ reclaim' = {}

FlushReturn(p) ==
    /\ pc[p] = "reclaim" /\ reclaim = {}
    /\ EndFlush
    /\ ReturnFromFlush(p, resume[p])
    /\ UNCHANGED <<disk, up, memory, list, mu, compactGen, reading, history,
                   count>>

\* A failing NewWriter, Add or Close: there is no file, a torn one, or, when
\* the Close after a failed Add succeeds or Close fails in its last calls, a
\* file that opens and holds some of the entries.
FlushWriteFails(p) ==
    /\ pc[p] = "write"
    /\ Counted("errors", MaxIOErrors)
    /\ \/ files' \in {files, Without(files, {flushGen})}
       \/ \E ks \in SUBSET Key :
             files' = [files EXCEPT ![flushGen] =
                          [complete |-> TRUE,
                           cells |-> Only(MemCells(want[p]), ks)]]
    /\ EndFlush
    /\ ReturnFromFlush(p, "idle")
    /\ UNCHANGED <<segments, up, memory, list, mu, compactGen, reading,
                   history>>

\* A failing OpenReader: the file is complete, but never joins the list.
FlushOpenFails(p) ==
    /\ pc[p] = "install"
    /\ Counted("errors", MaxIOErrors)
    /\ EndFlush
    /\ ReturnFromFlush(p, "idle")
    /\ UNCHANGED <<disk, up, memory, list, mu, compactGen, reading, history>>

\* A failing os.Remove of a segment: the loop goes on to the next one, and
\* flushImmutable returns the error in the end.
FlushReclaimFails(p) ==
    /\ pc[p] = "reclaim" /\ reclaim # {}
    /\ Counted("removeErrors", MaxRemoveErrors)
    /\ reclaim' = reclaim \ {Min(reclaim)}
    /\ resume' = [resume EXCEPT ![p] = "idle"]
    /\ UNCHANGED <<disk, up, memory, list, locks, pc, op, want, flushGen,
                   flushSegment, compactGen, reading, history>>

-----------------------------------------------------------------------------
(* Get and Scan.                                                           *)

\* GetTables pins every table of the list.
GetTables(p) == held' = [held EXCEPT ![p] = tables]

\* Get captures both memtables and the tables under the read lock.
Get(r) ==
    /\ up
    /\ pc[r] = "idle" /\ mu = NoThread
    /\ Counted("reads", MaxReads)
    /\ snap' = [snap EXCEPT ![r] = [mut |-> mutable, imm |-> immutable]]
    /\ GetTables(r)
    /\ seen' = [seen EXCEPT ![r] = {store}]
    /\ Goto(r, "get")
    /\ UNCHANGED <<disk, up, memory, list, locks, op, want, resume, flushing,
                   compactGen, history>>

\* What a Get that looks its key up now returns, for every key.
GetResult(r) == LookupOrder(snap[r].mut, snap[r].imm, held[r])

\* A wrong variant of ScanResult: the merge lets tables win over the memtable.
ScanTablesFirst(r) ==
    Visible(Over(Overlay(FileCells, held[r]), MemCells(snap[r].imm)))

\* What a Scan over the whole key range returns.
ScanResult(r) == LookupOrder(Nil, snap[r].imm, held[r])

\* The call drops its snapshot; the pins are released next.
Forget(r) ==
    /\ snap' = [snap EXCEPT ![r] = [mut |-> Nil, imm |-> Nil]]
    /\ seen' = [seen EXCEPT ![r] = {}]
    /\ Goto(r, "release")
    /\ UNCHANGED <<disk, up, memory, list, locks, op, want, resume, flushing,
                   compactGen, held, history, count>>

\* Get returns what it found, or the error of a table's Reader.Get; either way
\* the deferred ReleaseTables is next.
GetLookup(r) == pc[r] = "get" /\ Forget(r)

Scan(r) ==
    /\ up
    /\ pc[r] = "idle"
    /\ Counted("reads", MaxReads)
    /\ Goto(r, "snapshot")
    /\ UNCHANGED <<disk, up, memory, list, locks, op, want, resume, flushing,
                   compactGen, reading, history>>

\* snapshotForScan, a frozen memtable still in the way: flush it and retry.
SnapshotWait(r) ==
    /\ pc[r] = "snapshot" /\ mu = NoThread
    /\ memtables[mutable].size > 0 /\ immutable # Nil
    /\ CallFlush(r, immutable, "snapshot")
    /\ UNCHANGED <<disk, up, memory, list, locks, op, flushing, compactGen,
                   reading, history, count>>

\* snapshotForScan: freeze what is in the mutable memtable and capture the
\* frozen memtable and the tables.
SnapshotForScan(r) ==
    /\ pc[r] = "snapshot" /\ mu = NoThread
    /\ memtables[mutable].size = 0 \/ immutable = Nil
    /\ IF memtables[mutable].size > 0
         THEN FreezeMutableLocked
         ELSE UNCHANGED <<segments, memory>>
    /\ snap' = [snap EXCEPT ![r] = [mut |-> Nil, imm |-> immutable']]
    /\ GetTables(r)
    /\ seen' = [seen EXCEPT ![r] = {store}]
    /\ Goto(r, "scan")
    /\ UNCHANGED <<files, up, list, locks, op, want, resume, flushing,
                   compactGen, history, count>>

\* snapshotForScan returns the error of freezeMutableLocked.
SnapshotFails(r) ==
    /\ pc[r] = "snapshot" /\ mu = NoThread
    /\ memtables[mutable].size > 0 /\ immutable = Nil
    /\ FreezeFails
    /\ Goto(r, "idle")
    /\ UNCHANGED <<files, up, list, locks, op, want, resume, flushing,
                   compactGen, reading, history, count>>

\* ScanIterator.Close
ScanClose(r) == pc[r] = "scan" /\ Forget(r)

\* A wrong variant of LastHolder: pins are not counted.
AnyHolder(p, g) == TRUE

\* p's pin is the last one on table g.
LastHolder(p, g) == \A q \in Threads \ {p} : g \notin held[q]

\* ReleaseTables drops the pins from the newest table down.  The last holder
\* of a table that a compaction replaced removes its file.
Release(p) ==
    /\ pc[p] = "release" /\ held[p] # {}
    /\ LET g == Max(held[p])
       IN  /\ held' = [held EXCEPT ![p] = @ \ {g}]
           /\ IF g \in unlinked /\ LastHolder(p, g)
                THEN files' = Without(files, {g})
                ELSE files' = files
    /\ UNCHANGED <<segments, up, memory, list, locks, calls, flushing,
                   compactGen, snap, seen, history, count>>

ReleaseDone(p) ==
    /\ pc[p] = "release" /\ held[p] = {}
    /\ Goto(p, "idle")
    /\ compactGen' = IF p = Compactor THEN 0 ELSE compactGen
    /\ UNCHANGED <<disk, up, memory, list, locks, op, want, resume, flushing,
                   reading, history, count>>

-----------------------------------------------------------------------------
(* Compact: a major compaction of every table in the list.                 *)

\* A flush has allocated a generation that is not in the list yet.
FlushPending == \E p \in Threads : pc[p] \in {"write", "install"}

CompactBegin ==
    /\ up
    /\ pc[Compactor] = "idle" /\ tables # {}
    /\ FlushInCompactWindow \/ ~FlushPending
    /\ Counted("compactions", MaxCompactions)
    /\ GetTables(Compactor)
    /\ Goto(Compactor, "target")
    /\ UNCHANGED <<disk, up, memory, list, locks, op, want, resume, flushing,
                   compactGen, snap, seen, history>>

\* NextGen, then CompactSSTables creates the output if the inputs have entries.
CompactTarget ==
    /\ pc[Compactor] = "target"
    /\ nextGen' = nextGen + 1
    /\ compactGen' = nextGen + 1
    /\ IF Overlay(FileCells, held[Compactor]) = EmptyLayer
         THEN Goto(Compactor, "replace") /\ files' = files
         ELSE /\ Goto(Compactor, "merge")
              /\ files' = Assign(files, nextGen + 1,
                                 [complete |-> FALSE, cells |-> EmptyLayer])
    /\ UNCHANGED <<segments, up, memory, tables, unlinked, locks, op, want,
                   resume, flushing, reading, history, count>>

\* The k-way merge: the newest entry of every key, without the tombstones.
CompactMerge ==
    /\ pc[Compactor] = "merge"
    /\ files' = [files EXCEPT ![compactGen] =
                    [complete |-> TRUE,
                     cells |-> Visible(Overlay(FileCells, held[Compactor]))]]
    /\ Goto(Compactor, "replace")
    /\ UNCHANGED <<segments, up, memory, list, locks, op, want, resume,
                   flushing, compactGen, reading, history, count>>

\* An output without entries is removed; ReplaceTables swaps the inputs for
\* the output, if there is one, and marks the inputs as unlinked.
CompactReplace ==
    /\ pc[Compactor] = "replace"
    /\ LET empty == \/ compactGen \notin DOMAIN files
                    \/ files[compactGen].cells = EmptyLayer
           output == IF empty THEN {} ELSE {compactGen}
       IN  /\ tables' = (tables \ held[Compactor]) \cup output
           /\ files' = IF empty THEN Without(files, {compactGen}) ELSE files
    /\ unlinked' = unlinked \cup held[Compactor]
    /\ Goto(Compactor, "release")
    /\ UNCHANGED <<segments, up, memory, nextGen, locks, op, want, resume,
                   flushing, compactGen, reading, history, count>>

\* A failing NewWriter, Add, Close or OpenReader: the deferred Close and
\* os.Remove leave no file.  The file stays, torn or with some of the entries,
\* when creating it failed half-way and when os.Remove fails; a crash between
\* the two finds the same.
CompactFails ==
    /\ pc[Compactor] = "merge"
    /\ Counted("errors", MaxIOErrors)
    /\ \/ files' \in {files, Without(files, {compactGen})}
       \/ \E ks \in SUBSET Key :
             files' = [files EXCEPT ![compactGen] =
                          [complete |-> TRUE,
                           cells |-> Only(Visible(Overlay(FileCells,
                                                          held[Compactor])),
                                          ks)]]
    /\ Goto(Compactor, "release")
    /\ UNCHANGED <<segments, up, memory, list, locks, op, want, resume,
                   flushing, compactGen, reading, history>>

-----------------------------------------------------------------------------
(* Shutdown, crash and restart.                                            *)

\* Everything but the disk and the history is lost.  A write in doubt becomes
\* one that took place if its record is replayed.
LoseMemory ==
    /\ up' = FALSE
    /\ mutable' = 1
    /\ immutable' = Nil
    /\ memtables' = [m \in {1} |-> EmptyBuffer]
    /\ frozen' = FALSE
    /\ immutableWALSegment' = 0
    /\ wal' = "nil"
    /\ segmentID' = 0
    /\ tables' = {}
    /\ nextGen' = 0
    /\ unlinked' = {}
    /\ mu' = NoThread
    /\ flushMu' = NoThread
    /\ pc' = [p \in Threads |-> "idle"]
    /\ op' = [p \in Threads |-> << >>]
    /\ want' = [p \in Threads |-> Nil]
    /\ resume' = [p \in Threads |-> "idle"]
    /\ flushGen' = 0
    /\ flushSegment' = 0
    /\ reclaim' = {}
    /\ compactGen' = 0
    /\ snap' = [p \in Threads |-> [mut |-> Nil, imm |-> Nil]]
    /\ held' = [p \in Threads |-> {}]
    /\ seen' = [p \in Threads |-> {}]
    /\ store' = [k \in Key |-> IF Recovered[k] \in doubt[k]
                                THEN Recovered[k] ELSE store[k]]
    /\ doubt' = [k \in Key |-> {}]
    /\ UNCHANGED <<disk, walErrors>>

\* Close after its Flush, once the calls other than Close have returned (open
\* iterators may remain: their pins die with the process).
CloseFinish(p) ==
    /\ pc[p] = "close"
    /\ \A q \in Threads \ {p} : pc[q] \in {"idle", "scan", "close"}
    /\ LoseMemory
    /\ UNCHANGED count

Crash ==
    /\ up
    /\ Counted("restarts", MaxRestarts)
    /\ LoseMemory

\* CreateWispWithConfig on an existing database: adopt the last WAL segment,
\* load every SSTable, replay every segment into the memtable.
Restart ==
    /\ ~up /\ CanOpen
    /\ memtables' = [m \in {1} |-> [cells |-> Replayed, size |-> RecordCount]]
    /\ up' = TRUE
    /\ wal' = "open"
    /\ segmentID' = Max(DOMAIN segments)
    /\ tables' = DOMAIN files
    /\ nextGen' = Max(DOMAIN files \cup {0})
    /\ UNCHANGED <<disk, mutable, immutable, frozen, immutableWALSegment,
                   walErrors, unlinked, locks, calls, flushing, compactGen,
                   reading, history, count>>

\* CreateWispWithConfig returns the error of a file Load cannot open.
RestartFails ==
    /\ ~up /\ ~CanOpen
    /\ UNCHANGED vars

-----------------------------------------------------------------------------

\* No call is in progress and no client makes one.
Quiet ==
    /\ up
    /\ \A p \in Threads : pc[p] = "idle"
    /\ UNCHANGED vars

FlushSteps(p) ==
    \/ FlushStale(p) \/ FlushBegin(p) \/ FlushWrite(p) \/ FlushInstall(p)
    \/ FlushClear(p) \/ FlushReclaim(p) \/ FlushReturn(p)

FlushErrors(p) ==
    FlushWriteFails(p) \/ FlushOpenFails(p) \/ FlushReclaimFails(p)

WriteSteps(p) == PrepareWait(p) \/ PrepareFreeze(p) \/ Append(p)

WriteErrors(p) == PrepareFails(p) \/ AppendInDoubt(p) \/ AppendFails(p)

ReadSteps(r) ==
    \/ GetLookup(r)
    \/ SnapshotWait(r) \/ SnapshotForScan(r) \/ SnapshotFails(r)

ReleaseSteps(p) == Release(p) \/ ReleaseDone(p)

CompactSteps == CompactTarget \/ CompactMerge \/ CompactReplace

Writer(p) ==
    \/ Insert(p) \/ Delete(p) \/ Flush(p) \/ Close(p)
    \/ WriteSteps(p) \/ WriteErrors(p) \/ CloseFinish(p)
    \/ FlushSteps(p) \/ FlushErrors(p)

Reader(r) ==
    \/ Get(r) \/ Scan(r) \/ ScanClose(r)
    \/ ReadSteps(r) \/ ReleaseSteps(r) \/ FlushSteps(r) \/ FlushErrors(r)

Compaction ==
    \/ CompactBegin \/ CompactSteps \/ CompactFails \/ ReleaseSteps(Compactor)

Next ==
    \/ \E p \in Writers : Writer(p)
    \/ \E r \in Readers : Reader(r)
    \/ Compaction
    \/ Crash \/ Restart \/ RestartFails \/ Quiet

Spec == Init /\ [][Next]_vars

\* Every thread that has started a call gets to run (Go schedules goroutines
\* preemptively, and a sync.Mutex hands itself to a starving waiter).  No
\* fairness is assumed of what clients choose to do: making a call or closing
\* an iterator.  Nothing makes a failing disk, a crash or a restart happen.
Fairness ==
    /\ \A p \in Writers :
         WF_vars(\/ WriteSteps(p) \/ WriteErrors(p) \/ FlushSteps(p)
                 \/ CloseFinish(p))
    /\ \A r \in Readers :
         WF_vars(ReadSteps(r) \/ ReleaseSteps(r) \/ FlushSteps(r))
    /\ WF_vars(CompactSteps \/ ReleaseSteps(Compactor))

FairSpec == Spec /\ Fairness

-----------------------------------------------------------------------------
(* Properties.                                                             *)

\* The types of all variables, with the relations between them that make every
\* operator of the module apply to arguments in its domain.
WALTypes ==
    /\ segments \in [DOMAIN segments -> Buffer]
    /\ DOMAIN segments \in SUBSET (Nat \ {0})
    /\ segmentID \in Nat
    /\ wal \in {"open", "nil", "broken"}
    /\ walErrors \in Nat
    /\ immutableWALSegment \in Nat
    /\ flushSegment \in Nat
    /\ reclaim \in SUBSET DOMAIN segments

TableTypes ==
    /\ files \in [DOMAIN files -> SSTFile]
    /\ DOMAIN files \in SUBSET (Nat \ {0})
    /\ tables \in SUBSET DOMAIN files
    /\ nextGen \in Nat
    /\ unlinked \in SUBSET (1..nextGen)
    /\ flushGen \in 0..nextGen
    /\ compactGen \in 0..nextGen
    /\ held \in [Threads -> SUBSET DOMAIN files]

MemTableTypes ==
    /\ mutable \in Nat \ {0}
    /\ immutable \in 0..mutable
    /\ memtables \in [1..mutable -> Buffer]
    /\ want \in [Threads -> 0..mutable]
    /\ snap \in [Threads -> [mut : 0..mutable, imm : 0..mutable]]

CallTypes ==
    /\ up \in BOOLEAN /\ frozen \in BOOLEAN
    /\ mu \in Writers \cup {NoThread}
    /\ flushMu \in Threads \cup {NoThread}
    /\ pc \in [Threads -> ControlStates]
    /\ op \in [Threads -> (Key \X Entry) \cup {<< >>}]
    /\ resume \in [Threads -> {"idle", "prepare", "snapshot", "close"}]
    /\ count \in [Counters -> Nat]

HistoryTypes ==
    /\ store \in [Key -> Value \cup {Absent}]
    /\ doubt \in [Key -> SUBSET (Value \cup {Absent})]
    /\ seen \in [Threads -> SUBSET [Key -> Value \cup {Absent}]]

TypeOK == WALTypes /\ TableTypes /\ MemTableTypes /\ CallTypes /\ HistoryTypes

\* Get finds the last acknowledged write of every key, whatever freeze, flush,
\* segment removal or compaction is under way: no step of flushImmutable or of
\* CompactAll opens a window in which an entry is in neither place, or in which
\* an older entry comes before a newer one.
LiveView == up => View = store

\* At every instant the disk alone holds every write that took effect, so that
\* a crash at any step of any call loses none: WAL segments are removed only
\* once an SSTable has their records, oldest segment first.  All that a crash
\* may bring up instead is a later write of the same key whose call failed
\* although its record had reached the WAL.
Durable == \A k \in Key : Recovered[k] \in {store[k]} \cup doubt[k]

\* The database opens again after every Close and every crash.
RestartSucceeds == ~up => CanOpen

\* A Get returns, for whatever key, a value that the key had between the call
\* and its return, although it looks into the memtables and tables it captured
\* after releasing the lock, while others write, freeze, flush and compact.
GetLinearizable ==
    \A r \in Readers : pc[r] = "get" =>
        \A k \in Key : \E s \in seen[r] : GetResult(r)[k] = s[k]

\* A ScanIterator shows exactly the store at the instant of its snapshot for as
\* long as it is open, although it is read without a lock: the frozen memtable
\* is never written again and the tables' files stay until it is closed.
ScanSnapshotExact ==
    \A r \in Readers : pc[r] = "scan" => seen[r] = {ScanResult(r)}

\* Once no call is in progress and nothing is left to flush, the WAL has no
\* segment older than the last freeze, whichever thread flushed for whom
\* (unless removing one has failed).
WALReclaimed ==
    (/\ up /\ immutable = Nil
     /\ \A p \in Threads : pc[p] \in {"idle", "scan"}
     /\ count["removeErrors"] = 0)
    => \A s \in DOMAIN segments : s > immutableWALSegment

\* The engine, open or closed, is a key-value store that only Insert and Delete
\* change, each exactly once and in one step while the call is in progress:
\* what Get reads never changes when a memtable is frozen, flushed or dropped,
\* freezing it fails, a segment is removed, or the database crashes, closes and
\* recovers.  Only a call that failed with its record in the WAL may still take
\* effect, at the next restart.
KV == INSTANCE KVStore
        WITH Client <- Threads,
             store <- IF up THEN View ELSE Recovered,
             pending <- [p \in Threads |->
                           IF op[p] = << >>
                             THEN << >>
                             ELSE <<op[p][1], StoreValue(op[p][2])>>]

KVSpec == KV!Spec

\* While flushImmutable writes a memtable out, that memtable stays in its slot,
\* where reads find it: nobody freezes another one over it, although w.mu is
\* released, and the file to be installed is a complete copy of it.  No two
\* flushes run at a time, although any call may start one.
FlushKeepsMemTable ==
    \A p \in Threads :
        /\ pc[p] \in {"write", "install", "clear", "reclaim"} => flushMu = p
        /\ pc[p] \in {"write", "install", "clear"} =>
             immutable = want[p] /\ immutable # Nil
        /\ pc[p] = "install" =>
             /\ flushGen \in DOMAIN files
             /\ files[flushGen] = [complete |-> TRUE,
                                   cells |-> MemCells(immutable)]

\* A frozen memtable leaves memory only when reads no longer need it: without
\* it they find the same entries in the tables of the list.
DroppedOnlyWhenFlushed ==
    [][up' /\ immutable # Nil /\ immutable' # immutable
       => /\ immutable' = Nil
          /\ View' = View]_vars

\* Every call returns: Insert and Scan do not wait for ever for the slot of the
\* frozen memtable, a flush never waits for itself, and Close returns.
CallsReturn ==
    \A p \in Threads :
        pc[p] \notin {"idle", "scan"} ~> pc[p] \in {"idle", "scan"}

=============================================================================
