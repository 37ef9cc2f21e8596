# WispDB in TLA+

WispDB is an embedded log-structured key-value store in Go: a segmented
write-ahead log, a skiplist memtable, SSTables with reference counts, a major
compaction, and an engine that many goroutines call at once. This directory
holds TLA+ modules translated from that code, TLC configurations that check
them on small instances, and TLAPS proofs that hold for instances of any size.

`PROJECT.json` is the index: components, runs, the lines of source each
definition stands for, the hazards, the findings and the theorems.

## 1. Inventory

| Component (source) | State | Operations | What makes it correct |
|---|---|---|---|
| Engine, writes (`wisp.go`) | `mutableMemTable`, `immutableMemTable` (one slot), `immutableWALSegment`, `mu`, `flushMu` | `Insert`, `Delete`, `prepareMutableMemTableLocked`, `freezeMutableLocked`, `Flush`, `flushImmutable` | an acknowledged write is readable at once and for ever, and never lost by a crash; flushes exclude each other; every call returns |
| Engine, reads (`wisp.go`) | a captured pair of memtables, pinned tables | `Get`, `Scan`, `snapshotForScan`, `ScanIterator` | a Get returns a value its key had during the call; an iterator is a snapshot |
| Engine, open and close (`wisp.go`) | the disk | `CreateWispWithConfig`, `openSSTables`, `Recover`, `Close` | what comes back is exactly what was acknowledged, and the database opens |
| Write-ahead log (`wal/wal.go`) | segment files, `segmentID`, `size`, `file` | `AppendRecord`, `Rotate`, `RemoveSegmentsUpTo`, `Replay`, `CreateWAL…`, `Close`, `Reset` | replay is complete, in order, and free of what was reclaimed |
| SSTable list (`sstable/sstable_list.go`) | `tables`, `nextGen`; per file `refCount`, `unlinked`, `closed` | `IncrRef`, `DecrRef`, `GetTables`, `ReleaseTables`, `Add`, `ReplaceTables`, `Close`, `Load` | counts are exact; nobody reads a closed table; replaced files go |
| Compactor (`compactor/compact.go`) | its inputs, its target generation | `CompactAll`, `CompactRange`, `CompactSSTables` | the newest entry of every key, in order; reads are the same before, during and after |
| Memtable, skiplist (`memtable/`, `skiplist/`) | sorted map, size, frozen flag | `Put`, `Delete`, `Lookup`, `Iterator`, `IsFull`, `Freeze` | last write of a key wins; every level stays a sorted sublist; a lookup beside a writer finds what is there |
| SSTable format (`sstable/*.go`) | blocks, index, bloom filter, footer | `Writer`, `Reader`, `Iterator` | what is written is what Get and the iterator read; a partly written file does not open, or is a prefix |

How they interact. `Insert` and `Delete` hold `w.mu` while they append to the
WAL and put into the memtable. A full memtable is frozen, which also rotates
the WAL, and whichever call meets a frozen memtable flushes it: writers,
`Scan`, `Flush` and `Close` all end up in `flushImmutable`, which holds
`flushMu` and takes `w.mu` only for moments. It writes an SSTable, adds it to
the list, empties the slot and removes WAL segments, in this order. `Get` and
`Scan` pin tables and read without any lock. `Compact` takes no lock of the
engine at all. After a restart the list is whatever files have an SSTable name
and the memtable is whatever the WAL segments hold.

What is hard: the windows between the lock regions of `flushImmutable`; a
caller that waits for `flushMu` with a memtable that has been flushed by
somebody else; a crash between any two changes of the disk; an append that
fails after its record has reached the file; a freeze that fails half-way; the
lock-free reference counts and the lock-free lookup in a skiplist that is being
written; a compaction beside flushes; fragments of WAL records and of SSTables;
one removal of several that fails. `PROJECT.json` lists these hazards, each at
its line, with the properties that cover it.

## 2. Modules

| Module | Models | Composes |
|---|---|---|
| `Layers` | the data: a memtable, a WAL segment and an SSTable are all a map from keys to a value, a tombstone or nothing, and readers see a stack of them | |
| `KVStore` | the promise to clients: one map; a write takes effect once, at one instant during its call; a write whose call failed may still take effect at a restart | |
| `Wisp` | the engine with its WAL segments, SSTable files, generations, pins and compaction; errors, crash and restart | `Layers`, instance of `KVStore` |
| `WAL` | the log at the level of its records, with sizes, fragments and failing system calls | |
| `SSTableList` | the reference counts, one atomic operation per step | |
| `Skiplist` | the memtable's skiplist, one load or store of a pointer or word per step: one writer beside lookups without a lock | |
| `SSTable` | the file format: blocks, index, bloom filter, footer, checksum; what opens, and what `Get` and the `Iterator` read | `Layers` |
| `Merge` | the loops of `flushImmutable`, `CompactSSTables` and `ScanIterator.Next` over the entries, with the `Writer` call by call | `SSTable` |
| `SSTableListProofs`, `WALProofs`, `SkiplistProofs`, `MergeProofs` | theorems about one component each | `SSTableList`; `WAL`; `Skiplist`; `Merge` |
| `WispProofs`, `WispStoreProofs` | theorems about the engine: its control and its types; what it stores | `Wisp`; `WispProofs` |
| `Recursion`, `Flattening` | lemmas that several proofs share: induction, recursive functions, enumerations and extremes of finite sets; `FlattenSeq` | |
| `MCWisp`, `MCSSTableList`, `MCSkiplist`, `MCMerge` | model values, small data and symmetry | their component |

The modules look at the same system with different lenses. `Wisp` takes an
append, a pin or unpin, a lookup in a memtable and the writing of a table's
contents to be atomic; `WAL` opens up the append, `SSTableList` the pin,
`Skiplist` the lookup and `Merge` the writing.

The definitions introduced by the comment "a wrong variant of …" are deliberate
faults (a dropped lock, an off-by-one, a wrong order). No specification uses
them. For each property of a passing run one of them, put in place of the
operator it varies, makes TLC report that property violated.

### Wisp

- Disk: `segments` (WAL segment id to its records) and `files` (generation to
  a file that is complete or torn). Everything else is memory and is lost in a
  crash, except for the history variables `store`, `doubt`, `walErrors` and
  `count`.
- A memtable pointer is a number, so that a stale `imm` argument can be told
  from the memtable that now fills the slot. Its size counts records as
  `MemTable.Size` grows with every record, overwritten or not.
- A critical section of `w.mu` is one step, with one exception:
  `prepareMutableMemTableLocked` may freeze and then append without letting go
  of the lock, which is two steps and the variable `mu`.
- `flushImmutable` is `FlushStale`, or `FlushBegin` (the locks, `NextGen`,
  `NewWriter`), `FlushWrite` (entries, footer, sync), `FlushInstall`
  (`OpenReader`, `Add`), `FlushClear`, `FlushReclaim` once per segment,
  `FlushReturn`; with `FlushWriteFails`, `FlushOpenFails` and
  `FlushReclaimFails` for its error returns. A crash may fall between any two.
- `CompactAll` is `CompactBegin` (`GetTables`), `CompactTarget` (`NextGen`,
  `NewWriter`), `CompactMerge`, `CompactReplace`, and then `Release`, one table
  at a time, newest first: the last holder of a replaced table removes its file.
  `CompactFails` leaves no output, a torn one or a complete one with a part of
  the entries: the clean-up closes the `Writer` before it removes the file, and
  the removal may fail or a crash come first. `Wisp` has one compactor;
  overlapping compactions are in `SSTableList`.
- `GetLookup` is the rest of a `Get` after the read lock. The captured memtable
  that is being written is read at one instant, the frozen one and the tables do
  not change any more. An error of `Reader.Get` releases the pins and returns
  like any other result.
- A failing `AppendRecord` is `AppendFails` (nothing of the record is in the
  log) or `AppendInDoubt` (Sync fails, or the memtable refuses the record: the
  call fails, but the record is in the log). The second kind leaves its value in
  `doubt`: the write has not taken effect, and a restart may still bring it up,
  unless a later write of the key has succeeded. `KVStore` promises the same.
- A failing `Rotate` leaves the log's file `open`, `broken` (closed but not nil)
  or `nil` (`wal`), and a freeze half-done (`FreezeFails`): the memtable is
  frozen and in the slot, but also still the mutable one (`frozen`), until a
  later freeze succeeds. Writes fail in between, reads do not.
- `Restart` is `CreateWispWithConfig`: it fails (`RestartFails`) if any file
  with an SSTable name is torn.
- `CloseFinish` waits for the other calls to return. Calling anything after or
  during Close is outside the API's contract (`w.wal` is nil afterwards). Open
  iterators may remain.
- `Quiet` is the stuttering step of a database nobody calls, so that TLC's
  deadlock check reports only calls that are stuck.

`FlushInCompactWindow = FALSE` is a restriction on the schedule, not something
the code guarantees: no flush has a generation it has not installed between
Compact's `GetTables` and its `NextGen`. Without it `LiveView` is violated
(finding 1), and nothing else about compaction could be checked.

### WAL

A segment is a sequence of records, numbered and with a size, and of fragments.
`Replay` returns a set of outcomes, since what a fragment followed by other
bytes looks like depends on lengths: the bytes behind it complete it (a wrong
checksum, an error), or the file ends first (in the final segment that is
silently the end of the log). A record, or the header of one, above the limit
that Replay has and AppendRecord has not makes it fail (`Refused`). `frozen` and
`flushed` are the engine's side of the protocol: `Rotate` at a freeze,
`RemoveSegmentsUpTo` once the SSTable is installed. `stuck` has the records of
segments whose removal failed, the only reclaimed ones that a Replay may bring
back. `Reset` and the adoption of a log without segments are there too; `Reset`
may fail in closing the file, in removing any segment and in opening the first
one, whether or not that has created it.
Fragments and a next segment that was created but could not be opened are in
this module only; `Wisp` has the failures without them.

### SSTableList

`IncrRef` is a load, the checks and a compare-and-swap, each a step;
`DecrRef` a decrement, `Reader.Close` and `os.Remove`. `GetTables` walks the
list under the read lock, `ReplaceTables` and `Close` drop the references of
the list one by one. Compact and Close calls may overlap, since the code has no
lock for them (`Wisp.Compact`, `wisp.go:480`). Two that do can take the same
table out of the list: `ReplaceTables` does not test whether its inputs are
still there, and each call drops the list's one reference. The history variable
`twice` collects the tables to which that happens. Such a table may be closed
under a reader, and its count goes negative. `RefCountExact` and
`NoUseAfterClose` are about all other tables; `ListedReadable`,
`SnapshotComplete` and `RetiredFilesGo` need no exception, so that the damage is
confined to tables that are no longer in the list.

### Skiplist

`insert` searches in one step (only writers change links, and they hold `w.mu`),
then stores one pointer per step: the new node's link and then that of the node
before it, level by level from the bottom, after `currTopLevel` was raised. Overwriting
a node stores the two words of a slice that matter (pointer and length) and the
deleted flag one by one. `Lookup` loads one pointer per step: the test of
Search's loop, the load that advances, the load after the loop, and the words of
the result. This is a data race, for which Go defines little; the module takes
stores to become visible in program order, as on amd64, and says what is left
of the lookup's correctness then. `overtaken` marks the lookups that finding 5
is about. `MaxLevel` and the heights are small; nothing depends on the odds.

### SSTable and Merge

A file is the sequence of chunks the `Writer` wrote, with `Junk` for a write
that failed half-way; offsets count chunks. Sizes are exact where they decide
something (`EntrySize`, `BlockFull`), and so are the filter's bit positions and
its number of bits, for which `NumBits` is the formula's value at the small
numbers of keys that occur. The hash functions are parameters. A checksum stands
for the chunks it was computed over, that is, it has no collisions. `Merge` runs
one flush, compaction (major or minor) or scan over any contents of its sources.
Its heap is a set from which the smallest item is taken, which is what
`container/heap` provides. A block that cannot be read ends its source early
without an error, as `loadNextBlock` does. Which blocks these are (`unreadable`)
is chosen at the start; a call reads a block at most once, so that nothing is
lost by that, and the properties can say what the iterators give (`Given`): the
blocks before the first unreadable one of each table. The `Writer`'s `offset` and what its hash was
given (`checksum`) are variables beside the file: they count what successful
writes wrote, so that junk makes them differ from it. After a failing write `flushImmutable` and
`CompactSSTables` close the `Writer` as the code does, once or twice, and what
that appends behind the junk is part of the file.


## 3. Runs

Passing:

| Run | Instance | Shows |
|---|---|---|
| `wisp_crash` | 2 writers, 2 keys, 2 values, 3 writes, 1 Flush, 2 crashes or Closes, 1 I/O error, 1 failing append or rotation; threshold 2, 1 record per segment | `Durable`: at every instant the disk alone holds every write in effect. `LiveView`: so does what Get reads. `WALReclaimed`, `FlushKeepsMemTable`. The engine implements `KVStore` (`KVSpec`) |
| `wisp_readers` | 2 writers, 1 reader, the compactor, 3 writes, 1 Get or Scan, 1 compaction, 1 I/O error, 1 failing removal; threshold 1 | `GetLinearizable`, `ScanSnapshotExact`, `LiveView`, `DroppedOnlyWhenFlushed`, `TypeOK` |
| `wisp_liveness` | 2 writers and a Scan, 3 writes, 1 crash or Close, 1 failing append or rotation, threshold 1 | `CallsReturn` |
| `sstable_refs` | 1 reader, 2 compactors, Close; 1 loaded table and 1 to come | `RefCountExact`, `NoUseAfterClose`, `ListedReadable`, `SnapshotComplete`, `TypeOK`, `RetiredFilesGo` |
| `wal_restarts` | 3 appends of sizes 1, 3 and 4, 2 rotations, 1 Reset, 2 restarts, 1 failing write, rotation and removal each, a crash inside any append, a log from before there were segments; segments of size 2, records of up to 3 accepted by Replay | `FirstReplayComplete`, `ReplayOrdered`, `TypeOK` |
| `skiplist_race` | 3 keys, 2 values, 2 levels, 4 writes, 1 Lookup | `LevelsSound`, `LookupRight`, `TypeOK` |
| `merge` | every content of 2 tables and a memtable over 3 keys of 2 series, 3 scan ranges, 1 unreadable block, 2 failing writes; 1 to 3 entries per block | `OpensOnlyPrefix`, `OutputExact`, `ScanExact`, `OutputSorted`, `TypeOK` |

Why the bounds are enough to be interesting. Three writes with a threshold of
one fill the slot, the mutable memtable and a table at once, so that two
writers and a reader compete for one flush; with a threshold of two and one
record per segment a memtable spans two segments, and a crash can fall between
their removals. Two keys let a table be newer for one and older for the other;
two values tell an old value from a new one. Two restarts let the second
recovery meet what the first left behind. A record of size 3 is larger than a
segment, one of size 4 larger than what Replay accepts. Four writes to three
keys of up to two levels build any list of the three and overwrite one; a
lookup beside another reader meets nothing new, for readers change nothing.
`sstable_refs` has one reader, since the theorems are about any number, two
compactors, so that their calls overlap, and two tables, so that a flush or the
first compaction adds one while the other is being replaced. Two failing
writes are what it takes to fail, and then to fail again in the second Close.
Symmetry (writers, keys, values) is used for safety runs only. The WAL runs
switch the deadlock check off: with its bounds used up, or after a failed
reopening, that model stops.

Violated, each a statement of the repository that the code does not keep:

| Run | Property | What happens |
|---|---|---|
| 1 `wisp_compact_window` | `LiveView` | a flush between Compact's `GetTables` and its `NextGen` gets a smaller generation than the compacted, older data |
| 2 `wisp_resurrection` | `LiveView` | the inputs of a major compaction are removed newest first; after a crash in between, the older input comes back without the tombstone above it |
| 3 `wisp_torn_table` | `RestartSucceeds` | a crash while an SSTable is being written leaves a file that makes every open fail |
| 4 `wal_torn_tail` | `ReplayComplete` | a reopened WAL appends behind the fragment of a crash; the restart after that reports corruption, or ends silently in the fragment and loses the acknowledged records behind it |
| 5 `skiplist_lookup` | `LookupFindsKey` | a smaller key is linked between the last test of Search's loop and the load after it; the lookup ends at that key and does not find its own, which was there all the time |

The passing runs stay clear of these on purpose, and say so by their constants
or in the property. `wisp_crash` has no compaction and no failing removal,
`wisp_readers` no restart: if the removal of an older WAL segment fails and
newer ones go, a restart replays old records on top of the SSTable, and
`LiveView` does not survive that. `FirstReplayComplete` is about the first
restart and logs without a failed write (a write that fails half-way leaves a
fragment too, and a later rotation may seal it into a segment in which Replay
does not put up with one). `LookupRight` excepts overtaken lookups and mixed
words of an overwritten value; `RefCountExact` and `NoUseAfterClose` the tables
that overlapping calls took out of the list twice. `OutputExact` and `ScanExact`
are about what the readable blocks hold: that a block which cannot be read costs
the rest of its table, without an error, is what the code does, and the
properties say that it costs nothing else. `ReplayOrdered` says of logs with
fragments inside only that what is replayed is in order. `CallsReturn` is about
a bounded number of writes, so that it would not show a caller who loses the
slot to ever new writers. `GetLinearizable` takes lookups
in a memtable to be atomic, so that finding 5 limits it. `wisp_crash` does not
check `RestartSucceeds`: after finding 3 the database stays down, which is why
`Durable` is about the files that open. `wisp_liveness` leaves compactions out:
they wait for nobody and nobody waits for them.

Fairness. `Wisp!Fairness` gives every thread inside a call weak fairness on its
own steps: Go preempts goroutines, and a `sync.Mutex` hands itself over to a
waiter that starves, so that no thread is kept from running or from a lock that
is free again and again for ever. The error
returns of a write are among its steps, since a call that finds the WAL without
a usable file can go nowhere else. Nothing makes a client start a call or close
an iterator, and nothing makes the disk fail or the process crash or restart.
`SSTableList!Fairness` adds that whoever has pinned tables releases them some
day (`RetiredFilesGo` is false for an iterator that is never closed).

## 4. Proofs

All proofs are checked by TLAPS, for every set of threads, keys, values and
tables and every bound.

`SSTableListProofs`, whichever calls overlap: `TypeCorrect`, `CountsExact`,
`NeverUsedAfterClose`, `AlwaysListedReadable`, `SnapshotsComplete`. None of them
is inductive alone. The invariant `IInv` is the type invariant with

- `Control`: who may be where; the read and write locks match the program
  counters;
- `Loops`: a GetTables splits the list into pinned and still to visit; a
  compaction pins what it retires, which is no longer listed; two that retire
  the same table have taken it out of the list twice, and no such table is
  listed (so that its count only falls);
- `Files`: a table with a reference is open and on disk, and a listed table is
  neither unlinked nor closed (so that IncrRef never skips one);
- `RefCountExact`.

Each part has a lemma that every step preserves it. The counting argument is in
`OneCountChanges`: a step that changes one pin, or the list's reference, of one
table changes that table's count by one and no other.

`WispProofs`, without assumptions beyond the constants' own: `TypeCorrect` and
`FlushSafe` (`FlushKeepsMemTable`). `TypeOK` is more than types here: pins,
listed tables, segments to be reclaimed and memtable pointers all refer to
something that exists, through crashes, errors and restarts. `IInv` adds

- `Calls`: a thread on its way to an append has a record, also across a flush;
- `Flushes`: the flush in progress is `flushMu`'s holder's, its memtable stays
  in the slot, and its generation is nobody else's; the memtable in the slot is
  also the mutable one only if it is frozen, after a freeze that failed;
- `Copies`: the file about to be installed is a copy of the frozen memtable;
- `Compacts`: the same for the compaction's output;
- `Disk`: numbers on disk are bounded by the counters, and no listed table has
  been replaced (without which a Release could remove a listed file);
- `Down`: a closed database has nothing left in memory.

`FlushSafe` is where stale arguments of `flushImmutable` and the freezes of
`Scan` come together: nobody freezes over a memtable that is being flushed,
because every freeze tests the slot under `w.mu`, and only `flushMu`'s holder
empties it.

`WispStoreProofs` is about what the engine stores. Findings 1 and 2 and the
failing removals of segments are behaviours of the model in which reads go
wrong, so that no theorem can be unconditional; each states the condition, a
predicate on the history that holds until such an event happens:

- `Clean`: no Compact call so far and no failing removal. Crashes and restarts,
  any number of them, are allowed, and so are all other errors.
- `Running`: no restart so far, and no flush in a compaction's window
  (`NoWindow`). Compactions and failing removals are allowed.
- `Undisturbed`: one of the two.

| Theorem | States |
|---|---|
| `ReadsRight`, `GetsLinearizable`, `ScansExact` | `Undisturbed =>` `LiveView`, `GetLinearizable`, `ScanSnapshotExact` |
| `CrashSafe` | `Clean => Durable` |
| `WALBounded` | `WALReclaimed`, always |
| `DroppedFlushed` | `DroppedOnlyWhenFlushed`, if `NoWindow` holds throughout |
| `ImplementsKV` | `KVSpec`, the refinement of `KVStore`, if `Undisturbed` holds throughout |

On top of `IInv` of `WispProofs` the invariant `SInv` has

- `SegmentOrder`, `Reclaiming`, `ReclaimOldest`: which segments are the frozen
  memtable's and which the mutable one's, and that the flush in progress
  removes the former, oldest first;
- `Newest`, `Installed`, `Merging`: the table of a flush is newer than every
  listed one and than the compaction's output, and holds what the frozen
  memtable holds; a compaction's output stands for its inputs, which are a
  contiguous range of generations;
- `MutableLogged`, `ImmutableLogged`, `SealedRight`: what the active and the
  sealed segments hold is what the memtables hold, or a record of a call that
  failed; sealed segments that are left bring nothing wrong back;
- `ExtraFiles`, `FlushedFile`: complete files that are not listed are hidden by
  newer ones, or are the frozen memtable's;
- `DownExact`, `Sizes`, `SnapBounds`, `Restarted`: a closed database, empty
  memtables, captured memtables, the count of restarts.

The argument for `Durable` is that recovery overlays files and segments, and
that each step either leaves the overlay alone or changes one key in the way
the store changes. `Sealed` segments have to be considered one by one, since a
flush removes them one by one: the order matters, and `ReclaimOldest` is what
makes it harmless. `ImplementsKV` follows step by step from `LiveView` and
`DownExact`, with one lemma for each kind of step.

`SkiplistProofs`, for any number of keys, levels and readers: `TypeCorrect`,
`LevelsRight` (`LevelsSound`), `LookupsRight` (`LookupRight`). The invariant says
which keys are `Linked` on a level while an insert is half-done, that pointers
lead to greater keys and skip no linked one (`Sorted`), where the new node will
go (`Place`), which words of an overwrite are stored (`Stored`), and for a
reader that it stands on a linked node before its key (`Searching`) and that the
words it loads were the key's at some instant (`Watching`, `Results`). A
pointer in front of a reader only ever moves to a smaller key; the insert that
moves it below the key that the reader looks for is the one that overtakes it.
`Chain`, the keys found by following pointers, and the inner loop of `insert`'s
search are recursive functions.

`WALProofs`, for any segment limit, record sizes and numbers of appends,
failures and restarts: `TypeCorrect`, `ReplaysOrdered` (`ReplayOrdered`) and
`FirstReplayRight` (`FirstReplayComplete`). The invariant is

- `Active`: a running log appends to its last segment, a failed rotation leaves
  at most an empty one behind it, and what Rotate has returned is behind;
- `Legacy`: a log without segments is all there is until it is adopted;
- `Ordered`: records are ascending in each segment and across segments;
- `Sealed`: what Rotate sealed for a memtable is what the segments up to its
  number hold, and no later one has any of it. This is why
  `RemoveSegmentsUpTo` neither loses a record nor leaves one;
- `Gone`, `Logged`: flushed records are in no segment, but for those whose
  removal failed (`stuck`); acknowledged ones that were not flushed are in one;
- `Whole`: before the first restart and failing write, the only fragment is one
  at the very end of the last segment, left by a crash.

`Ordered` and `Gone` give `ReplaysOrdered`: `ReplayRight` shows that Replay,
whatever it passes over, returns ascending numbers, each from some segment.
`Logged` and `Whole` give `FirstReplayRight`: `ReplayAll` shows that with at
most that one fragment nothing is passed over, unless a record is refused.

`MergeProofs`, for any finite set of keys, any values, block size, number of
tables, scan ranges, hash functions of the bloom filter, unreadable blocks and
numbers of failing writes: `TypeCorrect`, `OutputsSorted` (`OutputSorted`), `ScansExact`
(`ScanExact`), `OpensPrefixes` (`OpensOnlyPrefix`) and `OutputsExact`
(`OutputExact`). There are three invariants, each resting on those before it:

- `MergeInv`: sources, and their readable parts (`GivenRight`), are sorted
  blocks, none empty (`HeapRight`), which goes back to lemmas about `Entries`,
  `Blocks` and `AddToBlocks`; iterators in the
  heap stand on entries; what was emitted is ascending and not behind `lastKey`
  (`EmittedInOrder`), and nothing in the heap is before `lastKey` (`HeapAhead`).
  It holds whatever fails, and gives `OutputsSorted`.
- `ExactInv`: every wanted entry that an iterator is to give is either not
  behind `lastKey` or still to come from the heap (`NothingMissed`),
  and what was emitted is exactly the `Due` entries (newest of their key, not
  dropped) that were passed (`EmittedDue`). The heart is `TopIsNewest`: an item
  with a new key comes from the newest source that has the key, since all
  sources with that key have it at their head. With two ascending
  sequences of the same elements being equal (`SameOrder`), this gives
  `ScansExact`.
- `FileInv`: the file is what the hash was given, and index and current block
  stand for what was emitted (`Writing`); or that with the footer (`Complete`);
  or it is `Spoilt`: a chunk that was never hashed, junk or a first footer, is
  in the part that every later footer covers, so that its checksum is wrong for
  ever; or there is `NoFile`. `Spoilt` is what makes a second `Writer.Close`
  after a failed one harmless. `FinishedReads` shows that a complete file opens
  and that `Get` finds its way through filter, index and block to every key.

Its assumptions: keys are finitely many pairs of integers (`KeyAssumption`; in
the code a uint64 and an int64), sizes and bounds are natural numbers, the
numbers of the sources are values, and the marks for a missing value, a
tombstone and no key are none of the values and keys.

Induction over data. The provers cannot instantiate the library's induction
theorems, which take an operator. `Recursion` states induction with sets and
functions instead of operators: a set of numbers has a least element
(`LeastNatural`, from the well-foundedness of `<`), so that a counterexample
would have a least one (`MeasuredInduction`). From that come the existence of
the functions that recursive definitions describe, the ascending enumeration of
a finite ordered set (`Enumeration`, for `listSegmentIDs` and for the entries of
a memtable), what loops compute (`LoopResults`, for `Blocks` and `SizeOf`), and
`FlattenInduction`, for the segments that `Replay` puts together and the blocks
of a table.

Model-checked only: liveness (`CallsReturn`, `RetiredFilesGo`), which is out of
this prover's reach. The properties of runs that expect a violation are false,
and have no theorem.

## 5. Not modelled

- `CompactRange` as a step of the engine: nothing in the repository calls it, so
  that nothing says which tables a caller may pass. (Its output gets the highest
  generation, so a range without the newest table would shadow newer data.) The
  merge that it shares with `CompactAll` is in `Merge`, for minor compactions
  too.
- Power failures: a crash loses memory, never what a completed system call
  wrote. The directory is not synced by the code, which is therefore not
  examined here.
- A failing `os.Remove` of a replaced SSTable file.
- Calls during or after `Close`, which dereference a nil `w.wal`.
- The bytes of an entry and of a WAL payload, snappy's compression, and the
  collisions of checksums.
- Memory orders weaker than amd64's in the skiplist's race.
- Example, benchmarks and scripts: they only call the public operations.

## 6. Plan

All components are modelled, the engine with its error paths included. Every
safety invariant and action property of the passing runs is proved, and so is
the refinement of `KVStore`. What is left:

1. `WAL`: which restarts after the first are complete, as a condition on the
   fragments that were left behind.
2. `Wisp` with a second compactor: what reads return once a table has been taken
   out of the list twice.
3. Crash safety with compactions: a condition weaker than `Clean`, such as that
   no crash falls between the removals of a compaction's inputs.
