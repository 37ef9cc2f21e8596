------------------------------- MODULE Merge --------------------------------
(***************************************************************************)
(* The three loops that read sorted entries: flushImmutable, which writes  *)
(* a memtable out, CompactSSTables, which merges tables into a new one,    *)
(* and ScanIterator.Next, which merges a memtable and tables for a client. *)
(* Each runs in one goroutine over inputs that do not change, so what can  *)
(* go wrong is in the merge, in the file that is written (at every instant *)
(* it may be all that a crash leaves), and in reads and writes that fail.  *)
(*                                                                         *)
(* Sources are numbered by age: tables by their generation, from the       *)
(* oldest to the newest, and the memtable last.  All values in a source    *)
(* are its number.                                                         *)
(***************************************************************************)
EXTENDS SSTable

CONSTANTS
    Tables,         \* the number of tables
    Ranges,         \* the Scan calls: [series, start, end] records
    NoKey,          \* lastKey is nil
    MaxReadErrors,  \* bounds: blocks that cannot be read,
    MaxWriteErrors  \*   failing writes

Source == 1..Tables + 1

Memtable == Tables + 1

ASSUME SourceAssumption ==
    /\ Tables \in Nat
    /\ Source \subseteq Value
    /\ NoKey \notin Key

ASSUME BoundAssumption ==
    /\ MaxReadErrors \in Nat
    /\ MaxWriteErrors \in Nat

VARIABLES
    call,       \* what runs: a flush, a compaction or a scan
    blocks,     \* source -> its entries, block by block
    unreadable, \* the <<source, block>> pairs whose readBlock returns an error
    pc,
    \* The merge.
    heap,       \* the sources that have an item in the heap
    cursor,     \* source -> its iterator's blockIndex and entryIndex
    lastKey,
    emitted,    \* what the writer was given, or the client
    \* The Writer.
    file,       \* the output file
    block,      \* currentBlock
    index,
    offset,     \* where the next write begins, as the Writer counts
    checksum,   \* what its hash was given
    \* Errors.
    failed,     \* the call is going to return an error
    writeErrors

input == <<blocks, unreadable>>
merge == <<heap, cursor, lastKey, emitted>>
output == <<file, block, index, offset, checksum>>
vars == <<call, input, pc, merge, output, failed, writeErrors>>

Calls ==
    {[kind |-> "flush"]}
    \cup {[kind |-> "compact", isMajor |-> m] : m \in BOOLEAN}
    \cup {[kind |-> "scan", range |-> r] : r \in Ranges}

\* What a call reads.
Sources(c) ==
    CASE c.kind = "flush"   -> {Memtable}
      [] c.kind = "compact" -> Source \ {Memtable}
      [] c.kind = "scan"    -> Source

\* A source's layer: which keys have a value there, which a tombstone.
Shape == [Key -> {"none", "value", "tombstone"}]

LayerOfShape(s, shape) ==
    [k \in Key |-> CASE shape[k] = "none" -> Absent
                     [] shape[k] = "value" -> s
                     [] shape[k] = "tombstone" -> Tombstone]

\* A memtable's iterator has all its entries at hand; a table is read block by
\* block, as a Writer has written it.
InputOf(s, layer) ==
    IF s = Memtable /\ layer # EmptyLayer
      THEN <<Entries(layer)>> ELSE Blocks(Entries(layer))

\* Any contents of the sources; a memtable that is flushed is not empty.  A call
\* reads a block at most once, so the reads that are going to fail, if any, can
\* be told beforehand.
Init ==
    /\ call \in Calls
    /\ \E shapes \in [Sources(call) -> Shape] :
         blocks = [s \in Source |->
                     IF s \in Sources(call)
                       THEN InputOf(s, LayerOfShape(s, shapes[s]))
                       ELSE << >>]
    /\ call.kind = "flush" => blocks[Memtable] # << >>
    /\ \E n \in 0..MaxReadErrors :
         unreadable \in kSubset(n, UNION {{s} \X DOMAIN blocks[s] :
                                           s \in Source \ {Memtable}})
    /\ pc = "open"
    /\ heap = {}
    /\ cursor = [s \in Source |-> [block |-> 1, entry |-> 1]]
    /\ lastKey = NoKey
    /\ emitted = << >>
    /\ file = << >>
    /\ block = << >>
    /\ index = << >>
    /\ offset = 1
    /\ checksum = << >>
    /\ failed = FALSE
    /\ writeErrors = 0

-----------------------------------------------------------------------------
(* The sources and the heap.                                               *)

\* Iterator.loadNextBlock: there is a block b, and it can be read.
Loads(s, b) == b \in DOMAIN blocks[s] /\ <<s, b>> \notin unreadable

\* Every source whose first block can be loaded joins the heap.
Open ==
    /\ pc = "open"
    /\ heap' = {s \in Source : Loads(s, 1)}
    /\ pc' = CASE call.kind = "scan" -> "pop"
               [] call.kind = "flush" -> "create"
               [] call.kind = "compact" ->
                    IF heap' = {} THEN "end" ELSE "create"
    /\ UNCHANGED <<call, input, cursor, lastKey, emitted, output, failed,
                   writeErrors>>

Item(s) == blocks[s][cursor[s].block][cursor[s].entry]

\* The place of a source in Scan's heap: the memtable first, then the tables as
\* the list has them, newest first.
SourceIdx(s) == Memtable - s

\* A wrong variant of Before: the older generation comes out first.
BeforeOldest(s, t) ==
    LET a == Item(s)[1]
        b == Item(t)[1]
    IN  KeyLess(a, b) \/ (a = b /\ s < t)

\* Less of the compaction's heap (generations) and of the scan's (sourceIdx).
Before(s, t) ==
    LET a == Item(s)[1]
        b == Item(t)[1]
    IN  \/ KeyLess(a, b)
        \/ a = b /\ IF call.kind = "compact" THEN s > t
                                             ELSE SourceIdx(s) < SourceIdx(t)

\* heap.Pop
Top == CHOOSE s \in heap : \A t \in heap \ {s} : Before(s, t)

\* A wrong variant of Advance: one entry too many is taken from a block.
AdvanceTooFar(s) ==
    /\ cursor' = [cursor EXCEPT ![s].entry = @ + 1]
    /\ UNCHANGED heap

\* Iterator.Next, and the source's next item joins the heap: within the block,
\* in the next block, or none, at the end or where a block cannot be read.
Advance(s) ==
    LET at == cursor[s]
        inBlock == at.entry < Len(blocks[s][at.block])
        more == Loads(s, at.block + 1)
    IN  \/ /\ inBlock
           /\ cursor' = [cursor EXCEPT ![s].entry = @ + 1]
           /\ UNCHANGED heap
        \/ /\ ~inBlock /\ more
           /\ cursor' = [cursor EXCEPT ![s] = [block |-> at.block + 1,
                                               entry |-> 1]]
           /\ UNCHANGED heap
        \/ /\ ~inBlock /\ ~more
           /\ heap' = heap \ {s}
           /\ UNCHANGED cursor

-----------------------------------------------------------------------------
(* The Writer.                                                             *)

\* w.out.Write: the chunk goes into the file and into the hash.
Write(chunk) ==
    /\ file' = Append(file, chunk)
    /\ offset' = offset + 1
    /\ checksum' = Append(checksum, chunk)

CountError ==
    /\ writeErrors < MaxWriteErrors
    /\ writeErrors' = writeErrors + 1

\* Write returns an error, having written nothing or a part: what that leaves
\* in the file is neither counted nor hashed.
WriteFails ==
    /\ CountError
    /\ file' \in {file, Append(file, Junk)}
    /\ UNCHANGED <<offset, checksum>>

\* The block is written and gets its entry in the index.
WriteBlock ==
    /\ Write(Block(block))
    /\ index' = Append(index, IndexEntry(block[1][1], offset))

\* Writer.flushBlock
FlushBlock ==
    \/ /\ block = << >>
       /\ UNCHANGED output
    \/ /\ block # << >>
       /\ WriteBlock
       /\ block' = << >>

\* Writer.Add, with the block it completes.
Add(e) ==
    /\ emitted' = Append(emitted, e)
    /\ IF BlockFull(block, e)
         THEN WriteBlock /\ block' = <<e>>
         ELSE /\ block' = Append(block, e)
              /\ UNCHANGED <<file, index, offset, checksum>>

\* NewWriter
Create ==
    /\ pc = "create"
    /\ \/ /\ Write(Header)
          /\ pc' = "pop"
          /\ UNCHANGED <<failed, writeErrors>>
       \/ /\ WriteFails
          /\ failed' = TRUE
          /\ pc' = "end"
    /\ UNCHANGED <<call, input, merge, block, index>>

\* Where a call goes once Writer.Close has returned nil or an error.  A
\* compaction that has to give up closes the Writer, perhaps again, and removes
\* the file; so does one whose output has no entries.
Closed ==
    IF call.kind = "compact" /\ (failed \/ emitted = << >>)
      THEN "remove" ELSE "end"

CloseReturnsError ==
    /\ failed' = TRUE
    /\ pc' = IF call.kind = "flush" THEN "end"
             ELSE IF failed THEN "remove" ELSE "close"
    /\ UNCHANGED <<block, index>>

\* The five steps of Writer.Close.
CloseBlock ==
    /\ pc = "close"
    /\ \/ FlushBlock /\ pc' = "index" /\ UNCHANGED <<failed, writeErrors>>
       \/ block # << >> /\ WriteFails /\ CloseReturnsError
    /\ UNCHANGED <<call, input, merge>>

\* What is to be written, then the next step; or the write fails.
CloseStep(at, Written, next) ==
    /\ pc = at
    /\ \/ /\ Written
          /\ pc' = next
          /\ UNCHANGED <<block, index, failed, writeErrors>>
       \/ WriteFails /\ CloseReturnsError
    /\ UNCHANGED <<call, input, merge>>

CloseIndex == CloseStep("index", Write(Index(index)), "bloom")

BloomKeys == [i \in DOMAIN emitted |-> SeriesID(emitted[i][1])]

CloseBloom ==
    CloseStep("bloom", Write(Bloom(BloomFilter(BloomKeys))), "footer")

\* writeFooter goes past the hash.  The index and the bloom filter are what was
\* written last.
WriteFooter ==
    /\ file' = Append(file, Footer(offset - 2, offset - 1, checksum))
    /\ offset' = offset + 1
    /\ UNCHANGED checksum

CloseFooter == CloseStep("footer", WriteFooter, "sync")

CloseSync ==
    /\ pc = "sync"
    /\ \/ pc' = Closed /\ UNCHANGED <<output, failed, writeErrors>>
       \/ /\ CountError /\ CloseReturnsError
          /\ UNCHANGED <<file, offset, checksum>>
    /\ UNCHANGED <<call, input, merge>>

\* os.Remove of a compaction's output.
RemoveOutput ==
    /\ pc = "remove"
    /\ file' = << >>
    /\ pc' = "end"
    /\ UNCHANGED <<call, input, merge, block, index, offset, checksum, failed,
                   writeErrors>>

-----------------------------------------------------------------------------
(* The loops.                                                              *)

InRange(k) ==
    /\ SeriesID(k) = call.range.series
    /\ call.range.start <= Timestamp(k) /\ Timestamp(k) <= call.range.end

\* The key is one the scan asks for.
Wanted(k) == call.kind = "scan" => InRange(k)

\* A wrong variant of Repeated: duplicates are not noticed.
RepeatedNever(k) == FALSE

Repeated(k) == call.kind # "flush" /\ k = lastKey

\* Tombstones are for the client to miss, and a major compaction drops them.
Dropped(e) ==
    /\ e[2] = Tombstone
    /\ \/ call.kind = "scan"
       \/ call.kind = "compact" /\ call.isMajor

\* A wrong variant of NewLastKey: only keys that are emitted are remembered.
NewLastKeyLive(e) == IF Dropped(e) THEN lastKey ELSE e[1]

NewLastKey(e) == e[1]

\* One item leaves the heap and is passed over.
Skip ==
    /\ pc = "pop" /\ heap # {}
    /\ LET e == Item(Top)
       IN  /\ ~Wanted(e[1]) \/ Repeated(e[1]) \/ Dropped(e)
           /\ lastKey' = IF Wanted(e[1]) /\ ~Repeated(e[1])
                           THEN NewLastKey(e) ELSE lastKey
    /\ Advance(Top)
    /\ UNCHANGED <<call, input, pc, emitted, output, failed, writeErrors>>

\* One item leaves the heap and goes to the client or to Writer.Add.
Emit ==
    /\ pc = "pop" /\ heap # {}
    /\ LET e == Item(Top)
       IN  /\ Wanted(e[1]) /\ ~Repeated(e[1]) /\ ~Dropped(e)
           /\ lastKey' = NewLastKey(e)
           /\ IF call.kind = "scan"
                THEN emitted' = Append(emitted, e) /\ UNCHANGED output
                ELSE Add(e)
    /\ Advance(Top)
    /\ UNCHANGED <<call, input, pc, failed, writeErrors>>

\* Writer.Add cannot write the block that is full: the entry is lost, and the
\* Writer is closed.
AddFails ==
    /\ pc = "pop" /\ heap # {} /\ call.kind # "scan"
    /\ LET e == Item(Top)
       IN  /\ ~Repeated(e[1]) /\ ~Dropped(e)
           /\ BlockFull(block, e)
    /\ WriteFails
    /\ failed' = TRUE
    /\ pc' = "close"
    /\ UNCHANGED <<call, input, merge, block, index>>

Exhausted ==
    /\ pc = "pop" /\ heap = {}
    /\ pc' = IF call.kind = "scan" THEN "end" ELSE "close"
    /\ UNCHANGED <<call, input, merge, output, failed,
                   writeErrors>>

End == pc = "end" /\ UNCHANGED vars

Next ==
    \/ Open \/ Create \/ Skip \/ Emit \/ AddFails \/ Exhausted
    \/ CloseBlock \/ CloseIndex \/ CloseBloom \/ CloseFooter \/ CloseSync
    \/ RemoveOutput \/ End

Spec == Init /\ [][Next]_vars

-----------------------------------------------------------------------------
(* Properties.                                                             *)

\* The types of all variables; an iterator whose item is in the heap stands on
\* an entry, and a block holds more than one entry only if they fit.
TypeOK ==
    /\ call \in Calls
    /\ pc \in {"open", "create", "pop", "close", "index", "bloom", "footer",
               "sync", "remove", "end"}
    /\ heap \in SUBSET Source
    /\ \A s \in heap :
         /\ Loads(s, cursor[s].block)
         /\ cursor[s].entry \in DOMAIN blocks[s][cursor[s].block]
    /\ lastKey \in Key \cup {NoKey}
    /\ Len(block) > 1 => SizeOf(block) <= BlockSize
    /\ failed \in BOOLEAN
    /\ writeErrors \in 0..MaxWriteErrors

\* The blocks that a source's iterator gives: those before the first one that
\* cannot be read.
Given(s) ==
    LET n == CHOOSE n \in 0..Len(blocks[s]) :
               /\ \A b \in 1..n : Loads(s, b)
               /\ ~Loads(s, n + 1)
    IN  SubSeq(blocks[s], 1, n)

\* The layers that the sources stand for, as far as they can be read.
Inputs == [s \in Source |-> LayerOf(FlattenSeq(Given(s)))]

\* At every instant, whatever writes have failed and however often the Writer
\* was closed, the file either does not open or is the table of the first
\* entries it was given: Get agrees with the iterator on every key of the
\* database, the keys that the bloom filter or the index send away included.
OpensOnlyPrefix ==
    Opens(file) =>
        /\ IsPrefix(Contents(file), emitted)
        /\ \A k \in Key : ReaderGet(file, k) = LayerOf(Contents(file))[k]

\* A flush or compaction that reports success has written what its iterators
\* gave: the whole memtable, or the newest entry of every key, without the
\* tombstones if the compaction was major, and no file if nothing is left.  A
\* block that cannot be read costs the entries from there on of its own table,
\* of which older versions may then come out, and nothing of another table.
OutputExact ==
    (pc = "end" /\ call.kind # "scan" /\ ~failed) =>
        LET merged == Overlay(Inputs, Source)
            expected == IF call.kind = "compact" /\ call.isMajor
                          THEN Visible(merged) ELSE merged
        IN  IF expected = EmptyLayer
              THEN file = << >>
              ELSE Opens(file) /\ Contents(file) = Entries(expected)

\* A scan returns the live keys of its range, each with its newest value, in
\* order and once; where a block cannot be read, all keys that the readable
\* blocks have, with the newest value there.
ScanExact ==
    (pc = "end" /\ call.kind = "scan") =>
        emitted = Entries(Only(Visible(Overlay(Inputs, Source)),
                               {k \in Key : InRange(k)}))

\* Entries come out in strictly ascending order, which Reader.Get's search
\* relies on, also when sources end early because a block cannot be read.
OutputSorted ==
    \A i \in 1..Len(emitted) - 1 : KeyLess(emitted[i][1], emitted[i + 1][1])

=============================================================================
