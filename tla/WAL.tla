-------------------------------- MODULE WAL ---------------------------------
(***************************************************************************)
(* The segmented write-ahead log (wal/wal.go) at the level of its records: *)
(* appends that rotate by size, rotation for a freeze, removal of flushed  *)
(* segments, failing writes, syncs, closes and opens, a crash in the       *)
(* middle of an append, reopening and replay.  Every operation holds the   *)
(* WAL's mutex, so each is one step.                                       *)
(*                                                                         *)
(* A segment file is the sequence of what was written to it: records,      *)
(* numbered in the order of the AppendRecord calls, each with its size,    *)
(* and fragments, the first bytes of a record that was not written to its  *)
(* end.  A fragment has size one.                                          *)
(***************************************************************************)
EXTENDS Integers, Sequences, FiniteSets, FiniteSetsExt, Functions, SequencesExt

CONSTANTS
    MaxSegmentSize,     \* maxSegmentSize
    MaxRecordSize,      \* the largest record that Replay accepts
    RecordSizes,        \* the sizes of the records clients write
    MaxAppends,         \* bounds: AppendRecord calls,
    MaxLarge,           \*   those with a record of a size other than one,
    MaxLegacy,          \*   records in a log from before there were segments,
    MaxRotations,       \*   Rotate calls,
    MaxResets,          \*   Reset calls, failing ones included,
    MaxReopens,         \*   restarts,
    MaxWriteErrors,     \*   failing Write and Sync calls of AppendRecord,
    MaxRotateErrors,    \*   failing rotations,
    MaxRemoveErrors     \*   failing removals

ASSUME SizeAssumption ==
    /\ MaxSegmentSize \in Nat \ {0}
    /\ MaxRecordSize \in Nat \ {0}
    /\ RecordSizes \subseteq Nat \ {0}

VARIABLES
    segments,   \* the disk: segment id -> what its file holds
    legacy,     \* a WAL from before there were segments, << >> if there is none
    file,       \* w.file: "open", "nil", or "broken" (a failed Close left it)
    segmentID,  \* w.segmentID
    frozen,     \* what Rotate has returned -> the records sealed by then
    \* History.
    last,       \* AppendRecord calls so far
    large,      \* those with a record of a size other than one
    acked,      \* records whose AppendRecord returned nil
    flushed,    \* records that are in an SSTable, their segments reclaimed, or
                \* that were discarded by Reset
    stuck,      \* those of flushed in a segment whose removal failed
    recovered,  \* what the last Replay returned
    count       \* per bound, except for last

vars == <<segments, legacy, file, segmentID, frozen, last, large, acked,
          flushed, stuck, recovered, count>>

Record(n, s) == [id |-> n, size |-> s]

\* A fragment; records are numbered from 1.  All that the header it may hold can
\* tell is that the record is too large.
Torn == 0
Fragments(s) ==
    {[id |-> Torn, size |-> n] : n \in {1} \cup ({s} \ 1..MaxRecordSize)}

Failed == <<Torn>>  \* Replay returned an error

Counters == {"rotations", "resets", "reopens", "writeErrors", "rotateErrors",
             "removeErrors"}

Down == file = "down"   \* the process is not running

\* A new WAL, or a log from before there were segments, whose end may be torn.
Init ==
    /\ \/ /\ segments = [s \in {1} |-> << >>]
          /\ file = "open" /\ segmentID = 1
          /\ last = 0 /\ legacy = << >>
       \/ /\ segments = << >>
          /\ file = "down" /\ segmentID = 0
          /\ last \in 1..MaxLegacy
          /\ \E tail \in {<< >>} \cup {<<f>> : f \in Fragments(1)} :
               legacy = [n \in 1..last |-> Record(n, 1)] \o tail
    /\ frozen = << >>
    /\ large = 0
    /\ acked = 1..last
    /\ flushed = {}
    /\ stuck = {}
    /\ recovered = << >>
    /\ count = [c \in Counters |-> 0]

Counted(c, b) ==
    /\ count[c] < b
    /\ count' = [count EXCEPT ![c] = @ + 1]

\* f with the value v at i, where i may be outside the domain of f.
Put(f, i, v) == [j \in DOMAIN f \cup {i} |-> IF j = i THEN v ELSE f[j]]

-----------------------------------------------------------------------------
(* AppendRecord and Rotate.                                                *)

\* AppendRecord is called for a record of size s.
NextRecord(s) ==
    /\ last < MaxAppends
    /\ last' = last + 1
    /\ large' = IF s = 1 THEN large ELSE large + 1
    /\ large' <= MaxLarge

\* w.size
FileSize(items) ==
    FoldLeft(LAMBDA n, item : n + (IF item.id = Torn THEN 1 ELSE item.size),
             0, items)

\* A record of size s would overflow a segment that already holds something.
MustRotate(s) ==
    /\ FileSize(segments[segmentID]) > 0
    /\ FileSize(segments[segmentID]) + s > MaxSegmentSize

\* The segment AppendRecord writes to, after a rotation if there is one.
Target(s) == IF MustRotate(s) THEN segmentID + 1 ELSE segmentID

\* The segments once items, of a record of size s, are written to Target(s).
Written(s, items) ==
    Put(segments, Target(s),
        (IF MustRotate(s) THEN << >> ELSE segments[segmentID]) \o items)

\* What a Write that does not return may leave: nothing, a part of the record
\* or all of it.
Partial(s) ==
    {Written(s, << >>), Written(s, <<Record(last', s)>>)}
    \cup {Written(s, <<fragment>>) : fragment \in Fragments(s)}

AppendRecord(s) ==
    /\ file = "open" /\ NextRecord(s)
    /\ segments' = Written(s, <<Record(last', s)>>)
    /\ segmentID' = Target(s)
    /\ acked' = acked \cup {last'}
    /\ UNCHANGED <<legacy, file, frozen, flushed, stuck, recovered, count>>

\* A failing Write leaves a part of the record or nothing; a failing Sync all.
AppendFails(s) ==
    /\ file = "open" /\ NextRecord(s)
    /\ Counted("writeErrors", MaxWriteErrors)
    /\ segments' \in Partial(s)
    /\ segmentID' = Target(s)
    /\ UNCHANGED <<legacy, file, frozen, acked, flushed, stuck, recovered>>

\* A rotation that fails: Sync leaves everything as it was, Close a closed file,
\* openSegment no file, with or without creating the next segment.
RotateFailure ==
    /\ Counted("rotateErrors", MaxRotateErrors)
    /\ \/ file' = file /\ segments' = segments
       \/ file = "open" /\ file' = "broken" /\ segments' = segments
       \/ /\ file' = "nil"
          /\ \/ segments' = segments
             \/ /\ segmentID + 1 \notin DOMAIN segments
                /\ segments' = Put(segments, segmentID + 1, << >>)
    /\ UNCHANGED <<legacy, segmentID, frozen, acked, flushed, stuck, recovered>>

AppendRotateFails(s) ==
    /\ file = "open" /\ NextRecord(s) /\ MustRotate(s)
    /\ RotateFailure

\* Rotate seals the active segment and returns its id.  It also gets a WAL
\* going again that lost its file to a failing rotation.
Rotate ==
    /\ file \in {"open", "nil"}
    /\ Counted("rotations", MaxRotations)
    /\ file' = "open"
    /\ segmentID' = segmentID + 1
    /\ segments' = IF segmentID + 1 \in DOMAIN segments
                     THEN segments
                     ELSE Put(segments, segmentID + 1, << >>)
    /\ frozen' = Put(frozen, segmentID, acked)
    /\ UNCHANGED <<legacy, last, large, acked, flushed, stuck, recovered>>

RotateFails ==
    /\ file \in {"open", "nil"}
    /\ UNCHANGED <<last, large>>
    /\ RotateFailure

-----------------------------------------------------------------------------
(* RemoveSegmentsUpTo, Reset, Close, crash, CreateWAL and Replay.          *)

\* Wrong variants of Reclaimable: the segment after the sealed one goes too, ...
ReclaimableNext(id) == {s \in DOMAIN segments : s <= id + 1}

\* ... or every segment but the active one.
ReclaimableSealed(id) == {s \in DOMAIN segments : s # segmentID}

\* The sealed segments that RemoveSegmentsUpTo removes.
Reclaimable(id) == {s \in DOMAIN segments : s <= id /\ s # segmentID}

\* The acknowledged records in the segments ids.
RecordsIn(ids) ==
    acked \cap UNION {{item.id : item \in Range(segments[s])} : s \in ids}

\* A flush reclaims what Rotate sealed for its memtable.  Segments whose
\* removal fails stay.
RemoveSegmentsUpTo(id) ==
    /\ ~Down
    /\ \E kept \in SUBSET Reclaimable(id) :
         /\ IF kept = {}
              THEN UNCHANGED count
              ELSE Counted("removeErrors", MaxRemoveErrors)
         /\ segments' = Restrict(segments,
                                 DOMAIN segments \ (Reclaimable(id) \ kept))
         /\ stuck' = stuck \cup RecordsIn(kept)
    /\ flushed' = flushed \cup frozen[id]
    /\ frozen' = Restrict(frozen, DOMAIN frozen \ {id})
    /\ UNCHANGED <<legacy, file, segmentID, last, large, acked, recovered>>

\* Reset removes the segments ids, and what Rotate has returned is void.
Discard(ids) ==
    /\ file \in {"open", "nil"}
    /\ flushed' = flushed \cup RecordsIn(ids)
    /\ frozen' = << >>
    /\ UNCHANGED <<legacy, last, large, acked, stuck, recovered>>

\* Reset removes all segments and starts again with segment 1.
Reset ==
    /\ Counted("resets", MaxResets)
    /\ Discard(DOMAIN segments)
    /\ file' = "open"
    /\ segmentID' = 1
    /\ segments' = [s \in {1} |-> << >>]

\* Reset cannot close the file, which stays, or is left without a file: it
\* cannot remove a segment, the older ones being gone, or cannot open the first
\* one in the end, with or without creating it.
ResetFails ==
    /\ Counted("resets", MaxResets)
    /\ \/ /\ file = "open" /\ file' = "broken"
          /\ Discard({}) /\ UNCHANGED segments
       \/ /\ file' = "nil"
          /\ \E s \in DOMAIN segments :
               LET gone == {t \in DOMAIN segments : t < s}
               IN  /\ Discard(gone)
                   /\ segments' = Restrict(segments, DOMAIN segments \ gone)
       \/ /\ file' = "nil"
          /\ Discard(DOMAIN segments)
          /\ segments' \in {<< >>, [s \in {1} |-> << >>]}
    /\ UNCHANGED segmentID

Stop ==
    /\ file' = "down"
    /\ segmentID' = 0
    /\ frozen' = << >>
    /\ UNCHANGED <<legacy, acked, flushed, stuck, recovered, count>>

Close == ~Down /\ Stop /\ UNCHANGED <<segments, last, large>>

\* A crash between calls, or in AppendRecord: before the rotation, after it,
\* in the middle of the write, or before the caller learns of its success.
Crash ==
    /\ ~Down
    /\ Stop
    /\ \/ UNCHANGED <<segments, last, large>>
       \/ \E s \in RecordSizes :
            file = "open" /\ NextRecord(s) /\ segments' \in Partial(s)

\* replaySegment reads a header that says the record is too large.
Refused(item) == item.size > MaxRecordSize

\* What replaySegment may return.  A fragment at the end is passed over in the
\* final segment.  The bytes that follow any other fragment are taken for its
\* missing ones: then the checksum is wrong, or the file ends too early.
ReplaySegment(items, final) ==
    LET stops == {i \in DOMAIN items : items[i].id = Torn \/ Refused(items[i])}
        stop == Min(stops)
        Readable(n) == [i \in 1..n |-> items[i].id]
    IN  IF stops = {} THEN {Readable(Len(items))}
        ELSE IF Refused(items[stop]) \/ ~final THEN {Failed}
        ELSE IF stop = Len(items) THEN {Readable(stop - 1)}
        ELSE {Readable(stop - 1), Failed}

\* A wrong variant of SegmentIDs: the newest segment first.
SegmentIDsDescending(ss) ==
    CHOOSE ids \in [1..Cardinality(DOMAIN ss) -> DOMAIN ss] :
        \A i, j \in DOMAIN ids : i < j => ids[i] > ids[j]

\* listSegmentIDs: the segments' ids, sorted.
SegmentIDs(ss) ==
    CHOOSE ids \in [1..Cardinality(DOMAIN ss) -> DOMAIN ss] :
        \A i, j \in DOMAIN ids : i < j => ids[i] < ids[j]

\* What Replay may return: all segments ss in the order of their ids.
Replay(ss) ==
    LET ids == SegmentIDs(ss)
        n == Len(ids)
        results == [i \in 1..n |-> ReplaySegment(ss[ids[i]], i = n)]
        sealedPart == FlattenSeq([i \in 1..n - 1 |->
                                    CHOOSE r \in results[i] : TRUE])
    IN  IF \E i \in 1..n - 1 : results[i] = {Failed}
          THEN {Failed}
          ELSE {IF r = Failed THEN Failed ELSE sealedPart \o r :
                  r \in results[n]}

\* The segments once CreateWALWithSegmentSize has opened the last one.  If there
\* are none, the log from before there were segments becomes the first.
Adopted ==
    IF segments # << >> THEN segments ELSE [s \in {1} |-> legacy]

\* CreateWALWithSegmentSize appends to the last segment as it is; the engine
\* then calls Replay, and gives up if that fails.
Reopen ==
    /\ Down
    /\ Counted("reopens", MaxReopens)
    /\ segments' = Adopted
    /\ legacy' = IF segments = << >> THEN << >> ELSE legacy
    /\ recovered' \in Replay(segments')
    /\ IF recovered' = Failed
         THEN UNCHANGED <<file, segmentID>>
         ELSE file' = "open" /\ segmentID' = Max(DOMAIN segments')
    /\ UNCHANGED <<frozen, last, large, acked, flushed, stuck>>

Next ==
    \/ \E s \in RecordSizes :
         AppendRecord(s) \/ AppendFails(s) \/ AppendRotateFails(s)
    \/ Rotate \/ RotateFails
    \/ \E id \in DOMAIN frozen : RemoveSegmentsUpTo(id)
    \/ Reset \/ ResetFails
    \/ Close \/ Crash \/ Reopen

Spec == Init /\ [][Next]_vars

-----------------------------------------------------------------------------
(* Properties.                                                             *)

\* What a file may hold once n records have been appended.
Item(n) == [id : 0..n, size : RecordSizes \cup {1}]

\* The types of all variables; a running WAL's active segment exists, and only
\* acknowledged records are reclaimed.
TypeOK ==
    /\ segments \in [DOMAIN segments -> Seq(Item(last))]
    /\ DOMAIN segments \in SUBSET (Nat \ {0})
    /\ legacy \in Seq(Item(last))
    /\ \A i \in DOMAIN legacy : legacy[i].size = 1
    /\ file \in {"open", "nil", "broken", "down"}
    /\ segmentID \in Nat
    /\ file = "open" => segmentID \in DOMAIN segments
    /\ frozen \in [DOMAIN frozen -> SUBSET (1..last)]
    /\ last \in Nat /\ large \in 0..last
    /\ acked \in SUBSET (1..last)
    /\ flushed \in SUBSET acked
    /\ stuck \in SUBSET flushed
    /\ recovered \in Seq(0..last)
    /\ count \in [Counters -> Nat]

\* Every restart gets all acknowledged records back that are not in an SSTable
\* yet, whichever segment they are in: Replay neither takes the remains of an
\* interrupted append for corruption nor ends before a complete record.
ReplayComplete ==
    [][count'["reopens"] # count["reopens"] =>
         /\ recovered' # Failed
         /\ acked \ flushed \subseteq Range(recovered')]_vars

\* The first restart does, after any rotations by size and for a freeze, failing
\* rotations, removals of some segments or all, and a crash at any point of an
\* append, unless a write had failed before, and from a log that was written
\* before there were segments.  All that keeps it from opening is a record, or
\* the start of one, that AppendRecord took and Replay refuses for its size.
FirstReplayComplete ==
    [][count'["reopens"] = 1 /\ count["reopens"] = 0 /\ count["writeErrors"] = 0
       => \/ /\ recovered' = Failed
             /\ \E s \in DOMAIN segments : \E i \in DOMAIN segments[s] :
                  Refused(segments[s][i])
          \/ /\ recovered' # Failed
             /\ acked \ flushed \subseteq Range(recovered')]_vars

\* Whatever is torn or cannot be removed, Replay returns records in the order of
\* the appends, so that the last write of a key wins, none twice, and of the
\* records that are in an SSTable only those in segments whose removal failed.
ReplayOrdered ==
    [][Down /\ ~Down' =>
         /\ \A i, j \in DOMAIN recovered' :
              i < j => recovered'[i] < recovered'[j]
         /\ Range(recovered') \cap flushed \subseteq stuck]_vars

=============================================================================
