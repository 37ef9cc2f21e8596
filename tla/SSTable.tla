------------------------------ MODULE SSTable -------------------------------
(***************************************************************************)
(* The file format of an SSTable: how entries are grouped into blocks      *)
(* (writer.go, block.go), which keys the bloom filter lets through         *)
(* (bloom.go), and what OpenReader, Get and the Iterator make of the bytes *)
(* they find (reader.go, iterator.go).                                     *)
(*                                                                         *)
(* A file is the sequence of what the Writer's Write calls put into it:    *)
(* the header, blocks, the index, the bloom filter and the footer, each    *)
(* one chunk, and Junk, the first bytes of a write that failed half-way.   *)
(* Offsets count chunks.  A checksum is represented by the chunks it was   *)
(* computed from, so that different contents have different checksums.     *)
(***************************************************************************)
EXTENDS Layers, Sequences, SequencesExt

CONSTANTS
    ValueLength,    \* the length of every value; a tombstone has none
    BlockSize,      \* SSTableBlockSize
    HashFunc        \* series -> the two halves of its murmur3 hash

ASSUME FormatAssumption ==
    /\ ValueLength \in Nat
    /\ BlockSize \in Nat

\* Keys are <<SeriesID, Timestamp>> pairs of 64-bit integers.
ASSUME KeyAssumption ==
    /\ \A k \in Key : k \in Nat \X Int
    /\ IsFiniteSet(Key)

SeriesID(k) == k[1]
Timestamp(k) == k[2]

\* compareEntries(a, b) < 0, and compare(a, b) < 0
KeyLess(a, b) ==
    \/ SeriesID(a) < SeriesID(b)
    \/ SeriesID(a) = SeriesID(b) /\ Timestamp(a) < Timestamp(b)

\* The entries of a layer in key order, as a memtable's iterator shows them:
\* <<key, value or Tombstone>>.
Entries(a) ==
    LET ks == {k \in Key : a[k] # Absent}
        sorted == CHOOSE q \in [1..Cardinality(ks) -> ks] :
                    \A i, j \in DOMAIN q : i < j => KeyLess(q[i], q[j])
    IN  [i \in 1..Cardinality(ks) |-> <<sorted[i], a[sorted[i]]>>]

\* The layer that a sequence of entries stands for.
LayerOf(es) ==
    [k \in Key |-> IF \E i \in DOMAIN es : es[i][1] = k
                     THEN es[CHOOSE i \in DOMAIN es : es[i][1] = k][2]
                     ELSE Absent]

-----------------------------------------------------------------------------
(* Blocks.                                                                 *)

\* entryEncodedSize
EntrySize(e) ==
    4 + 8 + 8 + 1 + 4 + (IF e[2] = Tombstone THEN 0 ELSE ValueLength)

SizeOf(block) ==
    LET size[n \in 0..Len(block)] ==
          IF n = 0 THEN 0 ELSE size[n - 1] + EntrySize(block[n])
    IN  size[Len(block)]

\* Writer.Add starts a new block for e, unless the current one is empty: an
\* entry that is larger than a block gets one of its own.
BlockFull(block, e) ==
    Len(block) > 0 /\ SizeOf(block) + EntrySize(e) > BlockSize

\* The blocks bs with one more entry.
AddToBlocks(bs, e) ==
    IF bs = << >> \/ BlockFull(Last(bs), e)
      THEN Append(bs, <<e>>)
      ELSE [bs EXCEPT ![Len(bs)] = Append(@, e)]

\* The blocks in which the Writer puts the entries es.
Blocks(es) ==
    LET blocks[n \in 0..Len(es)] ==
          IF n = 0 THEN << >> ELSE AddToBlocks(blocks[n - 1], es[n])
    IN  blocks[Len(es)]

-----------------------------------------------------------------------------
(* The bloom filter.                                                       *)

NumHashes == 7

\* The bits for n keys and a false positive rate of 1%: 9.585 a key.
NumBits(n) == (9585 * (IF n = 0 THEN 1 ELSE n) + 999) \div 1000

\* The positions BloomFilter.Add sets for a series among m bits.
Positions(s, m) == {(HashFunc[s][1] + i * HashFunc[s][2]) % m :
                      i \in 0..NumHashes - 1}

\* buildBloomFilter: one key an entry, although entries share their series.
BloomFilter(series) ==
    LET m == NumBits(Len(series))
    IN  [numBits |-> m, bits |-> UNION {Positions(series[i], m) :
                                          i \in DOMAIN series}]

\* A wrong variant of MayContain: positions among the bits of the whole bytes.
MayContainRounded(b, s) ==
    Positions(s, 8 * ((b.numBits + 7) \div 8)) \subseteq b.bits

MayContain(b, s) == Positions(s, b.numBits) \subseteq b.bits

-----------------------------------------------------------------------------
(* Chunks.                                                                 *)

Header == [kind |-> "header"]

Junk == [kind |-> "junk"]

Block(es) == [kind |-> "block", entries |-> es]

\* An index entry has the first key of its block and the block's offset.
IndexEntry(k, offset) == [first |-> k, offset |-> offset]

Index(entries) == [kind |-> "index", entries |-> entries]

Bloom(filter) == [kind |-> "bloom", filter |-> filter]

Footer(index, bloom, checksum) ==
    [kind |-> "footer", index |-> index, bloom |-> bloom,
     checksum |-> checksum]

\* OpenReader succeeds: the file ends in a footer, and what comes before it has
\* the checksum the footer says, up to the end of the bloom filter.
Opens(file) ==
    /\ file # << >>
    /\ Last(file).kind = "footer"
    /\ LET footer == Last(file)
       IN  /\ footer.bloom < Len(file)
           /\ SubSeq(file, 1, footer.bloom) = footer.checksum

\* The blocks the index of an open file names, in order.  readBlock reports an
\* error where there is no block.
IndexOf(file) == file[Last(file).index].entries

BlockAt(file, entry) == file[entry.offset].entries

\* What the Iterator shows of an open file, if no read fails.
Contents(file) ==
    FlattenSeq([i \in DOMAIN IndexOf(file) |->
                  BlockAt(file, IndexOf(file)[i])])

\* findBlock: the blocks that do not start behind k (sort.Search finds the
\* last of them).
FindBlock(index, k) == {i \in DOMAIN index : ~KeyLess(k, index[i].first)}

\* Reader.Get: the bloom filter, the last block that may have the key, and the
\* entries of that block one by one.
ReaderGet(file, k) ==
    LET index == IndexOf(file)
        candidates == FindBlock(index, k)
        block == BlockAt(file, index[Max(candidates)])
    IN  IF ~MayContain(file[Last(file).bloom].filter, SeriesID(k))
           \/ candidates = {}
          THEN Absent
          ELSE LayerOf(block)[k]

=============================================================================
