------------------------------- MODULE Layers -------------------------------
(***************************************************************************)
(* The data every part of WispDB stores, at the level the engine's         *)
(* properties tell apart.                                                  *)
(*                                                                         *)
(* A skiplist memtable, the records of a WAL segment in replay order and   *)
(* the sorted entries of an SSTable all act on a reader in the same way: a *)
(* key either has an entry (a value, or a tombstone left by Delete) or has *)
(* none, and the last entry written for a key is the one that counts.  A   *)
(* Layer is that mapping.  Readers and recovery consult a stack of layers, *)
(* newest first.                                                           *)
(***************************************************************************)
EXTENDS Integers, FiniteSets, FiniteSetsExt, Functions

CONSTANTS
    Key,        \* (SeriesID, Timestamp) pairs
    Value,      \* the byte strings clients store
    Absent,     \* a layer holds no entry for the key
    Tombstone   \* a layer holds the entry written by Delete

ASSUME CellAssumption ==
    /\ Absent \notin Value
    /\ Tombstone \notin Value
    /\ Absent # Tombstone

\* An entry as clients write it: Value for Insert, Tombstone for Delete.
Entry == Value \cup {Tombstone}

Layer == [Key -> Entry \cup {Absent}]

EmptyLayer == [k \in Key |-> Absent]

\* A layer that still counts what was written to it: a memtable (with the size
\* that IsFull compares with the flush threshold) or a WAL segment (with the
\* size AppendRecord compares with the segment limit).
Buffer == [cells : Layer, size : Nat]

EmptyBuffer == [cells |-> EmptyLayer, size |-> 0]

\* One more record: the skiplist keeps one node per key and overwrites it in
\* place, while the size grows by every record.
PutRecord(b, k, e) ==
    [cells |-> [b.cells EXCEPT ![k] = e], size |-> b.size + 1]

\* f with the value v at i, where i may be outside the domain of f.
Assign(f, i, v) == [j \in DOMAIN f \cup {i} |-> IF j = i THEN v ELSE f[j]]

\* f without the indexes in S.
Without(f, S) == Restrict(f, DOMAIN f \ S)

\* The entries of layer a for the keys in ks.
Only(a, ks) == [k \in Key |-> IF k \in ks THEN a[k] ELSE Absent]

\* What a reader sees of layer a stacked on top of layer b.
Over(a, b) == [k \in Key |-> IF a[k] # Absent THEN a[k] ELSE b[k]]

\* The indexes in S of the layers that have an entry for k.
Holding(f, S, k) == {i \in S : f[i][k] # Absent}

\* The layers f[i], i \in S, stacked with the highest index on top.
Overlay(f, S) ==
    [k \in Key |-> IF Holding(f, S, k) = {}
                     THEN Absent
                     ELSE f[Max(Holding(f, S, k))][k]]

\* What Get reports of an entry: a tombstone reads as a missing key.
StoreValue(e) == IF e = Tombstone THEN Absent ELSE e

Visible(a) == [k \in Key |-> StoreValue(a[k])]

=============================================================================
