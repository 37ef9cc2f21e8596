------------------------- MODULE SSTableListProofs -------------------------
(***************************************************************************)
(* SSTableList's safety properties for any number of tables, readers and   *)
(* compactors, whichever of their calls and Close overlap.                 *)
(*                                                                         *)
(* RefCountExact is the heart of the matter: a pinned table has a positive *)
(* count, and only a count of zero closes a Reader.  It is inductive       *)
(* together with what the calls in progress know about the list (Loops)    *)
(* and about the files (Files), and with the mutual exclusion that the     *)
(* list's lock provides (Control).  Tables that overlapping calls took out *)
(* of the list twice are not in the list, so that no GetTables finds them  *)
(* and their counts only fall.                                             *)
(***************************************************************************)
EXTENDS SSTableList, FiniteSetTheorems, TLAPS

\* Which threads run what, and who holds the list's lock.
Control ==
    /\ \A r \in Readers :
         pc[r] \in {"idle", "walk", "check", "swap", "use", "release"}
    /\ \A c \in Compactors : pc[c] \notin {"close", "closeDrop"}
    /\ pc[Closer] \in {"idle", "close", "closeDrop"}
    /\ \A p \in Threads : p \in rlock <=> pc[p] \in {"walk", "check", "swap"}
    /\ wlock = Closer <=> Closing
    /\ Closing => rlock = {}

\* The loops over tables: a GetTables in progress splits the list into what it
\* has pinned and what it has yet to visit; a compaction pins its inputs while
\* it retires them, when they are no longer in the list, and two compactions
\* that retire the same table have taken it out of the list twice.
Loops ==
    /\ held[Closer] = {}
    /\ \A p \in Threads : pc[p] = "idle" => held[p] = {}
    /\ \A p \in Threads :
         pc[p] \in {"check", "swap", "retireDrop", "closeDrop"}
         => table[p] \in walk[p]
    /\ \A p \in rlock : list = held[p] \cup walk[p] /\ held[p] \cap walk[p] = {}
    /\ \A c \in Compactors :
         pc[c] \in {"retire", "retireDrop"}
         => walk[c] \subseteq held[c] /\ walk[c] \cap list = {}
    /\ \A c, d \in Compactors :
         /\ c # d
         /\ pc[c] \in {"retire", "retireDrop"}
         /\ pc[d] \in {"retire", "retireDrop"}
         => walk[c] \cap walk[d] \subseteq twice
    /\ Closing => walk[Closer] \subseteq list
    /\ twice \subseteq born /\ twice \cap list = {}

\* The files: references come before everything else.
Files ==
    /\ list \subseteq born
    /\ \A p \in Threads : held[p] \subseteq born
    /\ \A p \in Threads : ending[p] # NoTable =>
         ending[p] \in born /\ refCount[ending[p]] <= 0
    /\ \A t \in Table : refCount[t] >= 1 => open[t] /\ onDisk[t]
    /\ \A t \in Table : t \notin born => ~unlinked[t] /\ ~closed[t]
    /\ ~Closing => \A t \in list : ~unlinked[t] /\ ~closed[t]
    /\ \A p \in Threads : pc[p] \in {"check", "swap"} => cur[p] >= 1

IInv == TypeOK /\ Control /\ Loops /\ Files /\ RefCountExact

-----------------------------------------------------------------------------
(* References and pins.                                                    *)

\* The calls that pin a table are finitely many.
LEMMA HoldersFinite ==
  ASSUME NEW t \in Table
  PROVE  IsFiniteSet(Holders(t)) /\ Cardinality(Holders(t)) \in Nat
BY FS_Subset, FS_CardinalityType, ThreadAssumption DEF Holders

\* One more or one fewer call pinning a table changes their number by one.
LEMMA PinCount ==
  ASSUME NEW t \in Table, NEW p
  PROVE  /\ p \notin Holders(t) =>
              Cardinality(Holders(t) \cup {p}) = Cardinality(Holders(t)) + 1
         /\ p \in Holders(t) =>
              Cardinality(Holders(t) \ {p}) = Cardinality(Holders(t)) - 1
BY HoldersFinite, FS_AddElement, FS_RemoveElement

\* A pinned table, and one the list still refers to, has a positive count.
LEMMA PositiveCount ==
  ASSUME TypeOK, RefCountExact, NEW t \in Table \ twice
  PROVE  /\ \A p \in Threads : t \in held[p] => refCount[t] >= 1
         /\ ListRef(t) => refCount[t] >= 1
<1>1. refCount[t] = Cardinality(Holders(t)) + IF ListRef(t) THEN 1 ELSE 0
  BY DEF RefCountExact
<1>2. IsFiniteSet(Holders(t)) /\ Cardinality(Holders(t)) \in Nat
  BY HoldersFinite
<1>3. ASSUME NEW p \in Threads, t \in held[p]
      PROVE  Cardinality(Holders(t)) # 0
  <2>1. Holders(t) # {}
    BY <1>3 DEF Holders
  <2> QED
    BY <2>1, <1>2, FS_EmptySet
<1> QED
  BY <1>1, <1>2, <1>3

\* A step that changes neither a count nor a pin nor the list's references
\* keeps the counts exact.
LEMMA CountsUnchanged ==
  ASSUME RefCountExact, UNCHANGED <<refCount, held, twice>>,
         \A t \in Table : ListRef(t)' <=> ListRef(t)
  PROVE  RefCountExact'
<1>1. \A t \in Table : Holders(t)' = Holders(t)
  BY DEF Holders
<1> QED
  BY <1>1 DEF RefCountExact

\* One table's count, pins or list reference change, and agree afterwards.
LEMMA OneCountChanges ==
  ASSUME TypeOK, RefCountExact, NEW u \in Table, UNCHANGED twice,
         \A t \in Table \ {u} : refCount'[t] = refCount[t],
         \A t \in Table \ {u} : Holders(t)' = Holders(t),
         \A t \in Table \ ({u} \cup twice) : ListRef(t)' <=> ListRef(t),
         u \notin twice =>
           refCount'[u] = Cardinality(Holders(u)')
                          + IF ListRef(u)' THEN 1 ELSE 0
  PROVE  RefCountExact'
<1> SUFFICES ASSUME NEW t \in Table \ twice
             PROVE  refCount'[t] = Cardinality(Holders(t)')
                                   + IF ListRef(t)' THEN 1 ELSE 0
  BY DEF RefCountExact
<1>1. refCount[t] = Cardinality(Holders(t)) + IF ListRef(t) THEN 1 ELSE 0
  BY DEF RefCountExact
<1>2. CASE t = u
  BY <1>2
<1>3. CASE t # u
  BY <1>1, <1>3
<1> QED
  BY <1>2, <1>3

-----------------------------------------------------------------------------
(* Every step preserves every part of IInv.                                *)

\* A new table disturbs nothing that is known of the others.
LEMMA CreateFiles ==
  ASSUME TypeOK, Files, NEW new \in SUBSET (Table \ born), Create(new),
         UNCHANGED <<unlinked, closed, ending>>
  PROVE  /\ born' = born \cup new
         /\ \A p \in Threads : ending'[p] # NoTable =>
              ending'[p] \in born' /\ refCount'[ending'[p]] <= 0
         /\ \A t \in Table : refCount'[t] >= 1 => open'[t] /\ onDisk'[t]
         /\ \A t \in Table : t \notin born' => ~unlinked'[t] /\ ~closed'[t]
         /\ \A t \in new : ~unlinked'[t] /\ ~closed'[t]
BY TableAssumption DEF TypeOK, Files, Create

\* The lock and the clients keep exclusive calls apart.
LEMMA ControlStep ==
  ASSUME IInv, [Next]_vars
  PROVE  Control'
<1> USE ThreadAssumption DEF IInv, TypeOK, Control, file, mutex, call,
        Threads, Goto, Closing, DecrRef, NextTable
<1>1. ASSUME NEW p \in Readers \cup Compactors, GetTables(p)
      PROVE  Control'
  BY <1>1 DEF GetTables, Control
<1>2. ASSUME NEW p \in Readers \cup Compactors, IncrLoad(p)
      PROVE  Control'
  BY <1>2 DEF IncrLoad, Control
<1>3. ASSUME NEW p \in Readers \cup Compactors, IncrCheck(p)
      PROVE  Control'
  BY <1>3 DEF IncrCheck, Control
<1>4. ASSUME NEW p \in Readers \cup Compactors, IncrSwap(p)
      PROVE  Control'
  BY <1>4 DEF IncrSwap, Control
<1>5. ASSUME NEW p \in Readers \cup Compactors, IncrRetry(p)
      PROVE  Control'
  BY <1>5 DEF IncrRetry, Control
<1>6. ASSUME NEW p \in Readers \cup Compactors, GetTablesReturn(p)
      PROVE  Control'
  BY <1>6 DEF GetTablesReturn, Control
<1>7. ASSUME NEW p \in Readers \cup Compactors, Finish(p)
      PROVE  Control'
  BY <1>7 DEF Finish, Control
<1>8. ASSUME NEW p \in Readers \cup Compactors, Release(p)
      PROVE  Control'
  BY <1>8 DEF Release, Control
<1>9. ASSUME NEW p \in Readers \cup Compactors, ReleaseReturn(p)
      PROVE  Control'
  BY <1>9 DEF ReleaseReturn, Control
<1>10. ASSUME NEW q \in Threads, CloseReader(q)
      PROVE  Control'
  BY <1>10 DEF CloseReader, Control
<1>11. ASSUME NEW q \in Threads, RemoveFile(q)
      PROVE  Control'
  BY <1>11 DEF RemoveFile, Control
<1>12. ASSUME NEW c \in Compactors, ReplaceTables(c)
      PROVE  Control'
  BY <1>12 DEF ReplaceTables, Control
<1>13. ASSUME NEW c \in Compactors, Unlink(c)
      PROVE  Control'
  BY <1>13 DEF Unlink, Control
<1>14. ASSUME NEW c \in Compactors, RetireDrop(c)
      PROVE  Control'
  BY <1>14 DEF RetireDrop, Control
<1>15. ASSUME NEW c \in Compactors, RetireReturn(c)
      PROVE  Control'
  BY <1>15 DEF RetireReturn, Control
<1>16. ASSUME NEW t \in Table, Add(t)
      PROVE  Control'
  BY <1>16 DEF Add, Control
<1>17. ASSUME Close
      PROVE  Control'
  BY <1>17 DEF Close, Control
<1>18. ASSUME CloseMark
      PROVE  Control'
  BY <1>18 DEF CloseMark, Control
<1>19. ASSUME CloseDrop
      PROVE  Control'
  BY <1>19 DEF CloseDrop, Control
<1>20. ASSUME CloseReturn
      PROVE  Control'
  BY <1>20 DEF CloseReturn, Control
<1>21. CASE UNCHANGED vars
  BY <1>21 DEF vars, Control
<1> QED
    BY <1>1, <1>2, <1>3, <1>4, <1>5, <1>6, <1>7, <1>8, <1>9, <1>10, <1>11,
     <1>12, <1>13, <1>14, <1>15, <1>16, <1>17, <1>18, <1>19, <1>20, <1>21
     DEF Next, Pin, Drop, Retire, CloseSteps, Threads

\* Outside twice no count goes below zero: what is dropped is a reference that
\* exists.
LEMMA TypeStep ==
  ASSUME IInv, [Next]_vars
  PROVE  TypeOK'
<1> USE TableAssumption, ThreadAssumption DEF IInv, TypeOK, file, mutex, call,
        Threads, Goto, Closing, DecrRef, NextTable, Create
<1>1. ASSUME NEW p \in Readers \cup Compactors, GetTables(p)
      PROVE  TypeOK'
  BY <1>1 DEF GetTables, TypeOK
<1>2. ASSUME NEW p \in Readers \cup Compactors, IncrLoad(p)
      PROVE  TypeOK'
  BY <1>2 DEF IncrLoad, Control, Loops
<1>3. ASSUME NEW p \in Readers \cup Compactors, IncrCheck(p)
      PROVE  TypeOK'
  BY <1>3 DEF IncrCheck, TypeOK
<1>4. ASSUME NEW p \in Readers \cup Compactors, IncrSwap(p)
      PROVE  TypeOK'
  BY <1>4 DEF IncrSwap, Loops
<1>5. ASSUME NEW p \in Readers \cup Compactors, IncrRetry(p)
      PROVE  TypeOK'
  BY <1>5 DEF IncrRetry, Control, Loops
<1>6. ASSUME NEW p \in Readers \cup Compactors, GetTablesReturn(p)
      PROVE  TypeOK'
  BY <1>6 DEF GetTablesReturn, TypeOK
<1>7. ASSUME NEW p \in Readers \cup Compactors, Finish(p)
      PROVE  TypeOK'
  BY <1>7 DEF Finish, TypeOK
<1>8. ASSUME NEW p \in Readers \cup Compactors, Release(p)
      PROVE  TypeOK'
  BY <1>8, PositiveCount DEF Release
<1>9. ASSUME NEW p \in Readers \cup Compactors, ReleaseReturn(p)
      PROVE  TypeOK'
  BY <1>9 DEF ReleaseReturn, TypeOK
<1>10. ASSUME NEW q \in Threads, CloseReader(q)
      PROVE  TypeOK'
  BY <1>10 DEF CloseReader, TypeOK
<1>11. ASSUME NEW q \in Threads, RemoveFile(q)
      PROVE  TypeOK'
  BY <1>11 DEF RemoveFile, TypeOK
<1>12. ASSUME NEW c \in Compactors, ReplaceTables(c)
      PROVE  TypeOK'
  BY <1>12 DEF ReplaceTables, TypeOK
<1>13. ASSUME NEW c \in Compactors, Unlink(c)
      PROVE  TypeOK'
  BY <1>13 DEF Unlink, TypeOK
<1>14. ASSUME NEW c \in Compactors, RetireDrop(c)
      PROVE  TypeOK'
  BY <1>14, PositiveCount DEF RetireDrop, Loops, ListRef
<1>15. ASSUME NEW c \in Compactors, RetireReturn(c)
      PROVE  TypeOK'
  BY <1>15 DEF RetireReturn, TypeOK
<1>16. ASSUME NEW t \in Table, Add(t)
      PROVE  TypeOK'
  BY <1>16 DEF Add, TypeOK
<1>17. ASSUME Close
      PROVE  TypeOK'
  BY <1>17 DEF Close, TypeOK
<1>18. ASSUME CloseMark
      PROVE  TypeOK'
  BY <1>18 DEF CloseMark, TypeOK
<1>19. ASSUME CloseDrop
      PROVE  TypeOK'
  BY <1>19, PositiveCount DEF CloseDrop, Loops, ListRef
<1>20. ASSUME CloseReturn
      PROVE  TypeOK'
  BY <1>20 DEF CloseReturn, TypeOK
<1>21. CASE UNCHANGED vars
  BY <1>21 DEF vars, TypeOK
<1> QED
    BY <1>1, <1>2, <1>3, <1>4, <1>5, <1>6, <1>7, <1>8, <1>9, <1>10, <1>11,
     <1>12, <1>13, <1>14, <1>15, <1>16, <1>17, <1>18, <1>19, <1>20, <1>21
     DEF Next, Pin, Drop, Retire, CloseSteps, Threads

\* The list changes under no loop that relies on it.
LEMMA LoopStep ==
  ASSUME IInv, [Next]_vars
  PROVE  Loops'
<1> USE TableAssumption, ThreadAssumption DEF IInv, TypeOK, Control, Loops,
        file, mutex, call, Threads, Goto, Closing, NextTable,
        DecrRef, Create
<1>1. ASSUME NEW p \in Readers \cup Compactors, GetTables(p)
      PROVE  Loops'
  BY <1>1 DEF GetTables, Loops
<1>2. ASSUME NEW p \in Readers \cup Compactors, IncrLoad(p)
      PROVE  Loops'
  BY <1>2 DEF IncrLoad, Loops
<1>3. ASSUME NEW p \in Readers \cup Compactors, IncrCheck(p)
      PROVE  Loops'
  BY <1>3, PositiveCount DEF IncrCheck, Files, ListRef
<1>4. ASSUME NEW p \in Readers \cup Compactors, IncrSwap(p)
      PROVE  Loops'
  BY <1>4 DEF IncrSwap, Loops
<1>5. ASSUME NEW p \in Readers \cup Compactors, IncrRetry(p)
      PROVE  Loops'
  BY <1>5 DEF IncrRetry, Loops
<1>6. ASSUME NEW p \in Readers \cup Compactors, GetTablesReturn(p)
      PROVE  Loops'
  BY <1>6 DEF GetTablesReturn, Loops
<1>7. ASSUME NEW p \in Readers \cup Compactors, Finish(p)
      PROVE  Loops'
  BY <1>7 DEF Finish, Loops
<1>8. ASSUME NEW p \in Readers \cup Compactors, Release(p)
      PROVE  Loops'
  BY <1>8 DEF Release, Loops
<1>9. ASSUME NEW p \in Readers \cup Compactors, ReleaseReturn(p)
      PROVE  Loops'
  BY <1>9 DEF ReleaseReturn, Loops
<1>10. ASSUME NEW q \in Threads, CloseReader(q)
      PROVE  Loops'
  BY <1>10 DEF CloseReader, Loops
<1>11. ASSUME NEW q \in Threads, RemoveFile(q)
      PROVE  Loops'
  BY <1>11 DEF RemoveFile, Loops
<1>12. ASSUME NEW c \in Compactors, ReplaceTables(c)
      PROVE  Loops'
  BY <1>12 DEF ReplaceTables, Files
<1>13. ASSUME NEW c \in Compactors, Unlink(c)
      PROVE  Loops'
  BY <1>13 DEF Unlink, Loops
<1>14. ASSUME NEW c \in Compactors, RetireDrop(c)
      PROVE  Loops'
  BY <1>14 DEF RetireDrop, Loops
<1>15. ASSUME NEW c \in Compactors, RetireReturn(c)
      PROVE  Loops'
  BY <1>15 DEF RetireReturn, Loops
<1>16. ASSUME NEW t \in Table, Add(t)
      PROVE  Loops'
  BY <1>16 DEF Add, Files
<1>17. ASSUME Close
      PROVE  Loops'
  BY <1>17 DEF Close, Loops
<1>18. ASSUME CloseMark
      PROVE  Loops'
  BY <1>18 DEF CloseMark, Loops
<1>19. ASSUME CloseDrop
      PROVE  Loops'
  BY <1>19 DEF CloseDrop, Loops
<1>20. ASSUME CloseReturn
      PROVE  Loops'
  BY <1>20 DEF CloseReturn, Loops
<1>21. CASE UNCHANGED vars
  BY <1>21 DEF vars, Loops
<1> QED
    BY <1>1, <1>2, <1>3, <1>4, <1>5, <1>6, <1>7, <1>8, <1>9, <1>10, <1>11,
     <1>12, <1>13, <1>14, <1>15, <1>16, <1>17, <1>18, <1>19, <1>20, <1>21
     DEF Next, Pin, Drop, Retire, CloseSteps, Threads

\* Nothing with a reference is closed or removed.
LEMMA FileStep ==
  ASSUME IInv, [Next]_vars
  PROVE  Files'
<1> USE TableAssumption, ThreadAssumption DEF IInv, TypeOK, Control, Loops,
        Files, file, mutex, call, Threads, Goto, Closing, NextTable,
        DecrRef, Create
<1>1. ASSUME NEW p \in Readers \cup Compactors, GetTables(p)
      PROVE  Files'
  BY <1>1 DEF GetTables, Files
<1>2. ASSUME NEW p \in Readers \cup Compactors, IncrLoad(p)
      PROVE  Files'
  BY <1>2, PositiveCount DEF IncrLoad, ListRef
<1>3. ASSUME NEW p \in Readers \cup Compactors, IncrCheck(p)
      PROVE  Files'
  BY <1>3 DEF IncrCheck, Files
<1>4. ASSUME NEW p \in Readers \cup Compactors, IncrSwap(p)
      PROVE  Files'
  BY <1>4 DEF IncrSwap, Files
<1>5. ASSUME NEW p \in Readers \cup Compactors, IncrRetry(p)
      PROVE  Files'
  BY <1>5, PositiveCount DEF IncrRetry, ListRef
<1>6. ASSUME NEW p \in Readers \cup Compactors, GetTablesReturn(p)
      PROVE  Files'
  BY <1>6 DEF GetTablesReturn, Files
<1>7. ASSUME NEW p \in Readers \cup Compactors, Finish(p)
      PROVE  Files'
  BY <1>7 DEF Finish, Files
<1>8. ASSUME NEW p \in Readers \cup Compactors, Release(p)
      PROVE  Files'
  BY <1>8, PositiveCount DEF Release
<1>9. ASSUME NEW p \in Readers \cup Compactors, ReleaseReturn(p)
      PROVE  Files'
  BY <1>9 DEF ReleaseReturn, Files
<1>10. ASSUME NEW q \in Threads, CloseReader(q)
      PROVE  Files'
  BY <1>10 DEF CloseReader, Files
<1>11. ASSUME NEW q \in Threads, RemoveFile(q)
      PROVE  Files'
  BY <1>11 DEF RemoveFile, Files
<1>12. ASSUME NEW c \in Compactors, ReplaceTables(c)
      PROVE  Files'
  <2>0. PICK new \in {{}} \cup {{t} : t \in Table \ born} :
               Create(new) /\ list' = (list \ held[c]) \cup new
    BY <1>12 DEF ReplaceTables
  <2>1. new \in SUBSET (Table \ born)
    OBVIOUS
  <2>2. UNCHANGED <<unlinked, closed, held, ending, cur>>
    BY <1>12 DEF ReplaceTables
  <2> HIDE DEF Create
  <2> QED
    BY <1>12, <2>0, <2>1, <2>2, CreateFiles DEF ReplaceTables
<1>13. ASSUME NEW c \in Compactors, Unlink(c)
      PROVE  Files'
  BY <1>13 DEF Unlink, Files
<1>14. ASSUME NEW c \in Compactors, RetireDrop(c)
      PROVE  Files'
  BY <1>14, PositiveCount DEF RetireDrop, ListRef
<1>15. ASSUME NEW c \in Compactors, RetireReturn(c)
      PROVE  Files'
  BY <1>15 DEF RetireReturn, Files
<1>16. ASSUME NEW t \in Table, Add(t)
      PROVE  Files'
  <2>1. Create({t}) /\ t \notin born
    BY <1>16 DEF Add
  <2>2. UNCHANGED <<unlinked, closed, call>>
    BY <1>16 DEF Add
  <2> HIDE DEF Create
  <2> QED
    BY <1>16, <2>1, <2>2, CreateFiles DEF Add
<1>17. ASSUME Close
      PROVE  Files'
  BY <1>17 DEF Close, Files
<1>18. ASSUME CloseMark
      PROVE  Files'
  BY <1>18 DEF CloseMark, Files
<1>19. ASSUME CloseDrop
      PROVE  Files'
  BY <1>19, PositiveCount DEF CloseDrop, ListRef
<1>20. ASSUME CloseReturn
      PROVE  Files'
  BY <1>20 DEF CloseReturn, Files
<1>21. CASE UNCHANGED vars
  BY <1>21 DEF vars, Files
<1> QED
    BY <1>1, <1>2, <1>3, <1>4, <1>5, <1>6, <1>7, <1>8, <1>9, <1>10, <1>11,
     <1>12, <1>13, <1>14, <1>15, <1>16, <1>17, <1>18, <1>19, <1>20, <1>21
     DEF Next, Pin, Drop, Retire, CloseSteps, Threads

\* Counts follow pins and the list's references.
LEMMA CountStep ==
  ASSUME IInv, [Next]_vars
  PROVE  RefCountExact'
<1> USE TableAssumption, ThreadAssumption DEF IInv, TypeOK, Control, Loops,
        file, mutex, call, Threads, Goto, Closing, NextTable,
        DecrRef, Create
<1>1. ASSUME NEW p \in Readers \cup Compactors, GetTables(p)
      PROVE  RefCountExact'
  BY <1>1, CountsUnchanged DEF GetTables, ListRef
<1>2. ASSUME NEW p \in Readers \cup Compactors, IncrLoad(p)
      PROVE  RefCountExact'
  BY <1>2, CountsUnchanged DEF IncrLoad, ListRef
<1>3. ASSUME NEW p \in Readers \cup Compactors, IncrCheck(p)
      PROVE  RefCountExact'
  BY <1>3, CountsUnchanged DEF IncrCheck, ListRef
<1>4. ASSUME NEW p \in Readers \cup Compactors, IncrSwap(p)
      PROVE  RefCountExact'
  <2>0. PICK u \in Table : u = table[p]
    BY <1>4 DEF IncrSwap
  <2>1. u \in walk[p] /\ u \notin held[p] /\ p \in Threads
    BY <1>4, <2>0 DEF IncrSwap
  <2>2. Holders(u)' = Holders(u) \cup {p} /\ p \notin Holders(u)
    BY <1>4, <2>0, <2>1 DEF IncrSwap, Holders
  <2>3. Cardinality(Holders(u)') = Cardinality(Holders(u)) + 1
    BY <2>1, <2>2, PinCount
  <2>4. \A t \in Table \ {u} : Holders(t)' = Holders(t)
    BY <1>4, <2>0, <2>1 DEF IncrSwap, Holders
  <2>5. \A t \in Table : ListRef(t)' <=> ListRef(t)
    BY <1>4 DEF IncrSwap, ListRef
  <2>6. refCount' = [refCount EXCEPT ![u] = @ + 1]
    BY <1>4, <2>0 DEF IncrSwap
  <2>7. u \notin twice =>
          refCount'[u] = Cardinality(Holders(u)')
                         + IF ListRef(u)' THEN 1 ELSE 0
    BY <2>1, <2>3, <2>5, <2>6, HoldersFinite DEF RefCountExact
  <2>8. UNCHANGED twice
    BY <1>4 DEF IncrSwap
  <2> QED
    BY <2>1, <2>4, <2>5, <2>6, <2>7, <2>8, OneCountChanges
<1>5. ASSUME NEW p \in Readers \cup Compactors, IncrRetry(p)
      PROVE  RefCountExact'
  BY <1>5, CountsUnchanged DEF IncrRetry, ListRef
<1>6. ASSUME NEW p \in Readers \cup Compactors, GetTablesReturn(p)
      PROVE  RefCountExact'
  BY <1>6, CountsUnchanged DEF GetTablesReturn, ListRef
<1>7. ASSUME NEW p \in Readers \cup Compactors, Finish(p)
      PROVE  RefCountExact'
  BY <1>7, CountsUnchanged DEF Finish, ListRef
<1>8. ASSUME NEW p \in Readers \cup Compactors, Release(p)
      PROVE  RefCountExact'
  <2>1. PICK u \in held[p] : /\ DecrRef(p, u)
                            /\ held' = [held EXCEPT ![p] = @ \ {u}]
    BY <1>8 DEF Release
  <2>2. u \in Table /\ p \in Threads
    BY <2>1
  <2>3. Holders(u)' = Holders(u) \ {p} /\ p \in Holders(u)
    BY <2>1, <2>2 DEF Holders
  <2>4. Cardinality(Holders(u)') = Cardinality(Holders(u)) - 1
    BY <2>2, <2>3, PinCount
  <2>5. \A t \in Table \ {u} : Holders(t)' = Holders(t)
    BY <2>1, <2>2 DEF Holders
  <2>6. \A t \in Table : ListRef(t)' <=> ListRef(t)
    BY <1>8 DEF Release, ListRef
  <2>7. u \notin twice =>
          refCount'[u] = Cardinality(Holders(u)')
                         + IF ListRef(u)' THEN 1 ELSE 0
    BY <2>1, <2>2, <2>4, <2>6, HoldersFinite DEF RefCountExact
  <2>8. UNCHANGED twice
    BY <1>8 DEF Release
  <2> QED
    BY <2>1, <2>2, <2>5, <2>6, <2>7, <2>8, OneCountChanges
<1>9. ASSUME NEW p \in Readers \cup Compactors, ReleaseReturn(p)
      PROVE  RefCountExact'
  BY <1>9, CountsUnchanged DEF ReleaseReturn, ListRef
<1>10. ASSUME NEW q \in Threads, CloseReader(q)
      PROVE  RefCountExact'
  BY <1>10, CountsUnchanged DEF CloseReader, ListRef
<1>11. ASSUME NEW q \in Threads, RemoveFile(q)
      PROVE  RefCountExact'
  BY <1>11, CountsUnchanged DEF RemoveFile, ListRef
<1>12. ASSUME NEW c \in Compactors, ReplaceTables(c)
      PROVE  RefCountExact'
  <2>0. PICK new \in {{}} \cup {{t} : t \in Table \ born} :
               Create(new) /\ list' = (list \ held[c]) \cup new
    BY <1>12 DEF ReplaceTables
  <2>1. new \in SUBSET (Table \ born)
    OBVIOUS
  <2>2. \A t \in Table : Holders(t)' = Holders(t)
    BY <1>12 DEF ReplaceTables, Holders
  <2>3. \A t \in new : Holders(t) = {} /\ ListRef(t)' /\ refCount'[t] = 1
    BY <1>12, <2>0, <2>1 DEF ReplaceTables, Holders, ListRef, Files
  <2>4. twice' = twice \cup (held[c] \ list)
    BY <1>12 DEF ReplaceTables
  <2>5. \A t \in Table \ new : refCount'[t] = refCount[t]
    BY <1>12, <2>0, <2>1 DEF ReplaceTables
  <2>6. \A t \in Table \ new :
           t \notin twice' => (ListRef(t)' <=> ListRef(t))
    BY <1>12, <2>0, <2>1, <2>4 DEF ReplaceTables, ListRef
  <2> QED
    BY <2>1, <2>2, <2>3, <2>4, <2>5, <2>6, HoldersFinite, FS_EmptySet
       DEF RefCountExact
<1>13. ASSUME NEW c \in Compactors, Unlink(c)
      PROVE  RefCountExact'
  BY <1>13, CountsUnchanged DEF Unlink, ListRef
<1>14. ASSUME NEW c \in Compactors, RetireDrop(c)
      PROVE  RefCountExact'
  <2>0. PICK u \in Table : u = table[c]
    BY <1>14 DEF RetireDrop
  <2>1. u \in walk[c]
    BY <1>14, <2>0 DEF RetireDrop
  <2>2. u \notin twice => ListRef(u) /\ ~ListRef(u)'
    BY <1>14, <2>0, <2>1 DEF RetireDrop, ListRef
  <2>3. \A t \in Table \ {u} : ListRef(t)' <=> ListRef(t)
    BY <1>14, <2>0, <2>1 DEF RetireDrop, ListRef
  <2>4. \A t \in Table : Holders(t)' = Holders(t)
    BY <1>14 DEF RetireDrop, Holders
  <2>5. refCount' = [refCount EXCEPT ![u] = @ - 1]
    BY <1>14, <2>0 DEF RetireDrop
  <2>6. u \notin twice =>
          refCount'[u] = Cardinality(Holders(u)')
                         + IF ListRef(u)' THEN 1 ELSE 0
    BY <2>1, <2>2, <2>4, <2>5, HoldersFinite DEF RefCountExact
  <2>7. UNCHANGED twice
    BY <1>14 DEF RetireDrop
  <2> QED
    BY <2>1, <2>3, <2>4, <2>5, <2>6, <2>7, OneCountChanges
<1>15. ASSUME NEW c \in Compactors, RetireReturn(c)
      PROVE  RefCountExact'
  BY <1>15, CountsUnchanged DEF RetireReturn, ListRef
<1>16. ASSUME NEW t \in Table, Add(t)
      PROVE  RefCountExact'
  <2>1. \A u \in Table : Holders(u)' = Holders(u)
    BY <1>16 DEF Add, Holders
  <2>2. Holders(t) = {} /\ ListRef(t)' /\ refCount'[t] = 1
    BY <1>16 DEF Add, Holders, ListRef, Files
  <2>3. \A u \in Table \ {t} :
           (ListRef(u)' <=> ListRef(u)) /\ refCount'[u] = refCount[u]
    BY <1>16 DEF Add, ListRef
  <2>4. UNCHANGED twice
    BY <1>16 DEF Add
  <2> QED
    BY <2>1, <2>2, <2>3, <2>4, HoldersFinite, FS_EmptySet DEF RefCountExact
<1>17. ASSUME Close
      PROVE  RefCountExact'
  BY <1>17, CountsUnchanged DEF Close, ListRef
<1>18. ASSUME CloseMark
      PROVE  RefCountExact'
  BY <1>18, CountsUnchanged DEF CloseMark, ListRef
<1>19. ASSUME CloseDrop
      PROVE  RefCountExact'
  <2>0. PICK u \in Table : u = table[Closer]
    BY <1>19 DEF CloseDrop
  <2>1. u \in walk[Closer]
    BY <1>19, <2>0 DEF CloseDrop
  <2>2. ListRef(u) /\ ~ListRef(u)'
    BY <1>19, <2>0, <2>1 DEF CloseDrop, ListRef
  <2>3. \A t \in Table \ {u} : ListRef(t)' <=> ListRef(t)
    BY <1>19, <2>0, <2>1 DEF CloseDrop, ListRef
  <2>4. \A t \in Table : Holders(t)' = Holders(t)
    BY <1>19 DEF CloseDrop, Holders
  <2>5. refCount' = [refCount EXCEPT ![u] = @ - 1]
    BY <1>19, <2>0 DEF CloseDrop
  <2>6. u \notin twice =>
          refCount'[u] = Cardinality(Holders(u)')
                         + IF ListRef(u)' THEN 1 ELSE 0
    BY <2>1, <2>2, <2>4, <2>5, HoldersFinite DEF RefCountExact
  <2>7. UNCHANGED twice
    BY <1>19 DEF CloseDrop
  <2> QED
    BY <2>1, <2>3, <2>4, <2>5, <2>6, <2>7, OneCountChanges
<1>20. ASSUME CloseReturn
      PROVE  RefCountExact'
  BY <1>20, CountsUnchanged DEF CloseReturn, ListRef
<1>21. CASE UNCHANGED vars
  BY <1>21, CountsUnchanged DEF vars, ListRef
<1> QED
    BY <1>1, <1>2, <1>3, <1>4, <1>5, <1>6, <1>7, <1>8, <1>9, <1>10, <1>11,
     <1>12, <1>13, <1>14, <1>15, <1>16, <1>17, <1>18, <1>19, <1>20, <1>21
     DEF Next, Pin, Drop, Retire, CloseSteps, Threads

-----------------------------------------------------------------------------
(* The theorems.                                                           *)

\* Load leaves one reference per table, the list's, and no call in progress.
LEMMA InitIInv == Init => IInv
<1> SUFFICES ASSUME Init PROVE IInv
  OBVIOUS
<1> USE TableAssumption, ThreadAssumption DEF Init, Threads, Closing
<1>a. TypeOK
  BY DEF TypeOK
<1>b. Control
  BY DEF Control
<1>c. Loops
  BY DEF Loops
<1>d. Files
  <2>1. \A t \in Table : refCount[t] >= 1 => t \in Loaded
    OBVIOUS
  <2>2. \A t \in Loaded : t \in Table /\ open[t] /\ onDisk[t]
    OBVIOUS
  <2> QED
    BY <2>1, <2>2 DEF Files
<1>2. \A t \in Table : Holders(t) = {}
  BY DEF Init, Holders
<1>3. \A t \in Table : ListRef(t) <=> t \in Loaded
  BY ThreadAssumption DEF Init, ListRef, Closing, Threads
<1>4. RefCountExact
  <2> SUFFICES ASSUME NEW t \in Table
               PROVE  refCount[t] = Cardinality(Holders(t))
                                    + IF ListRef(t) THEN 1 ELSE 0
    BY DEF RefCountExact
  <2>1. Cardinality(Holders(t)) = 0
    BY <1>2, FS_EmptySet
  <2> QED
    BY <2>1, <1>3
<1> QED
  BY <1>a, <1>b, <1>c, <1>d, <1>4 DEF IInv

\* IInv is inductive.
THEOREM Inductive == Spec => []IInv
<1>1. IInv /\ [Next]_vars => IInv'
  BY TypeStep, ControlStep, LoopStep, FileStep, CountStep DEF IInv
<1> QED
  BY InitIInv, <1>1, PTL DEF Spec

\* No variable leaves its type: only the count of a table that overlapping
\* calls took out of the list twice can be negative, and every call is at a
\* step it can be at with a snapshot of tables that exist.
THEOREM TypeCorrect == Spec => []TypeOK
<1>1. IInv => TypeOK
  BY DEF IInv
<1> QED
  BY Inductive, <1>1, PTL

\* Counts are always the number of references: IncrRef and DecrRef neither lose
\* one to a race nor drop one twice, except for the tables in twice.
THEOREM CountsExact == Spec => []RefCountExact
<1>1. IInv => RefCountExact
  BY DEF IInv
<1> QED
  BY Inductive, <1>1, PTL

\* A Reader stays open for every call that may still read it: a compaction
\* retires a table without racing the readers that use it, unless another call
\* has taken that table out of the list as well.
THEOREM NeverUsedAfterClose == Spec => []NoUseAfterClose
<1>1. IInv => NoUseAfterClose
  BY PositiveCount DEF IInv, TypeOK, Files, NoUseAfterClose
<1> QED
  BY Inductive, <1>1, PTL

\* A table of the list is readable and on disk until Close, whichever
\* compactions overlap.
THEOREM AlwaysListedReadable == Spec => []ListedReadable
<1>1. IInv => ListedReadable
  BY PositiveCount DEF IInv, TypeOK, Loops, Files, ListedReadable, ListRef
<1> QED
  BY Inductive, <1>1, PTL

\* GetTables pins all the tables of the list, whichever compactions overlap.
THEOREM SnapshotsComplete == Spec => []SnapshotComplete
<1>1. IInv => SnapshotComplete
  BY DEF IInv, Loops, SnapshotComplete
<1> QED
  BY Inductive, <1>1, PTL

=============================================================================
