----------------------------- MODULE MCSkiplist -----------------------------
(***************************************************************************)
(* Skiplist on small instances for TLC.                                    *)
(***************************************************************************)
EXTENDS Skiplist, TLC

CONSTANTS v1, v2, r1, r2

\* Readers and values are interchangeable.
Symmetry == Permutations(Readers) \cup Permutations(Value)

=============================================================================
