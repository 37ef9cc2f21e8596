------------------------------- MODULE MCWisp -------------------------------
(***************************************************************************)
(* Wisp on small instances for TLC.                                        *)
(***************************************************************************)
EXTENDS Wisp, TLC

CONSTANTS w1, w2, r1, k1, k2, v1, v2

\* Writers, keys and values are interchangeable.  Used for safety runs only.
Symmetry == Permutations(Writers) \cup Permutations(Key)
            \cup Permutations(Value)

=============================================================================
