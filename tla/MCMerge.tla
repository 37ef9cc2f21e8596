------------------------------ MODULE MCMerge -------------------------------
(***************************************************************************)
(* Merge on small instances for TLC.                                       *)
(***************************************************************************)
EXTENDS Merge

\* Two series, one with two timestamps.
MCKey == {<<1, 1>>, <<1, 2>>, <<2, 1>>}

MCRanges == {[series |-> 1, start |-> 1, end |-> 2],
             [series |-> 1, start |-> 2, end |-> 3],
             [series |-> 2, start |-> 0, end |-> 1]}

\* A filter of 10 bits that holds series 2 lets series 1 through as well, but
\* not the other way round.
MCHashFunc == <<<<3, 5>>, <<7, 1>>>>

=============================================================================
