--------------------------- MODULE MCSSTableList ---------------------------
(***************************************************************************)
(* SSTableList on small instances for TLC.                                 *)
(***************************************************************************)
EXTENDS SSTableList

CONSTANTS t1, t2, r1, c1, c2

=============================================================================
