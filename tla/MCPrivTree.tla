----------------------------- MODULE MCPrivTree -----------------------------
(* A tree over two attributes of one table, as select and the second tree  *)
(* of select-join have it: rows are dealt out by iterative compaction.     *)
EXTENDS SelectJoin

MCKeys == 0 .. 2
RowSymmetry == Permutations(Records2)
=============================================================================
