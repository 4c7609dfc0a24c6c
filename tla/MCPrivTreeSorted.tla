-------------------------- MODULE MCPrivTreeSorted --------------------------
(* A tree over the join attribute of two tables: the rows are sorted and   *)
(* cut into slices.                                                        *)
EXTENDS PrivTreeBins

MCKeys == 0 .. 2
=============================================================================
