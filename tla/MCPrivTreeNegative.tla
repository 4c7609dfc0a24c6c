------------------------- MODULE MCPrivTreeNegative -------------------------
(* A tree over one attribute that may be negative.                         *)
EXTENDS PrivTree

MCKeys == -2 .. 1
=============================================================================
