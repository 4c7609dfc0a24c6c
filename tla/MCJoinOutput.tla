---------------------------- MODULE MCJoinOutput ----------------------------
(* Queries of up to MaxPairs pairs each, one after the other: sizes that    *)
(* are and are not powers of two.                                          *)
EXTENDS JoinOutput
=============================================================================
