------------------------------- MODULE MCHTree -------------------------------
(* Two tables over at most three keys, one of them larger than the domain  *)
(* may be; dummies may be missing.                                         *)
EXTENDS HTree

MCKeys == 0 .. 2
MCMaxSize == <<3, 1>>
MCRanges == {<<1, 1>>}
=============================================================================
