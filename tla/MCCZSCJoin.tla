----------------------------- MODULE MCCZSCJoin -----------------------------
(* Tables of up to five rows over three keys, two of them with the same    *)
(* join attribute: keys of one row and keys that make a bin of their own,  *)
(* and enough rows to close a sparse bin.                                  *)
EXTENDS CZSCJoin

MCKey == <<<<1, 1>>, <<1, 2>>, <<2, 1>>, <<3, 1>>>>
Table(counts) == FlattenSeq([k \in DOMAIN counts |-> [r \in 1 .. counts[k] |-> MCKey[k]]])
MCInputs ==
  {<<Table(c[1]), Table(c[2])>> : c \in
     {<<<<1, 0, 0, 0>>, <<0, 0, 0, 0>>>>, <<<<1, 1, 0, 0>>, <<1, 0, 0, 0>>>>,
      <<<<1, 0, 3, 0>>, <<1, 0, 0, 0>>>>, <<<<0, 0, 1, 0>>, <<2, 0, 1, 2>>>>,
      <<<<2, 0, 2, 1>>, <<0, 0, 0, 1>>>>, <<<<1, 0, 0, 0>>, <<2, 0, 2, 1>>>>}}
\* Two keys that fill a bin each, of different tables.
MCLargeInputs == {<<Table(<<6, 0, 0, 0>>), Table(<<0, 0, 6, 0>>)>>}
MCLargeNoise == {<<1, 1>>}
MCNoisePairs == {<<0, 0>>, <<1, 2>>, <<3, 0>>}
=============================================================================
