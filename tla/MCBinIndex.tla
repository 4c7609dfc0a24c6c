----------------------------- MODULE MCBinIndex -----------------------------
(* Up to three bins with any ranges, as the leaves of a tree on several    *)
(* attributes have on one of them; up to six adjacent bins, as an HTree's  *)
(* buckets are; ids that run against the keys; a negative key.             *)
EXTENDS BinIndex

MCBin(lo, hi) == [start |-> lo, end |-> hi]
MCRanges(top) == {r \in [start : 0 .. top, end : 0 .. top] : r.start <= r.end}
MCInputs ==
  UNION {[1 .. n -> MCRanges(2)] : n \in 1 .. 2}
    \cup [1 .. 3 -> MCRanges(1)]
    \cup {[i \in 1 .. n |-> MCBin(i - 1, i - 1)] : n \in 4 .. 6}
    \cup {[i \in 1 .. 5 |-> MCBin(2 * (5 - i), 2 * (5 - i) + 1)]}
    \cup {<<MCBin(-1, -1), MCBin(0, 1)>>}
MCQueries == {q \in {-1, 0, 1, 2, 3, 5} \X {0, 1, 2, 4, 6} : q[1] <= q[2]}
=============================================================================
