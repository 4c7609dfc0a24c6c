----------------------------- MODULE SortingNet -----------------------------
(***************************************************************************)
(* The exchanges of obliSort, an odd-even merge sort                       *)
(* (Enclave/oblivious-blocks.hpp), in the order in which they are made: a  *)
(* sequence of pairs of indices that depends on the length only.           *)
(*                                                                         *)
(* Ranges are powers of two long, so a call is known by the exponent e of  *)
(* the number of indices that it works on: lo, lo + r, lo + 2r, ...  (the  *)
(* code passes hi, which lies less than r past the last of them).          *)
(***************************************************************************)
EXTENDS PowersOfTwo, Sequences

\* oddeven_merge: of the even ones, of the odd ones, then of neighbours.
MergeStep(merge, e) ==
  [lo \in Nat |-> [r \in Nat |->
     IF e = 1 THEN << <<lo, lo + r>> >>
     ELSE merge[lo][2 * r] \o merge[lo + r][2 * r]
            \o [k \in 1 .. Pow2[e - 1] - 1 |-> <<lo + (2 * k - 1) * r, lo + 2 * k * r>>]]]

OddEvenMerge[e \in Nat] ==
  IF e = 0 THEN [lo \in Nat |-> [r \in Nat |-> <<>>]] ELSE MergeStep(OddEvenMerge[e - 1], e)

\* oddeven_merge_sort_range
SortStep(sort, e) ==
  [lo \in Nat |-> sort[lo] \o sort[lo + Pow2[e - 1]] \o OddEvenMerge[e][lo][1]]

OddEvenMergeSort[e \in Nat] ==
  IF e = 0 THEN [lo \in Nat |-> <<>>] ELSE SortStep(OddEvenMergeSort[e - 1], e)

\* For len rows; an exchange with an index that is not below len is left out.
ObliSort(len) == OddEvenMergeSort[Upper(len)][0]
=============================================================================
