---------------------------- MODULE TightCompact ----------------------------
(***************************************************************************)
(* Oblivious compaction by prefix counts: ORCompact, TightCompact_inner,   *)
(* TightCompact_2power_inner (Enclave/oblivious-blocks.cpp).               *)
(*                                                                         *)
(* The row at index k is selected when selected_count steps up by one from *)
(* entry k to entry k + 1.  An array of 2^e rows is compacted to a cyclic  *)
(* offset: both halves are, recursively, and are then exchanged row by row *)
(* from the point on where the selected rows of the two halves meet.  Any  *)
(* other array is cut into a shorter left part and 2^e rows.               *)
(*                                                                         *)
(* Arrays and counts are functions on 0 .. size - 1 and 0 .. size.         *)
(* The rows are those of joinOutput: the only call with another array      *)
(* (htree.cpp 558) is commented out.                                       *)
(***************************************************************************)
EXTENDS PowersOfTwo

Selected(sc, k) == sc[k + 1] - sc[k] = 1

\* swap(p, p + gap) for every position p of swapped.
SwapRows(a, gap, swapped) ==
  [p \in DOMAIN a |->
     CASE p \in swapped -> a[p + gap]
       [] p - gap \in swapped -> a[p - gap]
       [] OTHER -> a[p]]

\* Two rows of which swap(idx, idx + 1, swap_flag) makes another two.
SwapTwo(swap_flag) == [p \in 0 .. 1 |-> IF swap_flag THEN 1 - p ELSE p]

Unmoved(n) == [p \in 0 .. n - 1 |-> p]

\* n1 rows that are arranged as left says and after them n2 as right says.
Beside(left, n1, right, n2) ==
  [p \in 0 .. n1 + n2 - 1 |-> IF p < n1 THEN left[p] ELSE n1 + right[p - n1]]

\* Mutant: the selected rows of the left half are not counted.
RightOffsetMutant(offset, m1, half) == offset % half

\* Where the selected rows of the right half start.
RightOffset(offset, m1, half) == (offset + m1) % half

OutOfOrder(sc, idx) == ~Selected(sc, idx) /\ Selected(sc, idx + 1)

\* TightCompact_2power_inner on 2 * half rows from idx on.
Pow2Halves(inner, half, sc, idx, offset) ==
  LET m1 == sc[idx + half] - sc[idx]
      right == RightOffset(offset, m1, half)
      wrapped == (offset % half) + m1 >= half
  IN  SwapRows(Beside(inner[idx][offset % half], half, inner[idx + half][right], half), half,
               {p \in 0 .. half - 1 : (p >= right) # (wrapped # (offset >= half))})

Pow2Step(inner, e, sc) ==
  [idx \in Nat |-> [offset \in Nat |->
     IF e = 1 THEN SwapTwo(OutOfOrder(sc, idx) # (offset = 1))
     ELSE Pow2Halves(inner, Pow2[e - 1], sc, idx, offset)]]

Pow2Inner(sc) ==
  LET inner[e \in Nat] ==
        IF e = 0 THEN [idx \in Nat |-> [offset \in Nat |-> Unmoved(1)]] ELSE Pow2Step(inner[e - 1], e, sc)
  IN  inner

\* TightCompact_inner on n > 2 rows: split of them, then a power of two.
InnerParts(left, n, power, sc) ==
  LET split == n - power
      mL == sc[split] - sc[0]
      right == Pow2Inner(sc)[Pow2Lt(n)][split][(power - split + mL) % power]
  IN  SwapRows(Beside(left, split, right, power), power, mL .. split - 1)

Inner(sc) ==
  LET inner[n \in Nat] ==
        IF n < 2 THEN Unmoved(n)
        ELSE IF n = 2 THEN SwapTwo(OutOfOrder(sc, 0))
        ELSE InnerParts(inner[n - Pow2[Pow2Lt(n)]], n, Pow2[Pow2Lt(n)], sc)
  IN  inner

\* size rows, of which the caller keeps the first noisyOutputSize.
ORCompact(a, size, sc, noisyOutputSize) ==
  LET compacted == Inner(sc)[size]
  IN  [k \in 0 .. Min({size, noisyOutputSize}) - 1 |-> a[compacted[k]]]
=============================================================================
