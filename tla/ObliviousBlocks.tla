--------------------------- MODULE ObliviousBlocks ---------------------------
(***************************************************************************)
(* The blocks of Enclave/oblivious-blocks as operators on sequences, for   *)
(* the modules of the components that call them.  Modules Compaction and   *)
(* Expansion follow their loops step by step.                              *)
(***************************************************************************)
EXTENDS Sequences, SequencesExt, PowersOfTwo

\* An entry of the array that expand works on: pair<int, T>.
Entry(first, second) == [first |-> first, second |-> second]

Exchange(a, p, q) == [a EXCEPT ![p] = a[q], ![q] = a[p]]

\* The entry of the loop index k - 1, when its slot is j or more to the right.
MoveEntry(a, k, j) == IF a[k].first >= (k - 1) + j THEN Exchange(a, k, k + j) ELSE a

\* One level: from the right to the left, n indices.
MoveBy(a, j) ==
  LET moved[n \in 0 .. Len(a) - j] ==
        IF n = 0 THEN a ELSE MoveEntry(moved[n - 1], Len(a) - j + 1 - n, j)
  IN  moved[Len(a) - j]

\* From prev_pow_two(size) down to 1.
Levels(size) == IF size < 2 THEN 0 ELSE Pow2Lt(size) + 1

\* expand(data, false)
Place(a) ==
  LET placed[n \in 0 .. Levels(Len(a))] ==
        IF n = 0 THEN a ELSE MoveBy(placed[n - 1], Pow2[Levels(Len(a)) - n])
  IN  placed[Levels(Len(a))]

\* expand(data): the last entry that is in its slot is copied over the next.
Expand(a, none) ==
  LET placed == Place(a)
      home(k) == {l \in 1 .. k : placed[l].first = l - 1}
  IN  [k \in 1 .. Len(a) |-> IF home(k) = {} THEN none ELSE placed[Max(home(k))]]
=============================================================================
