----------------------------- MODULE Compaction -----------------------------
(***************************************************************************)
(* Order-preserving oblivious compaction: compactMeta, compactMetaVector   *)
(* (Enclave/oblivious-blocks.hpp) and enclaveCompact (oblivious-blocks.cpp) *)
(*                                                                         *)
(* One pass measures how far every marked row has to travel to the left,   *)
(* the number of unmarked rows before it.  Then, for step = 1, 2, 4, ...,  *)
(* a second loop walks over the array and swaps row j with row j - step    *)
(* when the bit `step' of the distance of row j is set.  The addresses     *)
(* depend on the size of the array only, never on the marks.  The caller   *)
(* gets the marked rows in out1 and the others in out2, or its own array   *)
(* cut or grown to the size it asks for.                                   *)
(*                                                                         *)
(* A row is named by the index it has when the routine is called.          *)
(***************************************************************************)
EXTENDS Integers

CONSTANTS
  N,        \* inSize, the number of rows
  MaxSize   \* bound on the size a caller may resize its array to

ASSUME SizeAssumption == N \in Nat /\ MaxSize \in Nat /\ N <= MaxSize

Index == 0 .. N - 1
Zero == -1                 \* a row that resize() has just zero-filled

VARIABLES
  marked,   \* the rows that satisfy func
  mem,      \* in: the array that is compacted
  dist,     \* distArray (jDistArray in enclaveCompact)
  counter,  \* marked rows seen by the measuring pass
  step,     \* pow(2, i) of the level loop
  index,    \* j, the loop index
  out1, out2,
  phase

vars == <<marked, mem, dist, counter, step, index, out1, out2, phase>>

NoRows == [k \in {} |-> Zero]

Init ==
  /\ marked \in SUBSET Index
  /\ mem = [k \in Index |-> k]
  /\ dist = [k \in Index |-> 0]
  /\ counter = 0
  /\ step = 1
  /\ index = 0
  /\ out1 = NoRows
  /\ out2 = NoRows
  /\ phase = "measure"

-----------------------------------------------------------------------------
(* The measuring pass; the joins do the same, row by row, as they write.   *)

\* Mutant: the operands of the distance are swapped.
MeasureMarkedMutant ==
  /\ phase = "measure" /\ index < N
  /\ mem[index] \in marked
  /\ dist' = [dist EXCEPT ![index] = counter - index]
  /\ counter' = counter + 1
  /\ index' = index + 1
  /\ UNCHANGED <<marked, mem, step, out1, out2, phase>>

MeasureMarked ==
  /\ phase = "measure"
  /\ index < N
  /\ mem[index] \in marked
  /\ dist' = [dist EXCEPT ![index] = index - counter]
  /\ counter' = counter + 1
  /\ index' = index + 1
  /\ UNCHANGED <<marked, mem, step, out1, out2, phase>>

MeasureOther ==
  /\ phase = "measure"
  /\ index < N
  /\ mem[index] \notin marked
  /\ dist' = [dist EXCEPT ![index] = 0]
  /\ index' = index + 1
  /\ UNCHANGED <<marked, mem, counter, step, out1, out2, phase>>

EndMeasure ==
  /\ phase = "measure"
  /\ index = N
  /\ index' = 1
  /\ phase' = "compact"
  /\ UNCHANGED <<marked, mem, dist, counter, step, out1, out2>>

-----------------------------------------------------------------------------
(* The level loop: i < log2(inSize) is step < N.                           *)

\* Mutant: pow(2, i) instead of pow(2, i + 1), the bits of the levels before.
OffsetMutant(d) == d % step

Offset(d) == d % (2 * step)

Exchange(a, p, q) == [a EXCEPT ![p] = a[q], ![q] = a[p]]

\* Mutant: the distance of the row is not cleared.
SwapMutant ==
  /\ phase = "compact"
  /\ step < N /\ index < N
  /\ Offset(dist[index]) > 0
  /\ mem' = Exchange(mem, index, index - step)
  /\ dist' = [dist EXCEPT ![index - step] = dist[index] - Offset(dist[index])]
  /\ index' = index + 1
  /\ UNCHANGED <<marked, counter, step, out1, out2, phase>>

Swap ==
  /\ phase = "compact"
  /\ step < N /\ index < N
  /\ Offset(dist[index]) > 0
  /\ mem' = Exchange(mem, index, index - step)
  /\ dist' = [dist EXCEPT ![index] = 0, ![index - step] = dist[index] - Offset(dist[index])]
  /\ index' = index + 1
  /\ UNCHANGED <<marked, counter, step, out1, out2, phase>>

Keep ==
  /\ phase = "compact"
  /\ step < N /\ index < N
  /\ Offset(dist[index]) = 0
  /\ index' = index + 1
  /\ UNCHANGED <<marked, mem, dist, counter, step, out1, out2, phase>>

NextLevel ==
  /\ phase = "compact"
  /\ step < N /\ index >= N
  /\ step' = 2 * step
  /\ index' = 2 * step
  /\ UNCHANGED <<marked, mem, dist, counter, out1, out2, phase>>

-----------------------------------------------------------------------------
(* What the caller is left with.                                           *)

\* out1 gets the first counter rows and out2 the others.
Split ==
  /\ phase = "compact"
  /\ step >= N
  /\ out1' = [k \in 0 .. counter - 1 |-> mem[k]]
  /\ out2' = [k \in 0 .. N - counter - 1 |-> mem[counter + k]]
  /\ phase' = "done"
  /\ UNCHANGED <<marked, mem, dist, counter, step, index>>

\* in->resize(size): to counter, or to the domainSize or noisyOutputSize of
\* the caller, which are never smaller.
Resize(size) ==
  /\ phase = "compact"
  /\ step >= N
  /\ mem' = [k \in 0 .. size - 1 |-> IF k < N THEN mem[k] ELSE Zero]
  /\ phase' = "done"
  /\ UNCHANGED <<marked, dist, counter, step, index, out1, out2>>

Next ==
  \/ MeasureMarked
  \/ MeasureOther
  \/ EndMeasure
  \/ Swap
  \/ Keep
  \/ NextLevel
  \/ Split
  \/ \E size \in counter .. MaxSize : Resize(size)

Spec == Init /\ [][Next]_vars

-----------------------------------------------------------------------------
IsArray(a) == \E size \in 0 .. MaxSize : a \in [0 .. size - 1 -> Index \cup {Zero}]

TypeOK ==
  /\ marked \subseteq Index
  /\ IF phase = "done" THEN IsArray(mem) ELSE mem \in [Index -> Index]
  /\ dist \in [Index -> Nat]
  /\ counter \in 0 .. N
  /\ step \in Nat \ {0}
  /\ index \in Nat
  /\ IsArray(out1) /\ IsArray(out2)
  /\ phase \in {"measure", "compact", "done"}

(* The first `count' rows of a are exactly the marked ones, in the order   *)
(* they had in the input.                                                  *)
HoldsMarkedInOrder(a, count) ==
  /\ \A k \in 0 .. count - 1 : a[k] \in marked
  /\ \A k, l \in 0 .. count - 1 : k < l => a[k] < a[l]
  /\ \A r \in marked : \E k \in 0 .. count - 1 : a[k] = r

(* Whatever the caller asked for, two arrays or a resized one, no marked   *)
(* row is cut off, and the array of the others holds no marked row.        *)
CallerGetsMarked ==
  phase = "done" =>
    \/ HoldsMarkedInOrder(mem, counter) /\ out1 = NoRows
    \/ /\ HoldsMarkedInOrder(out1, counter)
       /\ \A r \in Index \ marked : \E k \in 0 .. N - counter - 1 : out2[k] = r

(* A swap never moves a marked row to the right: the row it displaces is   *)
(* always an unmarked one, so the distance the code overwrites with zero   *)
(* was zero.                                                               *)
MarkedMoveLeft ==
  [][phase' # "done" =>
       \A k \in Index : mem[k] \in marked => \E l \in 0 .. k : mem'[l] = mem[k]]_vars

-----------------------------------------------------------------------------
(* What holds while the loops run, in named parts.                         *)

\* The positions whose distance has been measured and that hold a marked row.
Measured == IF phase = "measure" THEN {p \in Index : p < index} ELSE Index
Travellers == {p \in Measured : mem[p] \in marked}

MeasuringPass ==
  phase = "measure" =>
    /\ index <= N /\ step = 1 /\ counter <= index
    /\ \A p \in Index : mem[p] = p
    /\ \A p \in Travellers : dist[p] <= index - counter

TargetsAreTheFirst ==
  /\ \A p \in Travellers : dist[p] <= p /\ p - dist[p] < counter
  /\ \A c \in 0 .. counter - 1 : \E p \in Travellers : p - dist[p] = c

TravellersInOrder ==
  \A p, q \in Travellers : p < q =>
    /\ mem[p] < mem[q]
    /\ dist[p] <= dist[q]
    /\ p - dist[p] < q - dist[q]

OthersStay == \A p \in Measured : mem[p] \notin marked => dist[p] = 0

LevelsDone ==
  phase = "compact" =>
    /\ index >= step
    /\ \A p \in Travellers : /\ dist[p] % step = 0
                             /\ p < index => dist[p] % (2 * step) = 0

NoRowLost == \A r \in Index : \E k \in Index : mem[k] = r

(* While the array is worked on, every marked row has a place of its own   *)
(* among the first counter ones, in input order, its distance is what is   *)
(* left to travel to it and is a multiple of the current step, and no row  *)
(* is ever lost or duplicated.                                             *)
DistancesLeadHome ==
  phase # "done" =>
    /\ MeasuringPass
    /\ TargetsAreTheFirst
    /\ TravellersInOrder
    /\ OthersStay
    /\ LevelsDone
    /\ NoRowLost
    /\ out1 = NoRows /\ out2 = NoRows
=============================================================================
