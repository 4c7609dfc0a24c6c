------------------------------ MODULE Expansion ------------------------------
(***************************************************************************)
(* Oblivious expansion: expand, for a vector and for a TraceMem            *)
(* (Enclave/oblivious-blocks.hpp).                                         *)
(*                                                                         *)
(* The array starts with items that name the slot they are to be moved to  *)
(* (the first dummy of a bin, the count of a histogram key, the shift of a *)
(* partition); the rest are placeholders.  For j = the largest power of    *)
(* two below the size, then j / 2, ..., 1, a loop from the right to the    *)
(* left exchanges data[i] with data[i + j] when the slot of data[i] is at  *)
(* least i + j.  With fill, a last pass copies every item over the slots   *)
(* that follow its own.                                                    *)
(*                                                                         *)
(* An item is named by the index it has when expand is called.             *)
(***************************************************************************)
EXTENDS Integers

CONSTANT M        \* m, the size of the array

ASSUME ExpandAssumption == M \in Nat

Slots == 0 .. M - 1
None == -1        \* the default value of fillIn

VARIABLES
  dest,     \* first, the slot an item is destined for
  data,     \* the item at every index
  j, i,     \* the loop variables
  fillIn,
  pc

expandVars == <<dest, data, j, i, fillIn, pc>>

(* What the callers pass: the first len items are destined for distinct    *)
(* slots in increasing order, the others carry first = -1 (resize with a   *)
(* placeholder, or a compacted dummy) or first = 0 (zero-filled by resize). *)
Expandable(d) ==
  \E len \in 0 .. M, placeholder \in {-1, 0} :
    /\ \A k \in 0 .. len - 1 : d[k] >= k
    /\ \A k, l \in 0 .. len - 1 : k < l => d[l] - d[k] >= l - k
    /\ \A k \in len .. M - 1 : d[k] = placeholder

ExpandInit ==
  /\ dest \in {d \in [Slots -> -1 .. M - 1] : Expandable(d)}
  /\ data = [k \in Slots |-> k]
  /\ j = 1
  /\ i = 0
  /\ fillIn = None
  /\ pc = "prev_pow_two"

-----------------------------------------------------------------------------
(* prev_pow_two doubles until the size is reached and takes one half.      *)

DoublePower ==
  /\ pc = "prev_pow_two"
  /\ j < M
  /\ j' = 2 * j
  /\ UNCHANGED <<dest, data, i, fillIn, pc>>

StartLevels ==
  /\ pc = "prev_pow_two"
  /\ j >= M
  /\ j' = j \div 2
  /\ i' = M - j' - 1
  /\ pc' = "levels"
  /\ UNCHANGED <<dest, data, fillIn>>

-----------------------------------------------------------------------------
(* The level loop.                                                         *)

\* Mutant: the bound of the comparison forgets j.
MustMoveByOneMutant == dest[data[i]] >= i + 1

MustMove == dest[data[i]] >= i + j

Move ==
  /\ pc = "levels"
  /\ j >= 1 /\ i >= 0
  /\ MustMove
  /\ data' = [data EXCEPT ![i] = data[i + j], ![i + j] = data[i]]
  /\ i' = i - 1
  /\ UNCHANGED <<dest, j, fillIn, pc>>

Stay ==
  /\ pc = "levels"
  /\ j >= 1 /\ i >= 0
  /\ ~MustMove
  /\ i' = i - 1
  /\ UNCHANGED <<dest, data, j, fillIn, pc>>

\* Mutant: the loop starts one index too far to the left.
NextStrideMutant ==
  /\ pc = "levels"
  /\ j >= 1 /\ i < 0
  /\ j' = j \div 2
  /\ i' = IF j' = 0 THEN -1 ELSE M - j' - 2
  /\ UNCHANGED <<dest, data, fillIn, pc>>

NextStride ==
  /\ pc = "levels"
  /\ j >= 1 /\ i < 0
  /\ j' = j \div 2
  /\ i' = M - j' - 1
  /\ UNCHANGED <<dest, data, fillIn, pc>>

\* fill = false
Return ==
  /\ pc = "levels"
  /\ j = 0
  /\ pc' = "placed"
  /\ UNCHANGED <<dest, data, j, i, fillIn>>

-----------------------------------------------------------------------------
(* The fill pass.                                                          *)

StartFill ==
  /\ pc = "levels"
  /\ j = 0
  /\ i' = 0
  /\ pc' = "fill"
  /\ UNCHANGED <<dest, data, j, fillIn>>

TakeItem ==
  /\ pc = "fill"
  /\ i < M
  /\ dest[data[i]] = i
  /\ fillIn' = data[i]
  /\ i' = i + 1
  /\ UNCHANGED <<dest, data, j, pc>>

\* Mutant: the placeholder is taken instead of being overwritten.
CopyItemMutant ==
  /\ pc = "fill"
  /\ i < M
  /\ dest[data[i]] # i
  /\ fillIn' = data[i]
  /\ i' = i + 1
  /\ UNCHANGED <<dest, data, j, pc>>

CopyItem ==
  /\ pc = "fill"
  /\ i < M
  /\ dest[data[i]] # i
  /\ data' = [data EXCEPT ![i] = fillIn]
  /\ i' = i + 1
  /\ UNCHANGED <<dest, j, fillIn, pc>>

EndFill ==
  /\ pc = "fill"
  /\ i = M
  /\ pc' = "filled"
  /\ UNCHANGED <<dest, data, j, i, fillIn>>

ExpandNext ==
  \/ DoublePower \/ StartLevels
  \/ Move \/ Stay \/ NextStride \/ Return
  \/ StartFill \/ TakeItem \/ CopyItem \/ EndFill

ExpandSpec == ExpandInit /\ [][ExpandNext]_expandVars

-----------------------------------------------------------------------------
ExpandTypeOK ==
  /\ dest \in [Slots -> -1 .. M - 1]
  /\ data \in [Slots -> Slots \cup {None}]
  /\ j \in Nat
  /\ i \in -1 .. M
  /\ fillIn \in Slots \cup {None}
  /\ pc \in {"prev_pow_two", "levels", "placed", "fill", "filled"}

\* The items that have a slot to go to; the others are placeholders.
Items == {k \in Slots : dest[k] >= k}

\* How far an item has to travel in all.
Travel(r) == dest[r] - r

(* Between and within the levels, what an item still has to travel is the  *)
(* remainder of its whole way: by j once the loop has passed it, by 2 * j  *)
(* before that.  No item is overtaken, lost or thrown back by an exchange. *)
WayLeft ==
  pc = "levels" =>
    /\ \A r \in Slots : \E p \in Slots : data[p] = r
    /\ \A p \in Slots : data[p] \in Items =>
         dest[data[p]] - p = IF j = 0 THEN 0
                             ELSE IF p > i THEN Travel(data[p]) % j
                             ELSE Travel(data[p]) % (2 * j)

(* After the levels every item is in its own slot (what moveData relies on *)
(* when it expands the records themselves, without fill).                  *)
Placed == pc = "placed" => \A r \in Items : data[dest[r]] = r

(* After the fill pass a slot carries the last item destined for it or for *)
(* a slot before it, and no item if there is none: every dummy has the key *)
(* of its own bin, every partition its own shift.                          *)
FilledIn ==
  pc = "filled" => \A s \in Slots :
    /\ \A r \in Items :
         /\ dest[r] <= s
         /\ \A q \in Items : dest[q] <= s => dest[q] <= dest[r]
         => data[s] = r
    /\ (\A r \in Items : dest[r] > s) => data[s] \notin Items

(* An exchange never displaces an item: what comes back to index i is      *)
(* always a placeholder, as the commented-out assertion of expand says.    *)
OnlyPlaceholdersMoveBack ==
  [][pc = "levels" =>
       \A p, q \in Slots : (q < p /\ data[p] # data'[p] /\ data'[q] = data[p])
                             => data[p] \notin Items]_expandVars
=============================================================================
