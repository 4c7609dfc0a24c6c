----------------------------- MODULE MergeJoin -----------------------------
(***************************************************************************)
(* The join of a primary key table with a foreign key table: sortMergeJoin *)
(* (Enclave/Enclave-utility.cpp) on one pair of bins after the other, as   *)
(* PrivTree::pfJoin (Enclave/privtree.cpp) and HTree::pfJoin               *)
(* (Enclave/htree.cpp) call it.                                            *)
(*                                                                         *)
(* The rows of both bins are sorted by key and table, so that a foreign    *)
(* key comes after the primary key it refers to.  Every row of the sorted  *)
(* pair gives a row of output, a match or an empty one, and the matches    *)
(* are compacted into as many rows as the foreign bin has.  CZSCJoin::join *)
(* calls sortMergeJoin without having allocated selected_count.            *)
(***************************************************************************)
EXTENDS TightCompact, SortingNet, SequencesExt

CONSTANTS
  PrimaryBins,     \* the bins of the primary key table: sequences of rows
  ForeignBins,     \* those of the foreign key table
  MaxBinPairs,     \* the number of pairs of bins
  Leftover         \* what memory that was never written may hold

IntMin == -1000000           \* INT_MIN, below every key

PFRow(t) == [table : {t}, key : {k \in Int : k > IntMin}, dummy : BOOLEAN]

\* Bins of any lengths that have a bound.
ASSUME MergeAssumption ==
  /\ PrimaryBins \subseteq Seq(PFRow(0)) /\ ForeignBins \subseteq Seq(PFRow(1))
  /\ ForeignBins # {} /\ IsFiniteSet({Len(b) : b \in ForeignBins})
  /\ MaxBinPairs \in Nat /\ Leftover \subseteq Nat

VARIABLES
  bins,            \* the bins of this pair, of table 0 and of table 1
  binpair,         \* the rows of the pair; row k of the code is k + 1
  numData2,        \* the size of the foreign bin
  i,               \* the row the merge has reached
  preKey, primary, \* the last row of the primary key table
  joinOutput, selectedCount,
  nReal,           \* the matches of this pair
  realMatches,     \* the matches of all pairs
  written,         \* the rows of this pair that are written to the host
  pairs,           \* the pairs that are done
  pc

vars == <<bins, binpair, numData2, i, preKey, primary, joinOutput, selectedCount,
          nReal, realMatches, written, pairs, pc>>

Empty == [primary |-> 0, foreign |-> 0]

Init ==
  /\ bins = <<<<>>, <<>>>> /\ binpair = <<>> /\ numData2 = 0
  /\ i = 0 /\ preKey = IntMin /\ primary = 0
  /\ joinOutput = <<>> /\ selectedCount = <<>>
  /\ nReal = 0 /\ realMatches = 0
  /\ written = <<>>
  /\ pairs = 0
  /\ pc = "next"

-----------------------------------------------------------------------------
\* The rows of two bins; a row has a number of its own, its place in the pair.
Numbered(rows) ==
  [k \in DOMAIN rows |->
     [table |-> rows[k].table, key |-> rows[k].key, dummy |-> rows[k].dummy, row |-> k]]

\* privtree.cpp 697-757, htree.cpp 626-637: selected_count is not cleared.
LoadPair ==
  /\ pc = "next" /\ pairs < MaxBinPairs
  /\ \E bin1 \in PrimaryBins, bin2 \in ForeignBins :
       /\ bins' = <<bin1, bin2>>
       /\ binpair' = Numbered(bin1 \o bin2)
       /\ numData2' = Len(bin2)
       /\ joinOutput' = [k \in 0 .. Len(bin1 \o bin2) - 1 |-> Empty]
       /\ \E left \in Leftover :
            selectedCount' = [k \in 0 .. Len(bin1 \o bin2) |-> IF k = 0 THEN 0 ELSE left]
  /\ written' = <<>>
  /\ pc' = "sort"
  /\ UNCHANGED <<i, preKey, primary, nReal, realMatches, pairs>>

\* Mutant: rows of one key are not ordered by their tables.
BeforeMutant(row1, row2) == row1.key < row2.key

Before(row1, row2) ==
  IF row1.key = row2.key THEN row1.table < row2.table ELSE row1.key < row2.key

\* Mutant: only one of the two rows is written back.
CompareAndSwapMutant(rows, c) ==
  LET a == c[1] + 1
      b == c[2] + 1
  IN  IF c[2] >= Len(rows) \/ Before(rows[a], rows[b]) THEN rows ELSE [rows EXCEPT ![a] = rows[b]]

\* compare_and_swap_tm_fast, for indices within the array: equal rows are swapped.
CompareAndSwap(rows, c) ==
  LET a == c[1] + 1
      b == c[2] + 1
  IN  IF c[2] >= Len(rows) \/ Before(rows[a], rows[b]) THEN rows
      ELSE [rows EXCEPT ![a] = rows[b], ![b] = rows[a]]

\* The rows after each of the exchanges.
Exchanges(rows, net) ==
  LET after[k \in 0 .. Len(net)] == IF k = 0 THEN rows ELSE CompareAndSwap(after[k - 1], net[k])
  IN  after

Sorted(rows) == Exchanges(rows, ObliSort(Len(rows)))[Len(ObliSort(Len(rows)))]

SortPair ==
  /\ pc = "sort"
  /\ binpair' = Sorted(binpair)
  /\ i' = 0 /\ nReal' = 0
  /\ preKey' = IntMin
  /\ pc' = "merge"
  /\ UNCHANGED <<bins, numData2, primary, joinOutput, selectedCount, realMatches, written, pairs>>

Row == binpair[i + 1]
Refers == Row.table = 1 /\ Row.key = preKey

\* A foreign key that is the last primary key; a dummy is not counted.
MatchRow ==
  /\ pc = "merge" /\ i < Len(binpair) /\ Refers
  /\ joinOutput' = [joinOutput EXCEPT ![i] = [primary |-> primary, foreign |-> Row.row]]
  /\ selectedCount' = [selectedCount EXCEPT ![i] = nReal]
  /\ nReal' = nReal + (IF Row.dummy THEN 0 ELSE 1)
  /\ realMatches' = realMatches + (IF Row.dummy THEN 0 ELSE 1)
  /\ i' = i + 1
  /\ UNCHANGED <<bins, binpair, numData2, preKey, primary, written, pairs, pc>>

\* Mutant: the record of a primary key is kept only when the key is new.
OtherRowMutant ==
  /\ pc = "merge" /\ i < Len(binpair) /\ ~Refers
  /\ joinOutput' = [joinOutput EXCEPT ![i] = Empty]
  /\ selectedCount' = [selectedCount EXCEPT ![i] = nReal]
  /\ preKey' = IF Row.table = 0 THEN Row.key ELSE preKey
  /\ primary' = IF Row.table = 0 /\ primary = 0 THEN Row.row ELSE primary
  /\ i' = i + 1
  /\ UNCHANGED <<bins, binpair, numData2, nReal, realMatches, written, pairs, pc>>

\* Any other row; one of the primary key table, dummy or not, is remembered.
OtherRow ==
  /\ pc = "merge" /\ i < Len(binpair) /\ ~Refers
  /\ joinOutput' = [joinOutput EXCEPT ![i] = Empty]
  /\ selectedCount' = [selectedCount EXCEPT ![i] = nReal]
  /\ preKey' = IF Row.table = 0 THEN Row.key ELSE preKey
  /\ primary' = IF Row.table = 0 THEN Row.row ELSE primary
  /\ i' = i + 1
  /\ UNCHANGED <<bins, binpair, numData2, nReal, realMatches, written, pairs, pc>>

\* Mutant: what is left is cut to the size of the primary bin.
WritePairMutant ==
  /\ pc = "merge" /\ i = Len(binpair)
  /\ written' = ORCompact(joinOutput, Len(binpair), selectedCount, Len(binpair) - numData2)
  /\ pairs' = pairs + 1
  /\ pc' = "next"
  /\ UNCHANGED <<bins, binpair, numData2, i, preKey, primary, joinOutput, selectedCount, nReal, realMatches>>

\* The entry of selected_count after the last row is the one it was allocated with.
WritePair ==
  /\ pc = "merge" /\ i = Len(binpair)
  /\ written' = ORCompact(joinOutput, Len(binpair), selectedCount, numData2)
  /\ pairs' = pairs + 1
  /\ pc' = "next"
  /\ UNCHANGED <<bins, binpair, numData2, i, preKey, primary, joinOutput, selectedCount, nReal, realMatches>>

Next == LoadPair \/ SortPair \/ MatchRow \/ OtherRow \/ WritePair

Spec == Init /\ [][Next]_vars

-----------------------------------------------------------------------------
Records(t) == {k \in DOMAIN bins[t + 1] : ~bins[t + 1][k].dummy}
RowNumber(t, k) == IF t = 0 THEN k ELSE Len(bins[1]) + k

(* The foreign rows that refer to a row of the primary bin, by number.     *)
Matching ==
  {RowNumber(1, k) : k \in {l \in Records(1) : \E m \in DOMAIN bins[1] : bins[1][m].key = bins[2][l].key}}

TypeOK ==
  /\ pc # "sort" => i \in 0 .. Len(binpair)
  /\ numData2 = Len(bins[2])
  /\ {binpair[k].row : k \in DOMAIN binpair} = 1 .. Len(bins[1]) + Len(bins[2])
  /\ pc # "sort" => nReal \in 0 .. numData2
  /\ realMatches \in 0 .. pairs * Max({Len(b) : b \in ForeignBins}) + nReal
  /\ pc \in {"next", "sort", "merge"}

(* selected_count steps up at exactly those rows of the sorted pair that   *)
(* are records of the foreign key table and have a primary key, whatever   *)
(* order the network has left equal rows in.                               *)
MatchesCounted ==
  pc = "merge" =>
    /\ \A k \in 0 .. i - 2 : Selected(selectedCount, k) <=> binpair[k + 1].row \in Matching
    /\ nReal = Cardinality({k \in 1 .. i : binpair[k].row \in Matching})

(* Whether the entry after the last row is what it should be.              *)
LastEntryRight ==
  Len(binpair) > 0 => selectedCount[Len(binpair)] = nReal

Done == pc = "next" /\ pairs > 0

(* Every match of the pair is among the rows that are written, once,       *)
(* although they are no more than the foreign bin has: provided that       *)
(* memory which is never written holds the right number.                   *)
MatchesWritten ==
  Done /\ LastEntryRight =>
    \A f \in Matching : Cardinality({k \in DOMAIN written : written[k].foreign = f}) = 1

(* A match is joined with a record of the primary key table that has its   *)
(* key: provided that no dummy of that table has the key of a record.      *)
PrimaryIsRecord ==
  Done /\ (\A d \in DOMAIN bins[1] \ Records(0), k \in Records(1) : bins[1][d].key # bins[2][k].key) =>
    \A r \in DOMAIN written : written[r].foreign \in Matching =>
      /\ written[r].primary \in Records(0)
      /\ bins[1][written[r].primary].key = bins[2][written[r].foreign - Len(bins[1])].key
=============================================================================
