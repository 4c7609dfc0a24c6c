------------------------------ MODULE CZSCJoin ------------------------------
(***************************************************************************)
(* The join of CZSCJoin (Enclave/czsc-join.cpp) over bins of keys.         *)
(*                                                                         *)
(* Every key gets a noisy count of its rows in each of the two tables.  A  *)
(* key with a large one is a bin of its own, the others are packed into    *)
(* sparse bins.  Bins are filled up with dummies, sparse ones to 4U rows,  *)
(* the rows are sorted by bin, and bin after bin of table 1 is joined with *)
(* the same bin of table 2.  Both tables are kept in the enclave.          *)
(*                                                                         *)
(* A key is the join attribute and the other sensitive attributes.  The    *)
(* last component of noise and of counts is that of table 2.               *)
(***************************************************************************)
EXTENDS SortingNet, ObliviousBlocks

CONSTANTS
  Inputs,          \* the pairs of tables: sequences of keys
  NoisePairs,      \* what TGeom may draw for a key, for each table
  BinNoise,        \* what it may draw for noisyBins
  U,               \* bound on the noise of a key: 2/eps*log(2/delta)
  OCALL_MAXSIZE

IntMin == -1000000
IntMax == 1000000

\* INT_MIN marks an entry or a record that is a dummy.
KeyValue == {v \in Int : v > IntMin}

NumRows(input) == Len(input[1]) + Len(input[2])

ASSUME CZSCAssumption ==
  /\ Inputs \subseteq Seq(KeyValue \X KeyValue) \X Seq(KeyValue \X KeyValue)
  /\ \A input \in Inputs : NumRows(input) > 0
  /\ NoisePairs \subseteq Nat \X Nat /\ BinNoise \subseteq Nat
  /\ U \in Nat \ {0} /\ OCALL_MAXSIZE \in Nat \ {0}

\* The sums of the noise are ints: every row may be a key and close a bin.
ASSUME NoOverflow ==
  \A input \in Inputs, noise \in NoisePairs : \A t \in {1, 2} :
    noise[t] + 4 * U <= (IntMax - 1) \div (NumRows(input) + 1)

VARIABLES
  tables,          \* the keys of T1 and T2
  keyBinList,
  keyNoisyMax,
  e,               \* the entry of keyBinList the grouping has reached
  ndense, n_sparsebins, noisyBins,
  sbinCount,       \* records of the open sparse bin
  preKey,
  noiseArray, noiseSum,
  crossProductSize,
  rbin,            \* the rows of each table, sorted by bin
  i,               \* the bin that is joined next
  abs_pos,         \* where it starts in each table
  written,         \* rows of joinOutput
  realMatches, joined,
  pc

keyVars == <<tables, keyBinList, keyNoisyMax>>
groupVars == <<ndense, n_sparsebins, noisyBins, sbinCount, preKey>>
fillVars == <<noiseArray, noiseSum, crossProductSize>>
joinVars == <<i, abs_pos, written, realMatches, joined>>
vars == <<keyVars, groupVars, fillVars, e, rbin, joinVars, pc>>

DummyKey == <<IntMin, IntMin>>
Both(value) == [t \in {1, 2} |-> value]

Init ==
  /\ tables \in Inputs
  /\ keyBinList = <<>> /\ keyNoisyMax = 0
  /\ e = 1
  /\ ndense = 0 /\ n_sparsebins = 0 /\ noisyBins = 0
  /\ sbinCount = Both(0) /\ preKey = DummyKey
  /\ noiseArray = Both(<<>>) /\ noiseSum = Both(0) /\ crossProductSize = 0
  /\ rbin = Both(<<>>)
  /\ i = 0 /\ abs_pos = Both(0) /\ written = 0 /\ realMatches = 0 /\ joined = {}
  /\ pc = "populate"

-----------------------------------------------------------------------------
KeyOrder(k1, k2) == k1[1] < k2[1] \/ (k1[1] = k2[1] /\ k1[2] < k2[2])
AllKeys == Range(tables[1]) \cup Range(tables[2])
Count(t, key) == Cardinality({r \in DOMAIN tables[t] : tables[t][r] = key})

\* How many rows the sorted tables have up to the last one of a key.
RowsUpto(key) ==
  LET upto(t) == {r \in DOMAIN tables[t] : ~KeyOrder(key, tables[t][r])}
  IN  Cardinality(upto(1)) + Cardinality(upto(2))

\* One entry for every row in the order of keys: the last row of a key has its counts.
Unsorted ==
  [k \in 1 .. NumRows(tables) |->
     IF \E key \in AllKeys : RowsUpto(key) = k
     THEN LET key == CHOOSE key \in AllKeys : RowsUpto(key) = k
          IN  [key |-> key, count |-> [t \in {1, 2} |-> Count(t, key)]]
     ELSE [key |-> DummyKey, count |-> Both(0)]]

Noisy(entry, t) == entry.count[t] + entry.noise[t]

\* Entries of keys come first, those with the larger noisy counts before.
LargerNoisy(e1, e2) ==
  IF IntMin \in {e1.key[1], e2.key[1]} THEN e1.key[1] > e2.key[1]
  ELSE IF Noisy(e1, 1) = Noisy(e2, 1) THEN Noisy(e1, 2) > Noisy(e2, 2)
  ELSE Noisy(e1, 1) > Noisy(e2, 1)

\* compare_and_swap_fast on the places of rows; before is the comparison.
CompareAndSwap(order, c, before) ==
  IF c[2] >= Len(order) \/ before[order[c[1] + 1]][order[c[2] + 1]] THEN order
  ELSE Exchange(order, c[1] + 1, c[2] + 1)

\* The order of n rows after each of the exchanges.
Exchanges(n, before, net) ==
  LET after[k \in 0 .. Len(net)] ==
        IF k = 0 THEN [p \in 1 .. n |-> p] ELSE CompareAndSwap(after[k - 1], net[k], before)
  IN  after

Sorted(list, before) ==
  LET order == Exchanges(Len(list), before, ObliSort(Len(list)))[Len(ObliSort(Len(list)))]
  IN  [p \in 1 .. Len(list) |-> list[order[p]]]

WithNoise(plain, noise) ==
  [k \in DOMAIN plain |->
     [key |-> plain[k].key, count |-> plain[k].count, noise |-> noise[k], bin |-> -1]]

LargerIn(list) == [a \in DOMAIN list |-> [b \in DOMAIN list |-> LargerNoisy(list[a], list[b])]]

NoisyCounts(list) == {Noisy(list[k], t) : k \in DOMAIN list, t \in {1, 2}}

PopulateKeyBinList ==
  /\ pc = "populate"
  /\ LET plain == Unsorted
     IN  \E noise \in [DOMAIN plain -> NoisePairs] :
           LET list == WithNoise(plain, noise)
           IN  /\ keyBinList' = Sorted(list, LargerIn(list))
               /\ keyNoisyMax' = Max({0} \cup NoisyCounts(list))
  /\ pc' = "dense"
  /\ UNCHANGED <<tables, groupVars, fillVars, e, rbin, joinVars>>

-----------------------------------------------------------------------------
This == keyBinList[e]
IsDense == \E t \in {1, 2} : Noisy(This, t) > 2 * U

AppendNoise(first, key, bin) ==
  noiseArray' = [t \in {1, 2} |-> Append(noiseArray[t], Entry(first[t], [key |-> key, bin |-> bin]))]

\* The first loop of groupSparseKeys.
GroupDense ==
  /\ pc = "dense" /\ e <= Len(keyBinList)
  /\ IF IsDense
     THEN /\ keyBinList' = [keyBinList EXCEPT ![e].bin = ndense]
          /\ ndense' = ndense + 1
          /\ AppendNoise(noiseSum, This.key, ndense)
          /\ noiseSum' = [t \in {1, 2} |-> noiseSum[t] + This.noise[t]]
          /\ crossProductSize' = crossProductSize + Noisy(This, 1) * Noisy(This, 2)
     ELSE UNCHANGED <<keyBinList, ndense, fillVars>>
  /\ e' = e + 1
  /\ UNCHANGED <<tables, keyNoisyMax, n_sparsebins, noisyBins, sbinCount, preKey, rbin, joinVars, pc>>

EndDense ==
  /\ pc = "dense" /\ e > Len(keyBinList)
  /\ e' = 1
  /\ pc' = "sparse"
  /\ UNCHANGED <<keyVars, groupVars, fillVars, rbin, joinVars>>

\* Mutant: only the records of table 1 are counted.
OverflowsMutant == sbinCount[1] + This.count[1] > 4 * U

Overflows == \E t \in {1, 2} : sbinCount[t] + This.count[t] > 4 * U

CloseBin ==
  /\ AppendNoise(noiseSum, preKey, ndense + n_sparsebins)
  /\ noiseSum' = [t \in {1, 2} |-> noiseSum[t] + 4 * U - sbinCount[t]]
  /\ n_sparsebins' = n_sparsebins + 1

\* The second loop: the counts that fill a bin are the real ones.
GroupSparse ==
  /\ pc = "sparse" /\ e <= Len(keyBinList)
  /\ IF This.bin # -1
     THEN UNCHANGED <<keyBinList, n_sparsebins, sbinCount, preKey, noiseArray, noiseSum>>
     ELSE /\ IF Overflows
             THEN CloseBin /\ sbinCount' = This.count
             ELSE /\ AppendNoise(Both(IntMax), DummyKey, ndense + n_sparsebins)
                  /\ sbinCount' = [t \in {1, 2} |-> sbinCount[t] + This.count[t]]
                  /\ UNCHANGED <<noiseSum, n_sparsebins>>
          /\ preKey' = IF This.key # DummyKey THEN This.key ELSE preKey
          /\ keyBinList' = [keyBinList EXCEPT ![e].bin = ndense + n_sparsebins']
  /\ e' = e + 1
  /\ UNCHANGED <<tables, keyNoisyMax, ndense, noisyBins, crossProductSize, rbin, joinVars, pc>>

EndSparse ==
  /\ pc = "sparse" /\ e > Len(keyBinList)
  /\ CloseBin
  /\ noisyBins' \in BinNoise
  /\ pc' = "pad"
  /\ UNCHANGED <<keyVars, ndense, sbinCount, preKey, crossProductSize, e, rbin, joinVars>>

-----------------------------------------------------------------------------
NumEntries == ndense + n_sparsebins + noisyBins

\* compactMetaVector: the entries of bins, the one with k of them before it at k + 1.
Kept(t) ==
  LET marked == {p \in DOMAIN noiseArray[t] : noiseArray[t][p].first < IntMax}
      before(p) == {q \in marked : q < p}
  IN  [k \in 1 .. ndense + n_sparsebins |->
         noiseArray[t][CHOOSE p \in marked : Cardinality(before(p)) = k - 1]]

\* Mutant: the bins of noise all start where the first one does.
PaddedMutant(t) ==
  [k \in 1 .. NumEntries |->
     IF k <= ndense + n_sparsebins THEN Kept(t)[k]
     ELSE Entry(noiseSum[t], [key |-> <<IntMin + k - ndense - n_sparsebins, IntMin>>, bin |-> k - 1])]

\* The first dummy of every bin; the last noisyBins of them have no key.
Padded(t) ==
  [k \in 1 .. NumEntries |->
     IF k <= ndense + n_sparsebins THEN Kept(t)[k]
     ELSE LET extra == k - ndense - n_sparsebins
          IN  Entry(noiseSum[t] + (extra - 1) * 4 * U,
                    [key |-> <<IntMin + extra, IntMin>>, bin |-> k - 1])]

\* What resize appends, and what the fill pass starts with.
NoEntry == Entry(0, [key |-> DummyKey, bin |-> 0])

Resized(a, n) == [k \in 1 .. n |-> IF k <= Len(a) THEN a[k] ELSE NoEntry]

\* Mutant: the bins that are all noise are not counted in crossProductSize.
PadMutant ==
  /\ pc = "pad" /\ NumEntries <= Len(noiseArray[1])
  /\ noiseArray' = [t \in {1, 2} |-> Expand(Resized(Padded(t), noiseSum[t] + noisyBins * 4 * U), NoEntry)]
  /\ noiseSum' = [t \in {1, 2} |-> noiseSum[t] + noisyBins * 4 * U]
  /\ n_sparsebins' = n_sparsebins + noisyBins
  /\ crossProductSize' = crossProductSize + n_sparsebins * 16 * U * U
  /\ pc' = "fill"
  /\ UNCHANGED <<keyVars, ndense, noisyBins, sbinCount, preKey, e, rbin, joinVars>>

\* expandJoinTables up to the dummies.  The entries of keyBinList that get
\* the keys of the last bins are of no record.
Pad ==
  /\ pc = "pad" /\ NumEntries <= Len(noiseArray[1])
  /\ noiseArray' = [t \in {1, 2} |-> Expand(Resized(Padded(t), noiseSum[t] + noisyBins * 4 * U), NoEntry)]
  /\ noiseSum' = [t \in {1, 2} |-> noiseSum[t] + noisyBins * 4 * U]
  /\ n_sparsebins' = n_sparsebins + noisyBins
  /\ crossProductSize' = crossProductSize + n_sparsebins' * 16 * U * U
  /\ pc' = "fill"
  /\ UNCHANGED <<keyVars, ndense, noisyBins, sbinCount, preKey, e, rbin, joinVars>>

\* The entries beyond the end of the array have no key to write to.
PadPastEnd ==
  /\ pc = "pad" /\ NumEntries > Len(noiseArray[1])
  /\ pc' = "crashed"
  /\ UNCHANGED <<keyVars, groupVars, fillVars, e, rbin, joinVars>>

NumBins == ndense + n_sparsebins

BinOf(key) == keyBinList[CHOOSE k \in DOMAIN keyBinList : keyBinList[k].key = key].bin

Records(t) ==
  [r \in DOMAIN tables[t] |-> [key |-> tables[t][r], bin |-> BinOf(tables[t][r]), rid |-> r]]
Dummies(t) ==
  [k \in DOMAIN noiseArray[t] |->
     [key |-> noiseArray[t][k].second.key, bin |-> noiseArray[t][k].second.bin, rid |-> IntMax]]

RowBefore(row1, row2) == row1.bin < row2.bin \/ (row1.bin = row2.bin /\ row1.rid < row2.rid)

\* rbin1 and rbin2, sorted by bin and by record.
Fill ==
  /\ pc = "fill"
  /\ rbin' = [t \in {1, 2} |->
       LET rows == Records(t) \o Dummies(t)
       IN  Sorted(rows, [a \in DOMAIN rows |-> [b \in DOMAIN rows |-> RowBefore(rows[a], rows[b])]])]
  /\ pc' = "start"
  /\ UNCHANGED <<keyVars, groupVars, fillVars, e, joinVars>>

-----------------------------------------------------------------------------
\* sortMergeJoin writes to selected_count, which join allocates for the
\* general join only: the primary-foreign-key join is lost with the enclave.
StartJoin ==
  /\ pc = "start"
  /\ pc' \in {"join", "crashed"}
  /\ UNCHANGED <<keyVars, groupVars, fillVars, e, rbin, joinVars>>

ReadBlockSize ==
  LET binNoisyMax == Max({keyNoisyMax, 4 * U})
  IN  Min({binNoisyMax, OCALL_MAXSIZE})

\* Mutant: the rows are taken while they are of this bin or of one before.
TakeMutant(t) == Cardinality({p \in DOMAIN rbin[t] : p > abs_pos[t] /\ rbin[t][p].bin < i})

\* How many rows are taken: up to the first row of the next bin.
Take(t) ==
  Min({ReadBlockSize} \cup
      {j \in 0 .. ReadBlockSize : \/ abs_pos[t] + j >= Len(rbin[t])
                                  \/ abs_pos[t] + j < Len(rbin[t]) /\ rbin[t][abs_pos[t] + j + 1].bin = i + 1})

JoinBin ==
  /\ pc = "join" /\ i < NumBins
  /\ LET taken(t) == abs_pos[t] + 1 .. abs_pos[t] + Take(t)
         matching == {m \in taken(1) \X taken(2) :
                        /\ rbin[1][m[1]].rid # IntMax /\ rbin[2][m[2]].rid # IntMax
                        /\ rbin[1][m[1]].key[1] = rbin[2][m[2]].key[1]}
     IN  /\ written' = written + Take(1) * Take(2)
         /\ realMatches' = realMatches + Cardinality(matching)
         /\ joined' = joined \cup {<<rbin[1][m[1]].rid, rbin[2][m[2]].rid>> : m \in matching}
  /\ abs_pos' = [t \in {1, 2} |-> abs_pos[t] + Take(t)]
  /\ i' = i + 1
  /\ UNCHANGED <<keyVars, groupVars, fillVars, e, rbin, pc>>

EndJoin ==
  /\ pc = "join" /\ i = NumBins
  /\ pc' = "joined"
  /\ UNCHANGED <<keyVars, groupVars, fillVars, e, rbin, joinVars>>

Next ==
  \/ PopulateKeyBinList
  \/ GroupDense \/ EndDense \/ GroupSparse \/ EndSparse
  \/ Pad \/ PadPastEnd \/ Fill
  \/ StartJoin \/ JoinBin \/ EndJoin

Spec == Init /\ [][Next]_vars

-----------------------------------------------------------------------------
TypeOK ==
  /\ e \in 1 .. Len(keyBinList) + 1 /\ i \in 0 .. NumBins
  /\ \A t \in {1, 2} : noiseSum[t] \in Nat /\ abs_pos[t] \in 0 .. Len(rbin[t])
  /\ \A k \in DOMAIN keyBinList : keyBinList[k].bin \in -1 .. NumBins
  /\ pc \in {"populate", "dense", "sparse", "pad", "fill", "start", "join", "joined", "crashed"}

RowsOf(t, b) == {p \in DOMAIN rbin[t] : rbin[t][p].bin = b}

(* The size a bin is padded to.                                            *)
Size(t, b) ==
  IF b >= ndense THEN 4 * U
  ELSE Noisy(keyBinList[CHOOSE k \in DOMAIN keyBinList : keyBinList[k].bin = b], t)

RecordsOf(t, b) == {r \in DOMAIN tables[t] : BinOf(tables[t][r]) = b}

(* Every bin of the table gets at least one dummy, so that no two bins     *)
(* claim the same place in noiseArray.                                     *)
EveryBinPadded(t) == \A b \in 0 .. NumBins - 1 : Size(t, b) > Cardinality(RecordsOf(t, b))

(* A bin of the table is read as one block.                                *)
EveryBinFits(t) == \A b \in 0 .. NumBins - 1 : Cardinality(RowsOf(t, b)) <= ReadBlockSize

(* Before the join every bin has all its records and as many rows as its   *)
(* size says: a sparse bin 4U of them, however its keys were packed.       *)
BinsFull ==
  pc = "start" => \A t \in {1, 2}, b \in 0 .. NumBins - 1 :
    /\ Cardinality(RecordsOf(t, b)) <= Size(t, b)
    /\ EveryBinPadded(t) => Cardinality(RowsOf(t, b)) = Size(t, b)

(* joinOutput and selected_count have room for all rows that are written,  *)
(* when bins are padded and read as one block.                             *)
RoomInJoinOutput ==
  /\ \A t \in {1, 2} : EveryBinPadded(t) /\ EveryBinFits(t)
  /\ pc \in {"join", "joined"}
  => written <= crossProductSize

(* What TraceMem::write asserts, whatever the size of a bin: the place of  *)
(* the row that is written is below the size of joinOutput.                *)
WrittenBelowSize ==
  /\ \A t \in {1, 2} : EveryBinPadded(t)
  /\ pc \in {"join", "joined"}
  => written <= crossProductSize

(* The join finds every pair of records that have the same join attribute, *)
(* once: provided that no bin is empty, that the largest bin fits into one *)
(* block, and that rows with the same join attribute have the same key.    *)
MatchesJoined ==
  /\ pc = "joined"
  /\ \A t \in {1, 2} : EveryBinFits(t) /\ \A b \in 0 .. NumBins - 1 : RowsOf(t, b) # {}
  /\ \A k1, k2 \in AllKeys : k1[1] = k2[1] => k1 = k2
  => LET matches == {m \in (DOMAIN tables[1]) \X (DOMAIN tables[2]) : tables[1][m[1]][1] = tables[2][m[2]][1]}
     IN  joined = matches /\ realMatches = Cardinality(matches)
=============================================================================
