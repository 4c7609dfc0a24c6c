------------------------------- MODULE HTree -------------------------------
(***************************************************************************)
(* The histogram and the buckets of HTree (Enclave/htree.cpp) as initHTree *)
(* and createJoinBuckets (Enclave/do-algorithms.cpp) build them, and the   *)
(* queries that walk over them.                                            *)
(*                                                                         *)
(* The domain of the join attribute is cut into partitions by noisy counts *)
(* and every partition becomes a bucket of its records and some dummies.   *)
(* "uni" cuts both tables at the same keys and moves the sorted records    *)
(* by expansion; "ind" cuts every table for itself and sorts the records   *)
(* with the dummies.  A row of table t is the number of its record in the  *)
(* sorted table, or a larger number for a dummy.                           *)
(***************************************************************************)
EXTENDS BucketWalk, ObliviousBlocks

CONSTANTS
  Keys,        \* the values of the join attribute
  MaxSize,     \* the largest size of each table
  Noise,       \* the values TGeom may draw for a bucket
  Ranges       \* the ranges qs, qe of the queries

ASSUME HTreeAssumption == Keys \subseteq Int /\ MaxSize \in [{1, 2} -> Nat] /\ Noise \subseteq Nat /\ Ranges \subseteq Int \X Int

VARIABLES
  mode,            \* "uni" or "ind"
  rows,            \* the keys of the sorted tables: extractData
  table,           \* the table that is worked on
  at,              \* the key, less keyMin, that the scan has reached
  hist,            \* the real counts of rangeSanitizer[t][0]
  real,            \* realPartSize of the tables
  boundaries,      \* of each table
  partitionSizes,  \* of each table, real and noisy
  accumulateSizes, \* of each table
  rest,            \* "ind": the rows of the sorted array that no bucket has yet
  fillers,         \* "ind": the keys of the dummies
  content,         \* the rows of each bucket
  pc

treeVars == <<mode, rows, hist>>
cutVars == <<at, real, boundaries, partitionSizes, accumulateSizes>>
moveVars == <<rest, fillers, content>>
vars == <<treeVars, cutVars, moveVars, table, pc, buckets, walkVars>>

Tables == {t \in {1, 2} : rows[t] # <<>>}
SortedRows(n) == {s \in UNION {[1 .. k -> Keys] : k \in 0 .. n} :
                    \A k, l \in DOMAIN s : k < l => s[k] <= s[l]}

keyMin == Min(UNION {Range(rows[t]) : t \in Tables})
keyMax == Max(UNION {Range(rows[t]) : t \in Tables})
domainSize == keyMax - keyMin + 1

IntMin == -2147483647 - 1
None == Entry(-1, IntMin)

\* A selection has one table, always "ind"; a join has two.
Init ==
  /\ mode \in {"uni", "ind"}
  /\ rows \in {[t \in {1, 2} |-> IF t = 1 THEN s1 ELSE s2] :
                 s1 \in SortedRows(MaxSize[1]) \ {<<>>}, s2 \in SortedRows(MaxSize[2])}
  /\ mode = "uni" => rows[2] # <<>>
  /\ table = 1 /\ at = 0
  /\ hist = [t \in {1, 2} |-> <<>>]
  /\ real = [t \in {1, 2} |-> 0]
  /\ boundaries = [t \in {1, 2} |-> <<>>]
  /\ partitionSizes = [t \in {1, 2} |-> <<>>]
  /\ accumulateSizes = [t \in {1, 2} |-> <<>>]
  /\ buckets = [t \in {1, 2} |-> <<>>]
  /\ rest = {} /\ fillers = <<>>
  /\ content = [t \in {1, 2} |-> <<>>]
  /\ bucketNoisyMax = 0
  /\ pc = "hist"
  /\ WalkInit

-----------------------------------------------------------------------------
Resize(a, n, none) == [k \in 1 .. n |-> IF k <= Len(a) THEN a[k] ELSE none]

RunLength(s, k) == Cardinality({l \in 1 .. k : s[l] = s[k]})

\* hbins before the compaction: the last row of a key carries its count.
Runs(s) ==
  [k \in DOMAIN s |-> IF k = Len(s) \/ s[k + 1] # s[k]
                      THEN Entry(s[k] - keyMin, RunLength(s, k)) ELSE None]

Marked(a) == {k \in DOMAIN a : a[k].second # IntMin}

\* The m-th number of a set.
Nth(S, m) == CHOOSE k \in S : Cardinality({l \in S : l <= k}) = m

(* compactMeta: the marked entries in order, then the others, which are    *)
(* None; the array is cut or extended to the size of the domain.           *)
Compacted(a, n) ==
  [m \in 1 .. n |-> IF m <= Cardinality(Marked(a)) THEN a[Nth(Marked(a), m)]
                    ELSE IF m <= Len(a) THEN None ELSE Entry(0, 0)]

\* A slot that still has the number of another key was filled in: no record.
Counts(s) ==
  LET hbins == Expand(Compacted(Runs(s), domainSize), None)
  IN  [k \in 0 .. domainSize - 1 |-> IF hbins[k + 1].first = k THEN hbins[k + 1].second ELSE 0]

GetHistBins ==
  /\ pc = "hist"
  /\ hist' = [hist EXCEPT ![table] = Counts(rows[table])]
  /\ IF table = 1 /\ 2 \in Tables
     THEN table' = 2 /\ pc' = pc
     ELSE table' = 1 /\ pc' = "partition"
  /\ UNCHANGED <<mode, rows, cutVars, moveVars, buckets, walkVars>>

-----------------------------------------------------------------------------
\* The tables whose partitions the scan cuts.
Cutting == IF mode = "uni" THEN {1, 2} ELSE {table}

AllBoundaries == boundaries[1] \o IF mode = "uni" THEN <<>> ELSE boundaries[2]

\* The sum of the first k numbers of a list, for every k.
Sums(list) ==
  LET sums[k \in 0 .. Len(list)] == IF k = 0 THEN 0 ELSE sums[k - 1] + list[k]
  IN  sums

RealSums(t) == Sums([k \in DOMAIN partitionSizes[t] |-> partitionSizes[t][k].real])
NoisySums(t) == Sums([k \in DOMAIN partitionSizes[t] |-> partitionSizes[t][k].noisy])
NoiseSums(t) ==
  Sums([k \in DOMAIN partitionSizes[t] |-> partitionSizes[t][k].noisy - partitionSizes[t][k].real])

SumReal(t) == RealSums(t)[Len(partitionSizes[t])]
SumNoise(t) == NoiseSums(t)[Len(partitionSizes[t])]
PrevReal(t) == Max({-1} \cup {accumulateSizes[t][k].first : k \in DOMAIN accumulateSizes[t]})

\* "uni": a partition after an empty one gets no place of its own.
Accumulate(t) ==
  Entry(IF mode = "uni" /\ SumReal(t) <= PrevReal(t) THEN -1 ELSE SumReal(t), SumNoise(t))

\* boundaries.back() is below the end of the domain.
Cuts(close) ==
  \/ close
  \/ at = domainSize - 1 /\ AllBoundaries # <<>> /\ Last(AllBoundaries) < at

(* One key of the loop of constructBucketsOneTime or constructBuckets.  The *)
(* noise of the key and the average size, of which the code makes an int    *)
(* even when it divides by zero, may close the partition or not.            *)
ScanKey ==
  /\ pc = "partition" /\ at < domainSize
  /\ \E close \in BOOLEAN, noise \in [Cutting -> Noise] :
       LET size == [t \in Cutting |-> real[t] + hist[t][at]]
           cut == Cuts(close)
       IN  /\ ~(at = domainSize - 1 /\ ~close /\ AllBoundaries = <<>>)
           /\ ~cut => \A t \in Cutting : noise[t] = Min(Noise)
           /\ real' = [t \in {1, 2} |-> IF t \notin Cutting THEN real[t]
                                        ELSE IF cut THEN 0 ELSE size[t]]
           /\ partitionSizes' =
                [t \in {1, 2} |-> IF cut /\ t \in Cutting
                   THEN Append(partitionSizes[t], [real |-> size[t], noisy |-> size[t] + noise[t]])
                   ELSE partitionSizes[t]]
           /\ accumulateSizes' =
                [t \in {1, 2} |-> IF cut /\ t \in Cutting
                   THEN Append(accumulateSizes[t], Accumulate(t)) ELSE accumulateSizes[t]]
           /\ boundaries' =
                [t \in {1, 2} |-> IF cut /\ t \in Cutting
                   THEN Append(boundaries[t], at) ELSE boundaries[t]]
  /\ at' = at + 1
  /\ UNCHANGED <<treeVars, moveVars, table, pc, buckets, walkVars>>

\* boundaries.back() of an empty vector: the enclave is lost.
BackOfEmpty ==
  /\ pc = "partition" /\ at = domainSize - 1 /\ AllBoundaries = <<>>
  /\ pc' = "crashed"
  /\ UNCHANGED <<treeVars, cutVars, moveVars, table, buckets, walkVars>>

\* Mutant: a bucket starts at the key the one before it ends with.
BucketOfMutant(t, k) ==
  Bucket(keyMin + (IF k = 1 THEN 0 ELSE boundaries[t][k - 1]), keyMin + boundaries[t][k],
         partitionSizes[t][k].noisy)

BucketOf(t, k) ==
  Bucket(keyMin + (IF k = 1 THEN 0 ELSE boundaries[t][k - 1] + 1), keyMin + boundaries[t][k],
         partitionSizes[t][k].noisy)

MakeBuckets ==
  /\ pc = "partition" /\ at = domainSize
  /\ buckets' = [t \in {1, 2} |-> IF t \notin Cutting THEN buckets[t]
                   ELSE [k \in DOMAIN boundaries[t] |-> BucketOf(t, k)]]
  /\ bucketNoisyMax' = Max({bucketNoisyMax} \cup
       {p.noisy : p \in UNION {Range(partitionSizes[t]) : t \in Cutting}})
  /\ IF mode = "ind" /\ table = 1 /\ 2 \in Tables
     THEN table' = 2 /\ at' = 0 /\ pc' = pc
     ELSE table' = 1 /\ at' = at /\ pc' = "move"
  /\ real' = [t \in {1, 2} |-> 0]
  /\ UNCHANGED <<treeVars, boundaries, partitionSizes, accumulateSizes, moveVars,
                 request, i, j, pass, xprodsize, written, selectedCountIdx, joined>>

-----------------------------------------------------------------------------
\* Mutant: a bucket is read from where the real rows before it end.
NoisyBeforeMutant(t, k) == RealSums(t)[k - 1]

NoisyBefore(t, k) == NoisySums(t)[k - 1]

\* Mutant: the offsets are not filled in between the first rows of partitions.
OffsetsMutant(t) == Place(Resize(accumulateSizes[t], Len(rows[t]), Entry(0, 0)))

\* accumulateSizes cut to the size of the table and expanded over its rows.
Offsets(t) == Expand(Resize(accumulateSizes[t], Len(rows[t]), Entry(0, 0)), None)

\* The array after expand(data, false): every record moves by the offset in its slot.
Moved(t) ==
  LET n == Len(rows[t])
      records == [k \in 1 .. n |-> Entry((k - 1) + Offsets(t)[k].second, k)]
      dummies == [k \in 1 .. SumNoise(t) |-> Entry(-1, n + k)]
  IN  Place(records \o dummies)

EndTable ==
  IF table = 1 /\ 2 \in Tables
  THEN table' = 2 /\ pc' = "move"
  ELSE table' = table /\ pc' = "query"

\* moveData when both tables are cut at the same keys.
MoveUni ==
  /\ pc = "move" /\ mode = "uni"
  /\ content' = [content EXCEPT ![table] =
       [k \in DOMAIN buckets[table] |->
          LET first == NoisyBefore(table, k)
          IN  {Moved(table)[first + p].second : p \in 1 .. buckets[table][k].numData}]]
  /\ EndTable
  /\ UNCHANGED <<treeVars, cutVars, rest, fillers, buckets, walkVars>>

NoiseBefore(t, k) == NoiseSums(t)[k - 1]

\* noiseArray: the first dummy of every bucket, resized to noiseSum entries.
NoiseArray(t) ==
  Resize([k \in DOMAIN buckets[t] |-> Entry(NoiseBefore(t, k), buckets[t][k].keyMin)],
         SumNoise(t), None)

Key(row) ==
  LET n == Len(rows[table])
  IN  IF row <= n THEN rows[table][row] ELSE fillers[row - n].second

Dummy(row) == row > Len(rows[table])

\* moveData when the table is cut for itself: records and dummies are sorted.
FillInd ==
  /\ pc = "move" /\ mode = "ind"
  /\ fillers' = Expand(NoiseArray(table), None)
  /\ rest' = 1 .. Len(rows[table]) + Len(fillers')
  /\ content' = [content EXCEPT ![table] = <<>>]
  /\ pc' = "slice"
  /\ UNCHANGED <<treeVars, cutVars, table, buckets, walkVars>>

(* The next bucket gets the next slice of the sorted array.  The sort may  *)
(* leave records and dummies of one key in any order; the records of a key *)
(* are alike, and so are its dummies: they are taken by number.            *)
SliceInd ==
  /\ pc = "slice"
  /\ Len(content[table]) < Len(buckets[table])
  /\ \E slice \in kSubset(buckets[table][Len(content[table]) + 1].numData, rest) :
       /\ \A row \in slice, other \in rest \ slice :
            /\ Key(row) <= Key(other)
            /\ Key(row) = Key(other) /\ Dummy(row) = Dummy(other) => row < other
       /\ content' = [content EXCEPT ![table] = Append(@, slice)]
       /\ rest' = rest \ slice
  /\ UNCHANGED <<treeVars, cutVars, table, fillers, pc, buckets, walkVars>>

EndInd ==
  /\ pc = "slice" /\ Len(content[table]) = Len(buckets[table])
  /\ EndTable
  /\ UNCHANGED <<treeVars, cutVars, moveVars, buckets, walkVars>>

-----------------------------------------------------------------------------
\* innerJoin over the buckets of two tables.
Query ==
  /\ pc = "query" /\ 2 \in Tables
  /\ \E range \in Ranges, jattr \in BOOLEAN : StartWalk(range[1], range[2], jattr)
  /\ UNCHANGED <<treeVars, cutVars, moveVars, table, pc>>

\* The matches in the two buckets before the walk: a dummy matches nothing.
Matches ==
  {p \in content[1][i] \X content[2][j] :
     /\ p[1] \in DOMAIN rows[1] /\ p[2] \in DOMAIN rows[2]
     /\ rows[1][p[1]] = rows[2][p[2]]}

(* The rows of table 2 whose matches are outside the range: it is about    *)
(* the join attribute, or about one that is not modelled.                  *)
OutsideRows ==
  IF request.jattr
  THEN {{r \in DOMAIN rows[2] : rows[2][r] \notin request.qs .. request.qe}}
  ELSE SUBSET DOMAIN rows[2]

CrossProduct ==
  /\ JoinPair
  /\ \E outside \in OutsideRows :
       written' = written + PairSize - Cardinality({p \in Matches : p[2] \in outside})

Walk ==
  /\ pc = "query"
  /\ Skip \/ MeasurePair \/ CrossProduct \/ EndPass
  /\ UNCHANGED <<treeVars, cutVars, moveVars, table, pc>>

Build ==
  \/ GetHistBins \/ ScanKey \/ BackOfEmpty \/ MakeBuckets
  \/ MoveUni \/ FillInd \/ SliceInd \/ EndInd

Next == Build \/ Query \/ Walk

Spec == Init /\ [][Next]_vars

\* The walk is a loop of one thread that waits for nothing.
FairSpec == Spec /\ WF_vars(Walk)

-----------------------------------------------------------------------------
(* The buckets of a table cover every key of the domain once, and a bucket *)
(* is as large as its records, counted by getHistBins whether the table    *)
(* has more rows than the domain has keys or fewer, and its noise.  A      *)
(* table cut for itself after the other one gets no bucket when no key     *)
(* closes a partition.                                                     *)
BucketsTileDomain ==
  pc \in {"move", "slice", "query"} =>
    \A t \in Tables : buckets[t] # <<>> =>
      /\ \A v \in keyMin .. keyMax :
           Cardinality({k \in DOMAIN buckets[t] : v \in buckets[t][k].keyMin .. buckets[t][k].keyMax}) = 1
      /\ \A k \in DOMAIN buckets[t] :
           /\ partitionSizes[t][k].real =
                Cardinality({r \in DOMAIN rows[t] :
                               rows[t][r] \in buckets[t][k].keyMin .. buckets[t][k].keyMax})
           /\ buckets[t][k].numData \in partitionSizes[t][k].real .. bucketNoisyMax \/ pass # "idle"

Filled(t) == pc = "query" \/ (t < table /\ pc \in {"move", "slice"})

InPlace(t) ==
  \A k \in DOMAIN content[t] : \A r \in content[t][k] \cap DOMAIN rows[t] :
    rows[t][r] \in buckets[t][k].keyMin .. buckets[t][k].keyMax

(* The second of two tables cut for themselves when no key closed a        *)
(* partition of it: boundaries.back(), which would close the last one, is  *)
(* that of the other table, the end of the domain.                         *)
WithoutBucket(t) == mode = "ind" /\ t = 2 /\ partitionSizes[t] = <<>>

(* Every row, record or dummy, ends up in one bucket, whatever the noise   *)
(* was and however wrong an offset may be; unless its table was left       *)
(* without a bucket, of which every row is lost.                           *)
EveryRowOnce ==
  \A t \in Tables : Filled(t) =>
    \A row \in 1 .. Len(rows[t]) + SumNoise(t) :
      Cardinality({k \in DOMAIN content[t] : row \in content[t][k]}) =
        IF WithoutBucket(t) THEN 0 ELSE 1

(* A record is in the bucket whose keys include its own: "uni" when no     *)
(* partition of the table is empty, "ind" when every bucket has a dummy.   *)
RecordsInTheirBucket ==
  \A t \in Tables :
    /\ Filled(t)
    /\ mode = "uni" => \A k \in DOMAIN partitionSizes[t] : partitionSizes[t][k].real > 0
    /\ mode = "ind" => \A k \in DOMAIN partitionSizes[t] : partitionSizes[t][k].noisy > partitionSizes[t][k].real
    => InPlace(t)

(* Without these conditions, as the comments "inclusive" on the bounds of  *)
(* a bucket have it: refuted by empty partitions.                          *)
BucketsInclusive == mode = "uni" => \A t \in Tables : Filled(t) => InPlace(t)

(* A query that has begun comes to its end: of two buckets it looks at,    *)
(* the walk always leaves one behind.                                      *)
QueriesEnd == (pass = "measure") ~> (pass = "joined")
=============================================================================
