# TLA+ models of DOQP

DOQP answers selections and joins over encrypted tables inside an SGX enclave.
What it touches, and the sizes it shows to the host, must not depend on the data
beyond differentially private noise: records are binned with dummies added, bins
are joined pair by pair, and outputs are compacted by networks whose addresses
depend on sizes only. The program has one thread. Its difficulty lies in the
networks, in counters and arrays that several routines share, in noise that may
be zero, in bounds that are off by one for some sizes only, and in a bridge between host
and enclave whose errors nobody looks at.

These modules are about correctness: no record is lost, duplicated or put into
the wrong bin, whatever the noise is; where the code does not keep this, the properties say when.
Privacy itself is not modelled.

## Inventory

| Component | State | Operations | What makes it correct |
|---|---|---|---|
| Compaction by distances (`oblivious-blocks.hpp` 381-493, `oblivious-blocks.cpp` 10-37) | the array, `distArray`, `counter` | compactMeta, compactMetaVector, enclaveCompact | marked rows first, all of them, in order |
| Compaction by prefix counts (`oblivious-blocks.cpp` 39-195) | `joinOutput`, `selected_count` | ORCompact, TightCompact_inner, TightCompact_2power_inner | selected rows first, in order |
| Expansion (`oblivious-blocks.hpp` 18-76) | the array, `fillIn` | expand, prev_pow_two | every item in its slot, gaps filled with the last item |
| Sorting network (`oblivious-blocks.hpp` 495-589) | the array | obliSort | sorted, not stable |
| External compaction (`oblivious-blocks.hpp` 78-371) | blocks in two workspaces, bins at the host | CompactNet::compact (not modelled) | as compaction, block by block |
| Decomposition tree (`privtree.cpp`) | `nodelist`, `leaves`, counts, noise, `binNoisyMax`, `rbin1`, `rbin2` | createTree, decompose, countInDomains, augmentInput, binningInEnclave, select, selectJoin, join, pfJoin | the leaves partition the domain, counts are exact, bins match leaves, matching rows meet |
| Histogram and buckets (`htree.cpp`) | `rangeSanitizer`, `boundaries`, `partitionSizes`, `buckets` | getHistBins, constructBuckets, moveData, bucketCrossProduct, pfJoin | every record in the bucket of its key, every overlapping pair of buckets joined once |
| Sparse bins (`czsc-join.cpp`) | `keyBinList`, `noiseArray`, `rbin1`, `rbin2`, `abs_pos1`, `abs_pos2` | populateKeyBinList, groupSparseKeys, expandJoinTables, join | groups of at most 4U rows, both tables agree on the bin of a key, bins are read in step |
| Output of joins (`Enclave-utility.cpp` 6-194, `do-algorithms.cpp` 428-558) | `joinOutput`, `selected_count`, `selected_count_idx`, `realMatches`, `jDistArray` | crossProduct, sortMergeJoin, innerJoin, joinCompact, writeDataBlock | the stored output has every match, counters start anew with every query, the host has what was written |
| Bin index (`bplustree.cpp`, `do-algorithms.cpp` 252-290, 377-426) | tree blocks, `allBins` | buildIndex, createDataBlock, pushLayer, search, idxSelect | the bins selected are those that overlap the range |
| Untrusted storage (`App.cpp` 243-462, `app-storage.cpp`) | `untrustedTableStorage`, `untrustedBinStorage` | the OCALL handlers | every row is at the host once, in the table or in a bin; no handler follows a null pointer |
| Bridge (`Enclave_t.c`, `Enclave_u.c`) | the status and the result of a call | the stubs of every ECALL and OCALL | a call that failed changes nothing and gives nothing back |
| Driver (`App.cpp` 779-1199) | `structureID`, `numBins`, `s_bins`, `s_records` | the order of ECALLs in each usage | structures exist before they are used, an answer is that of its query, every query sees fresh counters |

The components call each other directly: the tree expands the dummies and
compacts or sorts rows into bins; the joins of tree, buckets and sparse bins
write into `joinOutput` through crossProduct or sortMergeJoin; joinCompact or
pfJoin compacts and hands rows to the host through OCALLs. `joinOutput`,
`selected_count`, `realMatches` and `jDistArray` are globals shared by all joins
and all queries of a run. Nothing runs concurrently, nothing is persisted and
nothing is retried: the hard behaviours are long sequences of legal steps (the
levels of a network, the levels of a tree, the queries of a session), sizes at a
boundary, zero noise, and state that is stale when the next query starts. An ECALL or an OCALL
fails when its stub gets no memory; main and the wrappers of the OCALLs do not look at the
status and go on.
PROJECT.json lists the hazards at their lines.

## Modules

- **Compaction** follows compactMeta swap by swap. `mem` is the array, `dist` is
  `distArray`, `step` is pow(2, i), `index` and `phase` are the loop variable and the
  place in the code. A row is named by its index in the input.
  compactMetaVector is the same code on a vector and enclaveCompact the same level
  loop with distances measured by the caller. `Split` and `Resize` are the two
  ways the routine ends: two output arrays, or the input array resized.
- **Expansion** follows expand exchange by exchange: `j` and `i` are the loop
  variables, `dest` the first components of the pairs, `data` the items.
  `Return` and `StartFill` are the two values of `fill`. The inputs are what all
  callers promise: distinct, rising destinations in front and placeholders with
  first = -1 or 0 behind. **DistanceLoopProofs** has the theorems of Compaction and
  Expansion, whose names are kept apart for it (ExpandSpec, ExpandTypeOK, `M` for the size).
- **ObliviousBlocks** restates expand as operators on sequences, for any
  destinations, for use by the components. **BlockProofs** has the theorems about it.
- **PrivTree** is the construction of the tree. A node is named by the path to it.
  `Decompose` is one call of decompose: every node of the level becomes a leaf,
  with noise, or is divided; the Laplace noise makes any choice possible for a
  node that canSplit. `CountInDomains` is the pass after it. `Mid` rounds towards
  zero as C++ does. **SessionProofs** has the theorems.
- **PrivTreeBins** extends PrivTree to the sort of the leaves, augmentInput (with
  the real expand, so that zero noise has the effect it has in the code),
  binningInEnclave in both its modes (`Sorting` TRUE and FALSE) and select, which is
  called by the queries of SelectJoin.
  A slice cut from the sorted table is any slice that a sort by the comparison may
  produce, since the network is not stable.
- **TightCompact** has the recursion of ORCompact as recursive functions: `SwapRows` is a
  loop of swaps at the positions whose flag is set, `Inner` and `Pow2Inner` are the two functions. Only the
  variant over joinOutput is modelled; the one over another array has no live call
  (htree.cpp 558 is commented out). **PowersOfTwo** has the shifts of pow2_lt and obliSort.
- **JoinOutput** is crossProduct row by row, with the counters it shares with the
  other queries, the end of a join and joinCompact. A pair of rows matches, matches
  outside the range of the query, or does not match; which it is, is chosen freely.
  `WriteBlock` is one OCALL of writeDataBlock: the host copies the rows to their places
  in `hostBin`, which it never truncates, or the call is lost, which the enclave does
  not notice because the status is not read.
- **SelectJoin** extends PrivTreeBins to select-join with two trees: the bins that
  select found in a tree on another attribute are walked against the leaves of the tree
  on the join attribute, with `prvStart` carried from one bin to the next.
- **SortingNet** is the sequence of exchanges of obliSort for a length. MergeJoin and
  CZSCJoin run it. **BlockProofs** has the theorems about it and about TightCompact.
- **MergeJoin** is pfJoin over pairs of bins: `SortPair` runs the network with the
  comparison of sortMergeJoin, `MatchRow` and `OtherRow` are the two branches of its
  loop, `WritePair` is ORCompact and the rows appended at the host. The entry of
  selected_count after the last row is never set: `Leftover` are the values the memory
  may hold there. **MergeJoinProofs** has the theorems, **JoinOutputProofs** those of
  JoinOutput.
- **BucketWalk** is the two passes of bucketCrossProduct over two lists of buckets,
  on its own so that any two lists of buckets can be proved about. **HTree** extends
  it: getHistBins for tables larger and smaller than the domain, the cuts of
  constructBucketsOneTime ("uni") and constructBuckets ("ind"), and moveData, which
  expands or sorts the records into the buckets. `JoinPair` leaves open how many matches
  crossProduct passes over with its `continue`, since BucketWalk has no rows; `CrossProduct` of HTree says which:
  the matches in the two buckets that lie outside the range. `BackOfEmpty` is the read of
  boundaries.back() before anything was pushed. **HTreeProofs** has the theorems of both.
- **CZSCJoin** is the join by sparse and dense keys: the network sorts keyBinList, `GroupDense`
  and `GroupSparse` are the two loops of groupSparseKeys, `Pad` and `Fill` are
  expandJoinTables, `JoinBin` is one turn of the loop of join, which recognises the end
  of a bin by the bin number of the next row. **CZSCJoinProofs** has the theorems.
- **BinFilter** is the abstract specification of a selection by range: a query selects the
  bins that meet it, in the order of their ids. **BinIndex** is what the code does:
  two trees, on first keys and on last keys, built block by block (`CreateDataBlock`,
  `PushLayer`, `SetRoot`), a search to either side of the range (`Descend`, `Collect`,
  `LeaveRange`), and sortedVecDifference: the ids found are sorted (`Filter`), and two
  iterators walk over them and over all ids (`Drop`, `Keep`) until one list is at its end
  (`Answer`). `Number` is the conversion of an int to an unsigned number, of width 2^5 in
  the run. **BinIndexProofs** has the theorems.
- **HostStorage** is the host: a storage is the sequence of its rows, `untrustedTableStorage`
  has the storages of each table by bin id, `untrustedBinStorage` those of the bins being
  made. There is an operator for each handler; one that follows a null pointer or makes
  the storage throw is `Die`. `Resized` has the choice that erasing a range of an unordered_map leaves.
- **Bridge** is what the stubs of edger8r can do: which ECALLs copy buffers and so can
  fail, which wrappers give a result back and when (`Assigned`), and what every OCALL
  carries.
- **Session** extends both to a run of the program. main is a sequence of ECALLs
  (`SelectCalls`, `JoinCalls`); an ECALL is what its body does at once and the `steps` it
  has still to do: requests to the host, a sort, the distribution to buckets and the end of it, an abort.
  `ReadStep` to `WriteIndexStep` serve a request, `LostRead` and `LostRequest` lose it,
  `FailedEcall` is an ECALL without memory or without an enclave. What an ECALL computes is in the other modules and
  is a choice here; what matters here is which rows are read, written and moved, and in which order.
  **SessionProofs** has the theorems, after those of PrivTree.
- Every **MC...** module instantiates one of these for TLC; **MCDistanceLoops** runs a call of
  either of the two distance loops, **MCSession** a session or the index on its own.

How they compose: ObliviousBlocks serves PrivTreeBins, HTree and CZSCJoin; SortingNet
serves MergeJoin and CZSCJoin; TightCompact serves JoinOutput and MergeJoin; both blocks use PowersOfTwo; PrivTree,
PrivTreeBins and SelectJoin extend one another, as do BucketWalk and HTree; BinIndex
instantiates BinFilter; Session composes driver, bridge and host, and is where the components meet:
its actions stand for the routines that the other modules take apart.

Operators with `Mutant` in their name are the definition they precede with a
plausible slip; each shows that a property of a run can fail.

## Runs

| Run | Instance | Shows |
|---|---|---|
| distance_loops | compaction: 9 rows, all 512 sets of marks, arrays grown to 11; expansion: 6 entries, every array the callers may pass | TypeOK, DistancesLeadHome (the inductive invariant), CallerGetsMarked; Placed, FilledIn, OnlyPlaceholdersMoveBack |
| tree_compacting | two attributes with values 0..2, three records, noise 1; one select and select-join | EveryPointOnce, ExactCounts, BinsMatchLeaves, SelectComplete, SelectJoinComplete |
| tree_sorting | one attribute with values 0..2, tables of two and one records, noise 0 or 2 | NoBinAboveMax, SplitCorrect, MatchingRowsMeet, TreeEnds |
| tree_negative | keys -2..1 | BoundariesDivide is violated |
| join_output | up to 7 pairs a query, any number of queries, noise 0 or 2, blocks of 2 rows | TypeOK, CountersOfThisQuery, CountedRowsFirst |
| join_matches | up to 3 pairs a query, noise 0 | MatchesStored is violated |
| htree | keys 0..2, tables of up to 3 rows and 1 row, noise 0 or 1, repeated queries, restricted to the key 1 or not | BucketsTileDomain, EveryRowOnce, RecordsInTheirBucket, EveryPairJoined, RoomForEveryRow, JoinedOnce, QueriesEnd |
| htree_empty | the same | BucketsInclusive is violated |
| merge_join | two pairs of bins, up to two primary and three foreign rows, four values of uninitialised memory | TypeOK, MatchesCounted, MatchesWritten, PrimaryIsRecord |
| czsc | six pairs of tables over four keys, U = 1, blocks of up to 5 rows, noise 0 to 3 | TypeOK, BinsFull, RoomInJoinOutput, MatchesJoined |
| czsc_large | two keys of six rows, one in each table, noise 1, blocks of 4 rows | WrittenBelowSize is violated |
| session | all usages of README.md; tables of three and two rows, blocks of two, four rows in the enclave, noise 0 or 3 for trees and 0 or 1 for buckets, up to two bins and two queries, one failure; or the index: one to six bins, two children per node, 30 ranges | AnswerOfThisQuery, RowsRead, RowsKept, StaysUp; TypeOK, Consistent, SelectsByRange |

**Conditions in properties.** Some promises of the code hold under conditions only, and the
property states them: EveryRowOnce that the table has a bucket (else no row of it is in one, see
below); RecordsInTheirBucket that no partition is empty ("uni") and that
every bucket drew a dummy ("ind"); MatchesWritten that the entry nobody sets happens to
be right; PrimaryIsRecord that no dummy of the primary table has the key of a
record; BinsMatchLeaves that every leaf drew a dummy; MatchesJoined that no bin is empty,
that the largest bin fits into one block and that keys agree when join attributes do;
BinsFull, for the number of rows of a bin, that every bin of the table drew a dummy;
RoomInJoinOutput this and that every bin fits into one block;
SelectsByRange that keys are not negative and the range starts at 1 or later;
RowsRead and RowsKept that no request was lost, and RowsKept spares the rows of table 1 once an
output has been written over its first bucket; AnswerOfThisQuery, for the number of
records, that idxSelect returned. StaysUp names the only ways to
lose the enclave or the process: an earlier failure, or a usage or size that cannot work. These are the
DO join, which README.md names but whose metadata is never extracted; every pf-join (see
below); a tree or sparse bins that do not fit in the enclave and are several. In each case
the model has the other behaviours too, and the hazards of PROJECT.json name the line.

**Bounds.** Nine rows need four levels, the last one on a single swap; six entries
need the steps 4, 2, 1 with an uneven overlap. Both are proved for all sizes, so
the runs are there to test the statements. A domain of three values is split
unevenly and then once more: paths of length 0 to 2 exist side by side, and with two
attributes a node may be divided in one or both of them. Three records are enough
for two in one leaf and one on the other side of a boundary. `MaxDepth` = 4 is
never reached on non-negative keys (TreeEnds would fail): it stops the
tree of tree_negative, which may be divided for ever. Noise 0 makes
destinations of dummies collide, noise 2 makes the fill pass copy. Seven pairs
are cut into 3 + 4 and the three into 1 + 2, so all branches of the recursion
and non-zero offsets occur; sizes 2, 4, 5 and 6 are below the bound; an output of seven
rows is written in up to four blocks, the last one short. No counter
grows across queries in JoinOutput and HTree, so the number of queries has no bound.
Three keys give one to three buckets for a table, so the walk meets lists of
different length, and a partition between two others may be empty. Two pairs of bins are what
stale state of the join needs; five rows are sorted by a network whose size is not a
power of two. Six bins with a fanout of 2 need three layers of the index with a block
that is not full; `Width` = 32 keeps -1 above every key. In a session three rows in blocks of two
need two OCALLs to be read or written, the second one short; noise 3 makes both tables too large for
the enclave and noise 0 keeps them in it; two bins are the least with which ids of tables can
clash; a second query is what stale state needs. One failure at any place is enough to lose
each structure and each block.

**Deadlock** is not checked where the routine ends or the enclave is lost. Only session
checks it: whatever failed, main makes its next ECALL until it is over (`Over`) or the process has died, and
whatever index was built, the next query can be asked. JoinOutput and HTree start
the next query too, but both have a state in which the enclave is gone.

**Fairness.** Three specifications state it, each weak fairness of the loop of the one
thread, which waits for nothing: `GrowTree` (createTree, for TreeEnds), `Walk`
(bucketCrossProduct, for QueriesEnd), `Select` (idxSelect, for the fairness of `Answer`
in BinFilter that the refinement carries). Nothing is assumed about the callers, and nothing
about the noise: createTree ends even if noise divides every node it can. On
negative keys it ends only with probability one, as the empty-child split shows.

**Refinement.** SelectsByRange is BinFilter's specification under the mapping of a search
in progress to a query not yet answered: every query is answered, with the bins whose
range meets it. The abstract module lets the answer be any set where nothing is promised.
That no step does anything the abstract one does not allow is proved (IndexFilters); that
every query is answered is checked by TLC.

**Symmetry.** Records of one table are interchangeable: tree_compacting, whose
properties are invariants, uses it. tree_sorting, which has a liveness property,
does not.

## Where the code breaks its promises

- `BoundariesDivide`: TreeNode::split takes `(first + second)/2` as the middle. The
  domain [-2,-1] has the middle -1: one child is the same domain, the other is
  [0,-1], empty. EveryPointOnce still holds (it is proved for all integers), but the
  split is no progress, and in the sorting mode the dummies of the empty leaf
  share their key with the leaf after it.
- `MatchesStored`: crossProduct writes `realMatches` into `selected_count` before
  it counts the row, starting at entry 1. Every count is one row late, ORCompact
  brings the row after each match to the front, and the cut to the noisy size
  loses matches. The second way to lose them is the `continue` for matches
  outside the range, which skips the write of a row whose count is already there.
- `BucketsInclusive`: constructBucketsOneTime enters -1 as the destination of a partition
  whose predecessor had no records, because accuReal has not grown. moveData takes
  -1 for a placeholder: the partition gets no offset of its own, and its records land in
  a bucket whose range, "inclusive" by its comments, does not hold their key. No record is
  lost (EveryRowOnce), but the walk no longer joins them with their matches.
- The second of two tables that are cut for themselves ("ind") may get no bucket: the last
  partition is closed if boundaries.back() is before the end of the domain (htree.cpp:342),
  but the vector is shared and ends with the domain when table 1 is done. When no key of table 2
  closes a partition moveData deletes its table at the host (htree.cpp:491) and writes nothing back: all its rows
  are lost. EveryRowOnce says that this is the only case. initHTree can do it; main
  calls it with ind = 1 for the one table of a selection only (App.cpp:970).
- `WrittenBelowSize`: of a table in the enclave join reads one block for a bin, and takes
  what is left of a larger bin for rows of the next one. joinOutput has room for the
  products of the bins, while the products of the blocks are written to it: in the run bins of
  7 x 1, 1 x 7 and 4 x 4 rows make 30, and the blocks 4 x 1, 4 x 4 and 4 x 4 make 36. RoomInJoinOutput is
  the same for bins that fit into one block, and is proved.

## Proofs

The theorems hold for every value of the constants under the assumptions that the modules
name: SizeAssumption, ExpandAssumption and JoinAssumption (sizes are natural numbers, a block has
room for a row), PrivTreeAssumption, MergeAssumption and HTreeAssumption (finite tables, integer keys,
natural noise, and for HTree natural table sizes and ranges of integers),
FanoutAssumption (a node of the index has two children or more) and InputAssumption
(structures have a bin, and its bounds and those of the queries are ints), CZSCAssumption
(keys are above the mark of a dummy, there is a row, noise is natural) and NoOverflow (the
sums of the noise are below INT_MAX, which marks an entry that is no bin), and SessionAssumption (the
usages are those of README.md, a table has a row and a block of an OCALL holds one). Most are
invariance proofs of the form Init => IInv, IInv /\ [Next]_vars => IInv', IInv => property;
action properties follow from the invariant and Next.

- **DistanceLoopProofs**, compaction. The property CallerGetsMarked speaks of the end only. The
  inductive invariant, DistancesLeadHome with TypeOK, says that the target p - dist[p] of a
  marked row p is constant, targets are 0 .. counter - 1 without gap and rise with p, and
  dist is a multiple of `step`, of 2 * `step` for what the loop has passed. A row that
  must move by `step` cannot find a marked row there: its target would be at or beyond
  that of the mover. When `step` reaches N every dist is 0. The arithmetic of powers
  of two and remainders is in lemmas of its own.
- **DistanceLoopProofs**, expansion. The mirror image: what an item has to travel is the remainder of its
  whole way by j once the loop has passed it, by 2j before (WayLeft). Since destinations
  rise by at least one per item, an item at the place where another one is due would
  have to have a remainder it cannot have. After the last level all remainders are 0,
  and the fill pass is an induction along the array.
- **SessionProofs**, the tree. The invariant is that the nodes cover every point of the root's domain
  once, with separate lemmas for a split: the halves of a range cover it once,
  and the choice of a side per divided dimension is determined by the point.
  ExactCounts adds that waiting nodes have the count 0 before they are counted, and
  NoBinAboveMax follows from the definition of the maximum over a finite level.
- **HTreeProofs**, the walk. About WalkSpec: any two lists of buckets in order, any sequence of
  queries with any bounds. The invariant WalkInv says that of all pairs that share a
  key and may hold a row of the query, those behind the walk (one bucket before i or
  before j) have been joined, and no pair at or ahead of it. When a bucket is left
  behind because its keys end first, all later buckets of the other table begin after
  it: that is where the order of the buckets is needed. EveryPairJoined is the
  invariant at the end of the walk; JoinedOnce follows because the pair the walk stands at
  is never behind it.
  RoomHolds is about the first pass, which only counts: it provides for the pairs of rows of the
  pairs of buckets it has gone past and that meet, each counted once, so that at the end
  it is the number of entries of selected_count that the second pass sets, whichever way it gets there.
  The rows that are written to joinOutput may be fewer, by the matches that are passed over, and never more.
- **HTreeProofs**, the tree. About Spec of HTree: sorted tables of any sizes and integer
  keys, any noise, any cuts, any queries. CountsCorrect (with SlotsFilled of BlockProofs): the histogram
  has the number of rows of every key, although a slot that expand fills in holds the entry
  of another key, and whether the table has more rows than the domain has keys or fewer.
  The invariant HTreeInv says that the partitions cut so far are in order, end below the key the
  scan has reached, are as large as the rows with their keys, and leave out only what `real`
  counts (Partitioned); that the last one ends with the domain, once the domain is
  scanned, unless it is the second table of two cut one by one and has none (Complete); that the buckets are
  those of the partitions (BucketInv); and the invariant of the walk. BucketsTileDomain
  follows: the bucket of a key is the first one that ends at it or beyond. It also shows that
  the buckets are in order, so that EveryPairJoined, JoinedOnce and RoomForEveryRow hold of
  every query over the buckets that are built.
- **HTreeProofs**, the contents. ContentInv says that every row of a finished table that has
  buckets is in one of them (OnceEach), and, while a table is sliced, that a row is either left over or in
  exactly one slice, with as many left over as the sizes of the buckets to come. In "uni" the
  array that expand leaves is a rearrangement whatever the offsets are (ItemsPlaced), and the
  sums of the noisy sizes cut it into the buckets; that the last sum is the number of all rows
  follows from the real sizes being those of the histogram. RecordsInTheirBucket needs two more
  invariants. AccInv: in a table without empty partitions the entries of accumulateSizes are
  the first row of each partition and the noise before it, because the sums then rise with
  every cut and none is replaced by -1. expand therefore spreads them to the starts of the
  partitions and fills every row of a partition with its noise (SpreadFilled); the rows that
  move by these offsets keep their order, so that expand can place them (RowsSpread) and a record
  lands between the bounds of the bucket of its partition (RecordsOfPart). PlaceInv: for a table cut for
  itself whose buckets all have a dummy, the dummies have the first keys of their buckets
  (FillersAreRight, by the same lemma on expand), the slices so far are the rows whose keys are
  those of the buckets, and the rows with larger keys are left: a slice of the size of the bucket
  that leaves no smaller key behind is then the set of the rows of the bucket (SliceIsBucket).
- **BlockProofs.** About the operators, for arrays of every length, and with no run of
  their own. ItemsPlaced and SlotsFilled say of expand in ObliviousBlocks what
  DistanceLoopProofs says of the loops of Expansion, by the same argument; ItemsPlaced adds that the
  array is rearranged, whatever the destinations are. SelectedRowsFirst: if the counts rise by 0 or 1 from row to row, ORCompact brings the
  selected row with k selected rows before it to place k. The lemmas for
  TightCompact_2power_inner say this of every power of two and every cyclic offset:
  each half is compacted to its own offset, and exchanging the halves from the place on where
  the selected rows of both meet puts them next to one another, including the two cases
  in which the run of selected rows wraps around. CompactedAreRows adds that the
  result is an arrangement of the rows, so that no row is there twice. NetworkSorts: the exchanges of
  obliSort leave any integers in ascending order. The proof goes by thresholds (the 0-1
  principle): for each bound v, the rows above v end behind the others. Merging the even and the
  odd places leaves at most one pair of neighbours in the wrong order, which the last
  exchanges put right; exchanges of disjoint pairs can be made in any order, so that
  the recursive calls do not disturb one another; indices beyond the length count as
  rows above every bound. Both follow the recursion by the least counterexample,
  because the theorems of the library on induction take an operator.
- **JoinOutputProofs.** The invariant ties the three counters together: the entry of
  selected_count is the number of matches before the row, `realMatches` is at most
  one more, all of them are back at their first values when a query ends. With
  SelectedRowsFirst it gives CountedRowsFirst: every match that the counts show is stored,
  in order, and the host has it, unless an OCALL was lost. (MatchesStored, which says the
  same of all matches, is what join_matches refutes.)
- **MergeJoinProofs.** NetworkSorts makes the rows of a pair of bins a shuffle of both bins in the order
  of key, then table. Hence a foreign row that has a match comes behind the primary row
  of its key with no other primary row between (LastPrimaryRow), and `nReal` counts matches only
  (MatchesCounted). MatchesWritten is SelectedRowsFirst and CompactedAreRows with
  the counts of the merge.
- **BinIndexProofs.** The invariant describes the two trees at each step of their
  construction: there are functions that give the first and the last place, in
  the order of the keys, that the block at an address stands for; data blocks stand for one place,
  the pairs of a node block for places that follow on one another, and so do the pairs of
  the layer that is built next (Shape, Chain). Every search stands at a block none of
  whose earlier places are in range (At) and has gathered exactly the places in range up to there
  (Gathered); the difference has kept the ids below both iterators that no search found
  (Kept). TypeOK and Consistent, which is checkConsistency of the code for every child, follow from
  it. IndexFilters is the safety part of the refinement: every step of BinIndex is a step of
  BinFilter or leaves its variables alone. At the last step the ids kept are those that
  meet the range, because a bin begins after the range or ends before it if it
  does not meet it, and none does both.
- **SessionProofs**, the run of the program. About SessionSpec: any tables, block sizes, noise,
  bins, queries, and failures of ECALLs and OCALLs at any place. SessionInv gives every ECALL a
  stage (CallsInv: those to come have higher stages than the one that runs, and fit the usage),
  types to the data (TypeInv), and relates what is still to be done to what is there (StartInv).
  *StepInv*: each step has at the host what it works on (Single), no step comes before one that
  it would take the ground from (Ordered: nothing of a table is requested after it has become a
  bin or gone), and where the host can die the step before makes what the next one needs
  (Follows: blocks of a bin are written from its start on and without a gap). That an ECALL
  enters with such steps is a lemma per ECALL; that they stay so when a step expands into
  others, as moveData and the buckets do, is a lemma about concatenation. *Untouched*: up to the
  ECALLs that make a structure every table is at the host. *Needs*: the structure of an ECALL is
  there or will be made by an earlier one, unless one has failed. StaysUp follows.
  AnswerInv, for AnswerOfThisQuery, adds that main knows the number of bins of the structure
  the index was built on, that a query is answered by bins of it, and that a failed call leaves the count of
  selected bins at 0 because it was set before. ReadInv, for RowsRead, follows the data: tables that
  are still to be read are as they were loaded (AsLoaded); the reads of a table stand
  behind one another, each where the one before ends (ReadsInOrder); a table that is half read
  has the first rows of it (HalfRead), and else each row once (OnceEach) and, until moveData has
  mixed dummies in, all of them. Sorting is a permutation, and
  padding puts every row at one place, so that both keep this.
- **CZSCJoinProofs.** The invariant IInv has a part for every stage of the join.
  *Keys* (KeyListOK): every key of the tables has one entry in keyBinList, with the numbers
  of its rows, whatever order the network leaves the entries in; this needs that
  the exchanges only rearrange (SortedRanks) and that no two keys end at the same row of the
  sorted input. *Grouping* (GroupInv, DenseInv, SparseInv): the entries passed have their bin, the
  entries of a bin follow on one another, and the open sparse bin has sbinCount records. A key that is not
  dense has at most 2U rows in either table, since its noisy count is at least the real
  one, so that it fits into an empty bin of 4U, which is what makes 4U - sbinCount a number of dummies.
  *Noise* (NoiseInv): the k-th entry of noiseArray that is kept starts where the free places of the
  bins before it end. *Padding*: the kept entries and those of noisyBins start at the
  sums of the free places (PaddedStarts), which rise strictly if every bin has a free place.
  SpreadFilled of BlockProofs then says that expand leaves in bin b as many dummies as it has
  free places. *Rows* (FillRows): sorting by bin keeps all records and dummies, so
  that bin b has the rows of its size and begins where the sizes before it end.
  *Join* (JoinInv): the place of the reader is the beginning of bin i in both tables
  (StartsAt) as long as no bin before i was empty or larger than a block, so that what is
  joined are the pairs of equal join attribute in the bins below i, and what is
  written are the products of their sizes. Two rows that match have the same key, hence the
  same bin, hence are joined. That each is counted once follows from the rows of
  different bins being disjoint.

Model-checked only: TreeEnds, QueriesEnd and the fairness in SelectsByRange (liveness, which
the prover does not reach); and BinsMatchLeaves, SelectComplete, SplitCorrect,
MatchingRowsMeet, SelectJoinComplete and RowsKept. All but the last speak of sequences that are
built with the folds and FlattenSeq of the community modules from sets of unknown size, and
SelectJoin builds all trees with a RECURSIVE operator: what these compute for every input
is an induction over data. RowsKept counts the copies of every row over enclave, tables and bins at every
step between them; it needs the contents of every storage in the invariant, which SessionInv
does not have.

## Not modelled

- CompactNet: used for outputs beyond two enclave blocks only, from a line the source marks
  "this function is incorrect"; with it the handlers of the host that serve it
  (copy_bin, move_resize_bin, init_bin), and write_join_output, which serves joins through the host.
- PrivTree::binning by OCALLs: the bins it starts from are never filled, and Session has the
  stop. Of the tables of CZSCJoin outside the enclave (expandTable, createBins) Session has the requests,
  not the bins they would make.
- HTree::pfJoin: the program stops before it, since constructBucketsOneTime reads a
  histogram that a pf-join has left empty. CZSCJoin::join for pf-join: writes to
  selected_count, which is not allocated (`StartJoin` and `CZSCJoinCall` have the stop).
- The noise tree of populateRangeSanitizer and the distributions Lap, Geom and TGeom: any
  value of a set may be drawn, any key may close a partition.
- restoreIndex, restoreJoinMeta, checkSelction, checkJoinOutput: not called, or statistics.
- The variant of ORCompact on a table, called from commented-out code only.
- Text loaders, the parsing of records and AES-GCM: a record is an opaque value. With them
  the record format that selectJoin passes wrongly for its second table.
- The client, the SSL server, the sample code of the SDK, and in the generated bridge the checks
  of pointers and sizes, which do not fail on the arguments the program makes. Creating the
  enclave, and its loss by power events: initialize_enclave ends the program if it fails.
- An output of a select-join or general join in Session is a number of rows: which rows is in
  JoinOutput.
- Overflow of ints in the trees: keys and sizes are unbounded integers there. The unsigned
  keys of the bin index keep their width.

## Plan

The model covers the live paths of the enclave. What is left is proof: the
partition theorem of PrivTree carried on to the bins, for which the queues of
PrivTreeBins have to be written as functions of the position; and RowsKept, for which
SessionInv and ReadInv are the start.
