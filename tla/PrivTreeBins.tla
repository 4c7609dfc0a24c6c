---------------------------- MODULE PrivTreeBins ----------------------------
(***************************************************************************)
(* The bins of a decomposition tree: the sort of the leaves at the end of  *)
(* PrivTree::createTree, augmentInput, binningInEnclave and select         *)
(* (Enclave/privtree.cpp).                                                 *)
(*                                                                         *)
(* augmentInput puts the dummies of all leaves in front of the records of  *)
(* a table; binningInEnclave deals the rows out to the leaves.  A tree     *)
(* over one attribute sorts the rows and cuts them into slices of          *)
(* count + noise; a tree over several sends them down the tree, compacting *)
(* by one dimension after the other with the boundary of the node.         *)
(***************************************************************************)
EXTENDS PrivTree, ObliviousBlocks

CONSTANT Sorting      \* the parameter of augmentInput and binningInEnclave

VARIABLES
  table,      \* the table that is augmented or binned
  fillers,    \* noiseArray after expand, the values of every dummy
  rbin,       \* the rows the sorted array has left
  bins,       \* rbin1, rbin2 of the nodes
  query,      \* qs and qe of the last select
  selected    \* selectedBins

vars == <<treeVars, table, fillers, rbin, bins, query, selected>>
selectVars == <<query, selected>>

NoBins == [p \in {} |-> {}]

BinsInit ==
  /\ Init
  /\ table = IF 1 \in Loaded THEN 1 ELSE 2
  /\ fillers = [t \in Tables |-> <<>>]
  /\ rbin = {}
  /\ bins = [t \in Tables |-> NoBins]
  /\ query = <<>>
  /\ selected = {}

-----------------------------------------------------------------------------
\* Mutant: the leaves are sorted in falling order.
LexBeforeMutant(l1, l2) == \E d \in Dims : l1.domain[d].first > l2.domain[d].first

\* The comparison of the sort in createTree.
LexBefore(l1, l2) ==
  \E d \in Dims :
    /\ \A c \in 1 .. d - 1 : l1.domain[c] = l2.domain[c]
    /\ \/ l1.domain[d].first < l2.domain[d].first
       \/ /\ l1.domain[d].first = l2.domain[d].first
          /\ l1.domain[d].second < l2.domain[d].second

SortedLeaves ==
  [k \in 1 .. Cardinality(leaves) |->
     CHOOSE l \in leaves : Cardinality({m \in leaves : LexBefore(m, l)}) = k - 1]

Filler(leaf) == [d \in Dims |-> leaf.domain[d].first]

NoiseBefore(t, k) == FoldLeft(LAMBDA sum, l : sum + l.noise[t], 0, SubSeq(SortedLeaves, 1, k))
NoiseSum(t) == NoiseBefore(t, Len(SortedLeaves))

Placeholder == Entry(-1, <<>>)

\* noiseArray: the first dummy of every leaf, resized to noiseSum entries.
NoiseArray(t) ==
  [k \in 1 .. NoiseSum(t) |->
     IF k <= Len(SortedLeaves)
     THEN Entry(NoiseBefore(t, k - 1), Filler(SortedLeaves[k]))
     ELSE Placeholder]

\* A row is a record or the number of a dummy.
Value(row) == IF row \in Records THEN key[row] ELSE fillers[table][row].second

Start ==
  /\ pc = "created"
  /\ pc' = "augment"
  /\ UNCHANGED <<selectVars, key, level, nodelist, leaves, inner, binNoisyMax, table, fillers, rbin, bins>>

\* The rows also become the bin of the root when they are not to be sorted.
AugmentInput ==
  /\ pc = "augment"
  /\ fillers' = [fillers EXCEPT ![table] = Expand(NoiseArray(table), Placeholder)]
  /\ rbin' = Rows(table) \cup DOMAIN fillers'[table]
  /\ bins' = IF Sorting THEN bins ELSE [bins EXCEPT ![table] = (<<>> :> rbin')]
  /\ pc' = "bin"
  /\ UNCHANGED <<selectVars, key, level, nodelist, leaves, inner, binNoisyMax, table>>

\* The comparison of the sorting network.
LexAtMost(v, w) ==
  \/ v = w
  \/ \E d \in Dims : v[d] < w[d] /\ \A c \in 1 .. d - 1 : v[c] = w[c]

(* The loop over the sorted leaves: the next leaf gets the next slice.     *)
(* The network is not stable, so rows of equal values come in any order.   *)
CutBin ==
  /\ pc = "bin" /\ Sorting
  /\ \E k \in DOMAIN SortedLeaves :
       LET leaf == SortedLeaves[k]
       IN  /\ k = Cardinality(DOMAIN bins[table]) + 1
           /\ \E slice \in kSubset(BinSize(leaf, table), rbin) :
                /\ \A row \in slice, rest \in rbin \ slice : LexAtMost(Value(row), Value(rest))
                /\ bins' = [bins EXCEPT ![table] = (leaf.path :> slice) @@ @]
                /\ rbin' = rbin \ slice
  /\ UNCHANGED <<selectVars, key, level, nodelist, leaves, inner, binNoisyMax, pc, table, fillers>>

\* Mutant: the rows on the boundary go to the wrong side.
CompactByMutant(d, boundary, bin) ==
  LET low == {row \in bin : Value(row)[d] < boundary} IN <<low, bin \ low>>

\* The two outputs of compactMeta: the rows up to the boundary and the others.
CompactBy(d, boundary, bin) ==
  LET low == {row \in bin : Value(row)[d] <= boundary} IN <<low, bin \ low>>

\* bq after the loop over the dimensions of a node.
Queue(node, bin) ==
  FoldLeft(LAMBDA bq, d :
             FlattenSeq([k \in DOMAIN bq |-> CompactBy(d, Mid(node.domain[d]), bq[k])]),
           <<bin>>, SetToSortSeq(Wide(node.domain), <))

\* The sides of child i of split(): the bits of i, the first dimension's highest.
ChildSides(domain, i) ==
  [d \in Wide(domain) |->
     (i \div 2 ^ Cardinality({c \in Wide(domain) : c > d})) % 2]

\* A node whose bin has arrived hands it on to its children.
SplitBin ==
  /\ pc = "bin" /\ ~Sorting
  /\ \E node \in inner :
       /\ node.path \in DOMAIN bins[table]
       /\ LET bq == Queue(node, bins[table][node.path])
              children == [i \in 0 .. Len(bq) - 1 |-> Append(node.path, ChildSides(node.domain, i))]
              kept == DOMAIN bins[table] \ {node.path}
          IN  bins' = [bins EXCEPT ![table] =
                         [p \in kept \cup Range(children) |->
                            IF p \in kept THEN @[p]
                            ELSE bq[1 + CHOOSE i \in DOMAIN children : children[i] = p]]]
  /\ UNCHANGED <<selectVars, key, level, nodelist, leaves, inner, binNoisyMax, pc, table, fillers, rbin>>

\* binningInEnclave, by slices of the sorted table or by compaction.
BinNode == IF Sorting THEN CutBin ELSE SplitBin

EndTable ==
  /\ pc = "bin"
  /\ DOMAIN bins[table] = {l.path : l \in leaves}
  /\ IF table = 1 /\ 2 \in Loaded
     THEN table' = 2 /\ pc' = "augment"
     ELSE table' = table /\ pc' = "done"
  /\ UNCHANGED <<selectVars, key, level, nodelist, leaves, inner, binNoisyMax, fillers, rbin, bins>>

-----------------------------------------------------------------------------
\* Mutant: a range that ends where the domain starts does not overlap it.
OverlapsMutant(range, qs, qe) == ~(qe <= range.first \/ qs > range.second)

Overlaps(range, qs, qe) == ~(qe < range.first \/ qs > range.second)

(* select: the leaves of a tree of table 2 whose second attribute overlaps *)
(* the range; the sensitivity of the output becomes that of their bins.    *)
(* The queries that call it are in SelectJoin.                             *)
Select ==
  /\ pc \in {"done", "selected"}
  /\ 2 \in Loaded /\ Dim >= 2
  /\ \E qs, qe \in Keys :
       /\ query' = <<qs, qe>>
       /\ selected' = {l \in leaves : Overlaps(l.domain[2], qs, qe)}
  /\ binNoisyMax' = Max({0} \cup {Cardinality(bins[2][l.path]) : l \in selected'})
  /\ pc' = "selected"
  /\ UNCHANGED <<key, level, nodelist, leaves, inner, table, fillers, rbin, bins>>

GrowTree == TreeNext /\ UNCHANGED <<selectVars, table, fillers, rbin, bins>>

BinsNext ==
  \/ GrowTree
  \/ Start \/ AugmentInput \/ BinNode \/ EndTable

Spec == BinsInit /\ [][BinsNext]_vars

\* createTree is a loop of one thread that waits for nothing.
FairSpec == Spec /\ WF_vars(GrowTree)

-----------------------------------------------------------------------------
Binned == pc \in {"done", "selected"}

(* A leaf's bin holds the records in its domain, and the leaf's own        *)
(* dummies fill it up to its noisy size, when every leaf drew a dummy.     *)
BinsMatchLeaves ==
  Binned => \A t \in Loaded :
    (\A l \in leaves : l.noise[t] >= 1) =>
      \A l \in leaves :
        /\ bins[t][l.path] \cap Rows(t) = {r \in Rows(t) : InDomain(key[r], l.domain)}
        /\ Cardinality(bins[t][l.path]) = BinSize(l, t)

(* checkSplitCorrectness: the bins of the leaves hold as many records as   *)
(* the leaves have counted, and that is all the records of the table,      *)
(* whatever the noise was.                                                 *)
SplitCorrect ==
  Binned => \A t \in Loaded :
    LET binSum == MapThenSumSet(LAMBDA l : Cardinality(bins[t][l.path] \cap Rows(t)), leaves)
        countSum == MapThenSumSet(LAMBDA l : l.count[t], leaves)
    IN  binSum = countSum /\ countSum = Cardinality(Rows(t))

(* Records of the two tables that agree on the join attribute are in the   *)
(* bins of one leaf: the join looks at the bins of one leaf at a time.     *)
MatchingRowsMeet ==
  Binned /\ (\A l \in leaves, t \in Loaded : l.noise[t] >= 1) =>
    \A r1 \in Rows(1), r2 \in Rows(2) : key[r1] = key[r2] =>
      \E l \in leaves : r1 \in bins[1][l.path] /\ r2 \in bins[2][l.path]

(* Every record that satisfies the predicate is in a selected bin, and no  *)
(* selected bin is larger than binNoisyMax.                                *)
SelectComplete ==
  pc = "selected" =>
    /\ \A r \in Rows(2) : key[r][2] >= query[1] /\ key[r][2] <= query[2] =>
         \E l \in selected : r \in bins[2][l.path]
    /\ \A l \in selected : Cardinality(bins[2][l.path]) <= binNoisyMax

(* createTree leaves its loop however the noise falls: the domains shrink, *)
(* and a domain of one point is not divided.                               *)
TreeEnds == <>(pc \notin {"decompose", "count"})
=============================================================================
