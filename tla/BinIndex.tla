------------------------------ MODULE BinIndex ------------------------------
(* The index on the bounds of the bins (bplustree.cpp, storage.cpp) and    *)
(* its use by buildIndex and idxSelect (do-algorithms.cpp): one tree on    *)
(* the first key of every bin, one on the last.  A query collects the bins *)
(* that begin after its range and those that end before it, and takes them *)
(* off the list of all bins.                                               *)
EXTENDS Integers, Sequences, Functions, FiniteSets

CONSTANTS
  Inputs,     \* sequences of [start, end]: the leaves or buckets, by id
  Queries,    \* pairs <<queryStart, queryEnd>> of ints
  Fanout,     \* b, the number of pairs in a block of M_BLOCKSIZE bytes
  Width       \* numbers are unsigned and taken modulo Width

ASSUME FanoutAssumption == Fanout \in Nat \ {0, 1}

(* A structure has a bin, and no int used is out of the range of an int.   *)
ASSUME InputAssumption ==
  /\ Width \in Nat \ {0}
  /\ Inputs \subseteq Seq([start : Int, end : Int]) /\ Queries \subseteq Int \X Int
  /\ \A input \in Inputs :
       /\ Len(input) > 0
       /\ \A i \in DOMAIN input :
            /\ 2 * input[i].start \in -Width .. Width - 1
            /\ 2 * input[i].end \in -Width .. Width - 1
            /\ input[i].start <= input[i].end
  /\ \A q \in Queries :
       2 * (q[1] - 1) \in -Width .. Width - 1 /\ 2 * (q[2] + 1) \in -Width .. Width - 1

VARIABLES
  bins,          \* the ranges of the leaves or buckets, by id
  storage,       \* per tree its InMemoryStorage: memory and locationCounter
  root,          \* per tree the address of its root
  pc, tree,      \* the next step, and the tree it is about
  data, layer,   \* while a tree is built: its sorted pairs, the layer so far
  query,         \* the bounds idxSelect was called with
  address,       \* the block a search is at
  filterBins,    \* what the searches found
  allBins,       \* the cached list of all ids
  it1, it2,      \* while the two lists are compared: the next of each,
  resultSet,     \* and what is not in the second so far
  selectedBins   \* the answer to the last query

vars == <<bins, storage, root, pc, tree, data, layer, query, address,
          filterBins, allBins, it1, it2, resultSet, selectedBins>>

Trees == {1, 2}
EMPTY == 0
META == 1

(* int to number: a negative key becomes a very large one.                 *)
Number(int) == int % Width

(* prepareBinIdxData: the pairs for the tree on first or on last keys.     *)
IdxBin(t) ==
  [i \in DOMAIN bins |-> [key  |-> Number(IF t = 1 THEN bins[i].start ELSE bins[i].end),
                          data |-> i]]

NewStorage == [memory |-> [a \in {META} |-> EMPTY], locationCounter |-> META + 1]

(* malloc and set of one block.                                            *)
Store(store, block) ==
  [memory |-> [a \in DOMAIN store.memory \cup {store.locationCounter} |->
                 IF a = store.locationCounter THEN block ELSE store.memory[a]],
   locationCounter |-> store.locationCounter + 1]

-----------------------------------------------------------------------------
Init ==
  /\ bins \in Inputs
  /\ storage = [t \in Trees |-> NewStorage]
  /\ root = [t \in Trees |-> EMPTY]
  /\ pc = "sort"
  /\ tree = 1
  /\ data = <<>>
  /\ layer = <<>>
  /\ query = <<>>
  /\ address = EMPTY
  /\ filterBins = <<>>
  /\ allBins = <<>>
  /\ it1 = 1 /\ it2 = 1 /\ resultSet = <<>>
  /\ selectedBins = <<>>

comparing == <<it1, it2, resultSet>>
asking == <<query, address, filterBins, allBins, comparing, selectedBins>>

(* std::sort leaves pairs with equal keys in any order.                    *)
Sort ==
  /\ pc = "sort"
  /\ \E p \in Bijection(DOMAIN bins, DOMAIN bins) :
       LET sorted == [i \in DOMAIN bins |-> IdxBin(tree)[p[i]]] IN
       /\ \A i, j \in DOMAIN bins : i <= j => sorted[i].key <= sorted[j].key
       /\ data' = sorted
  /\ layer' = <<>>
  /\ pc' = "data"
  /\ UNCHANGED <<bins, storage, root, tree, asking>>

(* Mutant: the list of data blocks ends at every block.                    *)
CreateDataBlockMutant ==
  /\ pc = "data"
  /\ LET item  == data[Len(data) - Len(layer)]
         block == [type |-> "data", key |-> item.key, data |-> item.data,
                   next |-> EMPTY]
     IN /\ storage' = [storage EXCEPT ![tree] = Store(@, block)]
        /\ layer' = <<[key |-> item.key, address |-> storage[tree].locationCounter]>> \o layer
  /\ pc' = IF Len(layer') = Len(data) THEN "push" ELSE "data"
  /\ UNCHANGED <<bins, root, tree, data, asking>>

(* The data layer, from the last pair to the first, each linked to the     *)
(* next.                                                                   *)
CreateDataBlock ==
  /\ pc = "data"
  /\ LET item  == data[Len(data) - Len(layer)]
         block == [type |-> "data", key |-> item.key, data |-> item.data,
                   next |-> IF layer = <<>> THEN EMPTY ELSE Head(layer).address]
     IN /\ storage' = [storage EXCEPT ![tree] = Store(@, block)]
        /\ layer' = <<[key |-> item.key, address |-> storage[tree].locationCounter]>> \o layer
  /\ pc' = IF Len(layer') = Len(data) THEN "push" ELSE "data"
  /\ UNCHANGED <<bins, root, tree, data, asking>>

(* Mutant: a block takes one pair more than fits.                          *)
GroupMutant(g) ==
  SubSeq(layer, Fanout * (g - 1) + 1,
         IF Fanout * g + 1 < Len(layer) THEN Fanout * g + 1 ELSE Len(layer))

(* The pairs of the g-th block of the next layer.                          *)
Group(g) ==
  SubSeq(layer, Fanout * (g - 1) + 1,
         IF Fanout * g < Len(layer) THEN Fanout * g ELSE Len(layer))

(* Mutant: the key of a block is that of its first pair.                   *)
LargestKeyMutant(block) == block[1].key

LargestKey(block) ==
  LET i == CHOOSE i \in DOMAIN block : \A j \in DOMAIN block : block[j].key <= block[i].key
  IN block[i].key

(* Node blocks for the pairs of the layer, at most Fanout in each.         *)
PushLayer ==
  /\ pc = "push"
  /\ LET groups == (Len(layer) + Fanout - 1) \div Fanout
         first  == storage[tree].locationCounter
     IN /\ layer' = [g \in 1 .. groups |->
                       [key |-> LargestKey(Group(g)), address |-> first + g - 1]]
        /\ storage' = [storage EXCEPT ![tree] =
             [memory |-> [a \in DOMAIN @.memory \cup first .. first + groups - 1 |->
                            IF a < first THEN @.memory[a]
                            ELSE [type |-> "node", pairs |-> Group(a - first + 1)]],
              locationCounter |-> first + groups]]
  /\ pc' = IF Len(layer') > 1 THEN "push" ELSE "root"
  /\ UNCHANGED <<bins, root, tree, data, asking>>

(* The one block of the last layer is the root, kept at META as well.      *)
SetRoot ==
  /\ pc = "root"
  /\ root' = [root EXCEPT ![tree] = layer[1].address]
  /\ storage' = [storage EXCEPT ![tree].memory[META] = layer[1].address]
  /\ data' = <<>>
  /\ layer' = <<>>
  /\ tree' = IF tree = 1 THEN 2 ELSE 1
  /\ pc' = IF tree = 1 THEN "sort" ELSE "idle"
  /\ UNCHANGED <<bins, asking>>

-----------------------------------------------------------------------------
built == <<bins, storage, root, data, layer>>

(* idxSelect is called: the first search begins.                           *)
Ask ==
  /\ pc = "idle"
  /\ query' \in Queries
  /\ filterBins' = <<>>
  /\ tree' = 1
  /\ address' = root[1]
  /\ pc' = "search"
  /\ UNCHANGED <<built, allBins, comparing, selectedBins>>

Block == storage[tree].memory[address]

(* The range of keys a tree is searched for: the bins that begin after the *)
(* query's last key, the bins that end before its first.                   *)
Start == IF tree = 1 THEN Number(query[2] + 1) ELSE 0
End == IF tree = 1 THEN Width - 1 ELSE Number(query[1] - 1)

(* search returns.                                                         *)
Return ==
  IF tree = 1
    THEN tree' = 2 /\ address' = root[2] /\ pc' = "search"
    ELSE tree' = 1 /\ address' = EMPTY /\ pc' = "filter"

(* In a node block: down to the first child that is not too small.         *)
Descend ==
  /\ pc = "search"
  /\ Block.type = "node"
  /\ \/ \E i \in DOMAIN Block.pairs :
          /\ Start <= Block.pairs[i].key
          /\ \A j \in 1 .. i - 1 : Block.pairs[j].key < Start
          /\ address' = Block.pairs[i].address
          /\ UNCHANGED <<pc, tree>>
     \/ /\ \A i \in DOMAIN Block.pairs : Block.pairs[i].key < Start
        /\ Return
  /\ UNCHANGED <<built, query, filterBins, allBins, comparing, selectedBins>>

InRange(block) == Start <= block.key /\ block.key <= End

(* In a data block: its bin is found, and the list is followed.            *)
Collect ==
  /\ pc = "search"
  /\ Block.type = "data"
  /\ InRange(Block)
  /\ filterBins' = Append(filterBins, Block.data)
  /\ IF Block.next = EMPTY
       THEN Return
       ELSE address' = Block.next /\ UNCHANGED <<pc, tree>>
  /\ UNCHANGED <<built, query, allBins, comparing, selectedBins>>

(* The first block that is out of range ends the search.                   *)
LeaveRange ==
  /\ pc = "search"
  /\ Block.type = "data"
  /\ ~InRange(Block)
  /\ Return
  /\ UNCHANGED <<built, query, filterBins, allBins, comparing, selectedBins>>

(* std::sort: the k-th value has less than k smaller ones.                 *)
SortedIds(ids) ==
  [k \in DOMAIN ids |->
     CHOOSE x \in Range(ids) : /\ Cardinality({i \in DOMAIN ids : ids[i] < x}) < k
                              /\ Cardinality({i \in DOMAIN ids : ids[i] <= x}) >= k]

(* The found bins are sorted, and the list of all bins is filled on first  *)
(* use.                                                                    *)
Filter ==
  /\ pc = "filter"
  /\ filterBins' = SortedIds(filterBins)
  /\ allBins' = IF allBins = <<>> THEN [i \in DOMAIN bins |-> i] ELSE allBins
  /\ it1' = 1 /\ it2' = 1 /\ resultSet' = <<>>
  /\ pc' = "difference"
  /\ UNCHANGED <<built, tree, query, address, selectedBins>>

(* sortedVecDifference, while both lists have elements left.               *)
Both == it1 <= Len(allBins) /\ it2 <= Len(filterBins)

(* An element of both lists is dropped.                                    *)
Drop ==
  /\ pc = "difference" /\ Both
  /\ allBins[it1] = filterBins[it2]
  /\ it1' = it1 + 1 /\ it2' = it2 + 1
  /\ UNCHANGED <<built, pc, tree, query, address, filterBins, allBins, resultSet, selectedBins>>

(* An element that is not in the second list is kept.                      *)
Keep ==
  /\ pc = "difference" /\ Both
  /\ allBins[it1] < filterBins[it2]
  /\ resultSet' = Append(resultSet, allBins[it1])
  /\ it1' = it1 + 1
  /\ UNCHANGED <<built, pc, tree, query, address, filterBins, allBins, it2, selectedBins>>

(* One list is at its end, or the second has an element that is not in the *)
(* first: the rest of the first is the rest of the answer.                 *)
Answer ==
  /\ pc = "difference"
  /\ Both => allBins[it1] > filterBins[it2]
  /\ selectedBins' = resultSet \o SubSeq(allBins, it1, Len(allBins))
  /\ filterBins' = <<>> /\ query' = <<>>
  /\ it1' = 1 /\ it2' = 1 /\ resultSet' = <<>>
  /\ pc' = "idle"
  /\ UNCHANGED <<built, tree, address, allBins>>

Build == Sort \/ CreateDataBlock \/ PushLayer \/ SetRoot
Select == Descend \/ Collect \/ LeaveRange \/ Filter \/ Drop \/ Keep \/ Answer
Next == Build \/ Ask \/ Select

(* One thread builds and answers, and waits for nothing but the next call. *)
Spec == Init /\ [][Next]_vars /\ WF_vars(Select)

-----------------------------------------------------------------------------
TypeOK ==
  /\ bins \in Inputs
  /\ pc \in {"sort", "data", "push", "root", "idle", "search", "filter", "difference"}
  /\ tree \in Trees
  /\ query \in Queries \cup {<<>>}
  /\ \A t \in Trees :
       /\ DOMAIN storage[t].memory = META .. storage[t].locationCounter - 1
       /\ root[t] \in DOMAIN storage[t].memory \cup {EMPTY}
       /\ storage[t].memory[META] = root[t]
       /\ \A a \in DOMAIN storage[t].memory \ {META} :
            LET block == storage[t].memory[a] IN
            \/ /\ block.type = "data"
               /\ block.data \in DOMAIN bins
               /\ block.next \in META + 1 .. a - 1 \cup {EMPTY}
            \/ /\ block.type = "node"
               /\ Len(block.pairs) \in 1 .. Fanout
               /\ \A i \in DOMAIN block.pairs : block.pairs[i].address \in META + 1 .. a - 1
  /\ pc = "search" => address \in DOMAIN storage[tree].memory \ {META}
  /\ Len(filterBins) <= 2 * Len(bins)
  /\ allBins = <<>> \/ allBins = [i \in DOMAIN bins |-> i]
  /\ it1 \in 1 .. Len(bins) + 1 /\ it2 \in 1 .. Len(filterBins) + 1
  /\ Len(resultSet) < it1

(* A consistent tree, as checkConsistency of the code has it but for every *)
(* child: in a node block the keys do not fall, each is the largest key    *)
(* of the block below, and the data blocks are linked in the order of      *)
(* their keys.                                                             *)
KeyOf(block) == IF block.type = "data" THEN block.key ELSE block.pairs[Len(block.pairs)].key

Consistent ==
  \A t \in Trees : \A a \in DOMAIN storage[t].memory \ {META} :
    LET block == storage[t].memory[a] IN
    /\ block.type = "data" /\ block.next # EMPTY =>
         block.key <= storage[t].memory[block.next].key
    /\ block.type = "node" =>
         /\ \A i, j \in DOMAIN block.pairs : i <= j => block.pairs[i].key <= block.pairs[j].key
         /\ \A i \in DOMAIN block.pairs :
              block.pairs[i].key = KeyOf(storage[t].memory[block.pairs[i].address])

(* The answers of the two searches and the difference are those of the     *)
(* filter on ranges: no bin with a record that qualifies is left out and   *)
(* none without a possible one is returned, and every query is answered.   *)
ByRange == INSTANCE BinFilter WITH
  Inputs <- Inputs, Queries <- Queries,
  bins <- bins, query <- query, selectedBins <- selectedBins

SelectsByRange == ByRange!Spec
=============================================================================
