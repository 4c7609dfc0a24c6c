------------------------------- MODULE PrivTree -------------------------------
(***************************************************************************)
(* The differentially private decomposition tree: PrivTree::createTree,    *)
(* decompose, countInDomains, inDomain, TreeNode::split, canSplit          *)
(* (Enclave/privtree.cpp).                                                 *)
(*                                                                         *)
(* The tree grows level by level.  decompose takes every node of the level *)
(* from nodelist and either makes it a leaf, with its noise, or puts its   *)
(* children into nodelist; countInDomains then counts the records in the   *)
(* domain of every new node.  Which nodes are divided is up to Laplace     *)
(* noise, so any divisible node may be.                                    *)
(*                                                                         *)
(* A node is named by the path to it, the sides taken from the root on;    *)
(* its id is the same in another form.  nodelist is a queue in the code:   *)
(* nodes of one level do not depend on each other, so it is a set here.    *)
(***************************************************************************)
EXTENDS Integers, Sequences, FiniteSets

CONSTANTS
  Dim,          \* dim, the number of sensitive attributes (log2 of beta)
  Records1, Records2,   \* the rows of metaData_t1 and metaData_t2
  Loaded,       \* the tables the tree is built for; t1data or t2data may be null
  Keys,         \* the values of an attribute
  Noise,        \* what TGeom may return
  MaxDepth      \* bound on the levels: a deeper tree is not finished

Tables == {1, 2}
Rows(t) == IF t \notin Loaded THEN {} ELSE IF t = 1 THEN Records1 ELSE Records2

ASSUME PrivTreeAssumption ==
  /\ Dim \in Nat \ {0}
  /\ IsFiniteSet(Records1) /\ IsFiniteSet(Records2)
  /\ Records1 \cap Records2 = {}
  /\ Loaded \subseteq Tables
  /\ Keys \subseteq Int
  /\ Noise \subseteq Nat
  /\ MaxDepth \in Nat

Dims == 1 .. Dim
Records == Records1 \cup Records2

VARIABLES
  key,          \* values, the sensitive attributes of a record
  level,
  nodelist,     \* nodes that wait to be decomposed
  leaves,
  inner,        \* nodes with children
  binNoisyMax,
  pc

treeVars == <<key, level, nodelist, leaves, inner, binNoisyMax, pc>>

-----------------------------------------------------------------------------
(* TreeNode.                                                               *)

\* (first + second)/2 in C++, which rounds towards zero.
Mid(range) ==
  LET sum == range.first + range.second
  IN  IF sum >= 0 THEN sum \div 2 ELSE -((-sum) \div 2)

\* The dimensions split() divides: dimSplit.
Wide(domain) == {d \in Dims : domain[d].second - domain[d].first >= 1}

\* Mutant: a domain of one point is divided as well.
CanSplitMutant(node) == Cardinality(Wide(node.domain)) >= 0

CanSplit(node) == Wide(node.domain) # {}

\* The bit of a child's number that belongs to a dimension is its side there.
Sides(domain) == [Wide(domain) -> {0, 1}]

\* Mutant: both halves keep the boundary.
HalfOverlapMutant(range, side) ==
  IF side = 0 THEN [first |-> range.first, second |-> Mid(range)]
              ELSE [first |-> Mid(range), second |-> range.second]

Half(range, side) ==
  IF side = 0 THEN [first |-> range.first, second |-> Mid(range)]
              ELSE [first |-> Mid(range) + 1, second |-> range.second]

ChildDomain(domain, sides) ==
  [d \in Dims |-> IF d \in Wide(domain) THEN Half(domain[d], sides[d]) ELSE domain[d]]

\* Mutant: the children start from the count of their parent.
SplitMutant(node) ==
  {[path   |-> Append(node.path, sides),
    domain |-> ChildDomain(node.domain, sides),
    count  |-> node.count] : sides \in Sides(node.domain)}

Split(node) ==
  {[path   |-> Append(node.path, sides),
    domain |-> ChildDomain(node.domain, sides),
    count  |-> [t \in Tables |-> 0]] : sides \in Sides(node.domain)}

InDomain(values, domain) ==
  \A d \in Dims : values[d] >= domain[d].first /\ values[d] <= domain[d].second

CountIn(t, domain) == Cardinality({r \in Rows(t) : InDomain(key[r], domain)})

-----------------------------------------------------------------------------
\* parseInput and extractData keep the least and the greatest value of every
\* attribute over all the tables they read.
Bounding(domain) ==
  \A d \in Dims :
    /\ \A r \in Records : domain[d].first <= key[r][d] /\ key[r][d] <= domain[d].second
    /\ \E r \in Records : key[r][d] = domain[d].first
    /\ \E r \in Records : key[r][d] = domain[d].second

Init ==
  /\ key \in [Records -> [Dims -> Keys]]
  /\ \E initDomain \in [Dims -> [first : Keys, second : Keys]] :
       /\ Bounding(initDomain)
       /\ nodelist = {[path   |-> <<>>,
                       domain |-> initDomain,
                       count  |-> [t \in Tables |-> Cardinality(Rows(t))]]}
  /\ level = 0
  /\ leaves = {}
  /\ inner = {}
  /\ binNoisyMax = 0
  /\ pc = "decompose"

Leaf(node, noise) ==
  [path |-> node.path, domain |-> node.domain, count |-> node.count, noise |-> noise]

\* noise2 is 0 when there is no second table.
DrawnNoise == {noise \in [Tables -> Noise \cup {0}] :
                 /\ noise[1] \in Noise
                 /\ noise[2] \in IF 2 \in Loaded THEN Noise ELSE {0}}

\* Mutant: the noise of the leaf is forgotten.
BinSizeMutant(leaf, t) == leaf.count[t]

BinSize(leaf, t) == leaf.count[t] + leaf.noise[t]

\* Mutant: the maximum is taken over the leaves of this level alone.
DivideMutant(divided, noise) ==
  LET new == {Leaf(n, noise[n]) : n \in nodelist \ divided}
      sizes == {BinSize(l, t) : l \in new, t \in Tables} \cup {0}
  IN  /\ leaves' = leaves \cup new
      /\ nodelist' = UNION {Split(n) : n \in divided}
      /\ inner' = inner \cup divided
      /\ binNoisyMax' \in sizes
      /\ \A size \in sizes : size <= binNoisyMax'

\* The nodes in divided get children, the others become leaves.
Divide(divided, noise) ==
  LET new == {Leaf(n, noise[n]) : n \in nodelist \ divided}
      sizes == {BinSize(l, t) : l \in new, t \in Tables} \cup {binNoisyMax}
  IN  /\ leaves' = leaves \cup new
      /\ nodelist' = UNION {Split(n) : n \in divided}
      /\ inner' = inner \cup divided
      /\ binNoisyMax' \in sizes
      /\ \A size \in sizes : size <= binNoisyMax'

Decompose ==
  /\ pc = "decompose"
  /\ nodelist # {}
  /\ level < MaxDepth
  /\ \E divided \in SUBSET {n \in nodelist : CanSplit(n)} :
       \E noise \in [nodelist \ divided -> DrawnNoise] : Divide(divided, noise)
  /\ level' = level + 1
  /\ pc' = "count"
  /\ UNCHANGED key

CountInDomains ==
  /\ pc = "count"
  /\ nodelist' = {[n EXCEPT !.count = [t \in Tables |-> n.count[t] + CountIn(t, n.domain)]]
                    : n \in nodelist}
  /\ pc' = "decompose"
  /\ UNCHANGED <<key, level, leaves, inner, binNoisyMax>>

\* createTree leaves its loop; the sort of the leaves is in PrivTreeBins.
EndTree ==
  /\ pc = "decompose"
  /\ nodelist = {}
  /\ pc' = "created"
  /\ UNCHANGED <<key, level, nodelist, leaves, inner, binNoisyMax>>

TreeNext == Decompose \/ CountInDomains \/ EndTree

TreeSpec == Init /\ [][TreeNext]_treeVars

-----------------------------------------------------------------------------
Nodes == nodelist \cup leaves

Path == Seq(UNION {[S -> {0, 1}] : S \in SUBSET Dims})
Domain == [Dims -> [first : Int, second : Int]]
Node == [path : Path, domain : Domain, count : [Tables -> Nat]]
LeafNode == [path : Path, domain : Domain, count : [Tables -> Nat], noise : [Tables -> Nat]]

TreeTypeOK ==
  /\ key \in [Records -> [Dims -> Keys]]
  /\ level \in Nat
  /\ nodelist \subseteq Node
  /\ leaves \subseteq LeafNode
  /\ inner \subseteq Node
  /\ binNoisyMax \in Nat
  /\ pc \in {"decompose", "count", "created"}

(* Every point of the root's domain is in the domain of exactly one node   *)
(* that is a leaf or will have leaves below it: a record goes to one bin   *)
(* and both records of a match go to the same one.                         *)
EveryPointOnce ==
  \A point \in [Dims -> Keys] :
    (\A d \in Dims : /\ \E r \in Records : key[r][d] <= point[d]
                     /\ \E r \in Records : key[r][d] >= point[d])
      => /\ \E n \in Nodes : InDomain(point, n.domain)
         /\ \A m, n \in Nodes :
              InDomain(point, m.domain) /\ InDomain(point, n.domain)
                => m = n

(* split() divides: both sides of a boundary get a part of the domain.     *)
BoundariesDivide ==
  \A n \in inner : \A d \in Wide(n.domain) : \A side \in {0, 1} :
    LET half == Half(n.domain[d], side) IN half.first <= half.second

(* The counts that bins are cut by, and that noise is added to, are exact: *)
(* a node's records are counted once, on the level where it is created.    *)
ExactCounts ==
  /\ \A n \in leaves, t \in Tables : n.count[t] = CountIn(t, n.domain)
  /\ pc = "decompose" => \A n \in nodelist, t \in Tables : n.count[t] = CountIn(t, n.domain)

(* No bin is larger than binNoisyMax, the sensitivity of the output size   *)
(* and the size of the blocks that bins are read in.                       *)
NoBinAboveMax == \A l \in leaves, t \in Tables : BinSize(l, t) <= binNoisyMax
=============================================================================
