------------------------------ MODULE SelectJoin ------------------------------
(***************************************************************************)
(* PrivTree::selectJoin (Enclave/privtree.cpp), called by innerJoin when   *)
(* the predicate is on the second attribute of table 2: the bins that      *)
(* select has found in the tree of table 2 are joined with those leaves of *)
(* another tree, that of table 1 on the join attribute alone, whose range  *)
(* meets theirs.  The leaves of both trees are sorted, and the walk over   *)
(* table 1 starts again at prvStart for every selected bin.                *)
(***************************************************************************)
EXTENDS PrivTreeBins

VARIABLES
  tree1,      \* the ranges of the leaves of table 1, in their order
  bin,        \* the selected bin that is next, 0 when nothing is joined
  prvStart,
  joined      \* pairs of a selected bin and a leaf that went to crossProduct

joinVars == <<tree1, bin, prvStart, joined>>

NoJoin == tree1 = <<>> /\ bin = 0 /\ prvStart = 1 /\ joined = {}
JoinInit == BinsInit /\ NoJoin

(* The trees createTree may build on a range: every node is divided in the *)
(* middle or not, down to ranges of one key.                               *)
RECURSIVE Trees(_)
Trees(range) ==
  LET mid == (range.first + range.second) \div 2 IN
  {<<range>>} \cup
    (IF range.first = range.second THEN {}
     ELSE {low \o high : low \in Trees([range EXCEPT !.second = mid]),
                         high \in Trees([range EXCEPT !.first = mid + 1])})

(* Both trees are built on the domain of the input, that of table 1 on its *)
(* first attribute.                                                        *)
JoinDomain == (CHOOSE n \in inner \cup leaves : n.path = <<>>).domain[1]

SelectedBins == SelectSeq(SortedLeaves, LAMBDA l : l \in selected)

NotJoining ==
  /\ bin = 0
  /\ tree1' = <<>> /\ joined' = {}
  /\ UNCHANGED <<bin, prvStart>>

TreeStep == BinsNext /\ NotJoining

SelectBins == Select /\ NotJoining

(* Nothing of a join outlives it, so the tree of table 1 is chosen here.   *)
StartSelectJoin ==
  /\ pc = "selected"
  /\ tree1 = <<>>
  /\ tree1' \in Trees(JoinDomain)
  /\ bin' = 1
  /\ prvStart' = 1
  /\ joined' = {}
  /\ UNCHANGED vars

(* The leaves the inner loop looks at before it breaks.                    *)
Reached(range) ==
  {j \in prvStart .. Len(tree1) : \A k \in prvStart .. j : tree1[k].first <= range.second}

(* Those that lie before the bin: the loop continues.                      *)
Passed(range) == {j \in Reached(range) : range.first > tree1[j].second}

\* Mutant: the next bin starts where the loop for this one has ended.
NextStartMutant(range) == IF Reached(range) = {} THEN prvStart ELSE Max(Reached(range))

NextStart(range) == IF Passed(range) = {} THEN prvStart ELSE Max(Passed(range))

JoinBin ==
  /\ bin \in DOMAIN SelectedBins
  /\ LET range == SelectedBins[bin].domain[1]
     IN  /\ joined' = joined \cup {<<bin, j>> : j \in Reached(range) \ Passed(range)}
         /\ prvStart' = NextStart(range)
  /\ bin' = bin + 1
  /\ UNCHANGED <<vars, tree1>>

EndSelectJoin ==
  /\ bin > Len(SelectedBins)
  /\ bin' = 0
  /\ prvStart' = 1
  /\ UNCHANGED <<vars, tree1, joined>>

JoinNext == TreeStep \/ SelectBins \/ StartSelectJoin \/ JoinBin \/ EndSelectJoin

JoinSpec == JoinInit /\ [][JoinNext]_<<vars, joinVars>>

-----------------------------------------------------------------------------
(* The second loop joins the pairs that the first one has allocated room   *)
(* for, those whose ranges meet, although it starts at prvStart and the    *)
(* first does not; and a record of table 2 that satisfies the predicate is *)
(* joined with the leaf of table 1 that its partners are in.               *)
SelectJoinComplete ==
  tree1 # <<>> /\ bin = 0 =>
    /\ joined = {<<i, j>> \in (DOMAIN SelectedBins) \X (DOMAIN tree1) :
                   /\ tree1[j].first <= SelectedBins[i].domain[1].second
                   /\ SelectedBins[i].domain[1].first <= tree1[j].second}
    /\ \A r \in Rows(2) : key[r][2] >= query[1] /\ key[r][2] <= query[2] =>
         \E <<i, j>> \in joined :
           /\ r \in bins[2][SelectedBins[i].path]
           /\ key[r][1] \in tree1[j].first .. tree1[j].second
=============================================================================
