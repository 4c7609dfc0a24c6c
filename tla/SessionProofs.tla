--------------------------- MODULE SessionProofs ---------------------------
(***************************************************************************)
(* Runs of the program, and the tree that createPDS makes in them.         *)
(*                                                                         *)
(* The tree is correct for any tables, attributes and noise: its leaves    *)
(* and its open nodes partition the domain of the root at every step of    *)
(* createTree, and what they have counted is exact.  A point of a divided  *)
(* node is in the one child whose sides are the comparisons of the point   *)
(* with the boundaries; wherever the boundary is rounded to, it does not   *)
(* leave the domain.  The counts need that a node in nodelist has a count  *)
(* of 0 until countInDomains comes by, which adds.                         *)
(*                                                                         *)
(* A run is the ECALLs of main and the steps through the untrusted storage *)
(* that each of them makes, for any tables, buckets, queries and failures  *)
(* of the bridge: main shows the answer to the query it has just asked; a  *)
(* table is read as a whole and no row of it twice, unless a request was   *)
(* lost; the enclave is lost only after a failed ECALL or in a usage that  *)
(* cannot work, and the host only after a lost request or for several      *)
(* sparse bins.                                                            *)
(***************************************************************************)
EXTENDS PrivTree, Session, SequenceTheorems, FiniteSetTheorems, WellFoundedInduction, TLAPS

AllSides == UNION {[S -> {0, 1}] : S \in SUBSET Dims}

\* Of the closed and the open nodes, one holds the point.
Alone(point, closed, open) ==
  /\ \E n \in closed \cup open : InDomain(point, n.domain)
  /\ \A m, n \in closed : InDomain(point, m.domain) /\ InDomain(point, n.domain) => m = n
  /\ \A m, n \in open : InDomain(point, m.domain) /\ InDomain(point, n.domain) => m = n
  /\ \A m \in closed, n \in open : ~(InDomain(point, m.domain) /\ InDomain(point, n.domain))

InBox(point) ==
  \A d \in Dims : /\ \E r \in Records : key[r][d] <= point[d]
                  /\ \E r \in Records : key[r][d] >= point[d]

PointsAlone ==
  \A point \in [Dims -> Keys] : InBox(point) => Alone(point, leaves, nodelist)

\* Nodes that have not been counted yet.
NotCounted == pc = "count" => \A n \in nodelist, t \in Tables : n.count[t] = 0

Inv ==
  /\ TreeTypeOK
  /\ PointsAlone
  /\ ExactCounts
  /\ NotCounted
  /\ NoBinAboveMax

-----------------------------------------------------------------------------
(* Splitting.                                                              *)

(* The boundary of a range of two points or more is in the range.          *)
LEMMA MidInRange ==
  ASSUME NEW range \in [first : Int, second : Int], range.second - range.first >= 1
  PROVE  Mid(range) \in Int /\ range.first <= Mid(range) /\ Mid(range) <= range.second
<1> DEFINE sum == range.first + range.second
<1>1. range.first \in Int /\ range.second \in Int /\ sum \in Int
  OBVIOUS
<1>2. CASE sum >= 0
  BY <1>1, <1>2 DEF Mid
<1>3. CASE ~(sum >= 0)
  <2>1. Mid(range) = -((-sum) \div 2)
    BY <1>3 DEF Mid
  <2>2. PICK half \in Int : half = (-sum) \div 2 /\ 2 * half <= -sum /\ -sum <= 2 * half + 1
    BY <1>1
  <2> QED
    BY <1>1, <2>1, <2>2
<1> QED
  BY <1>2, <1>3

(* The domain of a child has a range for every attribute.                  *)
LEMMA ChildDomainType ==
  ASSUME NEW domain \in Domain, NEW sides \in Sides(domain)
  PROVE  ChildDomain(domain, sides) \in Domain
<1> SUFFICES ASSUME NEW d \in Wide(domain)
             PROVE  Half(domain[d], sides[d]) \in [first : Int, second : Int]
  BY DEF ChildDomain, Domain, Wide
<1>1. domain[d] \in [first : Int, second : Int] /\ domain[d].second - domain[d].first >= 1
  BY DEF Domain, Wide
<1>2. Mid(domain[d]) \in Int
  BY <1>1, MidInRange
<1> QED
  BY <1>1, <1>2 DEF Half

(* A child's domain is part of its parent's.                               *)
LEMMA ChildInParent ==
  ASSUME NEW domain \in Domain, NEW sides \in Sides(domain),
         NEW point \in [Dims -> Int], InDomain(point, ChildDomain(domain, sides))
  PROVE  InDomain(point, domain)
<1> SUFFICES ASSUME NEW d \in Dims
             PROVE  point[d] >= domain[d].first /\ point[d] <= domain[d].second
  BY DEF InDomain
<1>1. CASE d \notin Wide(domain)
  BY <1>1 DEF InDomain, ChildDomain
<1>2. CASE d \in Wide(domain)
  <2>1. domain[d] \in [first : Int, second : Int] /\ domain[d].second - domain[d].first >= 1
    BY <1>2 DEF Domain, Wide
  <2>2. /\ Mid(domain[d]) \in Int /\ domain[d].first <= Mid(domain[d])
        /\ Mid(domain[d]) <= domain[d].second
    BY <2>1, MidInRange
  <2>3. point[d] >= Half(domain[d], sides[d]).first /\ point[d] <= Half(domain[d], sides[d]).second
    BY <1>2 DEF InDomain, ChildDomain
  <2>4. point[d] \in Int /\ domain[d].first \in Int /\ domain[d].second \in Int
    BY <2>1
  <2>5. CASE sides[d] = 0
    <3>1. point[d] >= domain[d].first /\ point[d] <= Mid(domain[d])
      BY <2>3, <2>5 DEF Half
    <3> QED
      BY <2>2, <2>4, <3>1
  <2>6. CASE sides[d] # 0
    <3>1. point[d] >= Mid(domain[d]) + 1 /\ point[d] <= domain[d].second
      BY <2>3, <2>6 DEF Half
    <3> QED
      BY <2>2, <2>4, <3>1
  <2> QED
    BY <2>5, <2>6
<1> QED
  BY <1>1, <1>2

\* The sides of the child that a point goes to.
SidesOf(point, domain) ==
  [d \in Wide(domain) |-> IF point[d] <= Mid(domain[d]) THEN 0 ELSE 1]

(* A point of a domain is in the child on its sides and in no other.       *)
LEMMA OneChild ==
  ASSUME NEW domain \in Domain, NEW point \in [Dims -> Int], InDomain(point, domain)
  PROVE  /\ SidesOf(point, domain) \in Sides(domain)
         /\ InDomain(point, ChildDomain(domain, SidesOf(point, domain)))
         /\ \A sides \in Sides(domain) :
              InDomain(point, ChildDomain(domain, sides)) => sides = SidesOf(point, domain)
<1>1. \A d \in Wide(domain) : /\ d \in Dims /\ point[d] \in Int
                              /\ domain[d] \in [first : Int, second : Int]
                              /\ Mid(domain[d]) \in Int
  BY MidInRange DEF Wide, Domain
<1>2. SidesOf(point, domain) \in Sides(domain)
  BY DEF SidesOf, Sides
<1>3. InDomain(point, ChildDomain(domain, SidesOf(point, domain)))
  <2> SUFFICES ASSUME NEW d \in Wide(domain)
               PROVE  LET half == Half(domain[d], SidesOf(point, domain)[d])
                      IN  point[d] >= half.first /\ point[d] <= half.second
    BY DEF InDomain, ChildDomain
  <2>1. point[d] >= domain[d].first /\ point[d] <= domain[d].second
    BY <1>1 DEF InDomain
  <2>2. CASE point[d] <= Mid(domain[d])
    BY <2>1, <2>2 DEF SidesOf, Half
  <2>3. CASE ~(point[d] <= Mid(domain[d]))
    <3>1. SidesOf(point, domain)[d] = 1
      BY <2>3 DEF SidesOf
    <3>2. point[d] >= Mid(domain[d]) + 1
      BY <1>1, <2>3
    <3> QED
      BY <2>1, <3>1, <3>2 DEF Half
  <2> QED
    BY <2>2, <2>3
<1>4. ASSUME NEW sides \in Sides(domain), InDomain(point, ChildDomain(domain, sides))
      PROVE  sides = SidesOf(point, domain)
  <2>1. ASSUME NEW d \in Wide(domain) PROVE sides[d] = SidesOf(point, domain)[d]
    <3>1. point[d] >= Half(domain[d], sides[d]).first /\ point[d] <= Half(domain[d], sides[d]).second
      BY <1>1, <1>4 DEF InDomain, ChildDomain
    <3>2. CASE sides[d] = 0
      <4>1. point[d] <= Mid(domain[d])
        BY <3>1, <3>2 DEF Half
      <4> QED
        BY <3>2, <4>1 DEF SidesOf
    <3>3. CASE sides[d] = 1
      <4>1. point[d] >= Mid(domain[d]) + 1
        BY <3>1, <3>3 DEF Half
      <4>2. ~(point[d] <= Mid(domain[d]))
        BY <1>1, <4>1
      <4> QED
        BY <3>3, <4>2 DEF SidesOf
    <3> QED
      BY <3>2, <3>3 DEF Sides
  <2> QED
    BY <1>2, <2>1 DEF Sides
<1> QED
  BY <1>2, <1>3, <1>4

-----------------------------------------------------------------------------
(* Counting.                                                               *)

(* A count is a number.                                                    *)
LEMMA CountInType ==
  ASSUME NEW t, NEW domain
  PROVE  /\ IsFiniteSet(Rows(t))
         /\ Cardinality(Rows(t)) \in Nat
         /\ CountIn(t, domain) \in Nat
<1>1. IsFiniteSet(Rows(t))
  BY PrivTreeAssumption, FS_EmptySet DEF Rows
<1>2. IsFiniteSet({r \in Rows(t) : InDomain(key[r], domain)})
  BY <1>1, FS_Subset
<1> QED
  BY <1>1, <1>2, FS_CardinalityType DEF CountIn

(* Every record is in a domain that bounds them all.                       *)
LEMMA CountInBounding ==
  ASSUME NEW t \in Tables, NEW domain, Bounding(domain)
  PROVE  CountIn(t, domain) = Cardinality(Rows(t))
<1>1. ASSUME NEW r \in Rows(t) PROVE InDomain(key[r], domain)
  <2>1. r \in Records
    BY DEF Rows, Records
  <2>2. \A d \in Dims : domain[d].first <= key[r][d] /\ key[r][d] <= domain[d].second
    BY <2>1 DEF Bounding
  <2> QED
    BY <2>2 DEF InDomain
<1>2. {r \in Rows(t) : InDomain(key[r], domain)} = Rows(t)
  BY <1>1
<1> QED
  BY <1>2 DEF CountIn

-----------------------------------------------------------------------------

(* The root alone covers its domain.                                       *)
LEMMA InitInv == Init => Inv
<1> SUFFICES ASSUME Init PROVE Inv
  OBVIOUS
<1>1. PICK initDomain \in [Dims -> [first : Keys, second : Keys]] :
        /\ Bounding(initDomain)
        /\ nodelist = {[path |-> <<>>, domain |-> initDomain,
                        count |-> [t \in Tables |-> Cardinality(Rows(t))]]}
  BY DEF Init
<1> DEFINE root == [path |-> <<>>, domain |-> initDomain,
                    count |-> [t \in Tables |-> Cardinality(Rows(t))]]
<1>2. /\ key \in [Records -> [Dims -> Keys]] /\ level = 0 /\ leaves = {} /\ inner = {}
      /\ binNoisyMax = 0 /\ pc = "decompose" /\ nodelist = {root}
  BY <1>1 DEF Init
<1>3. root \in Node
  <2>1. <<>> \in Path
    BY DEF Path
  <2>2. initDomain \in Domain
    BY PrivTreeAssumption DEF Domain
  <2>3. [t \in Tables |-> Cardinality(Rows(t))] \in [Tables -> Nat]
    BY CountInType
  <2> QED
    BY <2>1, <2>2, <2>3 DEF Node
<1>4. TreeTypeOK
  BY <1>2, <1>3 DEF TreeTypeOK
<1>5. PointsAlone
  <2> SUFFICES ASSUME NEW point \in [Dims -> Keys], InBox(point)
               PROVE  InDomain(point, initDomain)
    BY <1>2 DEF PointsAlone, Alone
  <2> SUFFICES ASSUME NEW d \in Dims
               PROVE  point[d] >= initDomain[d].first /\ point[d] <= initDomain[d].second
    BY DEF InDomain
  <2>1. PICK low \in Records : key[low][d] <= point[d]
    BY DEF InBox
  <2>2. PICK high \in Records : key[high][d] >= point[d]
    BY DEF InBox
  <2>3. initDomain[d].first <= key[low][d] /\ key[high][d] <= initDomain[d].second
    BY <1>1 DEF Bounding
  <2>4. /\ initDomain[d].first \in Int /\ initDomain[d].second \in Int
        /\ key[low][d] \in Int /\ key[high][d] \in Int /\ point[d] \in Int
    BY <1>2, PrivTreeAssumption
  <2> QED
    BY <2>1, <2>2, <2>3, <2>4
<1>6. ExactCounts
  BY <1>1, <1>2, CountInBounding DEF ExactCounts
<1>7. NotCounted /\ NoBinAboveMax
  BY <1>2 DEF NotCounted, NoBinAboveMax
<1> QED
  BY <1>4, <1>5, <1>6, <1>7 DEF Inv

-----------------------------------------------------------------------------
(* What decompose does, without the record fields that it fills in.        *)
LEMMA DecomposeFacts ==
  ASSUME Inv, Decompose
  PROVE  \E divided \in SUBSET nodelist : \E noise \in [nodelist \ divided -> [Tables -> Nat]] :
           /\ leaves' = leaves \cup {Leaf(n, noise[n]) : n \in nodelist \ divided}
           /\ nodelist' = UNION {Split(n) : n \in divided}
           /\ inner' = inner \cup divided
           /\ binNoisyMax' \in Nat /\ binNoisyMax <= binNoisyMax'
           /\ \A n \in nodelist \ divided, t \in Tables :
                BinSize(Leaf(n, noise[n]), t) <= binNoisyMax'
<1>1. PICK divided \in SUBSET nodelist : \E noise \in [nodelist \ divided -> DrawnNoise] : Divide(divided, noise)
  BY DEF Decompose
<1>2. PICK noise \in [nodelist \ divided -> DrawnNoise] : Divide(divided, noise)
  BY <1>1
<1> DEFINE new == {Leaf(n, noise[n]) : n \in nodelist \ divided}
           sizes == {BinSize(l, t) : l \in new, t \in Tables} \cup {binNoisyMax}
<1>3. /\ leaves' = leaves \cup new
      /\ nodelist' = UNION {Split(n) : n \in divided}
      /\ inner' = inner \cup divided
      /\ binNoisyMax' \in sizes
      /\ \A size \in sizes : size <= binNoisyMax'
  BY <1>2 DEF Divide
<1>4. noise \in [nodelist \ divided -> [Tables -> Nat]]
  <2>1. ASSUME NEW f \in DrawnNoise PROVE f \in [Tables -> Nat]
    <3>1. f \in [Tables -> Noise \cup {0}] /\ Noise \cup {0} \subseteq Nat
      BY PrivTreeAssumption DEF DrawnNoise
    <3> QED
      BY <3>1
  <2> QED
    BY <2>1
<1>5. \A n \in nodelist \ divided, t \in Tables : BinSize(Leaf(n, noise[n]), t) \in sizes
  OBVIOUS
<1>6. ASSUME NEW n \in nodelist \ divided, NEW t \in Tables
      PROVE  BinSize(Leaf(n, noise[n]), t) \in Nat
  <2>1. n.count[t] \in Nat
    BY DEF Inv, TreeTypeOK, Node
  <2>2. noise[n][t] \in Nat
    BY <1>4
  <2> QED
    BY <2>1, <2>2 DEF BinSize, Leaf
<1>7. binNoisyMax' \in Nat
  <2>1. binNoisyMax \in Nat
    BY DEF Inv, TreeTypeOK
  <2>2. sizes \subseteq Nat
    BY <1>6, <2>1
  <2> QED
    BY <1>3, <2>2
<1>8. binNoisyMax <= binNoisyMax'
  BY <1>3
<1>9. \A n \in nodelist \ divided, t \in Tables : BinSize(Leaf(n, noise[n]), t) <= binNoisyMax'
  BY <1>3, <1>5
<1> HIDE DEF sizes
<1> QED
  BY <1>3, <1>4, <1>7, <1>8, <1>9

(* A node of the next level is a child of a divided node.                  *)
LEMMA SplitFacts ==
  ASSUME NEW n \in Node, NEW c \in Split(n)
  PROVE  /\ c \in Node
         /\ \A t \in Tables : c.count[t] = 0
         /\ \E sides \in Sides(n.domain) :
              /\ c.domain = ChildDomain(n.domain, sides)
              /\ c.path = Append(n.path, sides)
<1>1. PICK sides \in Sides(n.domain) :
        c = [path |-> Append(n.path, sides), domain |-> ChildDomain(n.domain, sides),
             count |-> [t \in Tables |-> 0]]
  BY DEF Split
<1>2. sides \in UNION {[S -> {0, 1}] : S \in SUBSET Dims}
  BY DEF Sides, Wide
<1>3. n.path \in Path /\ n.domain \in Domain
  BY DEF Node
<1>4. Append(n.path, sides) \in Path
  <2> DEFINE All == UNION {[S -> {0, 1}] : S \in SUBSET Dims}
  <2>1. n.path \in Seq(All) /\ sides \in All
    BY <1>2, <1>3 DEF Path
  <2> HIDE DEF All
  <2>2. Append(n.path, sides) \in Seq(All)
    BY <2>1
  <2> QED
    BY <2>2 DEF Path, All
<1>5. ChildDomain(n.domain, sides) \in Domain
  BY <1>3, ChildDomainType
<1>6. [t \in Tables |-> 0] \in [Tables -> Nat]
  OBVIOUS
<1>7. c \in Node
  BY <1>1, <1>4, <1>5, <1>6 DEF Node
<1> QED
  BY <1>1, <1>7

(* A leaf keeps the domain and the count of its node.                      *)
LEMMA LeafFacts ==
  ASSUME NEW n \in Node, NEW noise \in [Tables -> Nat]
  PROVE  /\ Leaf(n, noise) \in LeafNode
         /\ Leaf(n, noise).domain = n.domain /\ Leaf(n, noise).count = n.count
BY DEF Leaf, Node, LeafNode

(* After decompose a point is still in one node only.                      *)
LEMMA DecomposeAlone ==
  ASSUME Inv, NEW divided \in SUBSET nodelist,
         NEW noise \in [nodelist \ divided -> [Tables -> Nat]],
         leaves' = leaves \cup {Leaf(n, noise[n]) : n \in nodelist \ divided},
         nodelist' = UNION {Split(n) : n \in divided},
         NEW point \in [Dims -> Int], Alone(point, leaves, nodelist)
  PROVE  Alone(point, leaves', nodelist')
<1> DEFINE Holds(n) == InDomain(point, n.domain)
<1>1. nodelist \subseteq Node
  BY DEF Inv, TreeTypeOK
<1>2. \A n \in nodelist \ divided : Leaf(n, noise[n]).domain = n.domain
  BY <1>1, LeafFacts
<1>3. \A n \in divided : n \in Node /\ n.domain \in Domain
  BY <1>1 DEF Node
<1>4. ASSUME NEW n \in divided, NEW c \in Split(n), Holds(c)
      PROVE  /\ Holds(n)
             /\ c = [path |-> Append(n.path, SidesOf(point, n.domain)),
                     domain |-> ChildDomain(n.domain, SidesOf(point, n.domain)),
                     count |-> [t \in Tables |-> 0]]
  <2>1. PICK sides \in Sides(n.domain) :
          c = [path |-> Append(n.path, sides), domain |-> ChildDomain(n.domain, sides),
               count |-> [t \in Tables |-> 0]]
    BY DEF Split
  <2>2. InDomain(point, ChildDomain(n.domain, sides))
    BY <1>4, <2>1
  <2>3. Holds(n)
    BY <1>3, <2>2, ChildInParent
  <2>4. sides = SidesOf(point, n.domain)
    BY <1>3, <2>2, <2>3, OneChild
  <2> QED
    BY <2>1, <2>3, <2>4
<1>5. ASSUME NEW n \in divided, Holds(n)
      PROVE  \E c \in Split(n) : Holds(c)
  <2> DEFINE sides == SidesOf(point, n.domain)
             c == [path |-> Append(n.path, sides), domain |-> ChildDomain(n.domain, sides),
                   count |-> [t \in Tables |-> 0]]
  <2>1. sides \in Sides(n.domain) /\ InDomain(point, ChildDomain(n.domain, sides))
    BY <1>3, <1>5, OneChild
  <2>2. c \in Split(n)
    BY <2>1 DEF Split
  <2> QED
    BY <2>1, <2>2
<1>6. \E n \in leaves' \cup nodelist' : Holds(n)
  <2>1. PICK n \in leaves \cup nodelist : Holds(n)
    BY DEF Alone
  <2>2. CASE n \in leaves
    BY <2>1, <2>2
  <2>3. CASE n \in nodelist \ divided
    BY <1>2, <2>1, <2>3
  <2>4. CASE n \in divided
    BY <1>5, <2>1, <2>4
  <2> QED
    BY <2>2, <2>3, <2>4
<1>7. \A l \in leaves' : l \in leaves \/ \E n \in nodelist \ divided : l = Leaf(n, noise[n])
  OBVIOUS
<1>8. \A c \in nodelist' : \E n \in divided : c \in Split(n)
  OBVIOUS
<1>9. ASSUME NEW l \in leaves', NEW m \in leaves', Holds(l), Holds(m)
      PROVE  l = m
  BY <1>2, <1>7, <1>9 DEF Alone
<1>10. ASSUME NEW c \in nodelist', NEW b \in nodelist', Holds(c), Holds(b)
       PROVE  c = b
  <2>1. PICK n \in divided : c \in Split(n)
    BY <1>8
  <2>2. PICK m \in divided : b \in Split(m)
    BY <1>8
  <2>3. n = m
    BY <1>4, <1>10, <2>1, <2>2 DEF Alone
  <2> QED
    BY <1>4, <1>10, <2>1, <2>2, <2>3
<1>11. ASSUME NEW l \in leaves', NEW c \in nodelist', Holds(l), Holds(c)
       PROVE  FALSE
  <2>1. PICK n \in divided : c \in Split(n) /\ Holds(n)
    BY <1>4, <1>8, <1>11
  <2>2. CASE l \in leaves
    BY <1>11, <2>1, <2>2 DEF Alone
  <2>3. CASE l \notin leaves
    <3>1. PICK m \in nodelist \ divided : l = Leaf(m, noise[m])
      BY <1>7, <2>3
    <3>2. Holds(m)
      BY <1>2, <1>11, <3>1
    <3> QED
      BY <2>1, <3>2 DEF Alone
  <2> QED
    BY <2>2, <2>3
<1> QED
  BY <1>6, <1>9, <1>10, <1>11 DEF Alone

-----------------------------------------------------------------------------

(* A level decomposed: a divided node is replaced by its children.         *)
LEMMA DecomposeInv == Inv /\ Decompose => Inv'
<1> SUFFICES ASSUME Inv, Decompose PROVE Inv'
  OBVIOUS
<1>1. PICK divided \in SUBSET nodelist : \E noise \in [nodelist \ divided -> [Tables -> Nat]] :
           /\ leaves' = leaves \cup {Leaf(n, noise[n]) : n \in nodelist \ divided}
           /\ nodelist' = UNION {Split(n) : n \in divided}
           /\ inner' = inner \cup divided
           /\ binNoisyMax' \in Nat /\ binNoisyMax <= binNoisyMax'
           /\ \A n \in nodelist \ divided, t \in Tables :
                BinSize(Leaf(n, noise[n]), t) <= binNoisyMax'
  BY DecomposeFacts
<1>2. PICK noise \in [nodelist \ divided -> [Tables -> Nat]] :
           /\ leaves' = leaves \cup {Leaf(n, noise[n]) : n \in nodelist \ divided}
           /\ nodelist' = UNION {Split(n) : n \in divided}
           /\ inner' = inner \cup divided
           /\ binNoisyMax' \in Nat /\ binNoisyMax <= binNoisyMax'
           /\ \A n \in nodelist \ divided, t \in Tables :
                BinSize(Leaf(n, noise[n]), t) <= binNoisyMax'
  BY <1>1
<1>3. key' = key /\ pc = "decompose" /\ pc' = "count" /\ level' = level + 1
  BY DEF Decompose
<1>4. nodelist \subseteq Node /\ leaves \subseteq LeafNode /\ key \in [Records -> [Dims -> Keys]]
  BY DEF Inv, TreeTypeOK
<1>5. ASSUME NEW c \in nodelist' PROVE c \in Node /\ \A t \in Tables : c.count[t] = 0
  <2>1. PICK n \in divided : c \in Split(n)
    BY <1>2
  <2> QED
    BY <1>4, <2>1, SplitFacts
<1>6. ASSUME NEW n \in nodelist \ divided
      PROVE  /\ Leaf(n, noise[n]) \in LeafNode
             /\ Leaf(n, noise[n]).domain = n.domain /\ Leaf(n, noise[n]).count = n.count
  BY <1>4, LeafFacts
<1>7. TreeTypeOK'
  <2>1. nodelist' \subseteq Node
    BY <1>5
  <2>2. leaves' \subseteq LeafNode
    BY <1>2, <1>4, <1>6
  <2>3. inner' \subseteq Node
    BY <1>2, <1>4 DEF Inv, TreeTypeOK
  <2>4. level' \in Nat
    BY <1>3 DEF Inv, TreeTypeOK
  <2> QED
    BY <1>2, <1>3, <1>4, <2>1, <2>2, <2>3, <2>4 DEF TreeTypeOK
<1>8. PointsAlone'
  <2> SUFFICES ASSUME NEW point \in [Dims -> Keys], InBox(point)'
               PROVE  Alone(point, leaves', nodelist')
    BY DEF PointsAlone, Alone
  <2>1. InBox(point)
    BY <1>3 DEF InBox
  <2>2. Alone(point, leaves, nodelist)
    BY <2>1 DEF Inv, PointsAlone
  <2>3. point \in [Dims -> Int]
    BY PrivTreeAssumption
  <2> QED
    BY <1>2, <2>2, <2>3, DecomposeAlone
<1>9. ExactCounts'
  <2> SUFFICES ASSUME NEW l \in leaves', NEW t \in Tables
               PROVE  l.count[t] = CountIn(t, l.domain)
    BY <1>3 DEF ExactCounts, CountIn
  <2>1. CASE l \in leaves
    BY <2>1 DEF Inv, ExactCounts
  <2>2. CASE l \notin leaves
    <3>1. PICK n \in nodelist \ divided : l = Leaf(n, noise[n])
      BY <1>2, <2>2
    <3>2. n.count[t] = CountIn(t, n.domain)
      BY <1>3 DEF Inv, ExactCounts
    <3> QED
      BY <1>6, <3>1, <3>2
  <2> QED
    BY <2>1, <2>2
<1>10. NotCounted'
  BY <1>5 DEF NotCounted
<1>11. NoBinAboveMax'
  <2> SUFFICES ASSUME NEW l \in leaves', NEW t \in Tables
               PROVE  BinSize(l, t) <= binNoisyMax'
    BY DEF NoBinAboveMax, BinSize
  <2>1. CASE l \in leaves
    <3>1. BinSize(l, t) <= binNoisyMax
      BY <2>1 DEF Inv, NoBinAboveMax
    <3>2. BinSize(l, t) \in Nat
      <4>1. l.count[t] \in Nat /\ l.noise[t] \in Nat
        BY <1>4, <2>1 DEF LeafNode
      <4> QED
        BY <4>1 DEF BinSize
    <3>3. binNoisyMax \in Nat
      BY DEF Inv, TreeTypeOK
    <3> QED
      BY <1>2, <3>1, <3>2, <3>3
  <2>2. CASE l \notin leaves
    BY <1>2, <2>2
  <2> QED
    BY <2>1, <2>2
<1> QED
  BY <1>7, <1>8, <1>9, <1>10, <1>11 DEF Inv

(* The pass that counts the records in the new nodes.                      *)
LEMMA CountInDomainsInv == Inv /\ CountInDomains => Inv'
<1> SUFFICES ASSUME Inv, CountInDomains PROVE Inv'
  OBVIOUS
<1> DEFINE Counted(n) == [n EXCEPT !.count = [t \in Tables |-> n.count[t] + CountIn(t, n.domain)]]
<1>1. /\ nodelist' = {Counted(n) : n \in nodelist}
      /\ pc = "count" /\ pc' = "decompose"
      /\ UNCHANGED <<key, level, leaves, inner, binNoisyMax>>
  BY DEF CountInDomains
<1>2. ASSUME NEW n \in nodelist
      PROVE  /\ Counted(n) \in Node
             /\ Counted(n).domain = n.domain
             /\ \A t \in Tables : Counted(n).count[t] = CountIn(t, n.domain)
  <2>1. n \in Node /\ \A t \in Tables : n.count[t] = 0
    BY <1>1 DEF Inv, TreeTypeOK, NotCounted
  <2>2. \A t \in Tables : CountIn(t, n.domain) \in Nat
    BY CountInType
  <2>3. [t \in Tables |-> n.count[t] + CountIn(t, n.domain)] \in [Tables -> Nat]
    BY <2>1, <2>2
  <2>4. Counted(n) \in Node /\ Counted(n).domain = n.domain
    BY <2>1, <2>3 DEF Node
  <2>5. Counted(n).count = [t \in Tables |-> n.count[t] + CountIn(t, n.domain)]
    BY <2>1 DEF Node
  <2>6. \A t \in Tables : n.count[t] + CountIn(t, n.domain) = CountIn(t, n.domain)
    BY <2>1, <2>2
  <2> QED
    BY <2>4, <2>5, <2>6
<1> HIDE DEF Counted
<1>3. TreeTypeOK'
  <2>1. nodelist' \subseteq Node
    BY <1>1, <1>2
  <2> QED
    BY <1>1, <2>1 DEF Inv, TreeTypeOK
<1>4. PointsAlone'
  <2> SUFFICES ASSUME NEW point \in [Dims -> Keys], InBox(point)'
               PROVE  Alone(point, leaves, nodelist')
    BY <1>1 DEF PointsAlone, Alone
  <2>1. Alone(point, leaves, nodelist)
    BY <1>1 DEF Inv, PointsAlone, InBox
  <2>2. \A c \in nodelist' : \E n \in nodelist : c = Counted(n) /\ c.domain = n.domain
    BY <1>1, <1>2
  <2>3. \A n \in nodelist : Counted(n) \in nodelist' /\ Counted(n).domain = n.domain
    BY <1>1, <1>2
  <2>4. \E n \in leaves \cup nodelist' : InDomain(point, n.domain)
    <3>1. PICK n \in leaves \cup nodelist : InDomain(point, n.domain)
      BY <2>1 DEF Alone
    <3>2. CASE n \in leaves
      BY <3>1, <3>2
    <3>3. CASE n \in nodelist
      BY <2>3, <3>1, <3>3
    <3> QED
      BY <3>2, <3>3
  <2>5. ASSUME NEW b \in nodelist', NEW c \in nodelist',
               InDomain(point, b.domain), InDomain(point, c.domain)
        PROVE  b = c
    <3>1. PICK m \in nodelist : b = Counted(m) /\ b.domain = m.domain
      BY <2>2
    <3>2. PICK n \in nodelist : c = Counted(n) /\ c.domain = n.domain
      BY <2>2
    <3>3. m = n
      BY <2>1, <2>5, <3>1, <3>2 DEF Alone
    <3> QED
      BY <3>1, <3>2, <3>3
  <2>6. \A l \in leaves, c \in nodelist' : ~(InDomain(point, l.domain) /\ InDomain(point, c.domain))
    BY <2>1, <2>2 DEF Alone
  <2> QED
    BY <2>1, <2>4, <2>5, <2>6 DEF Alone
<1>5. ExactCounts'
  <2>1. ASSUME NEW c \in nodelist', NEW t \in Tables PROVE c.count[t] = CountIn(t, c.domain)
    BY <1>1, <1>2
  <2>2. ASSUME NEW l \in leaves, NEW t \in Tables PROVE l.count[t] = CountIn(t, l.domain)
    BY DEF Inv, ExactCounts
  <2> QED
    BY <1>1, <2>1, <2>2 DEF ExactCounts, CountIn
<1>6. NotCounted' /\ NoBinAboveMax'
  BY <1>1 DEF Inv, NotCounted, NoBinAboveMax, BinSize
<1> QED
  BY <1>3, <1>4, <1>5, <1>6 DEF Inv

(* The end of createTree leaves the tree as it is.                         *)
LEMMA EndTreeInv == Inv /\ (EndTree \/ UNCHANGED treeVars) => Inv'
<1> SUFFICES ASSUME Inv, EndTree \/ UNCHANGED treeVars PROVE Inv'
  OBVIOUS
<1>1. UNCHANGED <<key, level, nodelist, leaves, inner, binNoisyMax>>
  BY DEF EndTree, treeVars
<1>2. pc' = pc \/ (pc = "decompose" /\ pc' = "created")
  BY DEF EndTree, treeVars
<1>3. TreeTypeOK'
  BY <1>1, <1>2 DEF Inv, TreeTypeOK
<1>4. PointsAlone'
  BY <1>1 DEF Inv, PointsAlone, Alone, InBox
<1>5. ExactCounts' /\ NotCounted' /\ NoBinAboveMax'
  BY <1>1, <1>2 DEF Inv, ExactCounts, NotCounted, NoBinAboveMax, CountIn, BinSize
<1> QED
  BY <1>3, <1>4, <1>5 DEF Inv

(* The invariant holds in every state of createTree.                       *)
THEOREM Invariance == TreeSpec => []Inv
<1>1. Inv /\ [TreeNext]_treeVars => Inv'
  BY DecomposeInv, CountInDomainsInv, EndTreeInv DEF TreeNext
<1> QED
  BY <1>1, InitInv, PTL DEF TreeSpec

(* The nodes keep their types, the rounded boundaries included.            *)
THEOREM TypeCorrect == TreeSpec => []TreeTypeOK
<1>1. Inv => TreeTypeOK
  BY DEF Inv
<1> QED
  BY <1>1, Invariance, PTL

(* The leaves and the open nodes partition the domain of the root.         *)
THEOREM TreePartitions == TreeSpec => []EveryPointOnce
<1>1. Inv => EveryPointOnce
  BY DEF Inv, PointsAlone, Alone, InBox, EveryPointOnce, Nodes
<1> QED
  BY <1>1, Invariance, PTL

(* A leaf's count is the number of records in its domain, for each table.  *)
THEOREM CountsAreExact == TreeSpec => []ExactCounts
<1>1. Inv => ExactCounts
  BY DEF Inv
<1> QED
  BY <1>1, Invariance, PTL

(* binNoisyMax is never below the noisy size of a leaf's bin.              *)
THEOREM MaxCoversBins == TreeSpec => []NoBinAboveMax
<1>1. Inv => NoBinAboveMax
  BY DEF Inv
<1> QED
  BY <1>1, Invariance, PTL

-----------------------------------------------------------------------------
(* Sequences of records.                                                   *)
Row == Int \X Int

Step ==
  [op : {"expand_table"}, tableID : 0 .. 1, noiseSum : Nat]
    \cup [op : {"readDataBlock"}, tableID : 0 .. 1, binID : {0}, pos : Nat, numData : Nat]
    \cup [op : {"writeDataBlock"}, binID : Nat, pos : Nat, dblock : Seq(Row)]
    \cup [op : {"move_resize_bin_totable"}, tableID : 0 .. 1, srcBinID : Nat, destBinID : {0}, size : Nat]
    \cup [op : {"initBinStorage"}, tableID : 0 .. 1, binID : {0}]
    \cup [op : {"delete_bin"}, binID : Nat]
    \cup [op : {"delete_table", "obliSort", "moveData", "freeSpace"}, tableID : 0 .. 1]
    \cup [op : {"collect_resize_bins"}, tableID : 0 .. 1, leaf : {0}, size : Nat]
    \cup [op : {"write_index", "abort"}]
    \cup [op : {"writeBucket"}, tableID : 0 .. 1, bucket : Nat]

Names ==
  {"none", "extractMeta", "extractData", "createPDS", "initJoinPDS", "createJoinPDS", "initHTree",
   "createJoinBuckets", "createCZSC", "buildIndex", "idxSelect", "innerJoin", "pfJoin", "czscJoin",
   "joinCompact"}
EcallRecord == [name : Names, arg : Nat]

Storage(map) ==
  /\ DOMAIN map \subseteq Nat
  /\ map = [id \in DOMAIN map |-> map[id]]
  /\ \A id \in DOMAIN map : map[id] \in Seq(Row)

(* What may come before a step, what right before it, and what at first.  *)
Ordered(a, b) ==
  /\ a.op = "moveData" => b.op = "moveData"
  /\ b.op \in {"readDataBlock", "expand_table", "initBinStorage"} /\ a.op \in {"initBinStorage", "delete_table"}
       => a.tableID # b.tableID
  /\ b.op = "writeBucket" => a.op \in {"delete_table", "writeBucket", "writeDataBlock"}

Follows(a, b) ==
  /\ b.op = "writeDataBlock" =>
       b.pos = 0 \/ (a.op = "writeDataBlock" /\ a.binID = b.binID /\ b.pos <= a.pos + Len(a.dblock))
  /\ b.op = "collect_resize_bins" => a.op = "initBinStorage"
  /\ b.op = "move_resize_bin_totable" => a.op = "initBinStorage" /\ b.srcBinID = 0

Opening(s) ==
  /\ s.op = "writeDataBlock" => s.pos = 0
  /\ s.op \notin {"collect_resize_bins", "move_resize_bin_totable"}

TypeInv ==
  /\ steps \in Seq(Step)
  /\ up \in BOOLEAN /\ failed \in BOOLEAN /\ lost \in BOOLEAN /\ died \in BOOLEAN
  /\ meta \subseteq 0 .. 1 /\ indexed \in BOOLEAN
  /\ tdata \in [0 .. 1 -> Seq(Row)] /\ dblock \in Seq(Row)
  /\ parts \in [0 .. 1 -> Seq(Nat)]
  /\ noisyOutputSize \in Nat /\ outputSize \in Nat
  /\ untrustedTableStorage = [t \in 0 .. 1 |-> untrustedTableStorage[t]]
  /\ \A t \in 0 .. 1 : Storage(untrustedTableStorage[t])
  /\ Storage(untrustedBinStorage)

(* The fields of a step are those of the OCALL it stands for.              *)
LEMMA StepFields ==
  ASSUME NEW s \in Step
  PROVE  /\ s.op \in {"expand_table", "readDataBlock", "obliSort", "moveData", "freeSpace",
                      "delete_table", "initBinStorage", "collect_resize_bins",
                      "move_resize_bin_totable", "writeBucket"} => s.tableID \in 0 .. 1
         /\ s.op = "expand_table" => s.noiseSum \in Nat
         /\ s.op = "readDataBlock" => s.binID = 0 /\ s.pos \in Nat /\ s.numData \in Nat
         /\ s.op = "writeDataBlock" => s.binID \in Nat /\ s.pos \in Nat /\ s.dblock \in Seq(Row)
         /\ s.op = "move_resize_bin_totable" => s.srcBinID \in Nat /\ s.destBinID = 0 /\ s.size \in Nat
         /\ s.op = "initBinStorage" => s.binID = 0
         /\ s.op = "delete_bin" => s.binID \in Nat
         /\ s.op = "collect_resize_bins" => s.leaf = 0 /\ s.size \in Nat
         /\ s.op = "writeBucket" => s.bucket \in Nat
BY DEF Step

(* A sequence that is not empty: its head and its tail.                    *)
LEMMA TailOf ==
  ASSUME NEW S, NEW s \in Seq(S), s # <<>>
  PROVE  /\ Len(s) \in Nat \ {0} /\ Head(s) = s[1] /\ s[1] \in S
         /\ Tail(s) \in Seq(S) /\ Len(Tail(s)) = Len(s) - 1
         /\ \A k \in 1 .. Len(s) - 1 : Tail(s)[k] = s[k + 1]
BY SMT

-----------------------------------------------------------------------------
(* Blocks.                                                                 *)
LEMMA MinOf ==
  ASSUME NEW a \in Int, NEW b \in Int
  PROVE  Min({a, b}) = IF a <= b THEN a ELSE b
<1> DEFINE m == IF a <= b THEN a ELSE b
<1>1. m \in {a, b} /\ \A y \in {a, b} : m =< y
  OBVIOUS
<1>2. \A x \in {a, b} : (\A y \in {a, b} : x =< y) => x = m
  OBVIOUS
<1> QED
  BY <1>1, <1>2 DEF Min

(* n things in blocks of d.                                                *)
LEMMA Division ==
  ASSUME NEW n \in Nat, NEW d \in Nat \ {0}
  PROVE  LET c == (n + d - 1) \div d IN
         /\ c \in Nat
         /\ n = 0 <=> c = 0
         /\ \A k \in 1 .. c : /\ (k - 1) * d \in Nat /\ (k - 1) * d < n
                              /\ k < c => k * d < n
                              /\ k * d = (k - 1) * d + d
         /\ c > 0 => n <= c * d
<1> DEFINE c == (n + d - 1) \div d
           r == (n + d - 1) % d
<1>1. c \in Nat /\ r \in 0 .. d - 1 /\ n + d - 1 = d * c + r
  OBVIOUS
<1>2. d * c <= n + d - 1 /\ n <= d * c
  BY <1>1
<1>3. c * d = d * c
  BY <1>1
<1>4. n = 0 <=> c = 0
  <2>1. c = 0 => n = 0
    BY <1>1, <1>2
  <2>2. c > 0 => d * c >= d
    BY <1>1
  <2> QED
    BY <1>1, <1>2, <2>1, <2>2
<1>5. ASSUME NEW k \in 1 .. c
      PROVE  /\ (k - 1) * d \in Nat /\ (k - 1) * d < n
             /\ k < c => k * d < n
             /\ k * d = (k - 1) * d + d
  <2>1. k \in Nat /\ k - 1 \in Nat /\ c - k \in Nat
    BY <1>1
  <2>2. (k - 1) * d \in Nat /\ k * d = (k - 1) * d + d
    BY <2>1
  <2>3. PICK x \in Nat : x = (c - k) * d /\ d * c = k * d + x
    BY <2>1
  <2>4. k < c => x >= d
    <3>1. k < c => c - k >= 1
      BY <2>1
    <3> QED
      BY <2>1, <2>3, <3>1
  <2> QED
    BY <1>2, <2>2, <2>3, <2>4
<1> QED
  BY <1>1, <1>2, <1>3, <1>4, <1>5

(* The blocks of a wrapper adjoin and have all rows.                       *)
LEMMA BlockBounds ==
  ASSUME NEW size \in Nat
  PROVE  /\ Blocks(size) \in Nat \ {0}
         /\ \A k \in 1 .. Blocks(size) :
              /\ (k - 1) * OCALL_MAXSIZE \in Nat
              /\ BlockLength(size, k) \in Nat
              /\ (k - 1) * OCALL_MAXSIZE + BlockLength(size, k) <= size
              /\ k < Blocks(size) =>
                   (k - 1) * OCALL_MAXSIZE + BlockLength(size, k) = (k + 1 - 1) * OCALL_MAXSIZE
              /\ k = Blocks(size) => (k - 1) * OCALL_MAXSIZE + BlockLength(size, k) = size
<1> DEFINE d == OCALL_MAXSIZE
           c == (size + d - 1) \div d
<1>1. d \in Nat \ {0}
  BY SessionAssumption
<1>2. CASE size = 0
  <2>1. Blocks(size) = 1
    BY <1>2 DEF Blocks
  <2>2. BlockLength(size, 1) = Min({d, 0})
    BY <1>1, <1>2 DEF BlockLength
  <2>3. BlockLength(size, 1) = 0
    BY <1>1, <2>2, MinOf
  <2>4. (1 - 1) * OCALL_MAXSIZE = 0
    BY <1>1
  <2>5. \A k \in 1 .. Blocks(size) : k = 1
    BY <2>1
  <2> QED
    BY <1>2, <2>1, <2>3, <2>4, <2>5
<1>3. CASE size > 0
  <2>1. /\ c \in Nat \ {0}
        /\ \A k \in 1 .. c : /\ (k - 1) * d \in Nat /\ (k - 1) * d < size
                             /\ k < c => k * d < size
                             /\ k * d = (k - 1) * d + d
        /\ size <= c * d
    BY <1>1, <1>3, Division
  <2>2. Blocks(size) = c
    BY <1>3 DEF Blocks
  <2>3. ASSUME NEW k \in 1 .. c
        PROVE  /\ (k - 1) * d \in Nat
               /\ BlockLength(size, k) \in Nat
               /\ (k - 1) * d + BlockLength(size, k) <= size
               /\ k < c => (k - 1) * d + BlockLength(size, k) = (k + 1 - 1) * d
               /\ k = c => (k - 1) * d + BlockLength(size, k) = size
    <3>1. k \in Nat \ {0} /\ k + 1 - 1 = k
      BY <2>1
    <3>2. (k - 1) * d \in Nat /\ (k - 1) * d < size /\ (k < c => k * d < size) /\ k * d = (k - 1) * d + d
      BY <2>1
    <3>3. size - (k - 1) * d \in Int
      BY <3>2
    <3>4. BlockLength(size, k) = IF d <= size - (k - 1) * d THEN d ELSE size - (k - 1) * d
      BY <1>1, <3>3, MinOf DEF BlockLength
    <3>5. k = c => size <= k * d
      BY <2>1
    <3> HIDE DEF d, c
    <3>6. PICK p \in Nat : p = (k - 1) * d
      BY <3>2
    <3> QED
      BY <1>1, <3>1, <3>2, <3>4, <3>5, <3>6
  <2> QED
    BY <2>1, <2>2, <2>3
<1> QED
  BY <1>2, <1>3

(* A stretch of a sequence.                                                *)
LEMMA SubSeqOf ==
  ASSUME NEW S, NEW s \in Seq(S), NEW p \in Nat, NEW n \in Nat, p + n <= Len(s)
  PROVE  /\ SubSeq(s, p + 1, p + n) \in Seq(S) /\ Len(SubSeq(s, p + 1, p + n)) = n
         /\ \A k \in 1 .. n : SubSeq(s, p + 1, p + n)[k] = s[p + k]
<1>1. SubSeq(s, p + 1, p + n) = [k \in 1 .. n |-> s[p + k]]
  <2>1. SubSeq(s, p + 1, p + n) = [k \in 1 .. (p + n) - (p + 1) + 1 |-> s[k + (p + 1) - 1]]
    OBVIOUS
  <2>2. (p + n) - (p + 1) + 1 = n
    OBVIOUS
  <2>3. \A k \in 1 .. n : k + (p + 1) - 1 = p + k
    OBVIOUS
  <2> QED
    BY <2>1, <2>2, <2>3
<1>2. \A k \in 1 .. n : s[p + k] \in S
  OBVIOUS
<1> QED
  BY <1>1, <1>2

(* A function on 1 .. n is a sequence.                                     *)
LEMMA FunctionIsSequence ==
  ASSUME NEW S, NEW n \in Nat, NEW f \in [1 .. n -> S]
  PROVE  f \in Seq(S) /\ Len(f) = n
OBVIOUS

(* Two sequences behind one another.                                       *)
LEMMA Concatenation ==
  ASSUME NEW S, NEW a \in Seq(S), NEW b \in Seq(S)
  PROVE  /\ a \o b \in Seq(S) /\ Len(a \o b) = Len(a) + Len(b)
         /\ \A k \in 1 .. Len(a) : (a \o b)[k] = a[k]
         /\ \A k \in 1 .. Len(b) : (a \o b)[Len(a) + k] = b[k]
         /\ \A k \in Len(a) + 1 .. Len(a) + Len(b) : (a \o b)[k] = b[k - Len(a)]
OBVIOUS

(* readDataBlock_Wrapper reads a table from its start, block after block.  *)
LEMMA ReadBlocks ==
  ASSUME NEW t \in 0 .. 1
  PROVE  /\ ReadDataBlock_Wrapper(t) \in Seq(Step)
         /\ Len(ReadDataBlock_Wrapper(t)) = Blocks(TableSize[t]) /\ Blocks(TableSize[t]) \in Nat \ {0}
         /\ \A k \in 1 .. Blocks(TableSize[t]) :
              ReadDataBlock_Wrapper(t)[k] =
                readDataBlock_OCALL(t, 0, (k - 1) * OCALL_MAXSIZE, BlockLength(TableSize[t], k))
<1>1. TableSize[t] \in Nat
  BY SessionAssumption
<1> DEFINE n == Blocks(TableSize[t])
<1>2. n \in Nat \ {0}
  BY <1>1, BlockBounds
<1>3. ASSUME NEW k \in 1 .. n
      PROVE  readDataBlock_OCALL(t, 0, (k - 1) * OCALL_MAXSIZE, BlockLength(TableSize[t], k)) \in Step
  BY <1>1, BlockBounds DEF readDataBlock_OCALL, Step
<1> HIDE DEF n
<1>4. ReadDataBlock_Wrapper(t) =
        [k \in 1 .. n |-> readDataBlock_OCALL(t, 0, (k - 1) * OCALL_MAXSIZE, BlockLength(TableSize[t], k))]
  BY DEF n, ReadDataBlock_Wrapper
<1> DEFINE r(k) == readDataBlock_OCALL(t, 0, (k - 1) * OCALL_MAXSIZE, BlockLength(TableSize[t], k))
<1> HIDE DEF r
<1>5. \A k \in 1 .. n : r(k) \in Step
  BY <1>3 DEF r
<1>6. ReadDataBlock_Wrapper(t) = [k \in 1 .. n |-> r(k)]
  BY <1>4 DEF r
<1>7. /\ ReadDataBlock_Wrapper(t) \in Seq(Step)
      /\ Len(ReadDataBlock_Wrapper(t)) = n
      /\ \A k \in 1 .. n : ReadDataBlock_Wrapper(t)[k] = r(k)
  BY <1>2, <1>5, <1>6
<1> QED
  BY <1>2, <1>7 DEF n, r

(* writeDataBlock_Wrapper writes from place 0 on, each block behind the    *)
(* last.                                                                   *)
LEMMA WriteBlocks ==
  ASSUME NEW b \in Nat, NEW rows \in Seq(Row)
  PROVE  /\ WriteDataBlock_Wrapper(b, rows) \in Seq(Step)
         /\ Len(WriteDataBlock_Wrapper(b, rows)) \in Nat \ {0}
         /\ \A k \in 1 .. Len(WriteDataBlock_Wrapper(b, rows)) :
              WriteDataBlock_Wrapper(b, rows)[k].op = "writeDataBlock"
         /\ \A k \in 1 .. Len(WriteDataBlock_Wrapper(b, rows)) - 1 :
              Follows(WriteDataBlock_Wrapper(b, rows)[k], WriteDataBlock_Wrapper(b, rows)[k + 1])
         /\ Opening(WriteDataBlock_Wrapper(b, rows)[1])
<1>1. Len(rows) \in Nat /\ OCALL_MAXSIZE \in Nat
  BY SessionAssumption
<1> DEFINE n == Blocks(Len(rows))
           pos(k) == (k - 1) * OCALL_MAXSIZE
           len(k) == BlockLength(Len(rows), k)
           block(k) == SubSeq(rows, pos(k) + 1, pos(k) + len(k))
           w(k) == writeDataBlock_OCALL(b, pos(k), block(k))
           s == WriteDataBlock_Wrapper(b, rows)
<1>2. n \in Nat \ {0}
  BY <1>1, BlockBounds
<1>3. \A k \in 1 .. n : /\ pos(k) \in Nat /\ len(k) \in Nat /\ pos(k) + len(k) <= Len(rows)
                        /\ k < n => pos(k) + len(k) = pos(k + 1)
  BY <1>1, BlockBounds
<1>4. pos(1) = 0
  BY <1>1
<1>5. s = [k \in 1 .. n |-> w(k)]
  BY DEF WriteDataBlock_Wrapper
<1> HIDE DEF n, pos, len
<1>6. \A k \in 1 .. n : block(k) \in Seq(Row) /\ Len(block(k)) = len(k)
  <2>1. \A p \in Nat, l \in Nat : p + l <= Len(rows) =>
          SubSeq(rows, p + 1, p + l) \in Seq(Row) /\ Len(SubSeq(rows, p + 1, p + l)) = l
    BY SubSeqOf
  <2> QED
    BY <1>3, <2>1
<1> HIDE DEF block
<1>7. \A k \in 1 .. n : /\ w(k) \in Step
                        /\ w(k).op = "writeDataBlock" /\ w(k).binID = b /\ w(k).pos = pos(k)
                        /\ w(k).dblock = block(k)
  BY <1>3, <1>6 DEF writeDataBlock_OCALL, Step
<1> HIDE DEF w, s
<1>8. s \in Seq(Step) /\ Len(s) = n /\ \A k \in 1 .. n : s[k] = w(k)
  BY <1>2, <1>5, <1>7
<1>9. \A k \in 1 .. n - 1 : Follows(s[k], s[k + 1])
  <2> SUFFICES ASSUME NEW k \in 1 .. n - 1
               PROVE  Follows(w(k), w(k + 1))
    BY <1>2, <1>8
  <2>1. k \in 1 .. n /\ k + 1 \in 1 .. n /\ k < n
    BY <1>2
  <2>2. w(k + 1).pos = pos(k + 1) /\ w(k).pos = pos(k) /\ Len(w(k).dblock) = len(k)
    BY <1>6, <1>7, <2>1
  <2>3. w(k + 1).pos <= w(k).pos + Len(w(k).dblock)
    BY <1>3, <2>1, <2>2
  <2> QED
    BY <1>7, <2>1, <2>3 DEF Follows
<1>10. Opening(s[1])
  BY <1>2, <1>4, <1>7, <1>8 DEF Opening
<1> QED
  BY <1>2, <1>7, <1>8, <1>9, <1>10 DEF s

(* expandTable makes room in one table and does nothing else.              *)
LEMMA ExpandBlocks ==
  ASSUME NEW t \in 0 .. 1, NEW n \in Nat, NEW d \in Nat \ {0}
  PROVE  /\ ExpandTable(t, n, d) \in Seq(Step)
         /\ \A k \in 1 .. Len(ExpandTable(t, n, d)) :
              ExpandTable(t, n, d)[k].op = "expand_table" /\ ExpandTable(t, n, d)[k].tableID = t
<1> DEFINE c == (n + d - 1) \div d
           noise(k) == Min({d, n - (k - 1) * d})
           x(k) == expand_table_OCALL(t, noise(k))
           s == ExpandTable(t, n, d)
<1>1. c \in Nat /\ \A k \in 1 .. c : (k - 1) * d \in Nat /\ (k - 1) * d < n
  BY Division
<1>2. ASSUME NEW k \in 1 .. c
      PROVE  noise(k) \in Nat
  <2> DEFINE p == (k - 1) * d
  <2>1. p \in Nat /\ p < n
    BY <1>1
  <2>2. noise(k) = IF d <= n - p THEN d ELSE n - p
    BY <2>1, MinOf
  <2> HIDE DEF p, noise, c
  <2> QED
    BY <2>1, <2>2
<1>3. s = [k \in 1 .. c |-> x(k)]
  BY DEF ExpandTable
<1> HIDE DEF c, noise, s
<1>4. \A k \in 1 .. c : x(k) \in Step /\ x(k).op = "expand_table" /\ x(k).tableID = t
  BY <1>2 DEF expand_table_OCALL, Step
<1> HIDE DEF x
<1>5. s \in Seq(Step) /\ Len(s) = c /\ \A k \in 1 .. c : s[k] = x(k)
  BY <1>1, <1>3, <1>4
<1> QED
  BY <1>4, <1>5 DEF s

-----------------------------------------------------------------------------
(* What the handlers do to a storage.                                      *)
LEMMA RowsNotNoise ==
  /\ Dummy \in Row /\ Blank \in Row
BY DEF Dummy, Blank, Row

(* Rows put under a number replace those it had and no others.             *)
LEMMA PutRows ==
  ASSUME NEW map, Storage(map), NEW id \in Nat, NEW rows \in Seq(Row)
  PROVE  /\ Storage(With(map, id, rows))
         /\ DOMAIN With(map, id, rows) = {id} \cup DOMAIN map
         /\ With(map, id, rows)[id] = rows
         /\ \A other \in DOMAIN map \ {id} : With(map, id, rows)[other] = map[other]
BY DEF Storage, With

(* What is taken out of a storage is gone, the rest stays.                 *)
LEMMA TakeOut ==
  ASSUME NEW map, Storage(map), NEW id
  PROVE  /\ Storage(Without(map, id))
         /\ DOMAIN Without(map, id) = DOMAIN map \ {id}
         /\ \A other \in DOMAIN map \ {id} : Without(map, id)[other] = map[other]
BY DEF Storage, Without

(* A storage with nothing in it is a storage.                              *)
LEMMA EmptyStorage ==
  Storage(NoStorage) /\ DOMAIN NoStorage = {}
BY DEF Storage, NoStorage

(* resize gives rows; it makes a table longer without a choice.            *)
LEMMA ResizedRows ==
  ASSUME NEW rows \in Seq(Row), NEW size \in Nat
  PROVE  /\ Resized(rows, size) \subseteq Seq(Row)
         /\ Len(rows) <= size => Resized(rows, size) = {rows}
<1>1. Len(rows) \in Nat
  OBVIOUS
<1>2. CASE Len(rows) <= size
  BY <1>2 DEF Resized, Size
<1>3. CASE ~(Len(rows) <= size)
  <2>1. ASSUME NEW erased \in SUBSET (1 .. size)
        PROVE  [k \in 1 .. size |-> IF k \in erased THEN Blank ELSE rows[k]] \in Seq(Row)
    <3>1. \A k \in 1 .. size : (IF k \in erased THEN Blank ELSE rows[k]) \in Row
      BY <1>1, <1>3, RowsNotNoise
    <3> QED
      BY <3>1
  <2> QED
    BY <1>3, <2>1 DEF Resized, Size
<1> QED
  BY <1>2, <1>3

(* A block that is read has as many rows as were asked for.                *)
LEMMA BlockRead ==
  ASSUME NEW rows \in Seq(Row), NEW pos \in Nat, NEW n \in Nat
  PROVE  /\ DataBlock(rows, pos, n) \in Seq(Row) /\ Len(DataBlock(rows, pos, n)) = n
         /\ pos + n <= Len(rows) => \A k \in 1 .. n : DataBlock(rows, pos, n)[k] = rows[pos + k]
<1> DEFINE r(k) == IF pos + k <= Len(rows) THEN rows[pos + k] ELSE Blank
<1>1. \A k \in 1 .. n : r(k) \in Row
  BY RowsNotNoise
<1>2. DataBlock(rows, pos, n) = [k \in 1 .. n |-> r(k)]
  BY DEF DataBlock, Size
<1>3. pos + n <= Len(rows) => \A k \in 1 .. n : r(k) = rows[pos + k]
  OBVIOUS
<1> HIDE DEF r
<1> QED
  BY <1>1, <1>2, <1>3

(* A block that is written replaces what lay at its places and no more.    *)
LEMMA StoredRows ==
  ASSUME NEW rows \in Seq(Row), NEW pos \in Nat, pos <= Len(rows), NEW block \in Seq(Row)
  PROVE  LET new == Stored(rows, pos, block) IN
         /\ new \in Seq(Row)
         /\ Len(new) = IF pos + Len(block) > Len(rows) THEN pos + Len(block) ELSE Len(rows)
         /\ \A k \in 1 .. pos : new[k] = rows[k]
         /\ \A k \in 1 .. Len(block) : new[pos + k] = block[k]
         /\ \A k \in pos + Len(block) + 1 .. Len(rows) : new[k] = rows[k]
<1> DEFINE n == Len(block)
           m == Len(rows)
           a == SubSeq(rows, 1, pos)
           c == SubSeq(rows, pos + n + 1, m)
<1>1. n \in Nat /\ m \in Nat
  OBVIOUS
<1>2. a \in Seq(Row) /\ Len(a) = pos /\ \A k \in 1 .. pos : a[k] = rows[k]
  <2>1. a = SubSeq(rows, 0 + 1, 0 + pos)
    OBVIOUS
  <2> HIDE DEF a
  <2> QED
    BY <1>1, <2>1, SubSeqOf
<1>3. /\ c \in Seq(Row) /\ Len(c) = IF pos + n > m THEN 0 ELSE m - (pos + n)
      /\ \A k \in 1 .. Len(c) : c[k] = rows[pos + n + k]
  <2>1. CASE pos + n > m
    <3>1. c = <<>>
      BY <1>1, <2>1 
    <3> QED
      BY <2>1, <3>1
  <2>2. CASE pos + n <= m
    <3> DEFINE p == pos + n
               l == m - p
    <3>1. p \in Nat /\ l \in Nat /\ p + l = m
      BY <1>1, <2>2
    <3>2. c = SubSeq(rows, p + 1, p + l)
      BY <3>1
    <3> HIDE DEF c, p, l
    <3>3. c \in Seq(Row) /\ Len(c) = l /\ \A k \in 1 .. l : c[k] = rows[p + k]
      BY <3>1, <3>2, SubSeqOf
    <3> QED
      BY <2>2, <3>1, <3>3 DEF p, l
  <2> QED
    BY <1>1, <2>1, <2>2
<1>4. Stored(rows, pos, block) = a \o block \o c
  BY DEF Stored, Size
<1> HIDE DEF a, c
<1>5. /\ a \o block \in Seq(Row) /\ Len(a \o block) = pos + n
      /\ \A k \in 1 .. pos : (a \o block)[k] = a[k]
      /\ \A k \in 1 .. n : (a \o block)[pos + k] = block[k]
  BY <1>1, <1>2
<1>6. /\ a \o block \o c \in Seq(Row) /\ Len(a \o block \o c) = pos + n + Len(c)
      /\ \A k \in 1 .. pos + n : (a \o block \o c)[k] = (a \o block)[k]
      /\ \A k \in 1 .. Len(c) : (a \o block \o c)[pos + n + k] = c[k]
  <2> DEFINE ab == a \o block
  <2>1. ab \in Seq(Row) /\ Len(ab) = pos + n
    BY <1>5
  <2> HIDE DEF ab, n, m
  <2>2. /\ ab \o c \in Seq(Row) /\ Len(ab \o c) = pos + n + Len(c)
        /\ \A k \in 1 .. pos + n : (ab \o c)[k] = ab[k]
        /\ \A k \in 1 .. Len(c) : (ab \o c)[pos + n + k] = c[k]
    <3>1. /\ ab \o c \in Seq(Row) /\ Len(ab \o c) = Len(ab) + Len(c)
          /\ \A k \in 1 .. Len(ab) : (ab \o c)[k] = ab[k]
          /\ \A k \in 1 .. Len(c) : (ab \o c)[Len(ab) + k] = c[k]
      <4>1. c \in Seq(Row) /\ ab \in Seq(Row)
        BY <1>3, <2>1
      <4> QED
        BY <4>1, Concatenation
    <3> QED
      BY <2>1, <3>1
  <2> QED
    BY <2>2 DEF ab
<1>7. \A k \in 1 .. pos : (a \o block \o c)[k] = rows[k]
  BY <1>1, <1>2, <1>5, <1>6
<1>8. \A k \in 1 .. n : (a \o block \o c)[pos + k] = block[k]
  BY <1>1, <1>5, <1>6
<1>9. \A k \in pos + n + 1 .. m : (a \o block \o c)[k] = rows[k]
  <2> SUFFICES ASSUME NEW k \in pos + n + 1 .. m
               PROVE  (a \o block \o c)[k] = rows[k]
    OBVIOUS
  <2>1. k - (pos + n) \in 1 .. Len(c) /\ pos + n + (k - (pos + n)) = k
    BY <1>1, <1>3
  <2> QED
    BY <1>3, <1>6, <2>1
<1> QED
  <2>1. Len(a \o block \o c) = IF pos + n > m THEN pos + n ELSE m
    <3>1. Len(a \o block \o c) = pos + n + Len(c) /\ Len(c) = IF pos + n > m THEN 0 ELSE m - (pos + n)
      BY <1>3, <1>6
    <3> HIDE DEF n, m
    <3> QED
      BY <1>1, <3>1
  <2> QED
    BY <1>4, <1>6, <1>7, <1>8, <1>9, <2>1

-----------------------------------------------------------------------------
(* The ECALLs of a session come in stages; only those of the first and the *)
(* last are made more than once.                                           *)
Loading == {"extractMeta", "extractData"}
Making == {"createPDS", "initJoinPDS", "createJoinBuckets", "createCZSC"}
Stage(name) ==
  IF name \in Loading THEN 1
  ELSE IF name = "initHTree" THEN 2
  ELSE IF name \in Making THEN 3
  ELSE IF name = "createJoinPDS" THEN 4
  ELSE IF name = "buildIndex" THEN 5
  ELSE 6

Before(c, d) ==
  \/ Stage(c.name) < Stage(d.name)
  \/ Stage(c.name) = Stage(d.name) /\ Stage(c.name) \in {1, 6}

(* The ECALLs that a usage has.                                            *)
Fits(c) ==
  /\ c.name \in Loading \cup Making \cup
       {"initHTree", "createJoinPDS", "buildIndex", "idxSelect", "innerJoin", "pfJoin", "czscJoin",
        "joinCompact"}
  /\ c.name = "extractMeta" => usage.op = "select" /\ usage.jt = "DO" /\ c.arg = 0
  /\ c.name = "createPDS" => usage.op = "select" /\ usage.jt = "DO"
  /\ c.name \in {"extractData", "initHTree", "createJoinBuckets"} => usage.jt = "HTree"
  /\ c.name = "extractData" => c.arg \in TableIDs
  /\ c.name \in {"initJoinPDS", "createJoinPDS"} => usage.op # "select" /\ usage.jt = "DO"
  /\ c.name \in {"createCZSC", "czscJoin"} => usage.jt = "CZSC21" /\ usage.op # "select"
  /\ c.name \in {"buildIndex", "idxSelect"} => usage.op = "select"
  /\ c.name \in {"innerJoin", "pfJoin", "joinCompact"} => usage.op # "select"
  /\ c.name = "innerJoin" => usage.jt # "CZSC21"

(* What an ECALL relies on comes before it.                                *)
Comes(name, k) == \E l \in 1 .. k - 1 : calls[l].name = name

CallsInv ==
  /\ usage \in Usages
  /\ calls \in Seq(EcallRecord) /\ call \in EcallRecord
  /\ \A k \in 1 .. Len(calls) : Fits(calls[k])
  /\ \A k, l \in 1 .. Len(calls) : k < l => Before(calls[k], calls[l])
  /\ call # NoCall => Fits(call) /\ \A k \in 1 .. Len(calls) : Before(call, calls[k])

(* A command line, and what README.md says of it.                          *)
LEMMA UsageFields ==
  ASSUME usage \in Usages
  PROVE  /\ usage.op \in {"select", "join", "select-join"}
         /\ usage.jt \in {"DO", "HTree", "CZSC21"} /\ usage.pf \in BOOLEAN
         /\ usage.op = "select" => usage.jt # "CZSC21" /\ ~usage.pf
         /\ usage.op = "select-join" => usage.jt = "HTree"
BY SessionAssumption

(* The lists of ECALLs, place by place.                                    *)
LEMMA CallRecord ==
  ASSUME NEW name \in Names, NEW arg \in Nat
  PROVE  Ecall(name, arg) \in EcallRecord /\ Ecall(name, arg).name = name /\ Ecall(name, arg).arg = arg
BY DEF Ecall, EcallRecord

(* The ECALLs of a selection on a decomposition tree.                      *)
LEMMA SelectDO ==
  ASSUME NEW n \in Nat
  PROVE  LET s == SelectCalls("DO", n) IN
         /\ s \in Seq(EcallRecord) /\ Len(s) = 3 + n
         /\ s[1] = Ecall("extractMeta", 0) /\ s[2] = Ecall("createPDS", 0)
         /\ s[3] = Ecall("buildIndex", 0)
         /\ \A k \in 4 .. 3 + n : s[k] = Ecall("idxSelect", k - 3)
<1> DEFINE q == [k \in 1 .. n |-> Ecall("idxSelect", k)]
           a == <<Ecall("extractMeta", 0), Ecall("createPDS", 0)>>
           b == <<Ecall("buildIndex", 0)>>
<1>1. SelectCalls("DO", n) = a \o b \o q
  BY DEF SelectCalls
<1>2. q \in Seq(EcallRecord) /\ Len(q) = n /\ \A k \in 1 .. n : q[k] = Ecall("idxSelect", k)
  <2>1. \A k \in 1 .. n : Ecall("idxSelect", k) \in EcallRecord
    BY CallRecord DEF Names
  <2> QED
    BY <2>1
<1> HIDE DEF q
<1>3. a \in Seq(EcallRecord) /\ b \in Seq(EcallRecord)
  BY DEF Ecall, EcallRecord, Names
<1>4. /\ a \o b \in Seq(EcallRecord) /\ Len(a \o b) = 3
      /\ (a \o b)[1] = a[1] /\ (a \o b)[2] = a[2] /\ (a \o b)[3] = b[1]
  BY <1>3
<1> DEFINE ab == a \o b
<1>5. ab \in Seq(EcallRecord) /\ Len(ab) = 3
  BY <1>4
<1>6. ab[1] = Ecall("extractMeta", 0) /\ ab[2] = Ecall("createPDS", 0) /\ ab[3] = Ecall("buildIndex", 0)
  BY <1>4
<1> HIDE DEF ab
<1>7. /\ ab \o q \in Seq(EcallRecord) /\ Len(ab \o q) = 3 + n
      /\ \A k \in 1 .. 3 : (ab \o q)[k] = ab[k]
      /\ \A k \in 4 .. 3 + n : (ab \o q)[k] = q[k - 3]
  <2>1. ab \in Seq(EcallRecord) /\ q \in Seq(EcallRecord)
    BY <1>2, <1>5
  <2>2. /\ ab \o q \in Seq(EcallRecord) /\ Len(ab \o q) = Len(ab) + Len(q)
        /\ \A k \in 1 .. Len(ab) : (ab \o q)[k] = ab[k]
        /\ \A k \in Len(ab) + 1 .. Len(ab) + Len(q) : (ab \o q)[k] = q[k - Len(ab)]
    BY <2>1, Concatenation
  <2> QED
    BY <1>2, <1>5, <2>2
<1>8. \A k \in 4 .. 3 + n : (ab \o q)[k] = Ecall("idxSelect", k - 3)
  BY <1>2, <1>7
<1> DEFINE s == ab \o q
<1>9. SelectCalls("DO", n) = s
  BY <1>1 DEF ab
<1>10. /\ s \in Seq(EcallRecord) /\ Len(s) = 3 + n
       /\ \A k \in 1 .. 3 : s[k] = ab[k]
       /\ \A k \in 4 .. 3 + n : s[k] = Ecall("idxSelect", k - 3)
  BY <1>7, <1>8
<1> HIDE DEF s
<1> QED
  BY <1>6, <1>9, <1>10

(* The ECALLs of a selection on a histogram.                               *)
LEMMA SelectHTree ==
  ASSUME NEW n \in Nat
  PROVE  LET s == SelectCalls("HTree", n) IN
         /\ s \in Seq(EcallRecord) /\ Len(s) = 4 + n
         /\ s[1] = Ecall("extractData", 0) /\ s[2] = Ecall("initHTree", 0)
         /\ s[3] = Ecall("createJoinBuckets", 0) /\ s[4] = Ecall("buildIndex", 0)
         /\ \A k \in 5 .. 4 + n : s[k] = Ecall("idxSelect", k - 4)
<1> DEFINE q == [k \in 1 .. n |-> Ecall("idxSelect", k)]
           a == <<Ecall("extractData", 0), Ecall("initHTree", 0), Ecall("createJoinBuckets", 0)>>
           b == <<Ecall("buildIndex", 0)>>
<1>1. SelectCalls("HTree", n) = a \o b \o q
  BY DEF SelectCalls
<1>2. q \in Seq(EcallRecord) /\ Len(q) = n /\ \A k \in 1 .. n : q[k] = Ecall("idxSelect", k)
  <2>1. \A k \in 1 .. n : Ecall("idxSelect", k) \in EcallRecord
    BY CallRecord DEF Names
  <2> QED
    BY <2>1
<1> HIDE DEF q
<1>3. a \in Seq(EcallRecord) /\ b \in Seq(EcallRecord)
  BY DEF Ecall, EcallRecord, Names
<1>4. /\ a \o b \in Seq(EcallRecord) /\ Len(a \o b) = 4
      /\ (a \o b)[1] = a[1] /\ (a \o b)[2] = a[2] /\ (a \o b)[3] = a[3] /\ (a \o b)[4] = b[1]
  BY <1>3
<1> DEFINE ab == a \o b
<1>5. ab \in Seq(EcallRecord) /\ Len(ab) = 4
  BY <1>4
<1>6. /\ ab[1] = Ecall("extractData", 0) /\ ab[2] = Ecall("initHTree", 0)
      /\ ab[3] = Ecall("createJoinBuckets", 0) /\ ab[4] = Ecall("buildIndex", 0)
  BY <1>4
<1> HIDE DEF ab
<1>7. /\ ab \o q \in Seq(EcallRecord) /\ Len(ab \o q) = 4 + n
      /\ \A k \in 1 .. 4 : (ab \o q)[k] = ab[k]
      /\ \A k \in 5 .. 4 + n : (ab \o q)[k] = q[k - 4]
  <2>1. ab \in Seq(EcallRecord) /\ q \in Seq(EcallRecord)
    BY <1>2, <1>5
  <2>2. /\ ab \o q \in Seq(EcallRecord) /\ Len(ab \o q) = Len(ab) + Len(q)
        /\ \A k \in 1 .. Len(ab) : (ab \o q)[k] = ab[k]
        /\ \A k \in Len(ab) + 1 .. Len(ab) + Len(q) : (ab \o q)[k] = q[k - Len(ab)]
    BY <2>1, Concatenation
  <2> QED
    BY <1>2, <1>5, <2>2
<1>8. \A k \in 5 .. 4 + n : (ab \o q)[k] = Ecall("idxSelect", k - 4)
  BY <1>2, <1>7
<1> DEFINE s == ab \o q
<1>9. SelectCalls("HTree", n) = s
  BY <1>1 DEF ab
<1>10. /\ s \in Seq(EcallRecord) /\ Len(s) = 4 + n
       /\ \A k \in 1 .. 4 : s[k] = ab[k]
       /\ \A k \in 5 .. 4 + n : s[k] = Ecall("idxSelect", k - 4)
  BY <1>7, <1>8
<1> HIDE DEF s
<1> QED
  BY <1>6, <1>9, <1>10

JoinsOf(jt, pf, queries) ==
  IF pf THEN <<Ecall(IF jt = "CZSC21" THEN "czscJoin" ELSE "pfJoin", 1)>>
  ELSE [k \in 1 .. 2 * (IF jt = "CZSC21" THEN 1 ELSE queries) |->
          IF k % 2 = 0 THEN Ecall("joinCompact", k \div 2)
          ELSE Ecall(IF jt = "CZSC21" THEN "czscJoin" ELSE "innerJoin", (k + 1) \div 2)]

(* The ECALLs that join and bring together what was joined.                *)
LEMMA JoinsShape ==
  ASSUME NEW jt, NEW pf \in BOOLEAN, NEW n \in Nat
  PROVE  LET q == JoinsOf(jt, pf, n) IN
         /\ q \in Seq(EcallRecord)
         /\ \A k \in 1 .. Len(q) : q[k].name \in IF jt = "CZSC21" THEN {"czscJoin", "joinCompact"}
                                                 ELSE {"innerJoin", "pfJoin", "joinCompact"}
<1> DEFINE names == IF jt = "CZSC21" THEN {"czscJoin", "joinCompact"} ELSE {"innerJoin", "pfJoin", "joinCompact"}
<1>1. CASE pf
  <2>1. JoinsOf(jt, pf, n) = <<Ecall(IF jt = "CZSC21" THEN "czscJoin" ELSE "pfJoin", 1)>>
    BY <1>1 DEF JoinsOf
  <2> QED
    BY <2>1 DEF Ecall, EcallRecord, Names
<1>2. CASE ~pf
  <2> DEFINE m == 2 * (IF jt = "CZSC21" THEN 1 ELSE n)
             e(k) == IF k % 2 = 0 THEN Ecall("joinCompact", k \div 2)
                     ELSE Ecall(IF jt = "CZSC21" THEN "czscJoin" ELSE "innerJoin", (k + 1) \div 2)
  <2>1. JoinsOf(jt, pf, n) = [k \in 1 .. m |-> e(k)]
    BY <1>2 DEF JoinsOf
  <2>2. m \in Nat
    OBVIOUS
  <2>3. ASSUME NEW k \in 1 .. m
        PROVE  e(k) \in EcallRecord /\ e(k).name \in names
    <3>1. k \div 2 \in Nat /\ (k + 1) \div 2 \in Nat
      BY <2>2
    <3> QED
      BY <3>1 DEF Ecall, EcallRecord, Names
  <2> HIDE DEF m, e
  <2> QED
    BY <2>1, <2>2, <2>3
<1> QED
  BY <1>1, <1>2

(* The ECALLs of a join on decomposition trees.                            *)
LEMMA JoinDO ==
  ASSUME NEW n \in Nat, NEW pf \in BOOLEAN
  PROVE  LET s == JoinCalls("DO", pf, n) IN
         /\ s \in Seq(EcallRecord) /\ Len(s) >= 2
         /\ s[1] = Ecall("initJoinPDS", 0) /\ s[2] = Ecall("createJoinPDS", 0)
         /\ \A k \in 3 .. Len(s) : s[k].name \in {"innerJoin", "pfJoin", "joinCompact"}
<1> DEFINE a == <<Ecall("initJoinPDS", 0), Ecall("createJoinPDS", 0)>>
           q == JoinsOf("DO", pf, n)
<1>1. JoinCalls("DO", pf, n) = a \o q
  BY DEF JoinCalls, JoinsOf
<1>2. a \in Seq(EcallRecord) /\ Len(a) = 2
  BY DEF Ecall, EcallRecord, Names
<1>3. a[1] = Ecall("initJoinPDS", 0) /\ a[2] = Ecall("createJoinPDS", 0)
  OBVIOUS
<1>4. q \in Seq(EcallRecord) /\ \A k \in 1 .. Len(q) : q[k].name \in {"innerJoin", "pfJoin", "joinCompact"}
  BY JoinsShape
<1> HIDE DEF a, q
<1>5. /\ a \o q \in Seq(EcallRecord) /\ Len(a \o q) = Len(a) + Len(q)
      /\ \A k \in 1 .. Len(a) : (a \o q)[k] = a[k]
      /\ \A k \in Len(a) + 1 .. Len(a) + Len(q) : (a \o q)[k] = q[k - Len(a)]
  <2>1. a \in Seq(EcallRecord) /\ q \in Seq(EcallRecord)
    BY <1>2, <1>4
  <2> QED
    BY <2>1, Concatenation
<1>6. Len(q) \in Nat
  BY <1>4
<1>7. \A k \in 3 .. Len(a \o q) : (a \o q)[k].name \in {"innerJoin", "pfJoin", "joinCompact"}
  BY <1>2, <1>4, <1>5, <1>6
<1> DEFINE s == a \o q
<1>8. /\ s \in Seq(EcallRecord) /\ Len(s) = Len(a) + Len(q)
      /\ \A k \in 1 .. Len(a) : s[k] = a[k]
      /\ \A k \in 3 .. Len(s) : s[k].name \in {"innerJoin", "pfJoin", "joinCompact"}
  BY <1>5, <1>7
<1>9. JoinCalls("DO", pf, n) = s
  BY <1>1
<1> HIDE DEF s
<1> QED
  BY <1>2, <1>3, <1>6, <1>8, <1>9

(* The ECALLs of a join on histograms.                                     *)
LEMMA JoinHTree ==
  ASSUME NEW n \in Nat, NEW pf \in BOOLEAN
  PROVE  LET s == JoinCalls("HTree", pf, n) IN
         /\ s \in Seq(EcallRecord) /\ Len(s) >= 4
         /\ s[1] = Ecall("extractData", 0) /\ s[2] = Ecall("extractData", 1) /\ s[3] = Ecall("initHTree", 0) /\ s[4] = Ecall("createJoinBuckets", 0)
         /\ \A k \in 5 .. Len(s) : s[k].name \in {"innerJoin", "pfJoin", "joinCompact"}
<1> DEFINE a == <<Ecall("extractData", 0), Ecall("extractData", 1), Ecall("initHTree", 0), Ecall("createJoinBuckets", 0)>>
           q == JoinsOf("HTree", pf, n)
<1>1. JoinCalls("HTree", pf, n) = a \o q
  BY DEF JoinCalls, JoinsOf
<1>2. a \in Seq(EcallRecord) /\ Len(a) = 4
  BY DEF Ecall, EcallRecord, Names
<1>3. a[1] = Ecall("extractData", 0) /\ a[2] = Ecall("extractData", 1) /\ a[3] = Ecall("initHTree", 0) /\ a[4] = Ecall("createJoinBuckets", 0)
  OBVIOUS
<1>4. q \in Seq(EcallRecord) /\ \A k \in 1 .. Len(q) : q[k].name \in {"innerJoin", "pfJoin", "joinCompact"}
  BY JoinsShape
<1> HIDE DEF a, q
<1>5. /\ a \o q \in Seq(EcallRecord) /\ Len(a \o q) = Len(a) + Len(q)
      /\ \A k \in 1 .. Len(a) : (a \o q)[k] = a[k]
      /\ \A k \in Len(a) + 1 .. Len(a) + Len(q) : (a \o q)[k] = q[k - Len(a)]
  <2>1. a \in Seq(EcallRecord) /\ q \in Seq(EcallRecord)
    BY <1>2, <1>4
  <2> QED
    BY <2>1, Concatenation
<1>6. Len(q) \in Nat
  BY <1>4
<1>7. \A k \in 5 .. Len(a \o q) : (a \o q)[k].name \in {"innerJoin", "pfJoin", "joinCompact"}
  BY <1>2, <1>4, <1>5, <1>6
<1> DEFINE s == a \o q
<1>8. /\ s \in Seq(EcallRecord) /\ Len(s) = Len(a) + Len(q)
      /\ \A k \in 1 .. Len(a) : s[k] = a[k]
      /\ \A k \in 5 .. Len(s) : s[k].name \in {"innerJoin", "pfJoin", "joinCompact"}
  BY <1>5, <1>7
<1>9. JoinCalls("HTree", pf, n) = s
  BY <1>1
<1> HIDE DEF s
<1> QED
  BY <1>2, <1>3, <1>6, <1>8, <1>9

(* The ECALLs of a join on sparse bins.                                    *)
LEMMA JoinCZSC21 ==
  ASSUME NEW n \in Nat, NEW pf \in BOOLEAN
  PROVE  LET s == JoinCalls("CZSC21", pf, n) IN
         /\ s \in Seq(EcallRecord) /\ Len(s) >= 1
         /\ s[1] = Ecall("createCZSC", 0)
         /\ \A k \in 2 .. Len(s) : s[k].name \in {"czscJoin", "joinCompact"}
<1> DEFINE a == <<Ecall("createCZSC", 0)>>
           q == JoinsOf("CZSC21", pf, n)
<1>1. JoinCalls("CZSC21", pf, n) = a \o q
  BY DEF JoinCalls, JoinsOf
<1>2. a \in Seq(EcallRecord) /\ Len(a) = 1
  BY DEF Ecall, EcallRecord, Names
<1>3. a[1] = Ecall("createCZSC", 0)
  OBVIOUS
<1>4. q \in Seq(EcallRecord) /\ \A k \in 1 .. Len(q) : q[k].name \in {"czscJoin", "joinCompact"}
  BY JoinsShape
<1> HIDE DEF a, q
<1>5. /\ a \o q \in Seq(EcallRecord) /\ Len(a \o q) = Len(a) + Len(q)
      /\ \A k \in 1 .. Len(a) : (a \o q)[k] = a[k]
      /\ \A k \in Len(a) + 1 .. Len(a) + Len(q) : (a \o q)[k] = q[k - Len(a)]
  <2>1. a \in Seq(EcallRecord) /\ q \in Seq(EcallRecord)
    BY <1>2, <1>4
  <2> QED
    BY <2>1, Concatenation
<1>6. Len(q) \in Nat
  BY <1>4
<1>7. \A k \in 2 .. Len(a \o q) : (a \o q)[k].name \in {"czscJoin", "joinCompact"}
  BY <1>2, <1>4, <1>5, <1>6
<1> DEFINE s == a \o q
<1>8. /\ s \in Seq(EcallRecord) /\ Len(s) = Len(a) + Len(q)
      /\ \A k \in 1 .. Len(a) : s[k] = a[k]
      /\ \A k \in 2 .. Len(s) : s[k].name \in {"czscJoin", "joinCompact"}
  BY <1>5, <1>7
<1>9. JoinCalls("CZSC21", pf, n) = s
  BY <1>1
<1> HIDE DEF s
<1> QED
  BY <1>2, <1>3, <1>6, <1>8, <1>9

(* ECALLs that prepare, each of a later stage, and then ECALLs that ask.   *)
LEMMA StageOrder ==
  ASSUME NEW s, NEW h \in Nat, Len(s) \in Nat,
         \A k \in 1 .. h : Stage(s[k].name) \in 1 .. 5,
         \A k, l \in 1 .. h : k < l => Before(s[k], s[l]),
         \A k \in h + 1 .. Len(s) : Stage(s[k].name) = 6
  PROVE  \A k, l \in 1 .. Len(s) : k < l => Before(s[k], s[l])
<1> SUFFICES ASSUME NEW k \in 1 .. Len(s), NEW l \in 1 .. Len(s), k < l
             PROVE  Before(s[k], s[l])
  OBVIOUS
<1>1. CASE l <= h
  BY <1>1
<1>2. CASE l > h /\ k > h
  BY <1>2 DEF Before
<1>3. CASE l > h /\ k <= h
  BY <1>3 DEF Before
<1> QED
  BY <1>1, <1>2, <1>3

(* The ECALLs main starts with fit its usage, each behind those it relies  *)
(* on.                                                                     *)
LEMMA CallsInit ==
  ASSUME SessionInit
  PROVE  CallsInv
<1>1. PICK n \in 1 .. MaxQueries :
        calls = IF usage.op = "select" THEN SelectCalls(usage.jt, n)
                ELSE JoinCalls(usage.jt, usage.pf, IF usage.op = "join" THEN 1 ELSE n)
  BY DEF SessionInit
<1>2. n \in Nat /\ MaxQueries \in Nat
  BY SessionAssumption
<1>3. usage \in Usages /\ call = NoCall /\ call \in EcallRecord
  BY DEF SessionInit, NoCall, Ecall, EcallRecord, Names
<1>4. /\ usage.op \in {"select", "join", "select-join"} /\ usage.jt \in {"DO", "HTree", "CZSC21"}
      /\ usage.pf \in BOOLEAN
      /\ usage.op = "select" => usage.jt # "CZSC21"
  BY <1>3, UsageFields
<1> SUFFICES /\ calls \in Seq(EcallRecord)
             /\ \A k \in 1 .. Len(calls) : Fits(calls[k])
             /\ \A k, l \in 1 .. Len(calls) : k < l => Before(calls[k], calls[l])
  BY <1>3 DEF CallsInv
<1>5. CASE usage.op = "select" /\ usage.jt = "DO"
  <2>1. /\ calls \in Seq(EcallRecord) /\ Len(calls) >= 3
        /\ calls[1].name = "extractMeta" /\ calls[1].arg = 0
        /\ calls[2].name = "createPDS" /\ calls[2].arg = 0
        /\ calls[3].name = "buildIndex" /\ calls[3].arg = 0
        /\ \A k \in 4 .. Len(calls) : calls[k].name \in {"idxSelect"}
    <3>1. calls = SelectCalls("DO", n)
      BY <1>1, <1>5
    <3>2. \A name, a : Ecall(name, a).name = name /\ Ecall(name, a).arg = a
      BY DEF Ecall
    <3> QED
      <4>1. LET s == SelectCalls("DO", n) IN
         /\ s \in Seq(EcallRecord) /\ Len(s) = 3 + n
         /\ s[1] = Ecall("extractMeta", 0) /\ s[2] = Ecall("createPDS", 0)
         /\ s[3] = Ecall("buildIndex", 0)
         /\ \A k \in 4 .. 3 + n : s[k] = Ecall("idxSelect", k - 3)
        BY <1>2, SelectDO
      <4>2. calls \in Seq(EcallRecord) /\ Len(calls) = 3 + n
        BY <3>1, <4>1
      <4>3. calls[1] = Ecall("extractMeta", 0) /\ calls[2] = Ecall("createPDS", 0) /\ calls[3] = Ecall("buildIndex", 0)
        BY <3>1, <4>1
      <4>4. \A k \in 4 .. 3 + n : calls[k] = Ecall("idxSelect", k - 3)
        BY <3>1, <4>1
      <4> QED
        BY <1>2, <3>2, <4>2, <4>3, <4>4
  <2>2. ASSUME NEW k \in 1 .. Len(calls)
        PROVE  Fits(calls[k])
    <3>1. k = 1 \/ k = 2 \/ k = 3 \/ k \in 4 .. Len(calls)
      BY <2>1
    <3> QED
      BY <1>4, <1>5, <2>1, <3>1 DEF Fits, Loading, Making, TableIDs
  <2>3. \A k, l \in 1 .. Len(calls) : k < l => Before(calls[k], calls[l])
    <3>1. Stage(calls[1].name) = 1 /\ Stage(calls[2].name) = 3 /\ Stage(calls[3].name) = 5
      BY <2>1 DEF Stage, Loading, Making
    <3>2. \A k \in 1 .. 3 : Stage(calls[k].name) \in 1 .. 5
      BY <3>1
    <3>3. \A k, l \in 1 .. 3 : k < l => Before(calls[k], calls[l])
      BY <3>1 DEF Before
    <3>4. \A j \in 3 + 1 .. Len(calls) : Stage(calls[j].name) = 6
      BY <2>1 DEF Stage, Loading, Making
    <3>5. Len(calls) \in Nat
      BY <2>1
    <3> QED
      BY <3>2, <3>3, <3>4, <3>5, StageOrder
  <2> QED
    BY <2>1, <2>2, <2>3
<1>6. CASE usage.op = "select" /\ usage.jt = "HTree"
  <2>1. /\ calls \in Seq(EcallRecord) /\ Len(calls) >= 4
        /\ calls[1].name = "extractData" /\ calls[1].arg = 0
        /\ calls[2].name = "initHTree" /\ calls[2].arg = 0
        /\ calls[3].name = "createJoinBuckets" /\ calls[3].arg = 0
        /\ calls[4].name = "buildIndex" /\ calls[4].arg = 0
        /\ \A k \in 5 .. Len(calls) : calls[k].name \in {"idxSelect"}
    <3>1. calls = SelectCalls("HTree", n)
      BY <1>1, <1>6
    <3>2. \A name, a : Ecall(name, a).name = name /\ Ecall(name, a).arg = a
      BY DEF Ecall
    <3> QED
      <4>1. LET s == SelectCalls("HTree", n) IN
         /\ s \in Seq(EcallRecord) /\ Len(s) = 4 + n
         /\ s[1] = Ecall("extractData", 0) /\ s[2] = Ecall("initHTree", 0) /\ s[3] = Ecall("createJoinBuckets", 0) /\ s[4] = Ecall("buildIndex", 0)
         /\ \A k \in 5 .. 4 + n : s[k] = Ecall("idxSelect", k - 4)
        BY <1>2, SelectHTree
      <4>2. calls \in Seq(EcallRecord) /\ Len(calls) = 4 + n
        BY <3>1, <4>1
      <4>3. calls[1] = Ecall("extractData", 0) /\ calls[2] = Ecall("initHTree", 0) /\ calls[3] = Ecall("createJoinBuckets", 0) /\ calls[4] = Ecall("buildIndex", 0)
        BY <3>1, <4>1
      <4>4. \A k \in 5 .. 4 + n : calls[k] = Ecall("idxSelect", k - 4)
        BY <3>1, <4>1
      <4> QED
        BY <1>2, <3>2, <4>2, <4>3, <4>4
  <2>2. ASSUME NEW k \in 1 .. Len(calls)
        PROVE  Fits(calls[k])
    <3>1. k = 1 \/ k = 2 \/ k = 3 \/ k = 4 \/ k \in 5 .. Len(calls)
      BY <2>1
    <3> QED
      BY <1>4, <1>6, <2>1, <3>1 DEF Fits, Loading, Making, TableIDs
  <2>3. \A k, l \in 1 .. Len(calls) : k < l => Before(calls[k], calls[l])
    <3>1. Stage(calls[1].name) = 1 /\ Stage(calls[2].name) = 2 /\ Stage(calls[3].name) = 3 /\ Stage(calls[4].name) = 5
      BY <2>1 DEF Stage, Loading, Making
    <3>2. \A k \in 1 .. 4 : Stage(calls[k].name) \in 1 .. 5
      BY <3>1
    <3>3. \A k, l \in 1 .. 4 : k < l => Before(calls[k], calls[l])
      BY <3>1 DEF Before
    <3>4. \A j \in 4 + 1 .. Len(calls) : Stage(calls[j].name) = 6
      BY <2>1 DEF Stage, Loading, Making
    <3>5. Len(calls) \in Nat
      BY <2>1
    <3> QED
      BY <3>2, <3>3, <3>4, <3>5, StageOrder
  <2> QED
    BY <2>1, <2>2, <2>3
<1>7. CASE usage.op # "select" /\ usage.jt = "DO"
  <2>1. /\ calls \in Seq(EcallRecord) /\ Len(calls) >= 2
        /\ calls[1].name = "initJoinPDS" /\ calls[1].arg = 0
        /\ calls[2].name = "createJoinPDS" /\ calls[2].arg = 0
        /\ \A k \in 3 .. Len(calls) : calls[k].name \in {"innerJoin", "pfJoin", "joinCompact"}
    <3> DEFINE m == IF usage.op = "join" THEN 1 ELSE n
    <3>1. calls = JoinCalls("DO", usage.pf, m) /\ m \in Nat
      BY <1>1, <1>2, <1>7
    <3> HIDE DEF m
    <3>2. \A name, a : Ecall(name, a).name = name /\ Ecall(name, a).arg = a
      BY DEF Ecall
    <3> QED
      <4>1. LET s == JoinCalls("DO", usage.pf, m) IN
         /\ s \in Seq(EcallRecord) /\ Len(s) >= 2
         /\ s[1] = Ecall("initJoinPDS", 0) /\ s[2] = Ecall("createJoinPDS", 0)
         /\ \A k \in 3 .. Len(s) : s[k].name \in {"innerJoin", "pfJoin", "joinCompact"}
        BY <1>4, <3>1, JoinDO
      <4>2. calls \in Seq(EcallRecord) /\ Len(calls) >= 2
        BY <3>1, <4>1
      <4>3. calls[1] = Ecall("initJoinPDS", 0) /\ calls[2] = Ecall("createJoinPDS", 0)
        BY <3>1, <4>1
      <4>4. \A k \in 3 .. Len(calls) : calls[k].name \in {"innerJoin", "pfJoin", "joinCompact"}
        BY <3>1, <4>1
      <4> QED
        BY <1>2, <3>2, <4>2, <4>3, <4>4
  <2>2. ASSUME NEW k \in 1 .. Len(calls)
        PROVE  Fits(calls[k])
    <3>1. k = 1 \/ k = 2 \/ k \in 3 .. Len(calls)
      BY <2>1
    <3> QED
      BY <1>4, <1>7, <2>1, <3>1 DEF Fits, Loading, Making, TableIDs
  <2>3. \A k, l \in 1 .. Len(calls) : k < l => Before(calls[k], calls[l])
    <3>1. Stage(calls[1].name) = 3 /\ Stage(calls[2].name) = 4
      BY <2>1 DEF Stage, Loading, Making
    <3>2. \A k \in 1 .. 2 : Stage(calls[k].name) \in 1 .. 5
      BY <3>1
    <3>3. \A k, l \in 1 .. 2 : k < l => Before(calls[k], calls[l])
      BY <3>1 DEF Before
    <3>4. \A j \in 2 + 1 .. Len(calls) : Stage(calls[j].name) = 6
      <4>1. \A name \in {"innerJoin", "pfJoin", "joinCompact"} : Stage(name) = 6
        BY DEF Stage, Loading, Making
      <4>2. \A j \in 2 + 1 .. Len(calls) : calls[j].name \in {"innerJoin", "pfJoin", "joinCompact"}
        BY <2>1
      <4> QED
        BY <4>1, <4>2
    <3>5. Len(calls) \in Nat
      BY <2>1
    <3> QED
      BY <3>2, <3>3, <3>4, <3>5, StageOrder
  <2> QED
    BY <2>1, <2>2, <2>3
<1>8. CASE usage.op # "select" /\ usage.jt = "HTree"
  <2>1. /\ calls \in Seq(EcallRecord) /\ Len(calls) >= 4
        /\ calls[1].name = "extractData" /\ calls[1].arg = 0
        /\ calls[2].name = "extractData" /\ calls[2].arg = 1
        /\ calls[3].name = "initHTree" /\ calls[3].arg = 0
        /\ calls[4].name = "createJoinBuckets" /\ calls[4].arg = 0
        /\ \A k \in 5 .. Len(calls) : calls[k].name \in {"innerJoin", "pfJoin", "joinCompact"}
    <3> DEFINE m == IF usage.op = "join" THEN 1 ELSE n
    <3>1. calls = JoinCalls("HTree", usage.pf, m) /\ m \in Nat
      BY <1>1, <1>2, <1>8
    <3> HIDE DEF m
    <3>2. \A name, a : Ecall(name, a).name = name /\ Ecall(name, a).arg = a
      BY DEF Ecall
    <3> QED
      <4>1. LET s == JoinCalls("HTree", usage.pf, m) IN
         /\ s \in Seq(EcallRecord) /\ Len(s) >= 4
         /\ s[1] = Ecall("extractData", 0) /\ s[2] = Ecall("extractData", 1) /\ s[3] = Ecall("initHTree", 0) /\ s[4] = Ecall("createJoinBuckets", 0)
         /\ \A k \in 5 .. Len(s) : s[k].name \in {"innerJoin", "pfJoin", "joinCompact"}
        BY <1>4, <3>1, JoinHTree
      <4>2. calls \in Seq(EcallRecord) /\ Len(calls) >= 4
        BY <3>1, <4>1
      <4>3. calls[1] = Ecall("extractData", 0) /\ calls[2] = Ecall("extractData", 1) /\ calls[3] = Ecall("initHTree", 0) /\ calls[4] = Ecall("createJoinBuckets", 0)
        BY <3>1, <4>1
      <4>4. \A k \in 5 .. Len(calls) : calls[k].name \in {"innerJoin", "pfJoin", "joinCompact"}
        BY <3>1, <4>1
      <4> QED
        BY <1>2, <3>2, <4>2, <4>3, <4>4
  <2>2. ASSUME NEW k \in 1 .. Len(calls)
        PROVE  Fits(calls[k])
    <3>1. k = 1 \/ k = 2 \/ k = 3 \/ k = 4 \/ k \in 5 .. Len(calls)
      BY <2>1
    <3> QED
      BY <1>4, <1>8, <2>1, <3>1 DEF Fits, Loading, Making, TableIDs
  <2>3. \A k, l \in 1 .. Len(calls) : k < l => Before(calls[k], calls[l])
    <3>1. Stage(calls[1].name) = 1 /\ Stage(calls[2].name) = 1 /\ Stage(calls[3].name) = 2 /\ Stage(calls[4].name) = 3
      BY <2>1 DEF Stage, Loading, Making
    <3>2. \A k \in 1 .. 4 : Stage(calls[k].name) \in 1 .. 5
      BY <3>1
    <3>3. \A k, l \in 1 .. 4 : k < l => Before(calls[k], calls[l])
      BY <3>1 DEF Before
    <3>4. \A j \in 4 + 1 .. Len(calls) : Stage(calls[j].name) = 6
      <4>1. \A name \in {"innerJoin", "pfJoin", "joinCompact"} : Stage(name) = 6
        BY DEF Stage, Loading, Making
      <4>2. \A j \in 4 + 1 .. Len(calls) : calls[j].name \in {"innerJoin", "pfJoin", "joinCompact"}
        BY <2>1
      <4> QED
        BY <4>1, <4>2
    <3>5. Len(calls) \in Nat
      BY <2>1
    <3> QED
      BY <3>2, <3>3, <3>4, <3>5, StageOrder
  <2> QED
    BY <2>1, <2>2, <2>3
<1>9. CASE usage.op # "select" /\ usage.jt = "CZSC21"
  <2>1. /\ calls \in Seq(EcallRecord) /\ Len(calls) >= 1
        /\ calls[1].name = "createCZSC" /\ calls[1].arg = 0
        /\ \A k \in 2 .. Len(calls) : calls[k].name \in {"czscJoin", "joinCompact"}
    <3> DEFINE m == IF usage.op = "join" THEN 1 ELSE n
    <3>1. calls = JoinCalls("CZSC21", usage.pf, m) /\ m \in Nat
      BY <1>1, <1>2, <1>9
    <3> HIDE DEF m
    <3>2. \A name, a : Ecall(name, a).name = name /\ Ecall(name, a).arg = a
      BY DEF Ecall
    <3> QED
      <4>1. LET s == JoinCalls("CZSC21", usage.pf, m) IN
         /\ s \in Seq(EcallRecord) /\ Len(s) >= 1
         /\ s[1] = Ecall("createCZSC", 0)
         /\ \A k \in 2 .. Len(s) : s[k].name \in {"czscJoin", "joinCompact"}
        BY <1>4, <3>1, JoinCZSC21
      <4>2. calls \in Seq(EcallRecord) /\ Len(calls) >= 1
        BY <3>1, <4>1
      <4>3. calls[1] = Ecall("createCZSC", 0)
        BY <3>1, <4>1
      <4>4. \A k \in 2 .. Len(calls) : calls[k].name \in {"czscJoin", "joinCompact"}
        BY <3>1, <4>1
      <4> QED
        BY <1>2, <3>2, <4>2, <4>3, <4>4
  <2>2. ASSUME NEW k \in 1 .. Len(calls)
        PROVE  Fits(calls[k])
    <3>1. k = 1 \/ k \in 2 .. Len(calls)
      BY <2>1
    <3> QED
      BY <1>4, <1>9, <2>1, <3>1 DEF Fits, Loading, Making, TableIDs
  <2>3. \A k, l \in 1 .. Len(calls) : k < l => Before(calls[k], calls[l])
    <3>1. Stage(calls[1].name) = 3
      BY <2>1 DEF Stage, Loading, Making
    <3>2. \A k \in 1 .. 1 : Stage(calls[k].name) \in 1 .. 5
      BY <3>1
    <3>3. \A k, l \in 1 .. 1 : k < l => Before(calls[k], calls[l])
      BY <3>1 DEF Before
    <3>4. \A j \in 1 + 1 .. Len(calls) : Stage(calls[j].name) = 6
      BY <2>1 DEF Stage, Loading, Making
    <3>5. Len(calls) \in Nat
      BY <2>1
    <3> QED
      BY <3>2, <3>3, <3>4, <3>5, StageOrder
  <2> QED
    BY <2>1, <2>2, <2>3
<1> QED
  BY <1>4, <1>5, <1>6, <1>7, <1>8, <1>9

(* So do the ECALLs that are left after a step.                            *)
LEMMA CallsNext ==
  ASSUME CallsInv, [SessionNext]_sessionVars
  PROVE  CallsInv'
<1>1. CASE UNCHANGED <<usage, calls, call>>
  BY <1>1 DEF CallsInv, Fits, TableIDs
<1>2. CASE usage' = usage /\ calls' = calls /\ call' = NoCall
  BY <1>2 DEF CallsInv, Fits, TableIDs, NoCall, Ecall, EcallRecord, Names
<1>3. ASSUME calls # <<>>, calls' = Tail(calls), usage' = usage, call' = call \/ call' = Head(calls), call' = call => call = NoCall
      PROVE  CallsInv'
  <2>1. /\ Len(calls) \in Nat \ {0} /\ Head(calls) = calls[1] /\ calls[1] \in EcallRecord
        /\ calls' \in Seq(EcallRecord) /\ Len(calls') = Len(calls) - 1
        /\ \A k \in 1 .. Len(calls) - 1 : calls'[k] = calls[k + 1]
    BY <1>3, TailOf DEF CallsInv
  <2>2. \A k \in 1 .. Len(calls') : Fits(calls'[k])
    BY <2>1 DEF CallsInv
  <2>3. \A k, l \in 1 .. Len(calls') : k < l => Before(calls'[k], calls'[l])
    BY <2>1 DEF CallsInv
  <2>4. call' # NoCall => Fits(call') /\ \A k \in 1 .. Len(calls') : Before(call', calls'[k])
    <3>1. CASE call' = call
      BY <1>3, <3>1
    <3>2. CASE call' = Head(calls)
      BY <2>1, <3>2 DEF CallsInv
    <3> QED
      BY <1>3, <3>1, <3>2
  <2> QED
    BY <1>3, <2>1, <2>2, <2>3, <2>4 DEF CallsInv, Fits, TableIDs
<1>4. CASE Body
  BY <1>3, <1>4 DEF Body, ExtractMeta, ExtractData, CreatePDS, InitJoinPDS, InitHTree, CreateJoinBuckets,
       CreateCZSC, BuildIndex, IdxSelect, InnerJoin, CZSCJoinCall, JoinCompactCall, Enter
<1>5. CASE Steps /\ ~AbortStep
  BY <1>1, <1>5 DEF Steps, ReadStep, LostRead, LostRequest, WriteStep, ExpandStep, InitBinStep,
       DeleteBinStep, DeleteTableStep, MoveBinStep, CollectStep, WriteIndexStep, SortStep,
       MoveDataStep, WriteBucketStep, FreeStep, Writing, Request
<1>6. CASE AbortStep \/ ReturnEcall
  BY <1>2, <1>6 DEF AbortStep, ReturnEcall, Refused
<1>7. CASE FailedEcall
  BY <1>3, <1>7 DEF FailedEcall, Refused
<1>8. CASE UNCHANGED sessionVars
  BY <1>1, <1>8 DEF sessionVars
<1> QED
  BY <1>4, <1>5, <1>6, <1>7, <1>8 DEF SessionNext, Steps

(* What an ECALL that is entered finds and leaves alone.                   *)
LEMMA Entered ==
  ASSUME CallsInv, NEW name, Enter(name)
  PROVE  /\ up /\ ~died /\ call = NoCall /\ calls # <<>>
         /\ call' = calls[1] /\ call'.name = name /\ call' \in EcallRecord /\ Fits(call')
         /\ call' # NoCall
         /\ calls' \in Seq(EcallRecord) /\ Len(calls') = Len(calls) - 1 /\ Len(calls) \in Nat \ {0}
         /\ \A k \in 1 .. Len(calls') : calls'[k] = calls[k + 1] /\ k + 1 \in 1 .. Len(calls)
         /\ \A k \in 1 .. Len(calls') : Before(call', calls'[k]) /\ Fits(calls'[k])
         /\ UNCHANGED <<usage, up, main, taken, faults, failed, lost>>
         /\ UNCHANGED <<untrustedTableStorage, untrustedBinStorage, indexFile, died>>
<1>1. /\ up /\ ~died /\ call = NoCall /\ calls # <<>> /\ Head(calls).name = name
      /\ call' = Head(calls) /\ calls' = Tail(calls)
      /\ UNCHANGED <<usage, up, main, taken, faults, failed, lost>>
      /\ UNCHANGED <<untrustedTableStorage, untrustedBinStorage, indexFile, died>>
  BY DEF Enter, mainVars, faultVars, hostVars
<1>2. /\ Len(calls) \in Nat \ {0} /\ Head(calls) = calls[1] /\ calls[1] \in EcallRecord
      /\ calls' \in Seq(EcallRecord) /\ Len(calls') = Len(calls) - 1
      /\ \A k \in 1 .. Len(calls) - 1 : calls'[k] = calls[k + 1]
  BY <1>1, TailOf DEF CallsInv
<1>3. Fits(calls[1]) /\ \A k \in 1 .. Len(calls) : k > 1 => Before(calls[1], calls[k]) /\ Fits(calls[k])
  BY <1>2 DEF CallsInv
<1>4. \A k \in 1 .. Len(calls') : k + 1 \in 1 .. Len(calls) /\ k + 1 > 1
  BY <1>2
<1>5. calls[1] # NoCall
  BY <1>3 DEF Fits, NoCall, Ecall, Loading, Making
<1> QED
  BY <1>1, <1>2, <1>3, <1>4, <1>5

(* The sizes of the buckets.                                               *)
LEMMA PartitionEnds ==
  ASSUME NEW t \in 0 .. 1, NEW n \in Nat \ {0}, NEW p \in Partitions(t, n)
  PROVE  /\ p \in Seq(Nat) /\ Len(p) = n
         /\ p[n] >= TableSize[t]
         /\ \A i, j \in 1 .. n : i < j => p[i] <= p[j]
<1>1. PICK noise \in BucketNoise :
        /\ p \in [1 .. n -> 0 .. TableSize[t] + noise]
        /\ p[n] = TableSize[t] + noise /\ \A i, j \in 1 .. n : i < j => p[i] <= p[j]
  BY DEF Partitions
<1>2. TableSize[t] \in Nat /\ noise \in Nat
  BY SessionAssumption
<1>3. p \in [1 .. n -> Nat]
  BY <1>1, <1>2
<1>4. p \in Seq(Nat) /\ Len(p) = n
  BY <1>3, FunctionIsSequence
<1> QED
  BY <1>1, <1>2, <1>4

(* The rows the host has loaded.                                           *)
LEMMA LoadedRows ==
  ASSUME NEW t \in 0 .. 1
  PROVE  /\ TableSize[t] \in Nat \ {0}
         /\ LoadedTable(t) \in Seq(Row) /\ Len(LoadedTable(t)) = TableSize[t]
         /\ \A k \in 1 .. TableSize[t] : LoadedTable(t)[k] = <<t, TableSize[t] + 1 - k>>
<1>1. TableSize[t] \in Nat \ {0}
  BY SessionAssumption
<1>2. \A k \in 1 .. TableSize[t] : <<t, TableSize[t] + 1 - k>> \in Row
  BY <1>1 DEF Row
<1> DEFINE row(k) == <<t, TableSize[t] + 1 - k>>
<1>3. LoadedTable(t) = [k \in 1 .. TableSize[t] |-> row(k)]
  BY DEF LoadedTable
<1>4. \A k \in 1 .. TableSize[t] : row(k) \in Row
  BY <1>2
<1> HIDE DEF row
<1>5. LoadedTable(t) \in [1 .. TableSize[t] -> Row] /\ \A k \in 1 .. TableSize[t] : LoadedTable(t)[k] = row(k)
  BY <1>3, <1>4
<1>6. LoadedTable(t) \in Seq(Row) /\ Len(LoadedTable(t)) = TableSize[t]
  BY <1>1, <1>5, FunctionIsSequence
<1> QED
  BY <1>1, <1>5, <1>6 DEF row

(* The types of a run that starts.                                         *)
LEMMA TypeInit ==
  ASSUME SessionInit
  PROVE  TypeInv
<1>1. \A t \in 0 .. 1 : Storage(With(NoStorage, 0, LoadedTable(t))) /\ Storage(NoStorage)
  BY EmptyStorage, PutRows, LoadedRows
<1>2. untrustedTableStorage = [t \in 0 .. 1 |-> IF t \in TableIDs THEN With(NoStorage, 0, LoadedTable(t)) ELSE NoStorage]
  BY DEF SessionInit
<1>3. \A t \in 0 .. 1 : Storage(untrustedTableStorage[t])
  BY <1>1, <1>2
<1>4. untrustedTableStorage = [t \in 0 .. 1 |-> untrustedTableStorage[t]]
  BY <1>2
<1>5. Storage(untrustedBinStorage)
  BY EmptyStorage DEF SessionInit
<1>6. /\ steps \in Seq(Step) /\ up \in BOOLEAN /\ failed \in BOOLEAN /\ lost \in BOOLEAN /\ died \in BOOLEAN
      /\ meta \subseteq 0 .. 1 /\ indexed \in BOOLEAN
      /\ noisyOutputSize \in Nat /\ outputSize \in Nat /\ dblock \in Seq(Row)
  <2>1. /\ steps = <<>> /\ up = TRUE /\ failed = FALSE /\ lost = FALSE /\ died = FALSE
        /\ meta = {} /\ indexed = FALSE /\ noisyOutputSize = 0 /\ outputSize = 0 /\ dblock = <<>>
    BY DEF SessionInit
  <2>2. steps \in Seq(Step) /\ dblock \in Seq(Row) /\ noisyOutputSize \in Nat /\ outputSize \in Nat
    BY <2>1
  <2> QED
    BY <2>1, <2>2, Zenon
<1>7. tdata \in [0 .. 1 -> Seq(Row)] /\ parts \in [0 .. 1 -> Seq(Nat)]
  BY DEF SessionInit
<1> QED
  BY <1>3, <1>4, <1>5, <1>6, <1>7 DEF TypeInv

(* A sequence of one step.                                                 *)
LEMMA OneStep ==
  ASSUME NEW s \in Step
  PROVE  <<s>> \in Seq(Step) /\ Len(<<s>>) = 1 /\ <<s>>[1] = s
OBVIOUS

(* What the OCALLs make are steps.                                         *)
LEMMA StepMade ==
  ASSUME NEW t \in 0 .. 1, NEW n \in Nat, NEW b \in Nat
  PROVE  /\ obliSort(t) \in Step /\ moveData(t) \in Step /\ freeSpace(t) \in Step /\ abort \in Step
         /\ writeBucket(t, b) \in Step /\ write_index_OCALL \in Step
         /\ initBinStorage_OCALL(t, 0) \in Step /\ delete_bin_OCALL(b) \in Step
         /\ delete_table_OCALL(t) \in Step /\ collect_resize_bins_OCALL(t, 0, n) \in Step
         /\ move_resize_bin_totable_OCALL(t, b, 0, n) \in Step
BY DEF Step, obliSort, moveData, freeSpace, abort, writeBucket, write_index_OCALL, initBinStorage_OCALL,
       delete_bin_OCALL, delete_table_OCALL, collect_resize_bins_OCALL, move_resize_bin_totable_OCALL

(* What createPDS does to a table are steps.                               *)
LEMMA TreeStepsType ==
  ASSUME NEW t \in 0 .. 1, NEW noise \in Nat, NEW numLeaves
  PROVE  TreeSteps(t, noise, numLeaves) \in Seq(Step)
<1>1. TableSize[t] + noise \in Nat /\ OCALL_MAXSIZE \in Nat \ {0}
  BY SessionAssumption
<1> DEFINE size == TableSize[t] + noise
           c == IF numLeaves = 1 THEN collect_resize_bins_OCALL(t, 0, size) ELSE abort
<1>2. c \in Step /\ initBinStorage_OCALL(t, 0) \in Step
  BY <1>1, StepMade
<1>3. <<initBinStorage_OCALL(t, 0), c>> \in Seq(Step)
  BY <1>2
<1>4. ExpandTable(t, noise, OCALL_MAXSIZE) \in Seq(Step) /\ ReadDataBlock_Wrapper(t) \in Seq(Step)
  BY <1>1, ExpandBlocks, ReadBlocks
<1>5. ExpandTable(t, noise, OCALL_MAXSIZE) \o <<initBinStorage_OCALL(t, 0), c>> \in Seq(Step)
  BY <1>3, <1>4, Concatenation
<1> QED
  BY <1>4, <1>5 DEF TreeSteps

(* What the sparse bins do to a table are steps.                           *)
LEMMA SparseStepsType ==
  ASSUME NEW t \in 0 .. 1, NEW noise \in Nat
  PROVE  SparseSteps(t, noise) \in Seq(Step)
<1>1. 2 * IO_BLOCKSIZE \in Nat \ {0}
  BY SessionAssumption
<1>2. ExpandTable(t, noise, 2 * IO_BLOCKSIZE) \in Seq(Step) /\ ReadDataBlock_Wrapper(t) \in Seq(Step)
  BY <1>1, ExpandBlocks, ReadBlocks
<1> QED
  BY <1>2 DEF SparseSteps

(* What createBins does to a table are steps.                              *)
LEMMA CreateBinsStepsType ==
  ASSUME NEW t \in 0 .. 1, NEW noise \in Nat, NEW numBins
  PROVE  CreateBinsSteps(t, noise, numBins) \in Seq(Step)
<1> DEFINE size == TableSize[t] + noise
           a == <<initBinStorage_OCALL(t, 0)>>
           b == <<move_resize_bin_totable_OCALL(t, 0, 0, size)>>
           c == <<delete_bin_OCALL(0), move_resize_bin_totable_OCALL(t, 1, 0, size \div 2)>>
<1>1. size \in Nat /\ size \div 2 \in Nat
  BY SessionAssumption
<1>2. a \in Seq(Step) /\ b \in Seq(Step) /\ c \in Seq(Step)
  <2>1. /\ initBinStorage_OCALL(t, 0) \in Step /\ delete_bin_OCALL(0) \in Step
        /\ move_resize_bin_totable_OCALL(t, 0, 0, size) \in Step
        /\ move_resize_bin_totable_OCALL(t, 1, 0, size \div 2) \in Step
    BY <1>1, StepMade
  <2> QED
    BY <2>1
<1> HIDE DEF a, b, c
<1>3. a \o b \in Seq(Step) /\ a \o c \in Seq(Step)
  BY <1>2, Concatenation
<1>4. CreateBinsSteps(t, noise, numBins) = IF size <= IO_BLOCKSIZE THEN <<>>
                                           ELSE a \o IF numBins = 1 THEN b ELSE c
  BY DEF CreateBinsSteps, a, b, c
<1>5. <<>> \in Seq(Step)
  OBVIOUS
<1> HIDE DEF size
<1> QED
  BY <1>3, <1>4, <1>5

(* Where an ECALL leaves the data alone, only its steps are in question.   *)
LEMMA TypeBody ==
  ASSUME CallsInv, TypeInv, Body
  PROVE  TypeInv'
<1>0. \A t \in 0 .. 1 : TableSize[t] \in Nat
  BY SessionAssumption
<1>1. ASSUME NEW name, Enter(name),
             steps' \in Seq(Step), meta' \subseteq 0 .. 1, indexed' \in BOOLEAN, parts' \in [0 .. 1 -> Seq(Nat)],
             noisyOutputSize' \in Nat, outputSize' \in Nat, UNCHANGED <<tdata, dblock>>
      PROVE  TypeInv'
  <2>1. /\ UNCHANGED <<usage, up, main, taken, faults, failed, lost>>
        /\ UNCHANGED <<untrustedTableStorage, untrustedBinStorage, indexFile, died>>
    BY <1>1, Entered
  <2> QED
    BY <1>1, <2>1 DEF TypeInv, Storage
<1>2. /\ steps \in Seq(Step) /\ meta \subseteq 0 .. 1 /\ indexed \in BOOLEAN /\ parts \in [0 .. 1 -> Seq(Nat)]
      /\ noisyOutputSize \in Nat /\ outputSize \in Nat
  BY DEF TypeInv
<1>3. <<>> \in Seq(Step) /\ <<abort>> \in Seq(Step) /\ <<write_index_OCALL>> \in Seq(Step)
  BY StepMade
<1>4. ASSUME NEW name, Enter(name)
      PROVE  call'.name = name /\ call' \in EcallRecord /\ Fits(call') /\ usage' = usage /\ call'.arg \in Nat
  BY <1>4, Entered DEF EcallRecord
<1>5. CASE ExtractMeta
  <2>1. Enter("extractMeta") /\ steps' = <<>> /\ meta' = meta \cup {call'.arg}
        /\ UNCHANGED <<tdata, dblock, parts, pds, indexed, noisyOutputSize, outputSize, answer>>
    BY <1>5 DEF ExtractMeta
  <2>2. call'.arg = 0
    BY <1>4, <2>1 DEF Fits
  <2> QED
    BY <1>1, <1>2, <1>3, <2>1, <2>2
<1>6. CASE ExtractData
  <2>1. /\ Enter("extractData") /\ steps' = Append(ReadDataBlock_Wrapper(call'.arg), obliSort(call'.arg))
        /\ meta' = meta \cup {call'.arg}
        /\ UNCHANGED <<tdata, dblock, parts, pds, indexed, noisyOutputSize, outputSize, answer>>
    BY <1>6 DEF ExtractData
  <2>2. call'.arg \in 0 .. 1
    BY <1>4, <2>1 DEF Fits, TableIDs
  <2>3. ReadDataBlock_Wrapper(call'.arg) \in Seq(Step) /\ obliSort(call'.arg) \in Step
    BY <2>2, ReadBlocks, StepMade
  <2>4. steps' \in Seq(Step)
    BY <2>1, <2>3
  <2> QED
    BY <1>1, <1>2, <2>1, <2>2, <2>4
<1>7. CASE CreatePDS
  <2>1. PICK noise \in TreeNoise, numLeaves \in 1 .. MaxBins :
          /\ steps' = IF meta = {} THEN <<abort>> ELSE TreeSteps(0, noise, numLeaves)
          /\ parts' = [parts EXCEPT ![0] = [k \in 1 .. numLeaves |-> 0]]
    BY <1>7 DEF CreatePDS
  <2>2. Enter("createPDS") /\ UNCHANGED <<meta, tdata, dblock, indexed, noisyOutputSize, outputSize, answer>>
    BY <1>7 DEF CreatePDS
  <2>3. noise \in Nat /\ numLeaves \in Nat
    BY SessionAssumption
  <2>4. steps' \in Seq(Step)
    BY <1>3, <2>1, <2>3, TreeStepsType
  <2>5. [k \in 1 .. numLeaves |-> 0] \in Seq(Nat)
    BY <2>3
  <2>6. parts' \in [0 .. 1 -> Seq(Nat)]
    BY <1>2, <2>1, <2>5
  <2> QED
    BY <1>1, <1>2, <2>2, <2>4, <2>6
<1>8. CASE InitJoinPDS
  <2>1. /\ Enter("initJoinPDS") /\ steps' = IF meta = {} THEN <<abort>> ELSE <<>>
        /\ UNCHANGED <<meta, tdata, dblock, parts, pds, indexed, noisyOutputSize, outputSize>>
    BY <1>8 DEF InitJoinPDS, enclaveVars
  <2> QED
    BY <1>1, <1>2, <1>3, <2>1
<1>9. CASE InitHTree
  <2>1. /\ Enter("initHTree") /\ steps' = IF usage.pf THEN <<abort>> ELSE <<>>
        /\ UNCHANGED <<meta, tdata, dblock, indexed, noisyOutputSize, outputSize>>
    BY <1>9 DEF InitHTree
  <2>2. PICK n \in 1 .. MaxBins : \E p1 \in Partitions(0, n), p2 \in Partitions(1, n) :
          parts' = [t \in 0 .. 1 |-> IF t \notin TableIDs THEN <<>> ELSE IF t = 0 THEN p1 ELSE p2]
    BY <1>9 DEF InitHTree
  <2>3. n \in Nat \ {0}
    BY SessionAssumption
  <2>4. PICK p1 \in Partitions(0, n), p2 \in Partitions(1, n) :
          parts' = [t \in 0 .. 1 |-> IF t \notin TableIDs THEN <<>> ELSE IF t = 0 THEN p1 ELSE p2]
    BY <2>2
  <2>5. p1 \in Seq(Nat) /\ p2 \in Seq(Nat)
    BY <2>3, PartitionEnds
  <2>6. parts' \in [0 .. 1 -> Seq(Nat)]
    BY <2>4, <2>5
  <2> QED
    BY <1>1, <1>2, <1>3, <2>1, <2>6
<1>10. CASE CreateJoinBuckets
  <2>1. /\ Enter("createJoinBuckets")
        /\ steps' = IF pds # "HTree" THEN <<abort>>
                    ELSE IF usage.op = "select" THEN Append(Append(ReadDataBlock_Wrapper(0), obliSort(0)), moveData(0))
                    ELSE <<moveData(0), moveData(1)>>
        /\ UNCHANGED <<meta, tdata, dblock, parts, pds, indexed, noisyOutputSize, outputSize>>
    BY <1>10 DEF CreateJoinBuckets, enclaveVars
  <2>2. /\ ReadDataBlock_Wrapper(0) \in Seq(Step) /\ obliSort(0) \in Step
        /\ moveData(0) \in Step /\ moveData(1) \in Step
    BY ReadBlocks, StepMade
  <2>3. Append(Append(ReadDataBlock_Wrapper(0), obliSort(0)), moveData(0)) \in Seq(Step) /\ <<moveData(0), moveData(1)>> \in Seq(Step)
    BY <2>2
  <2> QED
    BY <1>1, <1>2, <1>3, <2>1, <2>3
<1>11. CASE CreateCZSC
  <2>1. /\ Enter("createCZSC") /\ meta' = {0, 1}
        /\ UNCHANGED <<tdata, dblock, indexed, noisyOutputSize, outputSize>>
    BY <1>11 DEF CreateCZSC
  <2>2. PICK noise1 \in TreeNoise, noise2 \in TreeNoise, numBins \in 1 .. MaxBins :
          /\ steps' = SparseSteps(0, noise1) \o SparseSteps(1, noise2) \o
                      CreateBinsSteps(0, noise1, numBins) \o CreateBinsSteps(1, noise2, numBins)
          /\ parts' = [t \in 0 .. 1 |-> [k \in 1 .. numBins |-> 0]]
    BY <1>11 DEF CreateCZSC
  <2>3. noise1 \in Nat /\ noise2 \in Nat /\ numBins \in Nat
    BY SessionAssumption
  <2> DEFINE a == SparseSteps(0, noise1)
             b == SparseSteps(1, noise2)
             c == CreateBinsSteps(0, noise1, numBins)
             d == CreateBinsSteps(1, noise2, numBins)
  <2>4. a \in Seq(Step) /\ b \in Seq(Step) /\ c \in Seq(Step) /\ d \in Seq(Step)
    <3>1. 0 \in 0 .. 1 /\ 1 \in 0 .. 1
      OBVIOUS
    <3>2. a \in Seq(Step) /\ b \in Seq(Step)
      BY <2>3, <3>1, SparseStepsType
    <3>3. c \in Seq(Step) /\ d \in Seq(Step)
      BY <2>3, <3>1, CreateBinsStepsType
    <3> QED
      BY <3>2, <3>3
  <2> HIDE DEF a, b, c, d
  <2>5. a \o b \in Seq(Step)
    BY <2>4, Concatenation
  <2>6. a \o b \o c \in Seq(Step)
    BY <2>4, <2>5, Concatenation
  <2>7. a \o b \o c \o d \in Seq(Step)
    BY <2>4, <2>6, Concatenation
  <2>8. steps' \in Seq(Step)
    BY <2>2, <2>7 DEF a, b, c, d
  <2>9. parts' \in [0 .. 1 -> Seq(Nat)]
    <3>1. [k \in 1 .. numBins |-> 0] \in Seq(Nat)
      BY <2>3
    <3> QED
      BY <2>2, <3>1
  <2>10. meta' \subseteq 0 .. 1
    BY <2>1
  <2> QED
    BY <1>1, <1>2, <2>1, <2>8, <2>9, <2>10
<1>12. CASE BuildIndex
  <2>1. /\ Enter("buildIndex") /\ steps' = <<IF pds = "none" THEN abort ELSE write_index_OCALL>>
        /\ indexed' = TRUE
        /\ UNCHANGED <<meta, tdata, dblock, parts, pds, noisyOutputSize, outputSize, answer>>
    BY <1>12 DEF BuildIndex
  <2>2. steps' = <<abort>> \/ steps' = <<write_index_OCALL>>
    BY <2>1
  <2>3. steps' \in Seq(Step)
    BY <1>3, <2>2
  <2> QED
    BY <1>1, <1>2, <2>1, <2>3
<1>13. CASE IdxSelect
  <2>1. /\ Enter("idxSelect") /\ steps' = IF indexed THEN <<>> ELSE <<abort>>
        /\ UNCHANGED <<meta, tdata, dblock, parts, pds, indexed, noisyOutputSize, outputSize>>
    BY <1>13 DEF IdxSelect, enclaveVars
  <2> QED
    BY <1>1, <1>2, <1>3, <2>1
<1>14. CASE InnerJoin
  <2>1. /\ Enter("innerJoin") /\ steps' = <<>> /\ outputSize' \in OutputSizes /\ noisyOutputSize' \in OutputSizes
        /\ UNCHANGED <<meta, tdata, dblock, parts, pds, indexed, answer>>
    BY <1>14 DEF InnerJoin
  <2>2. outputSize' \in Nat /\ noisyOutputSize' \in Nat
    BY <2>1, SessionAssumption
  <2> QED
    BY <1>1, <1>2, <1>3, <2>1, <2>2
<1>15. CASE CZSCJoinCall
  <2>1. /\ Enter("czscJoin") /\ steps' = IF pds # "CZSC" \/ usage.pf THEN <<abort>> ELSE <<>>
        /\ outputSize' \in OutputSizes /\ noisyOutputSize' \in OutputSizes
        /\ UNCHANGED <<meta, tdata, dblock, parts, pds, indexed, answer>>
    BY <1>15 DEF CZSCJoinCall
  <2>2. outputSize' \in Nat /\ noisyOutputSize' \in Nat
    BY <2>1, SessionAssumption
  <2> QED
    BY <1>1, <1>2, <1>3, <2>1, <2>2
<1>16. CASE JoinCompactCall
  <2>1. /\ Enter("joinCompact")
        /\ steps' = IF noisyOutputSize >= outputSize THEN <<>>
                    ELSE WriteDataBlock_Wrapper(0, [k \in 1 .. noisyOutputSize |-> <<2, call'.arg>>])
        /\ outputSize' = 0
        /\ UNCHANGED <<meta, tdata, dblock, parts, pds, indexed, noisyOutputSize, answer>>
    BY <1>16 DEF JoinCompactCall
  <2>2. <<2, call'.arg>> \in Row
    BY <1>4, <2>1 DEF Row
  <2>3. [k \in 1 .. noisyOutputSize |-> <<2, call'.arg>>] \in Seq(Row)
    BY <1>2, <2>2
  <2>4. WriteDataBlock_Wrapper(0, [k \in 1 .. noisyOutputSize |-> <<2, call'.arg>>]) \in Seq(Step)
    BY <2>3, WriteBlocks
  <2>5. outputSize' \in Nat
    BY <2>1
  <2> QED
    BY <1>1, <1>2, <1>3, <2>1, <2>4, <2>5
<1> QED
  BY <1>5, <1>6, <1>7, <1>8, <1>9, <1>10, <1>11, <1>12, <1>13, <1>14, <1>15, <1>16 DEF Body

(* What a step of a body leaves alone.                                     *)
LEMMA Requested ==
  ASSUME TypeInv, NEW op, Request(op)
  PROVE  /\ up /\ ~died /\ steps # <<>> /\ Len(steps) \in Nat \ {0}
         /\ Head(steps) = steps[1] /\ steps[1] \in Step /\ steps[1].op = op
         /\ steps' = Tail(steps) /\ steps' \in Seq(Step) /\ Len(steps') = Len(steps) - 1
         /\ \A k \in 1 .. Len(steps') : steps'[k] = steps[k + 1] /\ k + 1 \in 1 .. Len(steps)
         /\ UNCHANGED <<usage, calls, call, up, meta, parts, pds, indexed, noisyOutputSize, outputSize>>
         /\ UNCHANGED <<main, taken, answer, faults, failed, lost>>
<1>1. /\ up /\ ~died /\ steps # <<>> /\ Head(steps).op = op /\ steps' = Tail(steps)
      /\ UNCHANGED <<usage, calls, call, up, meta, parts, pds, indexed, noisyOutputSize, outputSize>>
      /\ UNCHANGED <<main, taken, answer, faults, failed, lost>>
  BY DEF Request, InBody, mainVars, faultVars
<1>2. /\ Len(steps) \in Nat \ {0} /\ Head(steps) = steps[1] /\ steps[1] \in Step
      /\ Tail(steps) \in Seq(Step) /\ Len(Tail(steps)) = Len(steps) - 1
      /\ \A k \in 1 .. Len(steps) - 1 : Tail(steps)[k] = steps[k + 1]
  BY <1>1, TailOf DEF TypeInv
<1> QED
  BY <1>1, <1>2

(* One table changes, the other one stays.                                 *)
LEMMA TableChanged ==
  ASSUME TypeInv, NEW t \in 0 .. 1, NEW map, Storage(map),
         untrustedTableStorage' = [untrustedTableStorage EXCEPT ![t] = map]
  PROVE  /\ untrustedTableStorage' = [u \in 0 .. 1 |-> untrustedTableStorage'[u]]
         /\ \A u \in 0 .. 1 : Storage(untrustedTableStorage'[u])
         /\ untrustedTableStorage'[t] = map
         /\ \A u \in 0 .. 1 : u # t => untrustedTableStorage'[u] = untrustedTableStorage[u]
BY DEF TypeInv

(* The process that ends leaves its storages as they are.                  *)
LEMMA DieType ==
  ASSUME Die, died \in BOOLEAN
  PROVE  /\ UNCHANGED <<untrustedTableStorage, untrustedBinStorage, indexFile>>
         /\ died' \in BOOLEAN
BY DEF Die

-----------------------------------------------------------------------------
(* The records of main, what idxSelect relies on, and how far the answer   *)
(* has come.                                                               *)
AnswerInv ==
  /\ main = [numBins |-> main.numBins, numSelectedBins |-> main.numSelectedBins,
             s_bins |-> main.s_bins, s_records |-> main.s_records]
  /\ parts \in [0 .. 1 -> Seq(Nat)]
  /\ call = NoCall => steps = <<>>
  /\ indexed =>
       /\ call = NoCall \/ call.name \in {"buildIndex", "idxSelect"}
       /\ \A k \in 1 .. Len(calls) : calls[k].name = "idxSelect"
       /\ up /\ call.name # "buildIndex" => main.numBins = Len(parts[0]) + Len(parts[1])
  /\ call.name = "idxSelect" =>
       /\ answer.query = call.arg /\ answer.bins \in Selections(Len(parts[0]))
       /\ steps = <<abort>> \/ (steps = <<>> /\ indexed)
  /\ taken.came => indexed /\ call.name # "buildIndex"

(* A selection of bins is a sequence of at most all of them.               *)
LEMMA SelectionLength ==
  ASSUME NEW n \in Nat, NEW bins \in Selections(n)
  PROVE  Len(bins) \in 0 .. n /\ bins \in Seq(Nat)
<1>1. PICK m \in 0 .. n : bins \in [1 .. m -> 1 .. n]
  BY DEF Selections
<1>2. bins \in [1 .. m -> Nat] /\ m \in Nat
  BY <1>1
<1> QED
  BY <1>1, <1>2, FunctionIsSequence

(* What main has once an answer has been copied out.                       *)
LEMMA AnswerReceived ==
  ASSUME AnswerInv, NEW n \in Nat, answer.bins \in Selections(n), main.numBins \in Nat, n <= main.numBins,
         main' = Received("idxSelect", SGX_SUCCESS, Len(answer.bins), answer)
  PROVE  /\ main'.numSelectedBins <= Len(main'.s_bins)
         /\ SubSeq(main'.s_bins, 1, main'.numSelectedBins) = answer.bins
         /\ main'.s_records = answer.records /\ main'.numBins = main.numBins
         /\ main' = [numBins |-> main'.numBins, numSelectedBins |-> main'.numSelectedBins,
                     s_bins |-> main'.s_bins, s_records |-> main'.s_records]
<1> DEFINE N == main.numBins
           L == Len(answer.bins)
           S == [k \in 1 .. N |-> IF k <= L THEN answer.bins[k] ELSE 0]
<1>1. L \in 0 .. n /\ answer.bins \in Seq(Nat) /\ L <= N /\ L \in Nat /\ N \in Nat
  BY SelectionLength
<1>2. Assigned("idxSelect", SGX_SUCCESS, 0, L) = L
  BY DEF Assigned, AnswersWithResult
<1>3. main' = [main EXCEPT !.numSelectedBins = L, !.s_bins = S, !.s_records = answer.records]
  <2>1. Received("idxSelect", SGX_SUCCESS, L, answer) =
          [main EXCEPT !.numSelectedBins = Assigned("idxSelect", SGX_SUCCESS, 0, L),
                       !.s_bins = S, !.s_records = answer.records]
    BY DEF Received, NumSelectedBins, SGX_SUCCESS
  <2> QED
    BY <1>2, <2>1
<1> HIDE DEF S
<1>4. main' = [numBins |-> N, numSelectedBins |-> L, s_bins |-> S, s_records |-> answer.records]
  BY <1>3 DEF AnswerInv
<1>5. S \in Seq(Nat) /\ Len(S) = N /\ \A k \in 1 .. L : S[k] = answer.bins[k]
  <2>1. S \in [1 .. N -> Nat]
    BY <1>1 DEF S
  <2>2. \A k \in 1 .. L : S[k] = answer.bins[k]
    BY <1>1 DEF S
  <2> QED
    BY <1>1, <2>1, <2>2, FunctionIsSequence
<1>6. SubSeq(S, 1, L) = answer.bins
  <2>1. SubSeq(S, 0 + 1, 0 + L) \in Seq(Nat) /\ Len(SubSeq(S, 0 + 1, 0 + L)) = L
        /\ \A k \in 1 .. L : SubSeq(S, 0 + 1, 0 + L)[k] = S[0 + k]
    BY <1>1, <1>5, SubSeqOf
  <2>2. 0 + 1 = 1 /\ 0 + L = L /\ \A k \in 1 .. L : 0 + k = k
    BY <1>1
  <2> HIDE DEF L
  <2>3. SubSeq(S, 1, L) \in Seq(Nat) /\ Len(SubSeq(S, 1, L)) = L
        /\ \A k \in 1 .. L : SubSeq(S, 1, L)[k] = answer.bins[k]
    BY <1>5, <2>1, <2>2
  <2> QED
    BY <1>1, <2>3 DEF L
<1> QED
  BY <1>1, <1>4, <1>5, <1>6

(* What main keeps when an ECALL has failed.                               *)
LEMMA NothingReceived ==
  ASSUME AnswerInv, NEW name, main' = Received(name, SGX_ERROR, Unset, answer)
  PROVE  /\ name # "idxSelect" => main' = main
         /\ name = "idxSelect" => main'.numSelectedBins = 0
         /\ main'.numBins = main.numBins
         /\ main' = [numBins |-> main'.numBins, numSelectedBins |-> main'.numSelectedBins,
                     s_bins |-> main'.s_bins, s_records |-> main'.s_records]
<1>1. SGX_ERROR # SGX_SUCCESS
  BY DEF SGX_ERROR, SGX_SUCCESS
<1>2. \A old : Assigned(name, SGX_ERROR, old, Unset) = old
  BY <1>1 DEF Assigned
<1>3. CASE name = "buildIndex"
  <2>1. main' = [main EXCEPT !.numBins = main.numBins]
    BY <1>2, <1>3 DEF Received
  <2> QED
    BY <1>3, <2>1 DEF AnswerInv
<1>4. CASE name = "idxSelect"
  <2>1. main' = [main EXCEPT !.numSelectedBins = 0, !.s_bins = main.s_bins, !.s_records = main.s_records]
    BY <1>1, <1>2, <1>4 DEF Received, NumSelectedBins
  <2> QED
    BY <1>4, <2>1 DEF AnswerInv
<1>5. CASE name \notin {"buildIndex", "idxSelect"}
  BY <1>5 DEF Received, AnswerInv
<1> QED
  BY <1>3, <1>4, <1>5

(* No answer is shown when main starts.                                    *)
LEMMA AnswerInit ==
  ASSUME SessionInit
  PROVE  AnswerInv /\ AnswerOfThisQuery
<1>1. /\ call = NoCall /\ steps = <<>> /\ parts = [t \in 0 .. 1 |-> <<>>] /\ indexed = FALSE
      /\ main = [numBins |-> 0, numSelectedBins |-> 0, s_bins |-> <<>>, s_records |-> 0]
      /\ taken = [query |-> 0, came |-> FALSE]
  BY DEF SessionInit
<1>2. parts \in [0 .. 1 -> Seq(Nat)]
  BY <1>1
<1>3. call.name # "idxSelect" /\ ~taken.came
  BY <1>1 DEF NoCall, Ecall
<1> QED
  BY <1>1, <1>2, <1>3 DEF AnswerInv, AnswerOfThisQuery

(* Entering an ECALL: what matters is whether it is one of the two.        *)
LEMMA AnswerBody ==
  ASSUME CallsInv, AnswerInv, AnswerOfThisQuery, Body
  PROVE  AnswerInv' /\ AnswerOfThisQuery'
<1>1. ASSUME NEW name, Enter(name), parts' \in [0 .. 1 -> Seq(Nat)],
             name = "buildIndex" => indexed' /\ parts' = parts,
             name = "idxSelect" =>
               /\ indexed' = indexed /\ parts' = parts
               /\ answer'.query = call'.arg /\ answer'.bins \in Selections(Len(parts'[0]))
               /\ steps' = <<abort>> \/ (steps' = <<>> /\ indexed),
             name \notin {"buildIndex", "idxSelect"} => indexed' = indexed,
             name # "idxSelect" => answer' = answer
      PROVE  AnswerInv' /\ AnswerOfThisQuery'
  <2>1. /\ call = NoCall /\ call'.name = name /\ call' # NoCall /\ call' = calls[1] /\ Fits(call')
        /\ Len(calls) \in Nat \ {0}
        /\ \A k \in 1 .. Len(calls') : calls'[k] = calls[k + 1] /\ k + 1 \in 1 .. Len(calls)
        /\ \A k \in 1 .. Len(calls') : Before(call', calls'[k]) /\ Fits(calls'[k])
        /\ UNCHANGED <<usage, up, main, taken>>
    BY <1>1, Entered
  <2>2. indexed => name = "idxSelect"
    <3>1. indexed => \A k \in 1 .. Len(calls) : calls[k].name = "idxSelect"
      BY DEF AnswerInv
    <3>2. 1 \in 1 .. Len(calls)
      BY <2>1
    <3> QED
      BY <2>1, <3>1, <3>2
  <2>3. name = "buildIndex" => \A k \in 1 .. Len(calls') : calls'[k].name = "idxSelect"
    <3> SUFFICES ASSUME name = "buildIndex", NEW k \in 1 .. Len(calls')
                 PROVE  calls'[k].name = "idxSelect"
      OBVIOUS
    <3>1. usage.op = "select" /\ Stage(call'.name) = 5
      BY <2>1 DEF Fits, Stage, Loading, Making
    <3>2. Stage(calls'[k].name) > 5
      <4>1. Before(call', calls'[k])
        BY <2>1
      <4>2. 5 \notin {1, 6}
        OBVIOUS
      <4>3. Stage(call'.name) < Stage(calls'[k].name)
        BY <3>1, <4>1, <4>2 DEF Before
      <4> QED
        BY <3>1, <4>3
    <3>3. calls'[k].name \in {"idxSelect", "innerJoin", "pfJoin", "czscJoin", "joinCompact"}
      BY <2>1, <3>2 DEF Fits, Stage, Loading, Making
    <3> QED
      BY <2>1, <3>1, <3>3 DEF Fits
  <2>4. indexed' => \A k \in 1 .. Len(calls') : calls'[k].name = "idxSelect"
    <3>1. indexed => \A k \in 1 .. Len(calls') : calls'[k].name = "idxSelect"
      BY <2>1 DEF AnswerInv
    <3> QED
      BY <1>1, <2>3, <3>1
  <2>5. indexed' => name \in {"buildIndex", "idxSelect"}
    BY <1>1, <2>2
  <2>6. indexed' /\ up' /\ call'.name # "buildIndex" => main'.numBins = Len(parts'[0]) + Len(parts'[1])
    <3> SUFFICES ASSUME indexed', up', call'.name # "buildIndex"
                 PROVE  main'.numBins = Len(parts'[0]) + Len(parts'[1])
      OBVIOUS
    <3>1. name = "idxSelect" /\ indexed /\ parts' = parts /\ up /\ main' = main
      BY <1>1, <2>1, <2>5
    <3>2. call.name # "buildIndex"
      BY <2>1 DEF NoCall, Ecall
    <3> QED
      BY <3>1, <3>2 DEF AnswerInv
  <2>7. taken'.came => indexed' /\ call'.name # "buildIndex"
    BY <1>1, <2>1, <2>2 DEF AnswerInv
  <2>8. AnswerInv'
    BY <1>1, <2>1, <2>4, <2>5, <2>6, <2>7 DEF AnswerInv
  <2>9. AnswerOfThisQuery'
    BY <2>1 DEF AnswerOfThisQuery
  <2> QED
    BY <2>8, <2>9
<1>2. parts \in [0 .. 1 -> Seq(Nat)]
  BY DEF AnswerInv
<1>3. CASE ExtractMeta
  BY <1>1, <1>2, <1>3 DEF ExtractMeta
<1>4. CASE ExtractData
  BY <1>1, <1>2, <1>4 DEF ExtractData
<1>5. CASE CreatePDS
  <2>1. Enter("createPDS") /\ indexed' = indexed /\ answer' = answer
        /\ \E numLeaves \in 1 .. MaxBins : parts' = [parts EXCEPT ![0] = [k \in 1 .. numLeaves |-> 0]]
    BY <1>5 DEF CreatePDS
  <2>2. PICK numLeaves \in 1 .. MaxBins : parts' = [parts EXCEPT ![0] = [k \in 1 .. numLeaves |-> 0]]
    BY <2>1
  <2>3. [k \in 1 .. numLeaves |-> 0] \in Seq(Nat)
    OBVIOUS
  <2>4. parts' \in [0 .. 1 -> Seq(Nat)]
    BY <1>2, <2>2, <2>3
  <2> QED
    BY <1>1, <2>1, <2>4
<1>6. CASE InitJoinPDS
  BY <1>1, <1>2, <1>6 DEF InitJoinPDS, enclaveVars
<1>7. CASE InitHTree
  <2>1. Enter("initHTree") /\ indexed' = indexed /\ answer' = answer
        /\ \E n \in 1 .. MaxBins : \E p1 \in Partitions(0, n), p2 \in Partitions(1, n) :
             parts' = [t \in 0 .. 1 |-> IF t \notin TableIDs THEN <<>> ELSE IF t = 0 THEN p1 ELSE p2]
    BY <1>7 DEF InitHTree
  <2>2. PICK n \in 1 .. MaxBins : \E p1 \in Partitions(0, n), p2 \in Partitions(1, n) :
          parts' = [t \in 0 .. 1 |-> IF t \notin TableIDs THEN <<>> ELSE IF t = 0 THEN p1 ELSE p2]
    BY <2>1
  <2>5. PICK p1 \in Partitions(0, n), p2 \in Partitions(1, n) :
          parts' = [t \in 0 .. 1 |-> IF t \notin TableIDs THEN <<>> ELSE IF t = 0 THEN p1 ELSE p2]
    BY <2>2
  <2>3. p1 \in Seq(Nat) /\ p2 \in Seq(Nat) /\ <<>> \in Seq(Nat)
    <3>1. n \in Nat \ {0} /\ 0 \in 0 .. 1 /\ 1 \in 0 .. 1
      BY SessionAssumption
    <3> QED
      BY <3>1, PartitionEnds
  <2>4. parts' \in [0 .. 1 -> Seq(Nat)]
    BY <2>5, <2>3
  <2> QED
    BY <1>1, <2>1, <2>4
<1>8. CASE CreateJoinBuckets
  BY <1>1, <1>2, <1>8 DEF CreateJoinBuckets, enclaveVars
<1>9. CASE CreateCZSC
  <2>1. Enter("createCZSC") /\ indexed' = indexed /\ answer' = answer
        /\ \E numBins \in 1 .. MaxBins : parts' = [t \in 0 .. 1 |-> [k \in 1 .. numBins |-> 0]]
    BY <1>9 DEF CreateCZSC
  <2>2. PICK numBins \in 1 .. MaxBins : parts' = [t \in 0 .. 1 |-> [k \in 1 .. numBins |-> 0]]
    BY <2>1
  <2>3. [k \in 1 .. numBins |-> 0] \in Seq(Nat)
    OBVIOUS
  <2>4. parts' \in [0 .. 1 -> Seq(Nat)]
    BY <2>2, <2>3
  <2> QED
    BY <1>1, <2>1, <2>4
<1>10. CASE BuildIndex
  BY <1>1, <1>2, <1>10 DEF BuildIndex
<1>11. CASE IdxSelect
  <2>1. Enter("idxSelect") /\ UNCHANGED <<indexed, parts>>
        /\ steps' = (IF indexed THEN <<>> ELSE <<abort>>)
    BY <1>11 DEF IdxSelect, enclaveVars
  <2>2. PICK bins \in Selections(Len(parts[0])) :
          answer' = [query |-> call'.arg, bins |-> bins,
                     records |-> FoldSeq(+, 0, [k \in DOMAIN bins |-> NumData(0, bins[k])])]
    BY <1>11 DEF IdxSelect
  <2>3. answer'.query = call'.arg /\ answer'.bins = bins
    BY <2>2
  <2>4. answer'.bins \in Selections(Len(parts'[0]))
    BY <2>1, <2>2, <2>3
  <2>5. steps' = <<abort>> \/ (steps' = <<>> /\ indexed)
    BY <2>1
  <2>6. parts' \in [0 .. 1 -> Seq(Nat)]
    BY <1>2, <2>1
  <2> QED
    BY <1>1, <2>1, <2>3, <2>4, <2>5, <2>6
<1>12. CASE InnerJoin
  BY <1>1, <1>2, <1>12 DEF InnerJoin
<1>13. CASE CZSCJoinCall
  BY <1>1, <1>2, <1>13 DEF CZSCJoinCall
<1>14. CASE JoinCompactCall
  BY <1>1, <1>2, <1>14 DEF JoinCompactCall
<1> QED
  BY <1>3, <1>4, <1>5, <1>6, <1>7, <1>8, <1>9, <1>10, <1>11, <1>12, <1>13, <1>14 DEF Body

(* What main shows stays the answer to the query it has asked.             *)
LEMMA AnswerNext ==
  ASSUME CallsInv, AnswerInv, AnswerOfThisQuery, [SessionNext]_sessionVars
  PROVE  AnswerInv' /\ AnswerOfThisQuery'
<1>1. CASE UNCHANGED <<call, calls, steps, up, parts, indexed, main, answer, taken>>
  BY <1>1 DEF AnswerInv, AnswerOfThisQuery
<1>2. CASE Steps /\ ~AbortStep
  <2>1. /\ UNCHANGED <<call, calls, up, parts, indexed, main, answer, taken>>
        /\ steps # <<>> /\ Head(steps) # abort
    <3>1. ASSUME NEW op, Request(op), op # "abort"
          PROVE  /\ UNCHANGED <<call, calls, up, parts, indexed, main, answer, taken>>
                 /\ steps # <<>> /\ Head(steps) # abort
      BY <3>1 DEF Request, InBody, mainVars, abort
    <3>2. CASE LostRead \/ LostRequest
      BY <3>2 DEF LostRead, LostRequest, InBody, enclaveVars, mainVars, abort, Dispatched
    <3>3. CASE MoveDataStep \/ WriteBucketStep
      <4>1. up /\ steps # <<>> /\ Head(steps).op \in {"moveData", "writeBucket"}
        BY <3>3 DEF MoveDataStep, WriteBucketStep, InBody
      <4>2. UNCHANGED <<call, calls, up, parts, indexed, main, answer, taken>>
        BY <3>3 DEF MoveDataStep, WriteBucketStep, enclaveVars, mainVars
      <4> QED
        BY <4>1, <4>2 DEF abort
    <3> QED
      BY <1>2, <3>1, <3>2, <3>3 DEF Steps, ReadStep, WriteStep, ExpandStep, InitBinStep, DeleteBinStep,
           DeleteTableStep, MoveBinStep, CollectStep, WriteIndexStep, SortStep, FreeStep, Writing
  <2>2. call # NoCall /\ call.name # "idxSelect"
    <3>1. steps # <<abort>>
      BY <2>1
    <3> QED
      BY <2>1, <3>1 DEF AnswerInv
  <2> QED
    BY <2>1, <2>2 DEF AnswerInv, AnswerOfThisQuery
<1>3. CASE ReturnEcall
  <2>1. /\ up /\ call # NoCall /\ steps = <<>>
        /\ main' = Received(call.name, SGX_SUCCESS, IF call.name = "idxSelect" THEN Len(answer.bins)
                                                    ELSE Len(parts[0]) + Len(parts[1]), answer)
        /\ taken' = Taken(call, TRUE) /\ call' = NoCall
        /\ UNCHANGED <<calls, steps, up, parts, indexed, answer>>
    BY <1>3 DEF ReturnEcall, enclaveVars
  <2>2. call'.name \notin {"idxSelect", "buildIndex"}
    BY <2>1 DEF NoCall, Ecall
  <2>3. CASE call.name = "idxSelect"
    <3>1. /\ answer.query = call.arg /\ answer.bins \in Selections(Len(parts[0])) /\ indexed
          /\ main.numBins = Len(parts[0]) + Len(parts[1])
      <4>1. steps # <<abort>>
        BY <2>1
      <4> QED
        BY <2>1, <2>3, <4>1 DEF AnswerInv
    <3>2. Len(parts[0]) \in Nat /\ Len(parts[1]) \in Nat
      BY DEF AnswerInv
    <3>3. /\ main'.numSelectedBins <= Len(main'.s_bins)
          /\ SubSeq(main'.s_bins, 1, main'.numSelectedBins) = answer.bins
          /\ main'.s_records = answer.records /\ main'.numBins = main.numBins
          /\ main' = [numBins |-> main'.numBins, numSelectedBins |-> main'.numSelectedBins,
                      s_bins |-> main'.s_bins, s_records |-> main'.s_records]
      <4>1. main' = Received("idxSelect", SGX_SUCCESS, Len(answer.bins), answer)
        BY <2>1, <2>3
      <4>2. main.numBins \in Nat /\ Len(parts[0]) <= main.numBins
        <5> DEFINE a == Len(parts[0])
                   b == Len(parts[1])
        <5>1. a \in Nat /\ b \in Nat /\ main.numBins = a + b
          BY <3>1, <3>2
        <5> HIDE DEF a, b
        <5>2. main.numBins \in Nat /\ a <= main.numBins
          BY <5>1
        <5> QED
          BY <5>2 DEF a
      <4> QED
        BY <3>1, <3>2, <4>1, <4>2, AnswerReceived
    <3>4. taken' = [query |-> call.arg, came |-> TRUE]
      BY <2>1, <2>3 DEF Taken
    <3>5. AnswerInv'
      BY <2>1, <2>2, <3>1, <3>3, <3>4 DEF AnswerInv
    <3>6. AnswerOfThisQuery'
      <4>1. taken'.came = TRUE /\ taken'.query = call.arg
        BY <3>4
      <4>2. answer' = answer
        BY <2>1
      <4> QED
        BY <3>1, <3>3, <4>1, <4>2 DEF AnswerOfThisQuery
    <3> QED
      BY <3>5, <3>6
  <2>4. CASE call.name # "idxSelect"
    <3>1. taken' = taken
      BY <2>1, <2>4 DEF Taken
    <3>2. CASE call.name = "buildIndex"
      <4>1. main' = [main EXCEPT !.numBins = Len(parts[0]) + Len(parts[1])]
        BY <2>1, <3>2 DEF Received, Assigned, AnswersWithResult
      <4>2. /\ main' = [numBins |-> Len(parts[0]) + Len(parts[1]), numSelectedBins |-> main.numSelectedBins,
                        s_bins |-> main.s_bins, s_records |-> main.s_records]
        BY <4>1 DEF AnswerInv
      <4>3. ~taken.came
        BY <3>2 DEF AnswerInv
      <4>4. AnswerInv'
        <5>1. main'.numBins = Len(parts'[0]) + Len(parts'[1])
          <6> DEFINE n == Len(parts[0]) + Len(parts[1])
          <6>2. main' = [numBins |-> n, numSelectedBins |-> main.numSelectedBins,
                         s_bins |-> main.s_bins, s_records |-> main.s_records]
            BY <4>2
          <6> HIDE DEF n
          <6>3. main'.numBins = n
            BY <6>2
          <6>1. parts' = parts /\ main'.numBins = Len(parts[0]) + Len(parts[1])
            BY <2>1, <6>3 DEF n
          <6> QED
            BY <6>1
        <5>2. main' = [numBins |-> main'.numBins, numSelectedBins |-> main'.numSelectedBins,
                       s_bins |-> main'.s_bins, s_records |-> main'.s_records]
          BY <4>2
        <5>3. /\ parts' \in [0 .. 1 -> Seq(Nat)] /\ steps' = <<>> /\ call' = NoCall
              /\ indexed' => \A k \in 1 .. Len(calls') : calls'[k].name = "idxSelect"
              /\ ~taken'.came
          BY <2>1, <3>1, <4>3 DEF AnswerInv
        <5> QED
          BY <2>2, <5>1, <5>2, <5>3 DEF AnswerInv
      <4>5. AnswerOfThisQuery'
        BY <3>1, <4>2, <4>3 DEF AnswerOfThisQuery
      <4> QED
        BY <4>4, <4>5
    <3>3. CASE call.name # "buildIndex"
      <4>1. main' = main
        BY <2>1, <2>4, <3>3 DEF Received
      <4>2. ~indexed /\ ~taken.came
        BY <2>1, <2>4, <3>3 DEF AnswerInv
      <4> QED
        BY <2>1, <2>2, <3>1, <4>1, <4>2 DEF AnswerInv, AnswerOfThisQuery
    <3> QED
      BY <3>2, <3>3
  <2> QED
    BY <2>3, <2>4
<1>4. ASSUME NEW c, Refused(c), call' = NoCall, steps' = <<>>, up' => up,
             indexed => \A k \in 1 .. Len(calls') : calls'[k].name = "idxSelect",
             call = NoCall \/ (call = c /\ ~up')
      PROVE  AnswerInv' /\ AnswerOfThisQuery'
  <2>1. /\ main' = Received(c.name, SGX_ERROR, Unset, answer) /\ taken' = Taken(c, FALSE)
        /\ UNCHANGED <<parts, indexed, answer>>
    BY <1>4 DEF Refused, enclaveVars
  <2>2. /\ c.name # "idxSelect" => main' = main
        /\ c.name = "idxSelect" => main'.numSelectedBins = 0
        /\ main'.numBins = main.numBins
        /\ main' = [numBins |-> main'.numBins, numSelectedBins |-> main'.numSelectedBins,
                    s_bins |-> main'.s_bins, s_records |-> main'.s_records]
    BY <2>1, NothingReceived
  <2>3. call'.name \notin {"idxSelect", "buildIndex"}
    BY <1>4 DEF NoCall, Ecall
  <2>4. c.name = "idxSelect" => taken' = [query |-> c.arg, came |-> FALSE]
    BY <2>1 DEF Taken
  <2>5. c.name # "idxSelect" => taken' = taken
    BY <2>1 DEF Taken
  <2>6. indexed /\ up' => main'.numBins = Len(parts'[0]) + Len(parts'[1])
    <3> SUFFICES ASSUME indexed, up'
                 PROVE  main'.numBins = Len(parts'[0]) + Len(parts'[1])
      OBVIOUS
    <3>1. call = NoCall /\ up
      BY <1>4
    <3>2. call.name # "buildIndex"
      BY <3>1 DEF NoCall, Ecall
    <3> QED
      BY <2>1, <2>2, <3>1, <3>2 DEF AnswerInv
  <2>7. /\ parts' \in [0 .. 1 -> Seq(Nat)] /\ steps' = <<>>
        /\ indexed' => \A k \in 1 .. Len(calls') : calls'[k].name = "idxSelect"
        /\ taken'.came => indexed'
    <3>1. indexed' = indexed /\ parts' = parts /\ steps' = <<>>
      BY <1>4, <2>1
    <3>2. taken'.came => taken.came
      BY <2>4, <2>5
    <3> QED
      BY <1>4, <3>1, <3>2 DEF AnswerInv
  <2>8. AnswerInv'
    BY <1>4, <2>1, <2>2, <2>3, <2>6, <2>7 DEF AnswerInv
  <2>9. CASE c.name = "idxSelect"
    <3>1. ~taken'.came /\ main'.numSelectedBins = 0
      BY <2>2, <2>4, <2>9
    <3> QED
      BY <2>8, <3>1 DEF AnswerOfThisQuery
  <2>10. CASE c.name # "idxSelect"
    <3>1. taken' = taken /\ main' = main /\ answer' = answer
      BY <2>1, <2>2, <2>5, <2>10
    <3>2. taken.came => call = NoCall
      BY <1>4, <2>10 DEF AnswerInv
    <3> QED
      BY <2>8, <3>1, <3>2 DEF AnswerOfThisQuery
  <2> QED
    BY <2>9, <2>10
<1>5. CASE AbortStep
  <2>1. Refused(call) /\ call' = NoCall /\ steps' = <<>> /\ up' = FALSE /\ calls' = calls
    BY <1>5 DEF AbortStep
  <2>2. indexed => \A k \in 1 .. Len(calls') : calls'[k].name = "idxSelect"
    BY <2>1 DEF AnswerInv
  <2> QED
    BY <1>4, <2>1, <2>2
<1>6. CASE FailedEcall
  <2>1. /\ call = NoCall /\ calls # <<>> /\ Refused(Head(calls)) /\ calls' = Tail(calls)
        /\ UNCHANGED <<call, steps, up>>
    BY <1>6 DEF FailedEcall
  <2>2. steps = <<>>
    BY <2>1 DEF AnswerInv
  <2>3. /\ Len(calls) \in Nat \ {0} /\ Len(calls') = Len(calls) - 1
        /\ \A k \in 1 .. Len(calls) - 1 : calls'[k] = calls[k + 1]
    BY <2>1, TailOf DEF CallsInv
  <2>4. \A k \in 1 .. Len(calls') : calls'[k] = calls[k + 1] /\ k + 1 \in 1 .. Len(calls)
    BY <2>3
  <2>5. indexed => \A k \in 1 .. Len(calls') : calls'[k].name = "idxSelect"
    <3>1. indexed => \A k \in 1 .. Len(calls) : calls[k].name = "idxSelect"
      BY DEF AnswerInv
    <3> QED
      BY <2>4, <3>1
  <2> QED
    BY <1>4, <2>1, <2>2, <2>5
<1>7. CASE Body
  BY <1>7, AnswerBody
<1>8. CASE UNCHANGED sessionVars
  BY <1>1, <1>8 DEF sessionVars, enclaveVars, mainVars
<1> QED
  BY <1>2, <1>3, <1>5, <1>6, <1>7, <1>8 DEF SessionNext, Steps

(* What main takes for the answer to a query is the answer to that query.  *)
THEOREM SessionAnswers == SessionSpec => []AnswerOfThisQuery
<1>1. SessionInit => CallsInv /\ AnswerInv /\ AnswerOfThisQuery
  BY SessionAssumption, CallsInit, AnswerInit
<1>2. CallsInv /\ AnswerInv /\ AnswerOfThisQuery /\ [SessionNext]_sessionVars
        => CallsInv' /\ AnswerInv' /\ AnswerOfThisQuery'
  BY SessionAssumption, CallsNext, AnswerNext
<1> QED
  BY <1>1, <1>2, PTL DEF SessionSpec

-----------------------------------------------------------------------------
(* Buckets end one after the other.                                        *)
EndsInv ==
  pds = "HTree" => \A t \in TableIDs :
    parts[t] # <<>> /\ \A i, j \in 1 .. Len(parts[t]) : i < j => parts[t][i] <= parts[t][j]

(* What a step relies on, and what may come before it.                     *)
Single(s) ==
  /\ s.op \in {"readDataBlock", "expand_table", "initBinStorage"} =>
       0 \in DOMAIN (untrustedTableStorage[s.tableID])
  /\ s.op = "moveData" => pds = "HTree" /\ s.tableID \in TableIDs
  /\ s.op = "writeBucket" =>
       /\ pds = "HTree" /\ s.tableID \in TableIDs /\ s.bucket \in 1 .. Len(parts[s.tableID])
       /\ Len(tdata[s.tableID]) = Last(parts[s.tableID])
  /\ s.op = "abort" => failed \/ Hopeless

BinRows(id) == IF id \in DOMAIN untrustedBinStorage THEN Len(untrustedBinStorage[id]) ELSE 0

First(s) ==
  /\ s.op = "writeDataBlock" => s.pos <= BinRows(s.binID)
  /\ s.op = "collect_resize_bins" => 0 \in DOMAIN untrustedBinStorage
  /\ s.op = "move_resize_bin_totable" => 0 \in DOMAIN untrustedBinStorage /\ s.srcBinID = 0

Ordinary == ~lost /\ ~SeveralSparseBins

StepInv ==
  /\ \A k \in 1 .. Len(steps) : Single(steps[k])
  /\ \A k, l \in 1 .. Len(steps) : k < l => Ordered(steps[k], steps[l])
  /\ Ordinary => \A k \in 1 .. Len(steps) - 1 : Follows(steps[k], steps[k + 1])
  /\ Ordinary /\ steps # <<>> => First(steps[1])

(* Until an ECALL of the third stage runs, every table is at the host.     *)
Untouched ==
  (\E k \in 1 .. Len(calls) : Stage(calls[k].name) <= 3) =>
    /\ \A t \in TableIDs : 0 \in DOMAIN (untrustedTableStorage[t])
    /\ \A k \in 1 .. Len(steps) : steps[k].op \in {"readDataBlock", "obliSort", "abort"}

(* What an ECALL needs is there, or is made before.                        *)
Needs ==
  up /\ ~failed => \A k \in 1 .. Len(calls) :
    /\ calls[k].name = "createPDS" => meta # {} \/ Comes("extractMeta", k)
    /\ calls[k].name = "createJoinBuckets" => pds = "HTree" \/ Comes("initHTree", k)
    /\ calls[k].name = "buildIndex" => pds # "none" \/ Comes("createPDS", k) \/ Comes("initHTree", k)
    /\ calls[k].name = "idxSelect" => indexed \/ Comes("buildIndex", k)
    /\ calls[k].name = "czscJoin" => pds = "CZSC" \/ Comes("createCZSC", k)

Idle == call = NoCall => steps = <<>>

(* What is known of the first step to do and of those behind it.           *)
LEMMA Pending ==
  ASSUME TypeInv, StepInv, steps # <<>>
  PROVE  /\ Len(steps) \in Nat \ {0} /\ Head(steps) = steps[1] /\ steps[1] \in Step
         /\ Single(steps[1])
         /\ Ordinary => First(steps[1])
         /\ \A k \in 1 .. Len(steps) : k > 1 => Ordered(steps[1], steps[k])
         /\ Tail(steps) \in Seq(Step) /\ Len(Tail(steps)) = Len(steps) - 1
         /\ \A k \in 1 .. Len(Tail(steps)) :
              /\ Tail(steps)[k] = steps[k + 1] /\ k + 1 \in 1 .. Len(steps)
              /\ steps[k + 1] \in Step /\ Single(steps[k + 1]) /\ Ordered(steps[1], steps[k + 1])
         /\ \A k, l \in 1 .. Len(Tail(steps)) : k < l => Ordered(Tail(steps)[k], Tail(steps)[l])
         /\ Ordinary => \A k \in 1 .. Len(Tail(steps)) - 1 : Follows(Tail(steps)[k], Tail(steps)[k + 1])
         /\ Ordinary /\ Tail(steps) # <<>> => Follows(steps[1], Tail(steps)[1])
<1> DEFINE n == Len(steps)
           d == Tail(steps)
           m == Len(d)
<1>1. /\ n \in Nat \ {0} /\ Head(steps) = steps[1] /\ steps[1] \in Step
      /\ d \in Seq(Step) /\ m = n - 1
      /\ \A k \in 1 .. n - 1 : d[k] = steps[k + 1]
  BY TailOf DEF TypeInv
<1>2. /\ \A k \in 1 .. n : Single(steps[k])
      /\ \A k, l \in 1 .. n : k < l => Ordered(steps[k], steps[l])
      /\ Ordinary => \A k \in 1 .. n - 1 : Follows(steps[k], steps[k + 1])
      /\ Ordinary => First(steps[1])
  BY DEF StepInv
<1>3. \A k \in 1 .. n : steps[k] \in Step
  BY DEF TypeInv
<1>4. d # <<>> => m # 0
  BY <1>1
<1> HIDE DEF n, d, m
<1>5. 1 \in 1 .. n /\ \A k \in 1 .. m : d[k] = steps[k + 1] /\ k + 1 \in 1 .. n /\ 1 < k + 1
  BY <1>1
<1>6. \A k \in 1 .. m : steps[k + 1] \in Step /\ Single(steps[k + 1]) /\ Ordered(steps[1], steps[k + 1])
  BY <1>2, <1>3, <1>5
<1>7. \A k, l \in 1 .. m : k < l => Ordered(d[k], d[l])
  BY <1>1, <1>2, <1>5
<1>8. Ordinary => \A k \in 1 .. m - 1 : Follows(d[k], d[k + 1])
  <2> SUFFICES ASSUME Ordinary, NEW k \in 1 .. m - 1
               PROVE  Follows(d[k], d[k + 1])
    OBVIOUS
  <2>1. k + 1 \in 1 .. n - 1 /\ k \in 1 .. m /\ k + 1 \in 1 .. m
    BY <1>1
  <2>2. Follows(steps[k + 1], steps[k + 1 + 1])
    BY <1>2, <2>1
  <2> QED
    BY <1>5, <2>1, <2>2
<1>9. Ordinary /\ d # <<>> => Follows(steps[1], d[1])
  <2> SUFFICES ASSUME Ordinary, d # <<>>
               PROVE  Follows(steps[1], d[1])
    OBVIOUS
  <2>1. 1 \in 1 .. n - 1 /\ d[1] = steps[1 + 1]
    BY <1>1, <1>4
  <2> QED
    BY <1>2, <2>1
<1>10. \A k \in 1 .. n : k > 1 => Ordered(steps[1], steps[k])
  BY <1>2, <1>5
<1> QED
  BY <1>1, <1>2, <1>5, <1>6, <1>7, <1>8, <1>9, <1>10 DEF n, d, m

-----------------------------------------------------------------------------

(* A sequence that is not empty has a last element.                        *)
LEMMA LastOf ==
  ASSUME NEW S, NEW q \in Seq(S), q # <<>>
  PROVE  Len(q) \in 1 .. Len(q) /\ q[Len(q)] \in S
<1>1. Len(q) \in Nat /\ Len(q) # 0
  OBVIOUS
<1> QED
  BY <1>1

(* Rows with dummies among them: the k-th place taken is that of the k-th  *)
(* row.                                                                    *)
LEMMA PaddedRows ==
  ASSUME NEW rows \in Seq(Row), NEW size \in Nat, NEW places \in kSubset(Len(rows), 1 .. size)
  PROVE  /\ Padded(rows, places, size) \in Seq(Row) /\ Len(Padded(rows, places, size)) = size
         /\ \A k \in places : Cardinality(places \cap 1 .. k) \in 1 .. Len(rows)
<1>1. places \subseteq 1 .. size /\ Cardinality(places) = Len(rows) /\ Len(rows) \in Nat
  BY DEF kSubset
<1>2. ASSUME NEW k \in places
      PROVE  Cardinality(places \cap 1 .. k) \in 1 .. Len(rows)
  <2> DEFINE C == places \cap 1 .. k
  <2>1. k \in 1 .. size /\ k \in C /\ C \subseteq places
    BY <1>1, <1>2
  <2>2. IsFiniteSet(places)
    <3>1. IsFiniteSet(1 .. size)
      BY FS_Interval
    <3> QED
      BY <1>1, <3>1, FS_Subset
  <2>3. IsFiniteSet(C) /\ Cardinality(C) <= Cardinality(places) /\ Cardinality(C) \in Nat
    BY <2>1, <2>2, FS_Subset, FS_CardinalityType
  <2>4. Cardinality(C) # 0
    BY <2>1, <2>3, FS_EmptySet
  <2> HIDE DEF C
  <2>5. Cardinality(C) \in 1 .. Len(rows)
    BY <1>1, <2>3, <2>4
  <2> QED
    BY <2>5 DEF C
<1> DEFINE r(k) == IF k \in places THEN rows[Cardinality(places \cap 1 .. k)] ELSE Dummy
<1>3. \A k \in 1 .. size : r(k) \in Row
  BY <1>1, <1>2, RowsNotNoise
<1>4. Padded(rows, places, size) = [k \in 1 .. size |-> r(k)]
  BY DEF Padded
<1> HIDE DEF r
<1>5. Padded(rows, places, size) \in [1 .. size -> Row]
  BY <1>3, <1>4
<1> QED
  BY <1>2, <1>5, FunctionIsSequence

(* A bucket is within the rows of its table.                               *)
LEMMA BucketRows ==
  ASSUME tdata \in [0 .. 1 -> Seq(Row)], parts \in [0 .. 1 -> Seq(Nat)], EndsInv,
         NEW t \in 0 .. 1, NEW i \in 1 .. Len(parts[t]), pds = "HTree", t \in TableIDs,
         Len(tdata[t]) = Last(parts[t])
  PROVE  /\ [j \in 1 .. NumData(t, i) |-> tdata[t][BinStart(t, i) + j]] \in Seq(Row)
         /\ NumData(t, i) \in Nat /\ BinStart(t, i) \in Nat
         /\ BinStart(t, i) + NumData(t, i) <= Len(tdata[t])
         /\ FirstBucket(t) + i - 1 \in Nat
<1> DEFINE p == parts[t]
           n == Len(p)
<1>1. p \in Seq(Nat) /\ n = Len(p) /\ n \in Nat /\ i \in 1 .. n /\ \A k, l \in 1 .. n : k < l => p[k] <= p[l]
  BY DEF EndsInv
<1>2. Len(tdata[t]) = p[n] /\ tdata[t] \in Seq(Row)
  BY DEF Last
<1>3. Len(parts[0]) \in Nat
  OBVIOUS
<1>4. BinStart(t, i) = (IF i = 1 THEN 0 ELSE p[i - 1]) /\ NumData(t, i) = p[i] - BinStart(t, i)
  BY DEF BinStart, NumData
<1> HIDE DEF p, n
<1>5. p[i] \in Nat /\ p[i] <= p[n] /\ p[n] \in Nat
  <2>1. i = n \/ (i < n /\ n \in 1 .. n)
    BY <1>1
  <2> QED
    BY <1>1, <2>1
<1>6. i # 1 => i - 1 \in 1 .. n /\ i - 1 < i
  BY <1>1
<1>7. BinStart(t, i) \in Nat /\ BinStart(t, i) <= p[i]
  <2>1. CASE i = 1
    BY <1>4, <1>5, <2>1
  <2>2. CASE i # 1
    <3>1. i - 1 \in 1 .. n /\ i - 1 < i /\ p[i - 1] \in Nat
      BY <1>1, <1>6, <2>2
    <3>2. p[i - 1] <= p[i]
      BY <1>1, <3>1
    <3> QED
      BY <1>4, <2>2, <3>1, <3>2
  <2> QED
    BY <2>1, <2>2
<1>8. NumData(t, i) \in Nat /\ BinStart(t, i) + NumData(t, i) <= Len(tdata[t])
  BY <1>2, <1>4, <1>5, <1>7
<1> DEFINE r(j) == tdata[t][BinStart(t, i) + j]
<1>9. \A j \in 1 .. NumData(t, i) : r(j) \in Row
  BY <1>2, <1>7, <1>8
<1> HIDE DEF r
<1>10. [j \in 1 .. NumData(t, i) |-> r(j)] \in Seq(Row)
  <2>1. [j \in 1 .. NumData(t, i) |-> r(j)] \in [1 .. NumData(t, i) -> Row]
    BY <1>9
  <2> QED
    BY <1>8, <2>1, FunctionIsSequence
<1>11. FirstBucket(t) + i - 1 \in Nat
  BY <1>1, <1>3 DEF FirstBucket
<1> QED
  BY <1>7, <1>8, <1>10, <1>11 DEF r

(* A step through the host keeps the types.                                *)
LEMMA TypeStep ==
  ASSUME TypeInv, EndsInv, StepInv, Steps
  PROVE  TypeInv'
<1>1. /\ steps \in Seq(Step)
      /\ up \in BOOLEAN /\ failed \in BOOLEAN /\ lost \in BOOLEAN /\ died \in BOOLEAN
      /\ meta \subseteq 0 .. 1 /\ indexed \in BOOLEAN
      /\ tdata \in [0 .. 1 -> Seq(Row)] /\ dblock \in Seq(Row)
      /\ parts \in [0 .. 1 -> Seq(Nat)]
      /\ noisyOutputSize \in Nat /\ outputSize \in Nat
      /\ untrustedTableStorage = [t \in 0 .. 1 |-> untrustedTableStorage[t]]
      /\ \A t \in 0 .. 1 : Storage(untrustedTableStorage[t])
      /\ Storage(untrustedBinStorage)
  BY DEF TypeInv
<1>2. ASSUME NEW op, Request(op),
             tdata' \in [0 .. 1 -> Seq(Row)], dblock' \in Seq(Row), died' \in BOOLEAN,
             untrustedTableStorage' = [t \in 0 .. 1 |-> untrustedTableStorage'[t]],
             \A t \in 0 .. 1 : Storage(untrustedTableStorage'[t]),
             Storage(untrustedBinStorage')
      PROVE  TypeInv'
  <2>1. /\ steps' \in Seq(Step)
        /\ UNCHANGED <<up, meta, parts, indexed, noisyOutputSize, outputSize, failed, lost>>
    BY <1>2, Requested
  <2> QED
    BY <1>1, <1>2, <2>1 DEF TypeInv, Storage
<1>3. ASSUME NEW op, Request(op)
      PROVE  steps[1] \in Step /\ steps[1].op = op /\ Head(steps) = steps[1]
  BY <1>3, Requested
<1>4. ASSUME NEW op, Writing(op)
      PROVE  /\ Request(op) /\ tdata' \in [0 .. 1 -> Seq(Row)] /\ dblock' \in Seq(Row)
             /\ steps[1] \in Step /\ steps[1].op = op /\ Head(steps) = steps[1]
  BY <1>1, <1>3, <1>4 DEF Writing
<1>5. ASSUME Die
      PROVE  /\ died' \in BOOLEAN
             /\ untrustedTableStorage' = [t \in 0 .. 1 |-> untrustedTableStorage'[t]]
             /\ \A t \in 0 .. 1 : Storage(untrustedTableStorage'[t])
             /\ Storage(untrustedBinStorage')
  BY <1>1, <1>5 DEF Die
<1>6. ASSUME UNCHANGED hostVars
      PROVE  /\ died' \in BOOLEAN
             /\ untrustedTableStorage' = [t \in 0 .. 1 |-> untrustedTableStorage'[t]]
             /\ \A t \in 0 .. 1 : Storage(untrustedTableStorage'[t])
             /\ Storage(untrustedBinStorage')
  BY <1>1, <1>6 DEF hostVars
<1>7. ASSUME NEW t \in 0 .. 1, NEW p, NEW rows \in Seq(Row)
      PROVE  Appended(t, p, rows) \in [0 .. 1 -> Seq(Row)]
  <2>1. tdata[t] \in Seq(Row) /\ <<>> \in Seq(Row)
    BY <1>1
  <2>2. (IF p = 0 THEN <<>> ELSE tdata[t]) \in Seq(Row)
    BY <2>1
  <2>3. (IF p = 0 THEN <<>> ELSE tdata[t]) \o rows \in Seq(Row)
    BY <2>2, Concatenation
  <2> QED
    BY <1>1, <2>3 DEF Appended
<1>8. CASE ReadStep
  <2> DEFINE s == steps[1]
  <2>1. Request("readDataBlock") /\ Head(steps) = s /\ s \in Step /\ s.op = "readDataBlock"
    BY <1>3, <1>8 DEF ReadStep
  <2>2. s.tableID \in 0 .. 1 /\ s.binID = 0 /\ s.pos \in Nat /\ s.numData \in Nat
    BY <2>1, StepFields
  <2>3. CASE s.binID \notin DOMAIN untrustedTableStorage[s.tableID]
    <3>1. Die /\ UNCHANGED <<tdata, dblock>>
      BY <1>8, <2>1, <2>3 DEF ReadStep
    <3> QED
      BY <1>1, <1>2, <1>5, <2>1, <3>1
  <2>4. CASE s.binID \in DOMAIN untrustedTableStorage[s.tableID]
    <3>1. /\ dblock' = DataBlock(untrustedTableStorage[s.tableID][s.binID], s.pos, s.numData)
          /\ tdata' = Appended(s.tableID, s.pos, dblock')
          /\ UNCHANGED hostVars
      BY <1>8, <2>1, <2>4 DEF ReadStep
    <3>2. untrustedTableStorage[s.tableID][s.binID] \in Seq(Row)
      BY <1>1, <2>2, <2>4 DEF Storage
    <3>3. dblock' \in Seq(Row)
      BY <2>2, <3>1, <3>2, BlockRead
    <3>4. tdata' \in [0 .. 1 -> Seq(Row)]
      BY <1>7, <2>2, <3>1, <3>3
    <3> QED
      BY <1>2, <1>6, <2>1, <3>1, <3>3, <3>4
  <2> QED
    BY <2>3, <2>4
<1>9. CASE LostRead
  <2> DEFINE s == steps[1]
  <2>1. /\ steps # <<>> /\ Head(steps).op = "readDataBlock" /\ steps' = Tail(steps) /\ lost' = TRUE
        /\ UNCHANGED <<up, meta, parts, indexed, noisyOutputSize, outputSize, dblock, failed, hostVars>>
        /\ \E left \in IF Head(steps).pos = 0 THEN {<<>>, dblock} ELSE {dblock} :
             tdata' = Appended(Head(steps).tableID, Head(steps).pos, DataBlock(left, 0, Head(steps).numData))
    BY <1>9 DEF LostRead, InBody
  <2>2. Head(steps) = s /\ s \in Step /\ Tail(steps) \in Seq(Step)
    BY <1>1, <2>1, TailOf
  <2>3. s.tableID \in 0 .. 1 /\ s.numData \in Nat
    BY <2>1, <2>2, StepFields
  <2>4. PICK left \in {<<>>, dblock} : tdata' = Appended(s.tableID, s.pos, DataBlock(left, 0, s.numData))
    BY <2>1, <2>2
  <2>5. left \in Seq(Row)
    <3>1. <<>> \in Seq(Row)
      OBVIOUS
    <3> QED
      BY <1>1, <3>1
  <2>6. DataBlock(left, 0, s.numData) \in Seq(Row)
    BY <2>3, <2>5, BlockRead
  <2>7. tdata' \in [0 .. 1 -> Seq(Row)]
    BY <1>7, <2>3, <2>4, <2>6
  <2> QED
    BY <1>1, <1>6, <2>1, <2>2, <2>7 DEF TypeInv
<1>10. CASE LostRequest
  <2>1. /\ steps # <<>> /\ steps' = Tail(steps) /\ lost' = TRUE
        /\ UNCHANGED <<up, meta, tdata, parts, indexed, noisyOutputSize, outputSize, dblock, failed, hostVars>>
    BY <1>10 DEF LostRequest, enclaveVars
  <2>2. Tail(steps) \in Seq(Step)
    BY <1>1, <2>1, TailOf
  <2> QED
    BY <1>1, <1>6, <2>1, <2>2 DEF TypeInv
<1>11. CASE WriteStep
  <2> DEFINE s == steps[1]
             storage == IF s.binID \in DOMAIN untrustedBinStorage THEN untrustedBinStorage[s.binID] ELSE <<>>
  <2>1. Request("writeDataBlock") /\ Head(steps) = s /\ s \in Step /\ s.op = "writeDataBlock"
        /\ tdata' \in [0 .. 1 -> Seq(Row)] /\ dblock' \in Seq(Row)
    BY <1>4, <1>11 DEF WriteStep
  <2>2. HandleWriteDataBlock(s.binID, s.pos, s.dblock)
    BY <1>11, <2>1 DEF WriteStep
  <2>3. s.binID \in Nat /\ s.pos \in Nat /\ s.dblock \in Seq(Row)
    BY <2>1, StepFields
  <2>4. storage \in Seq(Row) /\ Len(storage) \in Nat
    BY <1>1 DEF Storage
  <2>5. CASE s.pos > Size(storage)
    <3>1. Die
      BY <2>2, <2>5 DEF HandleWriteDataBlock
    <3> QED
      BY <1>2, <1>5, <2>1, <3>1
  <2>6. CASE ~(s.pos > Size(storage))
    <3>1. /\ untrustedBinStorage' = With(untrustedBinStorage, s.binID, Stored(storage, s.pos, s.dblock))
          /\ UNCHANGED <<untrustedTableStorage, indexFile, died>>
      BY <2>2, <2>6 DEF HandleWriteDataBlock
    <3>2. s.pos <= Len(storage)
      BY <2>3, <2>4, <2>6 DEF Size
    <3> HIDE DEF storage
    <3>3. Stored(storage, s.pos, s.dblock) \in Seq(Row)
      BY <2>3, <2>4, <3>2, StoredRows
    <3>4. Storage(untrustedBinStorage')
      BY <1>1, <2>3, <3>1, <3>3, PutRows
    <3>5. /\ died' \in BOOLEAN
          /\ untrustedTableStorage' = [t \in 0 .. 1 |-> untrustedTableStorage'[t]]
          /\ \A t \in 0 .. 1 : Storage(untrustedTableStorage'[t])
      BY <1>1, <3>1
    <3> QED
      BY <1>2, <2>1, <3>4, <3>5
  <2> QED
    BY <2>5, <2>6
<1>12. CASE ExpandStep
  <2> DEFINE s == steps[1]
             t == s.tableID
  <2>1. Request("expand_table") /\ Head(steps) = s /\ s \in Step /\ s.op = "expand_table"
        /\ tdata' \in [0 .. 1 -> Seq(Row)] /\ dblock' \in Seq(Row)
    BY <1>4, <1>12 DEF ExpandStep
  <2>2. HandleExpandTable(s.tableID, s.noiseSum)
    BY <1>12, <2>1 DEF ExpandStep
  <2>3. s.tableID \in 0 .. 1 /\ s.noiseSum \in Nat
    BY <2>1, StepFields
  <2>4. CASE 0 \notin DOMAIN untrustedTableStorage[s.tableID]
    <3>1. Die
      BY <2>2, <2>4 DEF HandleExpandTable
    <3> QED
      BY <1>2, <1>5, <2>1, <3>1
  <2>5. CASE 0 \in DOMAIN untrustedTableStorage[s.tableID]
    <3> DEFINE rows == untrustedTableStorage[t][0]
               noise == [k \in 1 .. s.noiseSum |-> Dummy]
               map == [untrustedTableStorage[t] EXCEPT ![0] = rows \o noise]
    <3>1. /\ untrustedTableStorage' = [untrustedTableStorage EXCEPT ![t][0] = rows \o noise]
          /\ UNCHANGED <<untrustedBinStorage, indexFile, died>>
      BY <2>2, <2>5 DEF HandleExpandTable
    <3>2. rows \in Seq(Row)
      BY <1>1, <2>3, <2>5 DEF Storage
    <3>3. noise \in Seq(Row)
      BY <2>3, RowsNotNoise
    <3>4. rows \o noise \in Seq(Row)
      BY <3>2, <3>3, Concatenation
    <3> HIDE DEF rows, noise
    <3>5. Storage(untrustedTableStorage[t])
      BY <1>1, <2>3
    <3>6. Storage(map)
      BY <3>4, <3>5 DEF Storage
    <3>7. untrustedTableStorage' = [untrustedTableStorage EXCEPT ![t] = map]
      BY <3>1
    <3>8. /\ untrustedTableStorage' = [u \in 0 .. 1 |-> untrustedTableStorage'[u]]
          /\ \A u \in 0 .. 1 : Storage(untrustedTableStorage'[u])
      BY <2>3, <3>6, <3>7, TableChanged
    <3> QED
      BY <1>1, <1>2, <2>1, <3>1, <3>8
  <2> QED
    BY <2>4, <2>5
<1>13. CASE InitBinStep
  <2> DEFINE s == steps[1]
             t == s.tableID
             table == untrustedTableStorage[t]
  <2>1. Request("initBinStorage") /\ Head(steps) = s /\ s \in Step /\ s.op = "initBinStorage"
        /\ tdata' \in [0 .. 1 -> Seq(Row)] /\ dblock' \in Seq(Row)
    BY <1>4, <1>13 DEF InitBinStep
  <2>2. HandleInitBinStorage(s.tableID, s.binID)
    BY <1>13, <2>1 DEF InitBinStep
  <2>3. s.tableID \in 0 .. 1 /\ s.binID = 0
    BY <2>1, StepFields
  <2>4. /\ untrustedBinStorage' = [id \in {0} \cap DOMAIN table |-> table[id]]
        /\ untrustedTableStorage' = [untrustedTableStorage EXCEPT ![t] = Without(table, 0)]
        /\ UNCHANGED <<indexFile, died>>
    BY <1>1, <2>2, <2>3 DEF HandleInitBinStorage
  <2>5. Storage(table)
    BY <1>1, <2>3
  <2>6. Storage(untrustedBinStorage')
    BY <2>4, <2>5 DEF Storage
  <2>7. Storage(Without(table, 0))
    BY <2>5, TakeOut
  <2>8. /\ untrustedTableStorage' = [u \in 0 .. 1 |-> untrustedTableStorage'[u]]
        /\ \A u \in 0 .. 1 : Storage(untrustedTableStorage'[u])
    BY <2>3, <2>4, <2>7, TableChanged
  <2> QED
    BY <1>1, <1>2, <2>1, <2>4, <2>6, <2>8
<1>14. CASE DeleteBinStep
  <2>1. Request("delete_bin") /\ tdata' \in [0 .. 1 -> Seq(Row)] /\ dblock' \in Seq(Row)
    BY <1>4, <1>14 DEF DeleteBinStep
  <2>2. HandleDeleteBin(Head(steps).binID)
    BY <1>14 DEF DeleteBinStep
  <2>3. untrustedBinStorage' = Without(untrustedBinStorage, Head(steps).binID)
        /\ UNCHANGED <<untrustedTableStorage, indexFile, died>>
    BY <2>2 DEF HandleDeleteBin
  <2>4. Storage(untrustedBinStorage')
    BY <1>1, <2>3, TakeOut
  <2> QED
    BY <1>1, <1>2, <2>1, <2>3, <2>4
<1>15. CASE DeleteTableStep
  <2> DEFINE s == steps[1]
  <2>1. Request("delete_table") /\ Head(steps) = s /\ s \in Step /\ s.op = "delete_table"
        /\ tdata' \in [0 .. 1 -> Seq(Row)] /\ dblock' \in Seq(Row)
    BY <1>4, <1>15 DEF DeleteTableStep
  <2>2. HandleDeleteTable(s.tableID)
    BY <1>15, <2>1 DEF DeleteTableStep
  <2>3. s.tableID \in 0 .. 1
    BY <2>1, StepFields
  <2>4. untrustedTableStorage' = [untrustedTableStorage EXCEPT ![s.tableID] = NoStorage]
        /\ UNCHANGED <<untrustedBinStorage, indexFile, died>>
    BY <2>2 DEF HandleDeleteTable
  <2>5. /\ untrustedTableStorage' = [u \in 0 .. 1 |-> untrustedTableStorage'[u]]
        /\ \A u \in 0 .. 1 : Storage(untrustedTableStorage'[u])
    BY <2>3, <2>4, EmptyStorage, TableChanged
  <2> QED
    BY <1>1, <1>2, <2>1, <2>4, <2>5
<1>16. CASE MoveBinStep
  <2> DEFINE s == steps[1]
             t == s.tableID
  <2>1. Request("move_resize_bin_totable") /\ Head(steps) = s /\ s \in Step /\ s.op = "move_resize_bin_totable"
        /\ tdata' \in [0 .. 1 -> Seq(Row)] /\ dblock' \in Seq(Row)
    BY <1>4, <1>16 DEF MoveBinStep
  <2>2. HandleMoveResizeBinToTable(s.tableID, s.srcBinID, s.destBinID, s.size)
    BY <1>16, <2>1 DEF MoveBinStep
  <2>3. s.tableID \in 0 .. 1 /\ s.srcBinID \in Nat /\ s.destBinID = 0 /\ s.size \in Nat
    BY <2>1, StepFields
  <2>4. CASE s.srcBinID \notin DOMAIN untrustedBinStorage
    <3>1. Die
      BY <2>2, <2>4 DEF HandleMoveResizeBinToTable
    <3> QED
      BY <1>2, <1>5, <2>1, <3>1
  <2>5. CASE s.srcBinID \in DOMAIN untrustedBinStorage
    <3>1. PICK storage \in Resized(untrustedBinStorage[s.srcBinID], s.size) :
            untrustedTableStorage' = [untrustedTableStorage EXCEPT ![t] = With(untrustedTableStorage[t], 0, storage)]
      BY <1>1, <2>2, <2>3, <2>5 DEF HandleMoveResizeBinToTable
    <3>2. untrustedBinStorage' = Without(untrustedBinStorage, s.srcBinID) /\ UNCHANGED <<indexFile, died>>
      BY <2>2, <2>5 DEF HandleMoveResizeBinToTable
    <3>3. storage \in Seq(Row)
      <4>1. untrustedBinStorage[s.srcBinID] \in Seq(Row)
        BY <1>1, <2>5 DEF Storage
      <4> QED
        BY <2>3, <4>1, ResizedRows
    <3>4. Storage(With(untrustedTableStorage[t], 0, storage))
      BY <1>1, <2>3, <3>3, PutRows
    <3>5. /\ untrustedTableStorage' = [u \in 0 .. 1 |-> untrustedTableStorage'[u]]
          /\ \A u \in 0 .. 1 : Storage(untrustedTableStorage'[u])
      BY <2>3, <3>1, <3>4, TableChanged
    <3>6. Storage(untrustedBinStorage')
      BY <1>1, <3>2, TakeOut
    <3> QED
      BY <1>1, <1>2, <2>1, <3>2, <3>5, <3>6
  <2> QED
    BY <2>4, <2>5
<1>17. CASE CollectStep
  <2> DEFINE s == steps[1]
             t == s.tableID
  <2>1. Request("collect_resize_bins") /\ Head(steps) = s /\ s \in Step /\ s.op = "collect_resize_bins"
        /\ tdata' \in [0 .. 1 -> Seq(Row)] /\ dblock' \in Seq(Row)
    BY <1>4, <1>17 DEF CollectStep
  <2>2. HandleCollectResizeBins(s.tableID, s.leaf, s.size)
    BY <1>17, <2>1 DEF CollectStep
  <2>3. s.tableID \in 0 .. 1 /\ s.leaf = 0 /\ s.size \in Nat
    BY <2>1, StepFields
  <2>4. CASE s.leaf \notin DOMAIN untrustedBinStorage
    <3>1. Die
      BY <2>2, <2>4 DEF HandleCollectResizeBins
    <3> QED
      BY <1>2, <1>5, <2>1, <3>1
  <2>5. CASE s.leaf \in DOMAIN untrustedBinStorage
    <3>1. PICK storage \in Resized(untrustedBinStorage[s.leaf], s.size) :
            untrustedTableStorage' = [untrustedTableStorage EXCEPT ![t] = With(untrustedTableStorage[t], 0, storage)]
      BY <1>1, <2>2, <2>3, <2>5 DEF HandleCollectResizeBins
    <3>2. untrustedBinStorage' = NoStorage /\ UNCHANGED <<indexFile, died>>
      BY <2>2, <2>5 DEF HandleCollectResizeBins
    <3>3. storage \in Seq(Row)
      <4>1. untrustedBinStorage[s.leaf] \in Seq(Row)
        BY <1>1, <2>5 DEF Storage
      <4> QED
        BY <2>3, <4>1, ResizedRows
    <3>4. Storage(With(untrustedTableStorage[t], 0, storage))
      BY <1>1, <2>3, <3>3, PutRows
    <3>5. /\ untrustedTableStorage' = [u \in 0 .. 1 |-> untrustedTableStorage'[u]]
          /\ \A u \in 0 .. 1 : Storage(untrustedTableStorage'[u])
      BY <2>3, <3>1, <3>4, TableChanged
    <3> QED
      BY <1>1, <1>2, <2>1, <3>2, <3>5, EmptyStorage
  <2> QED
    BY <2>4, <2>5
<1>18. CASE WriteIndexStep
  <2>1. Request("write_index") /\ tdata' \in [0 .. 1 -> Seq(Row)] /\ dblock' \in Seq(Row)
    BY <1>4, <1>18 DEF WriteIndexStep
  <2>2. UNCHANGED <<untrustedTableStorage, untrustedBinStorage, died>>
    BY <1>18 DEF WriteIndexStep, HandleWriteIndex
  <2> QED
    BY <1>1, <1>2, <2>1, <2>2
<1>19. CASE SortStep
  <2> DEFINE s == steps[1]
             t == s.tableID
             Places == DOMAIN (tdata[t])
  <2>1. Request("obliSort") /\ Head(steps) = s /\ s \in Step /\ s.op = "obliSort"
    BY <1>3, <1>19 DEF SortStep
  <2>2. t \in 0 .. 1
    BY <2>1, StepFields
  <2>3. PICK perm \in Bijection(Places, Places) : tdata' = [tdata EXCEPT ![t] = Permuted(tdata[t], perm)]
    <3>1. \E perm \in Bijection(Places, Places) :
            /\ Sorted(Permuted(tdata[t], perm))
            /\ tdata' = [tdata EXCEPT ![t] = Permuted(@, perm)]
      BY <1>19, <2>1 DEF SortStep
    <3> QED
      BY <1>1, <2>2, <3>1
  <2>4. UNCHANGED <<dblock, hostVars>>
    BY <1>19 DEF SortStep
  <2>5. perm \in [Places -> Places]
    BY DEF Bijection, Injection
  <2>6. tdata[t] \in Seq(Row) /\ Places = 1 .. Len(tdata[t]) /\ Len(tdata[t]) \in Nat
    BY <1>1, <2>2
  <2>7. Permuted(tdata[t], perm) \in Seq(Row)
    <3>1. \A k \in Places : tdata[t][perm[k]] \in Row
      BY <2>5, <2>6
    <3>2. Permuted(tdata[t], perm) \in [1 .. Len(tdata[t]) -> Row]
      BY <2>6, <3>1 DEF Permuted
    <3> QED
      BY <2>6, <3>2, FunctionIsSequence
  <2>8. tdata' \in [0 .. 1 -> Seq(Row)]
    BY <1>1, <2>3, <2>7
  <2> QED
    BY <1>1, <1>2, <1>6, <2>1, <2>4, <2>8
<1>20. CASE FreeStep
  <2>1. Request("freeSpace") /\ tdata' = [tdata EXCEPT ![Head(steps).tableID] = <<>>] /\ UNCHANGED <<dblock, hostVars>>
    BY <1>20 DEF FreeStep
  <2>2. tdata' \in [0 .. 1 -> Seq(Row)]
    <3>1. <<>> \in Seq(Row)
      OBVIOUS
    <3> QED
      BY <1>1, <2>1, <3>1
  <2> QED
    BY <1>1, <1>2, <1>6, <2>1, <2>2
<1>21. CASE MoveDataStep
  <2> DEFINE s == steps[1]
             t == s.tableID
             size == Last(parts[t])
  <2>1. /\ steps # <<>> /\ Head(steps).op = "moveData"
        /\ UNCHANGED <<up, meta, dblock, parts, indexed, noisyOutputSize, outputSize, failed, lost, hostVars>>
    BY <1>21 DEF MoveDataStep, InBody, faultVars
  <2>2. Head(steps) = s /\ s \in Step /\ Tail(steps) \in Seq(Step)
    BY <1>1, <2>1, TailOf
  <2>3. t \in 0 .. 1
    BY <2>1, <2>2, StepFields
  <2>4. PICK places \in kSubset(Len(tdata[t]), 1 .. size) :
           tdata' = [tdata EXCEPT ![t] = Padded(tdata[t], places, size)]
    <3>1. \E places \in kSubset(Len(tdata[t]), 1 .. size) :
             tdata' = [tdata EXCEPT ![t] = Padded(@, places, size)]
      BY <1>21, <2>2 DEF MoveDataStep
    <3> QED
      BY <1>1, <2>3, <3>1
  <2>5. tdata[t] \in Seq(Row) /\ parts[t] \in Seq(Nat)
    BY <1>1, <2>3
  <2>6. parts[t] # <<>> /\ size \in Nat
    <3>1. Single(s)
      BY <2>1, Pending
    <3>2. parts[t] # <<>>
      BY <2>1, <2>2, <3>1 DEF Single, EndsInv
    <3>3. parts[t][Len(parts[t])] \in Nat
      BY <2>5, <3>2, LastOf, Zenon
    <3> QED
      BY <2>5, <3>2, <3>3, Zenon DEF Last
  <2>7. Padded(tdata[t], places, size) \in Seq(Row)
    BY <2>4, <2>5, <2>6, PaddedRows
  <2>8. tdata' \in [0 .. 1 -> Seq(Row)]
    BY <1>1, <2>4, <2>7
  <2> DEFINE a == <<delete_table_OCALL(t)>>
             b == [i \in DOMAIN (parts[t]) |-> writeBucket(t, i)]
             c == <<freeSpace(t)>>
             d == Tail(steps)
  <2>9. steps' = a \o b \o c \o d
    BY <1>21, <2>2 DEF MoveDataStep
  <2>10. a \in Seq(Step) /\ b \in Seq(Step) /\ c \in Seq(Step) /\ d \in Seq(Step)
    <3>1. \A i \in Nat : writeBucket(t, i) \in Step
      BY <2>3, StepMade
    <3>2. delete_table_OCALL(t) \in Step /\ freeSpace(t) \in Step
      BY <2>3, StepMade
    <3>3. a \in Seq(Step) /\ c \in Seq(Step)
      BY <3>2
    <3>4. b \in [1 .. Len(parts[t]) -> Step] /\ Len(parts[t]) \in Nat
      BY <2>5, <3>1
    <3>5. b \in Seq(Step)
      <4> DEFINE n == Len(parts[t])
      <4>1. b \in [1 .. n -> Step] /\ n \in Nat
        BY <3>4
      <4> HIDE DEF n, b
      <4> QED
        BY <4>1, FunctionIsSequence
    <3> QED
      BY <2>2, <3>3, <3>5
  <2> HIDE DEF a, b, c, d
  <2>11. a \o b \in Seq(Step)
    BY <2>10, Concatenation
  <2>12. a \o b \o c \in Seq(Step)
    BY <2>10, <2>11, Concatenation
  <2>13. steps' \in Seq(Step)
    BY <2>9, <2>10, <2>12, Concatenation
  <2> QED
    BY <1>1, <1>6, <2>1, <2>8, <2>13 DEF TypeInv
<1>22. CASE WriteBucketStep
  <2> DEFINE s == steps[1]
             t == s.tableID
             i == s.bucket
             rows == [j \in 1 .. NumData(t, i) |-> tdata[t][BinStart(t, i) + j]]
  <2>1. /\ steps # <<>> /\ Head(steps).op = "writeBucket"
        /\ UNCHANGED <<up, meta, tdata, dblock, parts, indexed, noisyOutputSize, outputSize, failed, lost, hostVars>>
    BY <1>22 DEF WriteBucketStep, InBody, faultVars, enclaveVars
  <2>2. Head(steps) = s /\ s \in Step /\ Tail(steps) \in Seq(Step) /\ s.op = "writeBucket"
    BY <1>1, <2>1, TailOf
  <2>3. steps' = WriteDataBlock_Wrapper(FirstBucket(t) + i - 1, rows) \o Tail(steps)
    BY <1>22, <2>2 DEF WriteBucketStep
  <2>4. Single(s)
    BY <2>1, Pending
  <2>5. t \in 0 .. 1 /\ i \in 1 .. Len(parts[t]) /\ Len(tdata[t]) = Last(parts[t])
        /\ pds = "HTree" /\ t \in TableIDs
    BY <2>2, <2>4, StepFields DEF Single
  <2>6. rows \in Seq(Row) /\ FirstBucket(t) + i - 1 \in Nat
    BY <1>1, <2>5, BucketRows
  <2> HIDE DEF rows
  <2>7. WriteDataBlock_Wrapper(FirstBucket(t) + i - 1, rows) \in Seq(Step)
    BY <2>6, WriteBlocks
  <2>8. steps' \in Seq(Step)
    BY <2>2, <2>3, <2>7, Concatenation
  <2> QED
    BY <1>1, <1>6, <2>1, <2>8 DEF TypeInv
<1>23. CASE AbortStep
  <2>1. /\ steps' = <<>> /\ up' = FALSE /\ failed' = failed
        /\ UNCHANGED <<meta, tdata, dblock, parts, indexed, noisyOutputSize, outputSize, lost, hostVars>>
    BY <1>23 DEF AbortStep, Refused, enclaveVars
  <2>2. steps' \in Seq(Step)
    BY <2>1
  <2> QED
    BY <1>1, <1>6, <2>1, <2>2 DEF TypeInv
<1> QED
  BY <1>8, <1>9, <1>10, <1>11, <1>12, <1>13, <1>14, <1>15, <1>16, <1>17, <1>18, <1>19, <1>20, <1>21,
     <1>22, <1>23 DEF Steps

-----------------------------------------------------------------------------
(* What the steps of an ECALL look like when it is entered, as far as they *)
(* move no data: they use the tables of T, make bins of those in I, abort  *)
(* only if ends, and, if strict, follow on each other.                     *)
Plan(s, T, I, ends, strict) ==
  /\ s \in Seq(Step)
  /\ \A k \in 1 .. Len(s) :
       /\ s[k].op \notin {"moveData", "writeBucket", "delete_table"}
       /\ s[k].op \in {"readDataBlock", "expand_table", "initBinStorage"} => s[k].tableID \in T
       /\ s[k].op = "initBinStorage" => s[k].tableID \in I
       /\ s[k].op = "abort" => ends
  /\ \A k, l \in 1 .. Len(s) : k < l => Ordered(s[k], s[l])
  /\ strict => /\ \A k \in 1 .. Len(s) - 1 : Follows(s[k], s[k + 1])
               /\ s # <<>> => Opening(s[1])

(* To do nothing is a plan.                                                *)
LEMMA PlanNone ==
  ASSUME NEW T, NEW I, NEW ends \in BOOLEAN, NEW strict \in BOOLEAN
  PROVE  Plan(<<>>, T, I, ends, strict)
<1>1. <<>> \in Seq(Step) /\ Len(<<>>) = 0
  OBVIOUS
<1> QED
  BY <1>1 DEF Plan

(* A plan may be allowed more than it does.                                *)
LEMMA PlanMore ==
  ASSUME NEW s, NEW T, NEW I, NEW ends \in BOOLEAN, NEW strict \in BOOLEAN, Plan(s, T, I, ends, strict),
         NEW U, NEW J, T \subseteq U, I \subseteq J, NEW ends2 \in BOOLEAN, ends => ends2
  PROVE  Plan(s, U, J, ends2, strict)
BY DEF Plan

(* Two plans behind one another, if the second uses no table whose bin 0   *)
(* the first makes.                                                        *)
LEMMA PlanJoin ==
  ASSUME NEW ends \in BOOLEAN, NEW strict \in BOOLEAN,
         NEW a, NEW T, NEW I, Plan(a, T, I, ends, strict),
         NEW b, NEW U, NEW J, Plan(b, U, J, ends, strict),
         I \cap U = {}
  PROVE  Plan(a \o b, T \cup U, I \cup J, ends, strict)
<1> DEFINE m == Len(a)
           n == Len(b)
           s == a \o b
<1>0. a \in Seq(Step) /\ b \in Seq(Step)
  BY DEF Plan
<1>1. /\ m \in Nat /\ n \in Nat /\ s \in Seq(Step) /\ Len(s) = m + n
      /\ \A k \in 1 .. m : s[k] = a[k]
      /\ \A k \in m + 1 .. m + n : s[k] = b[k - m]
  BY <1>0, Concatenation
<1>2. /\ a # <<>> <=> m # 0
      /\ b # <<>> <=> n # 0
      /\ s # <<>> => Len(s) # 0
  BY <1>0, <1>1
<1> HIDE DEF s, m, n
<1>3. \A k \in 1 .. m + n : k \in 1 .. m \/ (k \in m + 1 .. m + n /\ k - m \in 1 .. n)
  BY <1>1
<1>4. /\ \A k \in 1 .. m :
           /\ a[k].op \notin {"moveData", "writeBucket", "delete_table"}
           /\ a[k].op \in {"readDataBlock", "expand_table", "initBinStorage"} => a[k].tableID \in T
           /\ a[k].op = "initBinStorage" => a[k].tableID \in I
           /\ a[k].op = "abort" => ends
      /\ \A k \in 1 .. n :
           /\ b[k].op \notin {"moveData", "writeBucket", "delete_table"}
           /\ b[k].op \in {"readDataBlock", "expand_table", "initBinStorage"} => b[k].tableID \in U
           /\ b[k].op = "initBinStorage" => b[k].tableID \in J
           /\ b[k].op = "abort" => ends
  BY DEF Plan, m, n
<1>5. /\ \A k, l \in 1 .. m : k < l => Ordered(a[k], a[l])
      /\ \A k, l \in 1 .. n : k < l => Ordered(b[k], b[l])
  BY DEF Plan, m, n
<1>6. strict => /\ \A k \in 1 .. m - 1 : Follows(a[k], a[k + 1])
                /\ \A k \in 1 .. n - 1 : Follows(b[k], b[k + 1])
                /\ m # 0 => Opening(a[1])
                /\ n # 0 => Opening(b[1])
  BY <1>2 DEF Plan, m, n
<1>7. \A k \in 1 .. m + n :
           /\ s[k].op \notin {"moveData", "writeBucket", "delete_table"}
           /\ s[k].op \in {"readDataBlock", "expand_table", "initBinStorage"} => s[k].tableID \in T \cup U
           /\ s[k].op = "initBinStorage" => s[k].tableID \in I \cup J
           /\ s[k].op = "abort" => ends
  BY <1>1, <1>3, <1>4
<1>8. ASSUME NEW k \in 1 .. m + n, NEW l \in 1 .. m + n, k < l
      PROVE  Ordered(s[k], s[l])
  <2>1. CASE l \in 1 .. m
    <3>1. k \in 1 .. m
      BY <1>1, <1>8, <2>1
    <3>2. s[k] = a[k] /\ s[l] = a[l]
      BY <1>1, <2>1, <3>1
    <3> QED
      BY <1>5, <1>8, <2>1, <3>1, <3>2
  <2>2. CASE k \in m + 1 .. m + n
    <3>1. l \in m + 1 .. m + n /\ k - m \in 1 .. n /\ l - m \in 1 .. n /\ k - m < l - m
      BY <1>1, <1>8, <2>2
    <3> QED
      BY <1>1, <1>5, <2>2, <3>1
  <2>3. CASE k \in 1 .. m /\ l \in m + 1 .. m + n
    <3>1. s[k] = a[k] /\ s[l] = b[l - m] /\ l - m \in 1 .. n
      BY <1>1, <1>3, <2>3
    <3>2. Ordered(a[k], b[l - m])
      BY <1>4, <2>3, <3>1 DEF Ordered
    <3> QED
      BY <3>1, <3>2
  <2> QED
    BY <1>1, <1>3, <1>8, <2>1, <2>2, <2>3
<1>9. ASSUME strict, NEW k \in 1 .. m + n - 1
      PROVE  Follows(s[k], s[k + 1])
  <2>1. CASE k \in 1 .. m - 1
    <3>1. k \in 1 .. m /\ k + 1 \in 1 .. m
      BY <1>1, <2>1
    <3>2. s[k] = a[k] /\ s[k + 1] = a[k + 1]
      BY <1>1, <3>1
    <3> QED
      BY <1>6, <1>9, <2>1, <3>2
  <2>2. CASE k = m
    <3>1. n # 0 /\ k \in 1 .. m /\ k + 1 \in m + 1 .. m + n /\ k + 1 - m = 1
      BY <1>1, <1>9, <2>2
    <3>2. s[k + 1] = b[1] /\ Opening(b[1])
      BY <1>1, <1>6, <1>9, <3>1
    <3> QED
      BY <3>2 DEF Opening, Follows
  <2>3. CASE k > m
    <3>1. k \in m + 1 .. m + n /\ k + 1 \in m + 1 .. m + n /\ k - m \in 1 .. n - 1 /\ k + 1 - m = (k - m) + 1
      BY <1>1, <1>9, <2>3
    <3>2. s[k] = b[k - m] /\ s[k + 1] = b[(k - m) + 1]
      BY <1>1, <3>1
    <3> QED
      BY <1>6, <1>9, <3>1, <3>2
  <2> QED
    BY <1>1, <1>9, <2>1, <2>2, <2>3
<1>10. ASSUME strict, s # <<>>
       PROVE  Opening(s[1])
  <2>1. m + n # 0
    BY <1>1, <1>2, <1>10
  <2>2. CASE m # 0
    <3>1. 1 \in 1 .. m
      BY <1>1, <2>2
    <3> QED
      BY <1>1, <1>6, <1>10, <2>2, <3>1
  <2>3. CASE m = 0
    <3>1. 1 \in m + 1 .. m + n /\ 1 - m = 1 /\ n # 0
      BY <1>1, <2>1, <2>3
    <3> QED
      BY <1>1, <1>6, <1>10, <3>1
  <2> QED
    BY <2>2, <2>3
<1> QED
  BY <1>1, <1>7, <1>8, <1>9, <1>10 DEF Plan, s

(* The parts that the steps are put together from.                         *)
LEMMA PlanLoads ==
  ASSUME NEW s \in Seq(Step), NEW t, NEW I, NEW ends \in BOOLEAN, NEW strict \in BOOLEAN,
         \A k \in 1 .. Len(s) : s[k].op \in {"readDataBlock", "expand_table"} /\ s[k].tableID = t
  PROVE  Plan(s, {t}, I, ends, strict)
<1>1. s # <<>> => 1 \in 1 .. Len(s)
  OBVIOUS
<1>2. \A k \in 1 .. Len(s) - 1 : k + 1 \in 1 .. Len(s)
  OBVIOUS
<1>3. \A a, b : a.op \in {"readDataBlock", "expand_table"} /\ b.op \in {"readDataBlock", "expand_table"}
        => Ordered(a, b) /\ Follows(a, b) /\ Opening(a)
  BY DEF Ordered, Follows, Opening
<1>4. \A k, l \in 1 .. Len(s) : Ordered(s[k], s[l])
  BY <1>3
<1>5. \A k \in 1 .. Len(s) - 1 : Follows(s[k], s[k + 1])
  BY <1>2, <1>3
<1>6. s # <<>> => Opening(s[1])
  BY <1>1, <1>3
<1> QED
  BY <1>4, <1>5, <1>6 DEF Plan

(* The reads of a table are a plan.                                        *)
LEMMA PlanReads ==
  ASSUME NEW t \in 0 .. 1, NEW I, NEW ends \in BOOLEAN, NEW strict \in BOOLEAN
  PROVE  Plan(ReadDataBlock_Wrapper(t), {t}, I, ends, strict)
<1> DEFINE s == ReadDataBlock_Wrapper(t)
<1>1. /\ s \in Seq(Step) /\ Len(s) = Blocks(TableSize[t])
      /\ \A k \in 1 .. Blocks(TableSize[t]) :
           s[k] = readDataBlock_OCALL(t, 0, (k - 1) * OCALL_MAXSIZE, BlockLength(TableSize[t], k))
  BY ReadBlocks
<1> HIDE DEF s
<1>2. \A k \in 1 .. Len(s) : s[k].op = "readDataBlock" /\ s[k].tableID = t
  BY <1>1 DEF readDataBlock_OCALL
<1>3. Plan(s, {t}, I, ends, strict)
  BY <1>1, <1>2, PlanLoads
<1> QED
  BY <1>3 DEF s

(* The expansions of a table are a plan.                                   *)
LEMMA PlanExpands ==
  ASSUME NEW t \in 0 .. 1, NEW n \in Nat, NEW d \in Nat \ {0}, NEW ends \in BOOLEAN, NEW strict \in BOOLEAN
  PROVE  Plan(ExpandTable(t, n, d), {t}, {}, ends, strict)
<1> DEFINE s == ExpandTable(t, n, d)
<1>1. /\ s \in Seq(Step)
      /\ \A k \in 1 .. Len(s) : s[k].op = "expand_table" /\ s[k].tableID = t
  BY ExpandBlocks
<1> HIDE DEF s
<1>2. Plan(s, {t}, {}, ends, strict)
  BY <1>1, PlanLoads
<1> QED
  BY <1>2 DEF s

(* The writes of a bin are a plan.                                         *)
LEMMA PlanWrites ==
  ASSUME NEW b \in Nat, NEW rows \in Seq(Row), NEW ends \in BOOLEAN, NEW strict \in BOOLEAN
  PROVE  Plan(WriteDataBlock_Wrapper(b, rows), {}, {}, ends, strict)
<1> DEFINE s == WriteDataBlock_Wrapper(b, rows)
<1>1. /\ s \in Seq(Step) /\ \A k \in 1 .. Len(s) : s[k].op = "writeDataBlock"
      /\ \A k \in 1 .. Len(s) - 1 : Follows(s[k], s[k + 1])
      /\ Opening(s[1])
  BY WriteBlocks
<1> HIDE DEF s
<1>2. \A k, l \in 1 .. Len(s) : Ordered(s[k], s[l])
  BY <1>1 DEF Ordered
<1>3. Plan(s, {}, {}, ends, strict)
  BY <1>1, <1>2 DEF Plan
<1> QED
  BY <1>3 DEF s

(* A step of its own: the sort of a table, the index, an abort.            *)
LEMMA PlanOne ==
  ASSUME NEW s \in Step, s.op \in {"obliSort", "write_index", "abort"}, NEW T, NEW I, NEW ends \in BOOLEAN, NEW strict \in BOOLEAN,
         s.op = "abort" => ends
  PROVE  Plan(<<s>>, T, I, ends, strict)
<1> DEFINE q == <<s>>
<1>1. q \in Seq(Step) /\ Len(q) = 1 /\ q[1] = s
  BY OneStep
<1> HIDE DEF q
<1>2. \A k \in 1 .. Len(q) : q[k] = s
  BY <1>1
<1>3. Opening(s) /\ \A k, l \in 1 .. Len(q) : ~(k < l)
  BY <1>1 DEF Opening
<1>4. \A k \in 1 .. Len(q) - 1 : FALSE
  BY <1>1
<1>5. Plan(q, T, I, ends, strict)
  BY <1>1, <1>2, <1>3, <1>4 DEF Plan
<1> QED
  BY <1>5 DEF q

(* Steps listed behind one another.                                        *)
LEMMA Joined ==
  ASSUME NEW x, NEW y, NEW z
  PROVE  /\ <<x>> \o <<y>> = <<x, y>>
         /\ <<x>> \o <<y, z>> = <<x, y, z>>
<1> DEFINE S == {x, y, z}
           a == <<x>>
           b == <<y>>
           c == <<y, z>>
           d == <<x, y>>
           e == <<x, y, z>>
<1>1. /\ a \in Seq(S) /\ Len(a) = 1 /\ a[1] = x
      /\ b \in Seq(S) /\ Len(b) = 1 /\ b[1] = y
      /\ c \in Seq(S) /\ Len(c) = 2 /\ c[1] = y /\ c[2] = z
      /\ d \in Seq(S) /\ Len(d) = 2 /\ d[1] = x /\ d[2] = y
      /\ e \in Seq(S) /\ Len(e) = 3 /\ e[1] = x /\ e[2] = y /\ e[3] = z
  OBVIOUS
<1> HIDE DEF a, b, c, d, e, S
<1>2. /\ a \o b \in Seq(S) /\ Len(a \o b) = 2 /\ (a \o b)[1] = x /\ (a \o b)[2] = y
  <2>1. a \in Seq(S) /\ b \in Seq(S)
    BY <1>1
  <2>2. /\ a \o b \in Seq(S) /\ Len(a \o b) = Len(a) + Len(b)
        /\ \A k \in 1 .. Len(a) : (a \o b)[k] = a[k]
        /\ \A k \in 1 .. Len(b) : (a \o b)[Len(a) + k] = b[k]
    BY <2>1, Concatenation
  <2> DEFINE ab == a \o b
  <2> HIDE DEF ab
  <2>3. ab \in Seq(S) /\ Len(ab) = 2 /\ ab[1] = a[1] /\ ab[1 + 1] = b[1]
    BY <1>1, <2>2 DEF ab
  <2> QED
    BY <1>1, <2>3 DEF ab
<1>3. /\ a \o c \in Seq(S) /\ Len(a \o c) = 3
      /\ (a \o c)[1] = x /\ (a \o c)[2] = y /\ (a \o c)[3] = z
  <2>1. a \in Seq(S) /\ c \in Seq(S)
    BY <1>1
  <2>2. /\ a \o c \in Seq(S) /\ Len(a \o c) = Len(a) + Len(c)
        /\ \A k \in 1 .. Len(a) : (a \o c)[k] = a[k]
        /\ \A k \in 1 .. Len(c) : (a \o c)[Len(a) + k] = c[k]
    BY <2>1, Concatenation
  <2> DEFINE ac == a \o c
  <2> HIDE DEF ac
  <2>3. ac \in Seq(S) /\ Len(ac) = 3 /\ ac[1] = a[1] /\ ac[1 + 1] = c[1] /\ ac[1 + 2] = c[2]
    BY <1>1, <2>2 DEF ac
  <2> QED
    BY <1>1, <2>3 DEF ac
<1>4. a \o b = d
  <2>1. \A k \in 1 .. Len(d) : (a \o b)[k] = d[k]
    BY <1>1, <1>2
  <2> QED
    BY <1>1, <1>2, <2>1, SeqEqual
<1>5. a \o c = e
  <2>1. \A k \in 1 .. Len(e) : (a \o c)[k] = e[k]
    BY <1>1, <1>3
  <2> QED
    BY <1>1, <1>3, <2>1, SeqEqual
<1> QED
  BY <1>4, <1>5 DEF a, b, c, d, e

(* A table becomes a bin, and the next step takes it from there.           *)
LEMMA PlanBin ==
  ASSUME NEW t \in 0 .. 1, NEW s \in Step, NEW ends \in BOOLEAN, NEW strict \in BOOLEAN,
         s.op \in {"collect_resize_bins", "move_resize_bin_totable", "abort"},
         s.op = "move_resize_bin_totable" => s.srcBinID = 0,
         s.op = "abort" => ends
  PROVE  Plan(<<initBinStorage_OCALL(t, 0), s>>, {t}, {t}, ends, strict)
<1> DEFINE i == initBinStorage_OCALL(t, 0)
           q == <<i, s>>
<1>1. i \in Step /\ i.op = "initBinStorage" /\ i.tableID = t
  BY StepMade DEF initBinStorage_OCALL
<1> HIDE DEF i
<1>2. q \in Seq(Step) /\ Len(q) = 2 /\ q[1] = i /\ q[2] = s
  BY <1>1
<1> HIDE DEF q
<1>3. \A k \in 1 .. Len(q) : k = 1 \/ k = 2
  BY <1>2
<1>4. /\ q[1].op = "initBinStorage" /\ q[1].tableID = t
      /\ q[2].op \in {"collect_resize_bins", "move_resize_bin_totable", "abort"}
      /\ q[2].op = "move_resize_bin_totable" => q[2].srcBinID = 0
      /\ q[2].op = "abort" => ends
  BY <1>1, <1>2
<1>5. \A k \in 1 .. Len(q) :
        /\ q[k].op \notin {"moveData", "writeBucket", "delete_table"}
        /\ q[k].op \in {"readDataBlock", "expand_table", "initBinStorage"} => q[k].tableID \in {t}
        /\ q[k].op = "initBinStorage" => q[k].tableID \in {t}
        /\ q[k].op = "abort" => ends
  BY <1>3, <1>4
<1>6. Ordered(q[1], q[2]) /\ Follows(q[1], q[2]) /\ Opening(q[1])
  BY <1>4 DEF Ordered, Follows, Opening
<1>7. /\ \A k, l \in 1 .. Len(q) : k < l => k = 1 /\ l = 2
      /\ \A k \in 1 .. Len(q) - 1 : k = 1 /\ k + 1 = 2
  BY <1>2
<1>8. Plan(q, {t}, {t}, ends, strict)
  BY <1>2, <1>5, <1>6, <1>7 DEF Plan
<1> QED
  BY <1>8 DEF q, i

(* What createPDS does to a table is a plan; it ends only if there is more *)
(* than one leaf.                                                          *)
LEMMA PlanTree ==
  ASSUME NEW t \in 0 .. 1, NEW noise \in Nat, NEW numLeaves
  PROVE  Plan(TreeSteps(t, noise, numLeaves), {t}, {t}, numLeaves # 1, TRUE)
<1> DEFINE size == TableSize[t] + noise
           c == IF numLeaves = 1 THEN collect_resize_bins_OCALL(t, 0, size) ELSE abort
           a == ExpandTable(t, noise, OCALL_MAXSIZE)
           b == <<initBinStorage_OCALL(t, 0), c>>
           ends == (numLeaves # 1)
<1>0. ends \in BOOLEAN /\ TRUE \in BOOLEAN
  OBVIOUS
<1>1. size \in Nat /\ OCALL_MAXSIZE \in Nat \ {0}
  BY SessionAssumption
<1>2. c \in Step /\ c.op \in {"collect_resize_bins", "abort"} /\ (c.op = "abort" => numLeaves # 1)
  <2>1. collect_resize_bins_OCALL(t, 0, size) \in Step /\ abort \in Step
    BY <1>1, StepMade
  <2>2. collect_resize_bins_OCALL(t, 0, size).op = "collect_resize_bins" /\ abort.op = "abort"
    BY DEF collect_resize_bins_OCALL, abort
  <2> QED
    BY <2>1, <2>2
<1>3. TreeSteps(t, noise, numLeaves) = IF size <= IO_BLOCKSIZE THEN ReadDataBlock_Wrapper(t) ELSE a \o b
  BY DEF TreeSteps
<1> HIDE DEF c
<1>4. Plan(<<initBinStorage_OCALL(t, 0), c>>, {t}, {t}, numLeaves # 1, TRUE)
  <2>1. c.op \in {"collect_resize_bins", "move_resize_bin_totable", "abort"}
        /\ (c.op = "move_resize_bin_totable" => c.srcBinID = 0)
    BY <1>2
  <2>2. c.op = "abort" => ends
    BY <1>2
  <2> HIDE DEF ends
  <2>3. Plan(<<initBinStorage_OCALL(t, 0), c>>, {t}, {t}, ends, TRUE)
    BY <1>0, <1>2, <2>1, <2>2, PlanBin
  <2> QED
    BY <2>3 DEF ends
<1> HIDE DEF ends
<1>5. Plan(a, {t}, {}, ends, TRUE)
  BY <1>0, <1>1, PlanExpands
<1> HIDE DEF a, b, size
<1>6. Plan(a \o b, {t} \cup {t}, {} \cup {t}, ends, TRUE)
  <2>1. {} \cap {t} = {}
    OBVIOUS
  <2>2. Plan(b, {t}, {t}, ends, TRUE)
    BY <1>4 DEF b, ends
  <2> QED
    BY <1>0, <1>5, <2>1, <2>2, PlanJoin
<1>7. Plan(ReadDataBlock_Wrapper(t), {t}, {t}, ends, TRUE)
  BY <1>0, PlanReads
<1> QED
  BY <1>3, <1>6, <1>7 DEF ends

(* What the sparse bins do to a table is a plan.                           *)
LEMMA PlanSparse ==
  ASSUME NEW t \in 0 .. 1, NEW noise \in Nat, NEW strict \in BOOLEAN
  PROVE  Plan(SparseSteps(t, noise), {t}, {}, FALSE, strict)
<1>1. 2 * IO_BLOCKSIZE \in Nat \ {0}
  BY SessionAssumption
<1>2. /\ Plan(ExpandTable(t, noise, 2 * IO_BLOCKSIZE), {t}, {}, FALSE, strict)
      /\ Plan(ReadDataBlock_Wrapper(t), {t}, {}, FALSE, strict)
  BY <1>1, PlanExpands, PlanReads
<1> QED
  BY <1>2 DEF SparseSteps

(* What createBins does to a table is a plan.                              *)
LEMMA PlanCreateBins ==
  ASSUME NEW t \in 0 .. 1, NEW noise \in Nat, NEW numBins, NEW strict \in BOOLEAN, strict => numBins = 1
  PROVE  Plan(CreateBinsSteps(t, noise, numBins), {t}, {t}, FALSE, strict)
<1> DEFINE size == TableSize[t] + noise
           i == initBinStorage_OCALL(t, 0)
           m == move_resize_bin_totable_OCALL(t, 0, 0, size)
           d == delete_bin_OCALL(0)
           m1 == move_resize_bin_totable_OCALL(t, 1, 0, size \div 2)
<1>1. size \in Nat /\ size \div 2 \in Nat
  BY SessionAssumption
<1>2. i \in Step /\ m \in Step /\ d \in Step /\ m1 \in Step
  BY <1>1, StepMade
<1>3. /\ i.op = "initBinStorage" /\ i.tableID = t /\ d.op = "delete_bin"
      /\ m.op = "move_resize_bin_totable" /\ m.srcBinID = 0 /\ m1.op = "move_resize_bin_totable"
  BY DEF initBinStorage_OCALL, delete_bin_OCALL, move_resize_bin_totable_OCALL
<1>4. CreateBinsSteps(t, noise, numBins) = IF size <= IO_BLOCKSIZE THEN <<>>
                                           ELSE <<i>> \o IF numBins = 1 THEN <<m>> ELSE <<d, m1>>
  BY DEF CreateBinsSteps
<1>5. Plan(<<i, m>>, {t}, {t}, FALSE, strict)
  <2> HIDE DEF m
  <2>0. m \in Step /\ m.op \in {"collect_resize_bins", "move_resize_bin_totable", "abort"}
        /\ (m.op = "move_resize_bin_totable" => m.srcBinID = 0)
        /\ (m.op = "abort" => FALSE) /\ FALSE \in BOOLEAN
    BY <1>2, <1>3
  <2>1. Plan(<<initBinStorage_OCALL(t, 0), m>>, {t}, {t}, FALSE, strict)
    BY <2>0, PlanBin
  <2> QED
    BY <2>1
<1> HIDE DEF i, m, d, m1, size
<1>6. CASE size <= IO_BLOCKSIZE
  BY <1>4, <1>6, PlanNone
<1>7. CASE ~(size <= IO_BLOCKSIZE) /\ numBins = 1
  <2>1. <<i>> \o <<m>> = <<i, m>>
    BY Joined
  <2> QED
    BY <1>4, <1>5, <1>7, <2>1
<1>8. CASE ~(size <= IO_BLOCKSIZE) /\ numBins # 1
  <2> DEFINE q == <<i, d, m1>>
  <2>1. <<i>> \o <<d, m1>> = q
    BY Joined
  <2>2. q \in Seq(Step) /\ Len(q) = 3 /\ q[1] = i /\ q[2] = d /\ q[3] = m1
    BY <1>2
  <2> HIDE DEF q
  <2>3. \A k \in 1 .. Len(q) : k = 1 \/ k = 2 \/ k = 3
    BY <2>2
  <2>4. q[1].op = "initBinStorage" /\ q[1].tableID = t /\ q[2].op = "delete_bin"
        /\ q[3].op = "move_resize_bin_totable"
    BY <1>3, <2>2
  <2>5. \A k \in 1 .. Len(q) :
          /\ q[k].op \notin {"moveData", "writeBucket", "delete_table"}
          /\ q[k].op \in {"readDataBlock", "expand_table", "initBinStorage"} => q[k].tableID \in {t}
          /\ q[k].op = "initBinStorage" => q[k].tableID \in {t}
          /\ q[k].op # "abort"
    BY <2>3, <2>4
  <2>6. Ordered(q[1], q[2]) /\ Ordered(q[1], q[3]) /\ Ordered(q[2], q[3])
    BY <2>4 DEF Ordered
  <2>7. \A k, l \in 1 .. Len(q) : k < l => Ordered(q[k], q[l])
    <3>1. \A k, l \in 1 .. Len(q) : k < l => (k = 1 /\ l = 2) \/ (k = 1 /\ l = 3) \/ (k = 2 /\ l = 3)
      BY <2>2
    <3> QED
      BY <2>6, <3>1
  <2>8. Plan(q, {t}, {t}, FALSE, strict)
    BY <1>8, <2>2, <2>5, <2>7 DEF Plan
  <2> QED
    BY <1>4, <1>8, <2>1, <2>8
<1> QED
  BY <1>6, <1>7, <1>8

(* What createCZSC does to the two tables is a plan.                       *)
LEMMA PlanCZSC ==
  ASSUME NEW noise1 \in Nat, NEW noise2 \in Nat, NEW numBins, NEW strict \in BOOLEAN, strict => numBins = 1
  PROVE  Plan(SparseSteps(0, noise1) \o SparseSteps(1, noise2) \o
              CreateBinsSteps(0, noise1, numBins) \o CreateBinsSteps(1, noise2, numBins),
              {0, 1}, {0, 1}, FALSE, strict)
<1> DEFINE a == SparseSteps(0, noise1)
           b == SparseSteps(1, noise2)
           c == CreateBinsSteps(0, noise1, numBins)
           d == CreateBinsSteps(1, noise2, numBins)
<1>1. 0 \in 0 .. 1 /\ 1 \in 0 .. 1
  OBVIOUS
<1>2. Plan(a, {0}, {}, FALSE, strict) /\ Plan(b, {1}, {}, FALSE, strict)
  BY <1>1, PlanSparse
<1>3. Plan(c, {0}, {0}, FALSE, strict) /\ Plan(d, {1}, {1}, FALSE, strict)
  BY <1>1, PlanCreateBins
<1> HIDE DEF a, b, c, d
<1>4. Plan(a \o b, {0} \cup {1}, {} \cup {}, FALSE, strict)
  <2>1. {} \cap {1} = {}
    OBVIOUS
  <2> QED
    BY <1>2, <2>1, PlanJoin
<1>5. Plan(a \o b \o c, ({0} \cup {1}) \cup {0}, ({} \cup {}) \cup {0}, FALSE, strict)
  <2>1. ({} \cup {}) \cap {0} = {}
    OBVIOUS
  <2> QED
    BY <1>3, <1>4, <2>1, PlanJoin
<1>6. Plan(a \o b \o c \o d, (({0} \cup {1}) \cup {0}) \cup {1}, (({} \cup {}) \cup {0}) \cup {1}, FALSE, strict)
  <2>1. (({} \cup {}) \cup {0}) \cap {1} = {}
    OBVIOUS
  <2> QED
    BY <1>3, <1>5, <2>1, PlanJoin
<1>7. Plan(a \o b \o c \o d, {0, 1}, {0, 1}, FALSE, strict)
  <2>1. (({0} \cup {1}) \cup {0}) \cup {1} \subseteq {0, 1} /\ (({} \cup {}) \cup {0}) \cup {1} \subseteq {0, 1}
    OBVIOUS
  <2> QED
    BY <1>6, <2>1, PlanMore
<1> QED
  BY <1>7 DEF a, b, c, d

-----------------------------------------------------------------------------
(* What a session starts with.                                             *)
LEMMA NeedsInit ==
  ASSUME SessionInit
  PROVE  Needs
<1>1. PICK n \in 1 .. MaxQueries :
        calls = IF usage.op = "select" THEN SelectCalls(usage.jt, n)
                ELSE JoinCalls(usage.jt, usage.pf, IF usage.op = "join" THEN 1 ELSE n)
  BY DEF SessionInit
<1>2. n \in Nat /\ 1 \in Nat
  BY SessionAssumption
<1>3. usage \in Usages
  BY DEF SessionInit
<1>4. /\ usage.op \in {"select", "join", "select-join"} /\ usage.jt \in {"DO", "HTree", "CZSC21"}
      /\ usage.pf \in BOOLEAN
      /\ usage.op = "select" => usage.jt # "CZSC21"
  BY <1>3, UsageFields
<1>5. \A name, arg : Ecall(name, arg).name = name
  BY DEF Ecall
<1>6. CASE usage.op = "select" /\ usage.jt = "DO"
  <2>1. /\ Len(calls) = 3 + n
        /\ calls[1] = Ecall("extractMeta", 0) /\ calls[2] = Ecall("createPDS", 0)
        /\ calls[3] = Ecall("buildIndex", 0)
        /\ \A k \in 4 .. 3 + n : calls[k] = Ecall("idxSelect", k - 3)
    <3>1. calls = SelectCalls("DO", n)
      BY <1>1, <1>6
    <3>2. LET s == SelectCalls("DO", n) IN
          /\ Len(s) = 3 + n
          /\ s[1] = Ecall("extractMeta", 0) /\ s[2] = Ecall("createPDS", 0)
          /\ s[3] = Ecall("buildIndex", 0)
          /\ \A k \in 4 .. 3 + n : s[k] = Ecall("idxSelect", k - 3)
      BY <1>2, SelectDO
    <3> QED
      BY <3>1, <3>2
  <2>2. /\ calls[1].name = "extractMeta" /\ calls[2].name = "createPDS" /\ calls[3].name = "buildIndex"
        /\ \A k \in 4 .. 3 + n : calls[k].name = "idxSelect"
    BY <1>5, <2>1
  <2> SUFFICES ASSUME NEW k \in 1 .. Len(calls)
               PROVE  /\ calls[k].name = "createPDS" => Comes("extractMeta", k)
                      /\ calls[k].name = "createJoinBuckets" => Comes("initHTree", k)
                      /\ calls[k].name = "buildIndex" => Comes("createPDS", k)
                      /\ calls[k].name = "idxSelect" => Comes("buildIndex", k)
                      /\ calls[k].name = "czscJoin" => Comes("createCZSC", k)
    BY DEF Needs
  <2>3. k = 1 \/ k = 2 \/ k = 3 \/ k \in 4 .. 3 + n
    BY <1>2, <2>1
  <2>4. /\ k = 2 => Comes("extractMeta", k)
        /\ k = 3 => Comes("createPDS", k)
        /\ k \in 4 .. 3 + n => Comes("buildIndex", k)
    <3>1. /\ k = 2 => 1 \in 1 .. k - 1
          /\ k = 3 => 2 \in 1 .. k - 1
          /\ k \in 4 .. 3 + n => 3 \in 1 .. k - 1
      BY <1>2
    <3> QED
      BY <2>2, <3>1 DEF Comes
  <2> QED
    BY <2>2, <2>3, <2>4
<1>7. CASE usage.op = "select" /\ usage.jt = "HTree"
  <2>1. /\ Len(calls) = 4 + n
        /\ calls[1] = Ecall("extractData", 0) /\ calls[2] = Ecall("initHTree", 0)
        /\ calls[3] = Ecall("createJoinBuckets", 0) /\ calls[4] = Ecall("buildIndex", 0)
        /\ \A k \in 5 .. 4 + n : calls[k] = Ecall("idxSelect", k - 4)
    <3>1. calls = SelectCalls("HTree", n)
      BY <1>1, <1>7
    <3>2. LET s == SelectCalls("HTree", n) IN
          /\ Len(s) = 4 + n
          /\ s[1] = Ecall("extractData", 0) /\ s[2] = Ecall("initHTree", 0)
          /\ s[3] = Ecall("createJoinBuckets", 0) /\ s[4] = Ecall("buildIndex", 0)
          /\ \A k \in 5 .. 4 + n : s[k] = Ecall("idxSelect", k - 4)
      BY <1>2, SelectHTree
    <3> QED
      BY <3>1, <3>2
  <2>2. /\ calls[1].name = "extractData" /\ calls[2].name = "initHTree"
        /\ calls[3].name = "createJoinBuckets" /\ calls[4].name = "buildIndex"
        /\ \A k \in 5 .. 4 + n : calls[k].name = "idxSelect"
    BY <1>5, <2>1
  <2> SUFFICES ASSUME NEW k \in 1 .. Len(calls)
               PROVE  /\ calls[k].name = "createPDS" => Comes("extractMeta", k)
                      /\ calls[k].name = "createJoinBuckets" => Comes("initHTree", k)
                      /\ calls[k].name = "buildIndex" => Comes("initHTree", k)
                      /\ calls[k].name = "idxSelect" => Comes("buildIndex", k)
                      /\ calls[k].name = "czscJoin" => Comes("createCZSC", k)
    BY DEF Needs
  <2>3. k = 1 \/ k = 2 \/ k = 3 \/ k = 4 \/ k \in 5 .. 4 + n
    BY <1>2, <2>1
  <2>4. /\ k \in {3, 4} => Comes("initHTree", k)
        /\ k \in 5 .. 4 + n => Comes("buildIndex", k)
    <3>1. /\ k \in {3, 4} => 2 \in 1 .. k - 1
          /\ k \in 5 .. 4 + n => 4 \in 1 .. k - 1
      BY <1>2
    <3> QED
      BY <2>2, <3>1 DEF Comes
  <2> QED
    BY <2>2, <2>3, <2>4
<1>8. CASE usage.op # "select"
  <2>1. PICK q \in Nat : calls = JoinCalls(usage.jt, usage.pf, q)
    BY <1>1, <1>2, <1>8
  <2>2. Len(calls) \in Nat
    <3>1. calls \in Seq(EcallRecord)
      BY <1>4, <2>1, JoinDO, JoinHTree, JoinCZSC21
    <3> QED
      BY <3>1
  <2> SUFFICES ASSUME NEW k \in 1 .. Len(calls)
               PROVE  /\ calls[k].name \notin {"createPDS", "buildIndex", "idxSelect"}
                      /\ calls[k].name = "createJoinBuckets" => Comes("initHTree", k)
                      /\ calls[k].name = "czscJoin" => Comes("createCZSC", k)
    BY DEF Needs
  <2>3. CASE usage.jt = "DO"
    <3>1. LET s == JoinCalls("DO", usage.pf, q) IN
          /\ s[1] = Ecall("initJoinPDS", 0) /\ s[2] = Ecall("createJoinPDS", 0)
          /\ \A j \in 3 .. Len(s) : s[j].name \in {"innerJoin", "pfJoin", "joinCompact"}
      BY <1>4, JoinDO
    <3>2. calls[1].name = "initJoinPDS" /\ calls[2].name = "createJoinPDS"
      BY <1>5, <2>1, <2>3, <3>1
    <3>3. \A j \in 3 .. Len(calls) : calls[j].name \in {"innerJoin", "pfJoin", "joinCompact"}
      BY <2>1, <2>3, <3>1
    <3>4. k = 1 \/ k = 2 \/ k \in 3 .. Len(calls)
      BY <2>2
    <3> QED
      BY <3>2, <3>3, <3>4
  <2>4. CASE usage.jt = "HTree"
    <3>1. LET s == JoinCalls("HTree", usage.pf, q) IN
          /\ s[1] = Ecall("extractData", 0) /\ s[2] = Ecall("extractData", 1)
          /\ s[3] = Ecall("initHTree", 0) /\ s[4] = Ecall("createJoinBuckets", 0)
          /\ \A j \in 5 .. Len(s) : s[j].name \in {"innerJoin", "pfJoin", "joinCompact"}
      BY <1>4, JoinHTree
    <3>2. calls[1].name = "extractData" /\ calls[2].name = "extractData"
          /\ calls[3].name = "initHTree" /\ calls[4].name = "createJoinBuckets"
      BY <1>5, <2>1, <2>4, <3>1
    <3>3. \A j \in 5 .. Len(calls) : calls[j].name \in {"innerJoin", "pfJoin", "joinCompact"}
      BY <2>1, <2>4, <3>1
    <3>4. k = 1 \/ k = 2 \/ k = 3 \/ k = 4 \/ k \in 5 .. Len(calls)
      BY <2>2
    <3>5. k = 4 => Comes("initHTree", k)
      <4>1. k = 4 => 3 \in 1 .. k - 1
        OBVIOUS
      <4> QED
        BY <3>2, <4>1 DEF Comes
    <3> QED
      BY <3>2, <3>3, <3>4, <3>5
  <2>5. CASE usage.jt = "CZSC21"
    <3>1. LET s == JoinCalls("CZSC21", usage.pf, q) IN
          /\ s[1] = Ecall("createCZSC", 0)
          /\ \A j \in 2 .. Len(s) : s[j].name \in {"czscJoin", "joinCompact"}
      BY <1>4, JoinCZSC21
    <3>2. calls[1].name = "createCZSC"
      BY <1>5, <2>1, <2>5, <3>1
    <3>3. \A j \in 2 .. Len(calls) : calls[j].name \in {"czscJoin", "joinCompact"}
      BY <2>1, <2>5, <3>1
    <3>4. k = 1 \/ k \in 2 .. Len(calls)
      BY <2>2
    <3>5. k \in 2 .. Len(calls) => Comes("createCZSC", k)
      <4>1. k \in 2 .. Len(calls) => 1 \in 1 .. k - 1
        OBVIOUS
      <4> QED
        BY <3>2, <4>1 DEF Comes
    <3> QED
      BY <3>2, <3>3, <3>4, <3>5
  <2> QED
    BY <1>4, <2>3, <2>4, <2>5
<1> QED
  BY <1>4, <1>6, <1>7, <1>8

(* No step is pending when main starts.                                    *)
LEMMA StartInit ==
  ASSUME SessionInit
  PROVE  EndsInv /\ StepInv /\ Untouched /\ Idle /\ StaysUp
<1>1. /\ steps = <<>> /\ pds = "none" /\ up = TRUE /\ died = FALSE
      /\ untrustedTableStorage = [t \in 0 .. 1 |-> IF t \in TableIDs THEN With(NoStorage, 0, LoadedTable(t)) ELSE NoStorage]
  BY DEF SessionInit
<1>2. Len(steps) = 0
  BY <1>1
<1>3. StepInv
  BY <1>1, <1>2 DEF StepInv
<1>4. \A t \in TableIDs : 0 \in DOMAIN (untrustedTableStorage[t])
  <2> SUFFICES ASSUME NEW t \in TableIDs
               PROVE  0 \in DOMAIN (untrustedTableStorage[t])
    OBVIOUS
  <2>1. t \in 0 .. 1
    BY DEF TableIDs
  <2>2. DOMAIN With(NoStorage, 0, LoadedTable(t)) = {0} \cup DOMAIN NoStorage
    <3>1. Storage(NoStorage) /\ LoadedTable(t) \in Seq(Row) /\ 0 \in Nat
      BY <2>1, EmptyStorage, LoadedRows
    <3> QED
      BY <3>1, PutRows
  <2>3. untrustedTableStorage[t] = With(NoStorage, 0, LoadedTable(t))
    BY <1>1, <2>1
  <2> QED
    BY <2>2, <2>3
<1>5. Untouched
  BY <1>2, <1>4 DEF Untouched
<1> QED
  BY <1>1, <1>3, <1>5 DEF EndsInv, Idle, StaysUp

(* An ECALL whose steps are a plan.                                        *)
LEMMA PlanStarts ==
  ASSUME CallsInv, TypeInv, NEW name, Enter(name),
         NEW T, \A t \in T : 0 \in DOMAIN (untrustedTableStorage[t]),
         NEW I, NEW ends \in BOOLEAN, NEW strict \in BOOLEAN, Plan(steps', T, I, ends, strict),
         ends => failed \/ Hopeless', Ordinary' => strict
  PROVE  StepInv'
<1>1. /\ UNCHANGED <<usage, up, main, taken, faults, failed, lost>>
      /\ UNCHANGED <<untrustedTableStorage, untrustedBinStorage, indexFile, died>>
  BY Entered
<1>2. /\ steps' \in Seq(Step)
      /\ \A k \in 1 .. Len(steps') :
           /\ steps'[k].op \notin {"moveData", "writeBucket", "delete_table"}
           /\ steps'[k].op \in {"readDataBlock", "expand_table", "initBinStorage"} => steps'[k].tableID \in T
           /\ steps'[k].op = "abort" => ends
      /\ \A k, l \in 1 .. Len(steps') : k < l => Ordered(steps'[k], steps'[l])
      /\ strict => /\ \A k \in 1 .. Len(steps') - 1 : Follows(steps'[k], steps'[k + 1])
                   /\ steps' # <<>> => Opening(steps'[1])
  BY DEF Plan
<1>3. \A k \in 1 .. Len(steps') : Single(steps[k])'
  BY <1>1, <1>2 DEF Single
<1>4. Ordinary' /\ steps' # <<>> => First(steps[1])'
  <2> SUFFICES ASSUME Ordinary', steps' # <<>>
               PROVE  First(steps[1])'
    OBVIOUS
  <2>1. Opening(steps'[1]) /\ steps'[1] \in Step
    BY <1>2
  <2>2. \A id \in Nat : BinRows(id)' \in Nat
    BY <1>1 DEF BinRows, TypeInv, Storage
  <2>3. steps'[1].op = "writeDataBlock" => steps'[1].binID \in Nat
    BY <2>1, StepFields
  <2>4. steps'[1].op = "writeDataBlock" => steps'[1].pos <= BinRows(steps[1].binID)'
    BY <2>1, <2>2, <2>3 DEF Opening
  <2> QED
    BY <2>1, <2>4 DEF First, Opening
<1>5. Ordinary' => \A k \in 1 .. Len(steps') - 1 : Follows(steps'[k], steps'[k + 1])
  BY <1>2
<1> QED
  BY <1>2, <1>3, <1>4, <1>5 DEF StepInv

(* An ECALL that sets what the later ones need leaves them with it.        *)
LEMMA NeedsStill ==
  ASSUME CallsInv, Needs, NEW name, Enter(name),
         meta # {} \/ name = "extractMeta" => meta' # {},
         usage.jt = "HTree" /\ (pds = "HTree" \/ name = "initHTree") => pds' = "HTree",
         pds # "none" \/ name \in {"createPDS", "initHTree"} => pds' # "none",
         indexed \/ name = "buildIndex" => indexed',
         usage.jt = "CZSC21" /\ (pds = "CZSC" \/ name = "createCZSC") => pds' = "CZSC"
  PROVE  Needs'
<1>1. /\ call' = calls[1] /\ call'.name = name /\ Len(calls') = Len(calls) - 1 /\ Len(calls) \in Nat \ {0}
      /\ \A k \in 1 .. Len(calls') : calls'[k] = calls[k + 1] /\ k + 1 \in 1 .. Len(calls) /\ Fits(calls'[k])
      /\ UNCHANGED <<up, failed>>
  BY Entered
<1> SUFFICES ASSUME up, ~failed, NEW k \in 1 .. Len(calls')
             PROVE  /\ calls'[k].name = "createPDS" => meta' # {} \/ Comes("extractMeta", k)'
                    /\ calls'[k].name = "createJoinBuckets" => pds' = "HTree" \/ Comes("initHTree", k)'
                    /\ calls'[k].name = "buildIndex" =>
                         pds' # "none" \/ Comes("createPDS", k)' \/ Comes("initHTree", k)'
                    /\ calls'[k].name = "idxSelect" => indexed' \/ Comes("buildIndex", k)'
                    /\ calls'[k].name = "czscJoin" => pds' = "CZSC" \/ Comes("createCZSC", k)'
  BY <1>1 DEF Needs
<1>2. k + 1 \in 1 .. Len(calls) /\ calls'[k] = calls[k + 1] /\ Fits(calls'[k])
  BY <1>1
<1>3. /\ calls'[k].name = "createPDS" => meta # {} \/ Comes("extractMeta", k + 1)
      /\ calls'[k].name = "createJoinBuckets" => pds = "HTree" \/ Comes("initHTree", k + 1)
      /\ calls'[k].name = "buildIndex" => pds # "none" \/ Comes("createPDS", k + 1) \/ Comes("initHTree", k + 1)
      /\ calls'[k].name = "idxSelect" => indexed \/ Comes("buildIndex", k + 1)
      /\ calls'[k].name = "czscJoin" => pds = "CZSC" \/ Comes("createCZSC", k + 1)
  BY <1>2 DEF Needs
<1>4. ASSUME NEW other, Comes(other, k + 1)
      PROVE  name = other \/ Comes(other, k)'
  <2>1. PICK l \in 1 .. k : calls[l].name = other
    BY <1>4 DEF Comes
  <2>2. CASE l = 1
    BY <1>1, <2>1, <2>2
  <2>3. CASE l # 1
    <3>1. l - 1 \in 1 .. k - 1 /\ l - 1 \in 1 .. Len(calls') /\ (l - 1) + 1 = l
      BY <1>1, <2>3
    <3>2. calls'[l - 1].name = other
      BY <1>1, <2>1, <3>1
    <3> QED
      BY <3>1, <3>2 DEF Comes
  <2> QED
    BY <2>2, <2>3
<1>5. /\ calls'[k].name = "createJoinBuckets" => usage.jt = "HTree"
      /\ calls'[k].name = "czscJoin" => usage.jt = "CZSC21"
  BY <1>2 DEF Fits
<1>6. /\ Comes("extractMeta", k + 1) => name = "extractMeta" \/ Comes("extractMeta", k)'
      /\ Comes("initHTree", k + 1) => name = "initHTree" \/ Comes("initHTree", k)'
      /\ Comes("createPDS", k + 1) => name = "createPDS" \/ Comes("createPDS", k)'
      /\ Comes("buildIndex", k + 1) => name = "buildIndex" \/ Comes("buildIndex", k)'
      /\ Comes("createCZSC", k + 1) => name = "createCZSC" \/ Comes("createCZSC", k)'
  BY <1>4
<1> HIDE DEF Comes
<1> QED
  BY <1>3, <1>5, <1>6

(* A table keeps its rows until an ECALL comes that changes them.          *)
LEMMA UntouchedStill ==
  ASSUME CallsInv, Untouched, NEW name, Enter(name),
         name \in {"extractMeta", "extractData", "initHTree"} =>
           \A k \in 1 .. Len(steps') : steps'[k].op \in {"readDataBlock", "obliSort", "abort"}
  PROVE  Untouched'
<1>1. /\ call'.name = name /\ Fits(call')
      /\ \A k \in 1 .. Len(calls') : calls'[k] = calls[k + 1] /\ k + 1 \in 1 .. Len(calls)
      /\ \A k \in 1 .. Len(calls') : Before(call', calls'[k])
      /\ UNCHANGED <<usage, untrustedTableStorage>>
  BY Entered
<1> SUFFICES ASSUME NEW k \in 1 .. Len(calls'), Stage(calls'[k].name) <= 3
             PROVE  /\ \A t \in TableIDs : 0 \in DOMAIN (untrustedTableStorage[t])
                    /\ \A j \in 1 .. Len(steps') : steps'[j].op \in {"readDataBlock", "obliSort", "abort"}
  BY <1>1 DEF Untouched, TableIDs
<1>2. \A t \in TableIDs : 0 \in DOMAIN (untrustedTableStorage[t])
  <2>1. k + 1 \in 1 .. Len(calls) /\ Stage(calls[k + 1].name) <= 3
    BY <1>1
  <2> QED
    BY <2>1 DEF Untouched
<1>3. name \in {"extractMeta", "extractData", "initHTree"}
  <2>1. Stage(name) \in 1 .. 6 /\ Stage(calls'[k].name) \in 1 .. 6
    BY DEF Stage
  <2>2. Stage(name) < Stage(calls'[k].name) \/ (Stage(name) = Stage(calls'[k].name) /\ Stage(name) \in {1, 6})
    BY <1>1 DEF Before
  <2>3. Stage(name) \in {1, 2}
    BY <2>1, <2>2
  <2> QED
    BY <2>3 DEF Stage, Loading
<1> QED
  BY <1>2, <1>3

(* Before its ECALL of the third stage every table is at the host.         *)
LEMMA AtHost ==
  ASSUME CallsInv, Untouched, NEW name, Enter(name), Stage(name) <= 3
  PROVE  \A t \in TableIDs : 0 \in DOMAIN (untrustedTableStorage[t])
<1>1. call' = calls[1] /\ call'.name = name /\ 1 \in 1 .. Len(calls)
  BY Entered
<1> QED
  BY <1>1 DEF Untouched

(* What an ECALL needs is there, unless one failed.                        *)
LEMMA NeedsNow ==
  ASSUME CallsInv, Needs, NEW name, Enter(name), ~failed
  PROVE  /\ name = "createPDS" => meta # {}
         /\ name = "createJoinBuckets" => pds = "HTree"
         /\ name = "buildIndex" => pds # "none"
         /\ name = "idxSelect" => indexed
         /\ name = "czscJoin" => pds = "CZSC"
<1>1. up /\ call' = calls[1] /\ call'.name = name /\ 1 \in 1 .. Len(calls)
  BY Entered
<1>2. \A other : ~Comes(other, 1)
  BY DEF Comes
<1> QED
  BY <1>1, <1>2 DEF Needs

(* A step behind the others.                                               *)
LEMMA Appending ==
  ASSUME NEW S, NEW a \in Seq(S), NEW x \in S
  PROVE  /\ a \o <<x>> = Append(a, x) /\ Append(a, x) \in Seq(S) /\ Len(Append(a, x)) = Len(a) + 1
         /\ \A k \in 1 .. Len(a) : Append(a, x)[k] = a[k]
         /\ Append(a, x)[Len(a) + 1] = x
<1> DEFINE b == <<x>>
<1>1. b \in Seq(S) /\ Len(b) = 1 /\ b[1] = x
  OBVIOUS
<1> HIDE DEF b
<1>2. /\ a \o b \in Seq(S) /\ Len(a \o b) = Len(a) + Len(b)
      /\ \A k \in 1 .. Len(a) : (a \o b)[k] = a[k]
      /\ \A k \in 1 .. Len(b) : (a \o b)[Len(a) + k] = b[k]
  BY <1>1, Concatenation
<1> DEFINE c == Append(a, x)
           d == a \o b
<1>3. /\ c \in Seq(S) /\ Len(c) = Len(a) + 1 /\ \A k \in 1 .. Len(a) : c[k] = a[k]
      /\ c[Len(a) + 1] = x
  OBVIOUS
<1>4. /\ d \in Seq(S) /\ Len(d) = Len(a) + 1 /\ \A k \in 1 .. Len(a) : d[k] = a[k]
      /\ d[Len(a) + 1] = x
  BY <1>1, <1>2
<1> HIDE DEF c, d
<1>5. Len(a) \in Nat
  OBVIOUS
<1>6. \A k \in 1 .. Len(c) : c[k] = d[k]
  <2>1. \A k \in 1 .. Len(c) : k \in 1 .. Len(a) \/ k = Len(a) + 1
    BY <1>3, <1>5
  <2> QED
    BY <1>3, <1>4, <2>1
<1>7. c = d
  BY <1>3, <1>4, <1>6, SeqEqual
<1> QED
  BY <1>3, <1>7 DEF b, c, d

(* A plan may end with a sort or with the index file.                      *)
LEMMA PlanLast ==
  ASSUME NEW ends \in BOOLEAN, NEW strict \in BOOLEAN, NEW a, NEW T, NEW I, Plan(a, T, I, ends, strict),
         NEW s \in Step, s.op \in {"obliSort", "write_index"}
  PROVE  Plan(Append(a, s), T, I, ends, strict)
<1> DEFINE b == <<s>>
<1>1. Plan(b, {}, {}, ends, strict)
  BY PlanOne
<1>2. a \o b = Append(a, s)
  <2>1. a \in Seq(Step)
    BY DEF Plan
  <2> QED
    BY <2>1, Appending
<1> HIDE DEF b
<1>3. Plan(a \o b, T \cup {}, I \cup {}, ends, strict)
  <2>1. I \cap {} = {}
    OBVIOUS
  <2> QED
    BY <1>1, <2>1, PlanJoin
<1>4. T \cup {} = T /\ I \cup {} = I
  OBVIOUS
<1> QED
  BY <1>2, <1>3, <1>4

(* Nothing to do, or an abort.                                             *)
LEMMA PlainStarts ==
  ASSUME CallsInv, TypeInv, NEW name, Enter(name),
         \/ steps' = <<>>
         \/ steps' = <<abort>> /\ (failed \/ Hopeless')
         \/ steps' = <<write_index_OCALL>>
  PROVE  StepInv' /\ \A k \in 1 .. Len(steps') : steps'[k].op \in {"abort", "write_index"}
<1>1. abort \in Step /\ write_index_OCALL \in Step /\ abort.op = "abort" /\ write_index_OCALL.op = "write_index"
  BY StepMade DEF abort, write_index_OCALL
<1>2. CASE steps' = <<>>
  <2>1. Plan(steps', {}, {}, FALSE, TRUE)
    BY <1>2, PlanNone
  <2>2. StepInv'
    BY <2>1, PlanStarts
  <2> QED
    BY <1>2, <2>2
<1>3. CASE steps' = <<abort>> /\ (failed \/ Hopeless')
  <2>1. Plan(<<abort>>, {}, {}, TRUE, TRUE)
    BY <1>1, PlanOne
  <2>2. StepInv'
    BY <1>3, <2>1, PlanStarts
  <2>3. Len(steps') = 1 /\ steps'[1] = abort
    BY <1>1, <1>3, OneStep
  <2> QED
    BY <1>1, <2>2, <2>3
<1>4. CASE steps' = <<write_index_OCALL>>
  <2>1. Plan(<<write_index_OCALL>>, {}, {}, FALSE, TRUE)
    BY <1>1, PlanOne
  <2>2. StepInv'
    BY <1>4, <2>1, PlanStarts
  <2>3. Len(steps') = 1 /\ steps'[1] = write_index_OCALL
    BY <1>1, <1>4, OneStep
  <2> QED
    BY <1>1, <2>2, <2>3
<1> QED
  BY <1>2, <1>3, <1>4

(* The steps of createJoinBuckets.                                         *)
LEMMA BucketsStart ==
  ASSUME CallsInv, TypeInv, Untouched, CreateJoinBuckets, pds = "HTree"
  PROVE  StepInv'
<1>1. /\ Enter("createJoinBuckets") /\ pds' = pds
      /\ steps' = IF usage.op = "select" THEN Append(Append(ReadDataBlock_Wrapper(0), obliSort(0)), moveData(0))
                  ELSE <<moveData(0), moveData(1)>>
  BY DEF CreateJoinBuckets, enclaveVars
<1>2. /\ UNCHANGED <<usage, up, main, taken, faults, failed, lost>>
      /\ UNCHANGED <<untrustedTableStorage, untrustedBinStorage, indexFile, died>>
  BY <1>1, Entered
<1>3. \A t \in TableIDs : 0 \in DOMAIN (untrustedTableStorage[t])
  BY <1>1, AtHost DEF Stage, Loading, Making
<1>4. moveData(0) \in Step /\ moveData(1) \in Step
  BY StepMade
<1>5. \A t : moveData(t).op = "moveData" /\ moveData(t).tableID = t
  BY DEF moveData
<1>6. CASE usage.op = "select"
  <2> DEFINE w == ReadDataBlock_Wrapper(0)
             a == Append(w, obliSort(0))
             m == Len(w)
             n == Len(a)
  <2>2. a \in Seq(Step) /\ n \in Nat \ {0} /\ \A k \in 1 .. n : a[k].op \in {"readDataBlock", "obliSort"} /\ a[k].tableID = 0
    <3>0. 0 \in 0 .. 1
      OBVIOUS
    <3>1. /\ w \in Seq(Step) /\ m = Blocks(TableSize[0]) /\ Blocks(TableSize[0]) \in Nat \ {0}
          /\ \A k \in 1 .. Blocks(TableSize[0]) :
               w[k] = readDataBlock_OCALL(0, 0, (k - 1) * OCALL_MAXSIZE, BlockLength(TableSize[0], k))
      BY <3>0, ReadBlocks
    <3> HIDE DEF w, m
    <3>2. \A p, l : readDataBlock_OCALL(0, 0, p, l).op = "readDataBlock" /\ readDataBlock_OCALL(0, 0, p, l).tableID = 0
      BY DEF readDataBlock_OCALL
    <3>3. \A k \in 1 .. m : w[k].op = "readDataBlock" /\ w[k].tableID = 0
      BY <3>1, <3>2
    <3>4. obliSort(0) \in Step /\ obliSort(0).op = "obliSort" /\ obliSort(0).tableID = 0
      BY <3>0, StepMade DEF obliSort
    <3>5. /\ a \in Seq(Step) /\ n = m + 1
          /\ \A k \in 1 .. m : a[k] = w[k]
          /\ a[m + 1] = obliSort(0)
      BY <3>1, <3>4, Appending DEF m
    <3> HIDE DEF a, n
    <3>6. \A k \in 1 .. n : k \in 1 .. m \/ k = m + 1
      BY <3>1, <3>5
    <3>7. \A k \in 1 .. n : a[k].op \in {"readDataBlock", "obliSort"} /\ a[k].tableID = 0
      BY <3>3, <3>4, <3>5, <3>6
    <3>8. n \in Nat \ {0}
      BY <3>1, <3>5
    <3> QED
      BY <3>5, <3>7, <3>8
  <2> HIDE DEF a
  <2>3. /\ steps' \in Seq(Step) /\ Len(steps') = n + 1
        /\ \A k \in 1 .. n : steps'[k] = a[k]
        /\ steps'[n + 1] = moveData(0)
    BY <1>1, <1>4, <1>6, <2>2, Appending DEF a
  <2> HIDE DEF n
  <2>4. \A k \in 1 .. n + 1 : k \in 1 .. n \/ k = n + 1
    BY <2>2
  <2>5. /\ \A k \in 1 .. n : steps'[k].op \in {"readDataBlock", "obliSort"} /\ steps'[k].tableID = 0
        /\ steps'[n + 1].op = "moveData" /\ steps'[n + 1].tableID = 0
    BY <1>5, <2>2, <2>3
  <2>6. 0 \in TableIDs
    BY DEF TableIDs
  <2>7. \A k \in 1 .. Len(steps') : Single(steps[k])'
    <3> SUFFICES ASSUME NEW k \in 1 .. n + 1
                 PROVE  Single(steps[k])'
      BY <2>3
    <3>1. CASE k \in 1 .. n
      BY <1>2, <1>3, <2>5, <2>6, <3>1 DEF Single
    <3>2. CASE k = n + 1
      BY <1>1, <1>2, <2>5, <2>6, <3>2 DEF Single, TableIDs
    <3> QED
      BY <2>4, <3>1, <3>2
  <2>8. \A k, l \in 1 .. Len(steps') : k < l => Ordered(steps'[k], steps'[l])
    <3> SUFFICES ASSUME NEW k \in 1 .. n + 1, NEW l \in 1 .. n + 1, k < l
                 PROVE  Ordered(steps'[k], steps'[l])
      BY <2>3
    <3>1. k \in 1 .. n
      BY <2>2
    <3>2. steps'[l].op \in {"readDataBlock", "obliSort", "moveData"}
      BY <2>4, <2>5
    <3> QED
      BY <2>5, <3>1, <3>2 DEF Ordered
  <2>9. \A k \in 1 .. Len(steps') - 1 : Follows(steps'[k], steps'[k + 1])
    <3> SUFFICES ASSUME NEW k \in 1 .. n
                 PROVE  Follows(steps'[k], steps'[k + 1])
      BY <2>2, <2>3
    <3>1. k + 1 \in 1 .. n + 1
      BY <2>2
    <3>2. steps'[k + 1].op \in {"readDataBlock", "obliSort", "moveData"}
      BY <2>4, <2>5, <3>1
    <3> QED
      BY <3>2 DEF Follows
  <2>10. First(steps[1])'
    <3>1. 1 \in 1 .. n
      BY <2>2
    <3> QED
      BY <2>5, <3>1 DEF First
  <2> QED
    BY <2>7, <2>8, <2>9, <2>10 DEF StepInv
<1>7. CASE usage.op # "select"
  <2> DEFINE q == <<moveData(0), moveData(1)>>
  <2>1. Len(q) = 2 /\ q[1] = moveData(0) /\ q[2] = moveData(1)
    OBVIOUS
  <2>2. steps' = q /\ Len(steps') = 2
    BY <1>1, <1>7
  <2> HIDE DEF q
  <2>3. \A k \in 1 .. Len(steps') : steps'[k].op = "moveData" /\ steps'[k].tableID \in 0 .. 1
    <3>1. \A k \in 1 .. Len(steps') : k = 1 \/ k = 2
      BY <2>2
    <3> QED
      BY <1>5, <2>1, <2>2, <3>1
  <2>4. TableIDs = 0 .. 1
    BY <1>7 DEF TableIDs
  <2>5. \A k \in 1 .. Len(steps') : Single(steps[k])'
    BY <1>1, <1>2, <2>3, <2>4 DEF Single, TableIDs
  <2>6. /\ \A k, l \in 1 .. Len(steps') : Ordered(steps'[k], steps'[l])
        /\ \A k, l \in 1 .. Len(steps') : Follows(steps'[k], steps'[l])
    BY <2>3 DEF Ordered, Follows
  <2>7. 1 \in 1 .. Len(steps') /\ \A k \in 1 .. Len(steps') - 1 : k \in 1 .. Len(steps') /\ k + 1 \in 1 .. Len(steps')
    BY <2>2
  <2>8. First(steps[1])'
    BY <2>3, <2>7 DEF First
  <2> QED
    BY <2>5, <2>6, <2>7, <2>8 DEF StepInv
<1> QED
  BY <1>6, <1>7

StartInv == EndsInv /\ StepInv /\ Untouched /\ Needs /\ Idle /\ StaysUp

(* What holds between calls holds when the body of an ECALL has begun.     *)
LEMMA StartsBody ==
  ASSUME CallsInv, TypeInv, StartInv, Body
  PROVE  StartInv'
<1>1. EndsInv /\ StepInv /\ Untouched /\ Needs /\ Idle /\ StaysUp
  BY DEF StartInv
<1>2. ASSUME NEW name, Enter(name), StepInv', EndsInv', Needs',
             name \in {"extractMeta", "extractData", "initHTree"} =>
               \A k \in 1 .. Len(steps') : steps'[k].op \in {"readDataBlock", "obliSort", "abort"}
      PROVE  StartInv'
  <2>1. up' /\ ~died' /\ call' # NoCall
    BY <1>2, Entered
  <2>2. Untouched'
    BY <1>1, <1>2, UntouchedStill
  <2> QED
    BY <1>2, <2>1, <2>2 DEF StartInv, Idle, StaysUp
<1>3. ASSUME NEW name, Enter(name)
      PROVE  /\ call'.name = name /\ Fits(call') /\ usage' = usage /\ failed' = failed /\ TableIDs' = TableIDs
             /\ usage \in Usages /\ call' \in EcallRecord
  BY <1>3, Entered DEF TableIDs, CallsInv
<1>4. ASSUME NEW name, Enter(name), UNCHANGED <<parts, pds>>
      PROVE  EndsInv'
  BY <1>1, <1>3, <1>4 DEF EndsInv, TableIDs
<1>5. ASSUME NEW name, Enter(name), UNCHANGED pds, meta \subseteq meta', indexed => indexed',
             name = "extractMeta" => meta' # {}, name = "buildIndex" => indexed',
             name \notin {"createPDS", "initHTree", "createCZSC"}
      PROVE  Needs'
  BY <1>1, <1>5, NeedsStill
<1>6. FALSE \in BOOLEAN /\ TRUE \in BOOLEAN
  OBVIOUS
<1>7. CASE ExtractMeta
  <2>1. /\ Enter("extractMeta") /\ steps' = <<>> /\ meta' = meta \cup {call'.arg}
        /\ UNCHANGED <<parts, pds, indexed>>
    BY <1>7 DEF ExtractMeta
  <2>2. StepInv'
    BY <2>1, PlainStarts
  <2>3. \A k \in 1 .. Len(steps') : FALSE
    BY <2>1
  <2>4. EndsInv' /\ Needs'
    BY <1>4, <1>5, <2>1
  <2> QED
    BY <1>2, <2>1, <2>2, <2>3, <2>4
<1>8. CASE ExtractData
  <2> DEFINE t == call'.arg
             a == ReadDataBlock_Wrapper(t)
             s == obliSort(t)
  <2>1. /\ Enter("extractData") /\ steps' = Append(a, s) /\ meta' = meta \cup {t}
        /\ UNCHANGED <<parts, pds, indexed>>
    BY <1>8 DEF ExtractData
  <2>2. t \in TableIDs /\ t \in 0 .. 1
    BY <1>3, <2>1 DEF Fits, TableIDs
  <2>3. s \in Step /\ s.op = "obliSort"
    BY <2>2, StepMade DEF obliSort
  <2>4. a \in Seq(Step) /\ \A k \in 1 .. Len(a) : a[k].op = "readDataBlock"
    <3>1. /\ a \in Seq(Step) /\ Len(a) = Blocks(TableSize[t])
          /\ \A k \in 1 .. Blocks(TableSize[t]) :
               a[k] = readDataBlock_OCALL(t, 0, (k - 1) * OCALL_MAXSIZE, BlockLength(TableSize[t], k))
      BY <2>2, ReadBlocks
    <3>2. \A p, m : readDataBlock_OCALL(t, 0, p, m).op = "readDataBlock"
      BY DEF readDataBlock_OCALL
    <3> HIDE DEF a, t
    <3> QED
      BY <3>1, <3>2
  <2>5. Plan(a, {t}, {}, FALSE, TRUE)
    BY <1>6, <2>2, PlanReads
  <2> HIDE DEF a, s, t
  <2>6. Plan(steps', {t}, {}, FALSE, TRUE)
    BY <1>6, <2>1, <2>3, <2>5, PlanLast
  <2>7. \A u \in {t} : 0 \in DOMAIN (untrustedTableStorage[u])
    BY <1>1, <2>1, <2>2, AtHost DEF Stage, Loading, Making
  <2>8. StepInv'
    BY <1>6, <2>1, <2>6, <2>7, PlanStarts
  <2>9. \A k \in 1 .. Len(steps') : steps'[k].op \in {"readDataBlock", "obliSort"}
    <3>1. Len(steps') = Len(a) + 1 /\ steps'[Len(a) + 1] = s /\ \A k \in 1 .. Len(a) : steps'[k] = a[k]
      BY <2>1, <2>3, <2>4, Appending
    <3>2. Len(a) \in Nat
      BY <2>4
    <3>3. \A k \in 1 .. Len(steps') : k \in 1 .. Len(a) \/ k = Len(a) + 1
      BY <3>1, <3>2
    <3> QED
      BY <2>3, <2>4, <3>1, <3>3
  <2>10. EndsInv' /\ Needs'
    BY <1>4, <1>5, <2>1
  <2> QED
    BY <1>2, <2>1, <2>8, <2>9, <2>10
<1>9. CASE CreatePDS
  <2>1. PICK noise \in TreeNoise, numLeaves \in 1 .. MaxBins :
          /\ steps' = IF meta = {} THEN <<abort>> ELSE TreeSteps(0, noise, numLeaves)
          /\ parts' = [parts EXCEPT ![0] = [k \in 1 .. numLeaves |-> 0]]
    BY <1>9 DEF CreatePDS
  <2>2. Enter("createPDS") /\ pds' = "PrivTree" /\ UNCHANGED <<meta, indexed>>
    BY <1>9 DEF CreatePDS
  <2>3. noise \in Nat /\ numLeaves \in Nat
    BY SessionAssumption
  <2>4. usage.jt = "DO" /\ usage.op = "select" /\ usage' = usage
    BY <1>3, <2>2 DEF Fits
  <2>5. StepInv'
    <3>1. CASE meta = {}
      <4>1. failed
        BY <1>1, <2>2, <3>1, NeedsNow
      <4> QED
        BY <2>1, <2>2, <3>1, <4>1, PlainStarts
    <3>2. CASE meta # {}
      <4> DEFINE ends == (numLeaves # 1)
      <4>1. ends \in BOOLEAN
        OBVIOUS
      <4>2. Plan(steps', {0}, {0}, ends, TRUE)
        <5>1. 0 \in 0 .. 1
          OBVIOUS
        <5>2. Plan(TreeSteps(0, noise, numLeaves), {0}, {0}, numLeaves # 1, TRUE)
          BY <2>3, <5>1, PlanTree
        <5> QED
          BY <2>1, <3>2, <5>2
      <4>3. \A u \in {0} : 0 \in DOMAIN (untrustedTableStorage[u])
        <5>1. 0 \in TableIDs
          BY DEF TableIDs
        <5> QED
          BY <1>1, <2>2, <5>1, AtHost DEF Stage, Loading, Making
      <4>4. ends => Hopeless'
        <5>1. parts \in [0 .. 1 -> Seq(Nat)]
          BY DEF TypeInv
        <5>2. parts'[0] = [k \in 1 .. numLeaves |-> 0]
          BY <2>1, <5>1
        <5>3. Len(parts'[0]) = numLeaves
          BY <2>3, <5>2
        <5> QED
          BY <2>1, <2>3, <2>4, <5>3 DEF Hopeless
      <4> HIDE DEF ends
      <4> QED
        BY <1>6, <2>2, <4>1, <4>2, <4>3, <4>4, PlanStarts
    <3> QED
      BY <3>1, <3>2
  <2>6. EndsInv'
    BY <2>2 DEF EndsInv
  <2>7. Needs'
    BY <1>1, <2>2, <2>4, NeedsStill
  <2> QED
    BY <1>2, <2>2, <2>5, <2>6, <2>7
<1>10. CASE InitJoinPDS
  <2>1. /\ Enter("initJoinPDS") /\ steps' = IF meta = {} THEN <<abort>> ELSE <<>>
        /\ UNCHANGED <<meta, parts, pds, indexed>>
    BY <1>10 DEF InitJoinPDS, enclaveVars
  <2>2. Hopeless'
    BY <1>3, <2>1 DEF Fits, Hopeless
  <2>3. StepInv'
    BY <2>1, <2>2, PlainStarts
  <2>4. EndsInv' /\ Needs'
    BY <1>4, <1>5, <2>1
  <2> QED
    BY <1>2, <2>1, <2>3, <2>4
<1>11. CASE InitHTree
  <2>1. /\ Enter("initHTree") /\ steps' = IF usage.pf THEN <<abort>> ELSE <<>>
        /\ pds' = "HTree" /\ UNCHANGED <<meta, indexed>>
    BY <1>11 DEF InitHTree
  <2>2. PICK n \in 1 .. MaxBins : \E p1 \in Partitions(0, n), p2 \in Partitions(1, n) :
          parts' = [t \in 0 .. 1 |-> IF t \notin TableIDs THEN <<>> ELSE IF t = 0 THEN p1 ELSE p2]
    BY <1>11 DEF InitHTree
  <2>3. n \in Nat \ {0}
    BY SessionAssumption
  <2>4. PICK p1 \in Partitions(0, n), p2 \in Partitions(1, n) :
          parts' = [t \in 0 .. 1 |-> IF t \notin TableIDs THEN <<>> ELSE IF t = 0 THEN p1 ELSE p2]
    BY <2>2
  <2>5. /\ p1 \in Seq(Nat) /\ Len(p1) = n /\ \A i, j \in 1 .. n : i < j => p1[i] <= p1[j]
        /\ p2 \in Seq(Nat) /\ Len(p2) = n /\ \A i, j \in 1 .. n : i < j => p2[i] <= p2[j]
    BY <2>3, PartitionEnds
  <2>6. usage.jt = "HTree" /\ usage' = usage /\ TableIDs' = TableIDs
    BY <1>3, <2>1 DEF Fits
  <2>7. EndsInv'
    <3> SUFFICES ASSUME NEW t \in TableIDs
                 PROVE  /\ parts'[t] # <<>>
                        /\ \A i, j \in 1 .. Len(parts'[t]) : i < j => parts'[t][i] <= parts'[t][j]
      BY <2>6 DEF EndsInv
    <3>1. parts'[t] = p1 \/ parts'[t] = p2
      BY <2>4 DEF TableIDs
    <3>2. p1 # <<>> /\ p2 # <<>>
      BY <2>3, <2>5
    <3> QED
      BY <2>5, <3>1, <3>2
  <2>8. steps' = <<>> \/ (steps' = <<abort>> /\ Hopeless')
    <3>1. usage.pf => usage.op # "select"
      BY <1>3, <2>1, UsageFields
    <3> QED
      BY <2>1, <2>6, <3>1 DEF Hopeless
  <2>9. StepInv' /\ \A k \in 1 .. Len(steps') : steps'[k].op \in {"readDataBlock", "obliSort", "abort"}
    <3>1. StepInv'
      BY <2>1, <2>8, PlainStarts
    <3>2. \A k \in 1 .. Len(steps') : steps'[k].op = "abort"
      <4>1. abort.op = "abort"
        BY DEF abort
      <4> QED
        BY <2>8, <4>1
    <3> QED
      BY <3>1, <3>2
  <2>10. Needs'
    BY <1>1, <2>1, <2>6, NeedsStill
  <2> QED
    BY <1>2, <2>1, <2>7, <2>9, <2>10
<1>12. CASE CreateJoinBuckets
  <2>1. /\ Enter("createJoinBuckets") /\ (pds # "HTree" => steps' = <<abort>>)
        /\ UNCHANGED <<meta, parts, pds, indexed>>
    BY <1>12 DEF CreateJoinBuckets, enclaveVars
  <2>2. StepInv'
    <3>1. CASE pds = "HTree"
      BY <1>1, <1>12, <3>1, BucketsStart
    <3>2. CASE pds # "HTree"
      <4>1. failed
        BY <1>1, <2>1, <3>2, NeedsNow
      <4> QED
        BY <2>1, <3>2, <4>1, PlainStarts
    <3> QED
      BY <3>1, <3>2
  <2>3. EndsInv' /\ Needs'
    BY <1>4, <1>5, <2>1
  <2> QED
    BY <1>2, <2>1, <2>2, <2>3
<1>13. CASE CreateCZSC
  <2>1. Enter("createCZSC") /\ meta' = {0, 1} /\ pds' = "CZSC" /\ UNCHANGED indexed
    BY <1>13 DEF CreateCZSC
  <2>2. PICK noise1 \in TreeNoise, noise2 \in TreeNoise, numBins \in 1 .. MaxBins :
          /\ steps' = SparseSteps(0, noise1) \o SparseSteps(1, noise2) \o
                      CreateBinsSteps(0, noise1, numBins) \o CreateBinsSteps(1, noise2, numBins)
          /\ parts' = [t \in 0 .. 1 |-> [k \in 1 .. numBins |-> 0]]
    BY <1>13 DEF CreateCZSC
  <2>3. noise1 \in Nat /\ noise2 \in Nat /\ numBins \in Nat
    BY SessionAssumption
  <2>4. usage.jt = "CZSC21" /\ usage.op # "select" /\ usage' = usage
    BY <1>3, <2>1 DEF Fits
  <2> DEFINE strict == (numBins = 1)
  <2>5. strict \in BOOLEAN
    OBVIOUS
  <2>6. Ordinary' => strict
    <3>1. Len(parts'[0]) = numBins
      BY <2>2, <2>3
    <3> QED
      BY <2>2, <2>3, <2>4, <3>1 DEF Ordinary, SeveralSparseBins
  <2> HIDE DEF strict
  <2>7. Plan(steps', {0, 1}, {0, 1}, FALSE, strict)
    <3>1. strict => numBins = 1
      BY DEF strict
    <3> QED
      BY <2>2, <2>3, <2>5, <3>1, PlanCZSC
  <2>8. \A u \in {0, 1} : 0 \in DOMAIN (untrustedTableStorage[u])
    <3>1. 0 \in TableIDs /\ 1 \in TableIDs
      BY <2>4 DEF TableIDs
    <3> QED
      BY <1>1, <2>1, <3>1, AtHost DEF Stage, Loading, Making
  <2>9. StepInv'
    BY <1>6, <2>1, <2>5, <2>6, <2>7, <2>8, PlanStarts
  <2>10. EndsInv'
    BY <2>1 DEF EndsInv
  <2>11. Needs'
    BY <1>1, <2>1, <2>4, NeedsStill
  <2> QED
    BY <1>2, <2>1, <2>9, <2>10, <2>11
<1>14. CASE BuildIndex
  <2>1. /\ Enter("buildIndex") /\ steps' = <<IF pds = "none" THEN abort ELSE write_index_OCALL>>
        /\ indexed' = TRUE /\ UNCHANGED <<meta, parts, pds>>
    BY <1>14 DEF BuildIndex
  <2>2. pds = "none" => failed
    BY <1>1, <2>1, NeedsNow
  <2>3. StepInv'
    BY <2>1, <2>2, PlainStarts
  <2>4. EndsInv' /\ Needs'
    BY <1>4, <1>5, <2>1
  <2> QED
    BY <1>2, <2>1, <2>3, <2>4
<1>15. CASE IdxSelect
  <2>1. /\ Enter("idxSelect") /\ steps' = IF indexed THEN <<>> ELSE <<abort>>
        /\ UNCHANGED <<meta, parts, pds, indexed>>
    BY <1>15 DEF IdxSelect, enclaveVars
  <2>2. ~indexed => failed
    BY <1>1, <2>1, NeedsNow
  <2>3. StepInv'
    BY <2>1, <2>2, PlainStarts
  <2>4. EndsInv' /\ Needs'
    BY <1>4, <1>5, <2>1
  <2> QED
    BY <1>2, <2>1, <2>3, <2>4
<1>16. CASE InnerJoin
  <2>1. /\ Enter("innerJoin") /\ steps' = <<>> /\ UNCHANGED <<meta, parts, pds, indexed>>
    BY <1>16 DEF InnerJoin
  <2>2. StepInv'
    BY <2>1, PlainStarts
  <2>3. EndsInv' /\ Needs'
    BY <1>4, <1>5, <2>1
  <2> QED
    BY <1>2, <2>1, <2>2, <2>3
<1>17. CASE CZSCJoinCall
  <2>1. /\ Enter("czscJoin") /\ steps' = IF pds # "CZSC" \/ usage.pf THEN <<abort>> ELSE <<>>
        /\ UNCHANGED <<meta, parts, pds, indexed>>
    BY <1>17 DEF CZSCJoinCall
  <2>2. pds # "CZSC" => failed
    BY <1>1, <2>1, NeedsNow
  <2>3. usage.pf => Hopeless'
    BY <1>3, <2>1 DEF Fits, Hopeless
  <2>4. StepInv'
    BY <2>1, <2>2, <2>3, PlainStarts
  <2>5. EndsInv' /\ Needs'
    BY <1>4, <1>5, <2>1
  <2> QED
    BY <1>2, <2>1, <2>4, <2>5
<1>18. CASE JoinCompactCall
  <2> DEFINE rows == [k \in 1 .. noisyOutputSize |-> <<2, call'.arg>>]
  <2>1. /\ Enter("joinCompact")
        /\ steps' = IF noisyOutputSize >= outputSize THEN <<>> ELSE WriteDataBlock_Wrapper(0, rows)
        /\ UNCHANGED <<meta, parts, pds, indexed>>
    BY <1>18 DEF JoinCompactCall
  <2>2. rows \in Seq(Row)
    <3>1. <<2, call'.arg>> \in Row
      BY <1>3, <2>1 DEF Row, EcallRecord
    <3>2. noisyOutputSize \in Nat
      BY DEF TypeInv
    <3> QED
      BY <3>1, <3>2
  <2> HIDE DEF rows
  <2>3. StepInv'
    <3>1. CASE steps' = <<>>
      BY <2>1, <3>1, PlainStarts
    <3>2. CASE steps' = WriteDataBlock_Wrapper(0, rows)
      <4>1. Plan(steps', {}, {}, FALSE, TRUE)
        BY <1>6, <2>2, <3>2, PlanWrites
      <4>2. \A u \in {} : 0 \in DOMAIN (untrustedTableStorage[u])
        OBVIOUS
      <4> QED
        BY <1>6, <2>1, <4>1, <4>2, PlanStarts
    <3> QED
      BY <2>1, <3>1, <3>2
  <2>4. EndsInv' /\ Needs'
    BY <1>4, <1>5, <2>1
  <2> QED
    BY <1>2, <2>1, <2>3, <2>4
<1> QED
  BY <1>7, <1>8, <1>9, <1>10, <1>11, <1>12, <1>13, <1>14, <1>15, <1>16, <1>17, <1>18 DEF Body

-----------------------------------------------------------------------------
(* A step that is done and taken off.                                      *)
LEMMA TailSteps ==
  ASSUME TypeInv, TypeInv', StepInv, steps # <<>>, steps' = Tail(steps),
         UNCHANGED <<usage, parts, pds, failed>>, lost => lost',
         \A t \in 0 .. 1 : 0 \in DOMAIN (untrustedTableStorage[t]) =>
           0 \in DOMAIN (untrustedTableStorage'[t])
             \/ (steps[1].op \in {"initBinStorage", "delete_table"} /\ steps[1].tableID = t),
         steps[1].op \in {"delete_table", "writeBucket", "writeDataBlock"} => UNCHANGED tdata,
         Ordinary' /\ steps[1].op = "writeDataBlock" =>
           \A id : id = steps[1].binID => BinRows(id)' >= steps[1].pos + Len(steps[1].dblock),
         Ordinary' /\ steps[1].op = "initBinStorage" => 0 \in DOMAIN untrustedBinStorage'
  PROVE  StepInv'
<1>d. PICK d : d = Tail(steps)
  OBVIOUS
<1>h. PICK h : h = steps[1]
  OBVIOUS
<1> DEFINE m == Len(d)
<1>1. /\ h \in Step
      /\ d \in Seq(Step) /\ m \in Nat
      /\ \A k \in 1 .. m : d[k] \in Step /\ Single(d[k]) /\ Ordered(h, d[k])
      /\ \A k, l \in 1 .. m : k < l => Ordered(d[k], d[l])
      /\ Ordinary => \A k \in 1 .. m - 1 : Follows(d[k], d[k + 1])
      /\ Ordinary /\ d # <<>> => Follows(h, d[1])
  <2>1. /\ steps[1] \in Step
        /\ Tail(steps) \in Seq(Step)
        /\ \A k \in 1 .. Len(Tail(steps)) :
             /\ Tail(steps)[k] = steps[k + 1]
             /\ steps[k + 1] \in Step /\ Single(steps[k + 1]) /\ Ordered(steps[1], steps[k + 1])
        /\ \A k, l \in 1 .. Len(Tail(steps)) : k < l => Ordered(Tail(steps)[k], Tail(steps)[l])
        /\ Ordinary => \A k \in 1 .. Len(Tail(steps)) - 1 : Follows(Tail(steps)[k], Tail(steps)[k + 1])
        /\ Ordinary /\ Tail(steps) # <<>> => Follows(steps[1], Tail(steps)[1])
    BY Pending
  <2>2. Len(Tail(steps)) \in Nat
    BY <2>1
  <2> HIDE DEF Single, Ordered, Follows
  <2>3. \A k \in 1 .. Len(Tail(steps)) : Tail(steps)[k] \in Step /\ Single(Tail(steps)[k]) /\ Ordered(steps[1], Tail(steps)[k])
    <3> SUFFICES ASSUME NEW k \in 1 .. Len(Tail(steps))
                 PROVE  Tail(steps)[k] \in Step /\ Single(Tail(steps)[k]) /\ Ordered(steps[1], Tail(steps)[k])
      OBVIOUS
    <3> QED
      BY <2>1
  <2> QED
    BY <1>d, <1>h, <2>1, <2>2, <2>3
<1>2. steps' = d
  BY <1>d
<1>3. Ordinary' => Ordinary
  BY DEF Ordinary, SeveralSparseBins
<1>4. /\ \A t \in 0 .. 1 : 0 \in DOMAIN (untrustedTableStorage[t]) =>
           0 \in DOMAIN (untrustedTableStorage'[t])
             \/ (h.op \in {"initBinStorage", "delete_table"} /\ h.tableID = t)
      /\ h.op \in {"delete_table", "writeBucket", "writeDataBlock"} => UNCHANGED tdata
      /\ Ordinary' /\ h.op = "writeDataBlock" =>
           \A id : id = h.binID => BinRows(id)' >= h.pos + Len(h.dblock)
      /\ Ordinary' /\ h.op = "initBinStorage" => 0 \in DOMAIN untrustedBinStorage'
  BY <1>h
<1> HIDE DEF m
<1>5. ASSUME NEW s \in Step, Single(s), Ordered(h, s)
      PROVE  Single(s)'
  <2>1. s.op \in {"readDataBlock", "expand_table", "initBinStorage"} =>
          0 \in DOMAIN (untrustedTableStorage'[s.tableID])
    <3> SUFFICES ASSUME s.op \in {"readDataBlock", "expand_table", "initBinStorage"}
                 PROVE  0 \in DOMAIN (untrustedTableStorage'[s.tableID])
      OBVIOUS
    <3>1. s.tableID \in 0 .. 1 /\ 0 \in DOMAIN (untrustedTableStorage[s.tableID])
      BY <1>5, StepFields DEF Single
    <3>2. ~(h.op \in {"initBinStorage", "delete_table"} /\ h.tableID = s.tableID)
      BY <1>5 DEF Ordered
    <3> QED
      BY <1>4, <3>1, <3>2
  <2>2. s.op = "writeBucket" => UNCHANGED tdata
    BY <1>4, <1>5 DEF Ordered
  <2> QED
    BY <1>5, <2>1, <2>2 DEF Single, Hopeless, TableIDs
<1>6. \A k \in 1 .. m : Single(d[k])'
  <2> SUFFICES ASSUME NEW k \in 1 .. m
               PROVE  Single(d[k])'
    OBVIOUS
  <2>1. d[k] \in Step /\ Single(d[k]) /\ Ordered(h, d[k])
    BY <1>1
  <2> QED
    BY <1>5, <2>1
<1>7. ASSUME Ordinary', d # <<>>
      PROVE  First(d[1])'
  <2>1. m # 0 /\ d[1] \in Step
    BY <1>1, <1>7 DEF m
  <2>2. Follows(h, d[1])
    BY <1>1, <1>3, <1>7
  <2>3. \A id : BinRows(id)' \in Nat
    BY DEF BinRows, TypeInv, Storage
  <2>4. CASE d[1].op = "writeDataBlock"
    <3>1. d[1].pos \in Nat /\ d[1].binID \in Nat
      BY <2>1, <2>4, StepFields
    <3>2. CASE d[1].pos = 0
      BY <2>3, <2>4, <3>2 DEF First
    <3>3. CASE h.op = "writeDataBlock" /\ h.binID = d[1].binID /\ d[1].pos <= h.pos + Len(h.dblock)
      <4>1. h.pos \in Nat /\ h.dblock \in Seq(Row)
        BY <1>1, <3>3, StepFields
      <4>2. BinRows(d[1].binID)' >= h.pos + Len(h.dblock)
        BY <1>4, <1>7, <3>3
      <4>3. Len(h.dblock) \in Nat /\ BinRows(d[1].binID)' \in Nat
        BY <2>3, <4>1
      <4>4. d[1].pos <= BinRows(d[1].binID)'
        <5> HIDE DEF BinRows
        <5> QED
          BY <3>1, <3>3, <4>1, <4>2, <4>3
      <4> QED
        BY <2>4, <4>4 DEF First
    <3> QED
      BY <2>2, <2>4, <3>2, <3>3 DEF Follows
  <2>5. CASE d[1].op = "collect_resize_bins"
    BY <1>4, <1>7, <2>2, <2>5 DEF Follows, First
  <2>6. CASE d[1].op = "move_resize_bin_totable"
    BY <1>4, <1>7, <2>2, <2>6 DEF Follows, First
  <2> QED
    BY <2>4, <2>5, <2>6 DEF First
<1> QED
  BY <1>1, <1>2, <1>3, <1>6, <1>7 DEF StepInv, m

(* What changes one table leaves the other as it is.                       *)
LEMMA OtherTables ==
  ASSUME TypeInv, NEW t \in 0 .. 1, NEW map, untrustedTableStorage' = [untrustedTableStorage EXCEPT ![t] = map]
  PROVE  /\ untrustedTableStorage'[t] = map
         /\ \A u \in 0 .. 1 : u # t => untrustedTableStorage'[u] = untrustedTableStorage[u]
BY DEF TypeInv

(* The requests of moveData come before what was to be done after it.      *)
LEMMA MoveStarts ==
  ASSUME TypeInv, EndsInv, StepInv, MoveDataStep
  PROVE  StepInv' /\ Single(Head(steps))
<1>1. /\ steps # <<>> /\ Head(steps).op = "moveData"
      /\ UNCHANGED <<usage, calls, call, up, parts, pds, failed, lost>>
      /\ UNCHANGED <<untrustedTableStorage, untrustedBinStorage, indexFile, died>>
  BY DEF MoveDataStep, InBody, faultVars, hostVars
<1>2. /\ Head(steps) = steps[1] /\ steps[1] \in Step /\ Single(steps[1])
      /\ Tail(steps) \in Seq(Step) /\ Len(Tail(steps)) \in Nat
      /\ \A k \in 1 .. Len(Tail(steps)) :
           /\ Tail(steps)[k] = steps[k + 1] /\ steps[k + 1] \in Step
           /\ Single(steps[k + 1]) /\ Ordered(steps[1], steps[k + 1])
  BY <1>1, Pending
<1>h. PICK t : t = steps[1].tableID
  OBVIOUS
<1>3. t \in TableIDs /\ t \in 0 .. 1 /\ pds = "HTree" /\ parts[t] # <<>> /\ parts[t] \in Seq(Nat)
  <2>1. t \in TableIDs /\ pds = "HTree"
    BY <1>1, <1>2, <1>h DEF Single
  <2>2. t \in 0 .. 1
    BY <2>1 DEF TableIDs
  <2>3. parts[t] # <<>>
    BY <2>1 DEF EndsInv
  <2>4. parts \in [0 .. 1 -> Seq(Nat)]
    BY DEF TypeInv
  <2> QED
    BY <2>1, <2>2, <2>3, <2>4
<1>n. PICK n : n = Len(parts[t])
  OBVIOUS
<1>4. n \in Nat /\ DOMAIN parts[t] = 1 .. n
  BY <1>3, <1>n
<1>5. /\ \E places \in kSubset(Len(tdata[t]), 1 .. Last(parts[t])) :
           tdata' = [tdata EXCEPT ![t] = Padded(@, places, Last(parts[t]))]
      /\ steps' = <<delete_table_OCALL(t)>> \o [i \in 1 .. n |-> writeBucket(t, i)] \o <<freeSpace(t)>> \o Tail(steps)
  BY <1>2, <1>h, <1>4 DEF MoveDataStep
<1>6. Len(tdata'[t]) = Last(parts'[t])
  <2>1. Last(parts[t]) \in Nat
    BY <1>3, LastOf DEF Last
  <2>2. tdata \in [0 .. 1 -> Seq(Row)] /\ tdata[t] \in Seq(Row)
    BY <1>3 DEF TypeInv
  <2>3. PICK places \in kSubset(Len(tdata[t]), 1 .. Last(parts[t])) :
          tdata' = [tdata EXCEPT ![t] = Padded(@, places, Last(parts[t]))]
    BY <1>5
  <2>4. tdata'[t] = Padded(tdata[t], places, Last(parts[t]))
    BY <1>3, <2>2, <2>3
  <2>5. Len(Padded(tdata[t], places, Last(parts[t]))) = Last(parts[t])
    BY <2>1, <2>2, PaddedRows
  <2> QED
    BY <1>1, <2>4, <2>5
<1>p. PICK p : p = Tail(steps)
  OBVIOUS
<1>m. PICK m : m = Len(p)
  OBVIOUS
<1>7. /\ p \in Seq(Step) /\ m \in Nat
      /\ \A k \in 1 .. m : p[k].op = "moveData" /\ p[k].tableID \in TableIDs
  <2>1. \A k \in 1 .. m : p[k].op = "moveData"
    BY <1>1, <1>2, <1>p, <1>m DEF Ordered
  <2>2. \A k \in 1 .. m : Single(p[k])
    BY <1>2, <1>p, <1>m
  <2> QED
    BY <1>2, <1>p, <1>m, <2>1, <2>2 DEF Single
<1> DEFINE a == <<delete_table_OCALL(t)>>
           b == [i \in 1 .. n |-> writeBucket(t, i)]
           c == <<freeSpace(t)>>
<1>8. /\ a \in Seq(Step) /\ Len(a) = 1 /\ a[1] = delete_table_OCALL(t)
      /\ c \in Seq(Step) /\ Len(c) = 1 /\ c[1] = freeSpace(t)
  <2>1. delete_table_OCALL(t) \in Step /\ freeSpace(t) \in Step
    BY <1>3, StepMade
  <2> QED
    BY <2>1, OneStep
<1>9. b \in Seq(Step) /\ Len(b) = n /\ \A i \in 1 .. n : b[i] = writeBucket(t, i)
  <2>1. \A i \in 1 .. n : writeBucket(t, i) \in Step
    <3> SUFFICES ASSUME NEW i \in 1 .. n
                 PROVE  writeBucket(t, i) \in Step
      OBVIOUS
    <3>1. i \in Nat
      BY <1>4
    <3> QED
      BY <1>3, <3>1, StepMade
  <2>2. b \in [1 .. n -> Step] /\ \A i \in 1 .. n : b[i] = writeBucket(t, i)
    BY <2>1
  <2> QED
    BY <1>4, <2>2, FunctionIsSequence
<1>10. steps' = a \o b \o c \o p
  BY <1>5, <1>p
<1> HIDE DEF a, b, c
<1>11. /\ a \o b \in Seq(Step) /\ Len(a \o b) = 1 + n /\ (a \o b)[1] = a[1]
       /\ \A k \in 2 .. n + 1 : (a \o b)[k] = b[k - 1]
  <2>1. /\ a \o b \in Seq(Step) /\ Len(a \o b) = Len(a) + Len(b)
        /\ \A k \in 1 .. Len(a) : (a \o b)[k] = a[k]
        /\ \A k \in Len(a) + 1 .. Len(a) + Len(b) : (a \o b)[k] = b[k - Len(a)]
    <3>1. a \in Seq(Step) /\ b \in Seq(Step)
      BY <1>8, <1>9
    <3> QED
      BY <3>1, Concatenation
  <2> DEFINE ab == a \o b
  <2> HIDE DEF ab
  <2>2. ab \in Seq(Step) /\ Len(ab) = 1 + n /\ ab[1] = a[1] /\ \A k \in 2 .. n + 1 : ab[k] = b[k - 1]
    BY <1>4, <1>8, <1>9, <2>1 DEF ab
  <2> QED
    BY <2>2 DEF ab
<1>ab. PICK ab : ab = a \o b
  OBVIOUS
<1>12. /\ ab \o c \in Seq(Step) /\ Len(ab \o c) = 2 + n /\ (ab \o c)[n + 2] = c[1]
       /\ \A k \in 1 .. n + 1 : (ab \o c)[k] = ab[k]
  <2>1. /\ ab \o c \in Seq(Step) /\ Len(ab \o c) = Len(ab) + Len(c)
        /\ \A k \in 1 .. Len(ab) : (ab \o c)[k] = ab[k]
        /\ \A k \in 1 .. Len(c) : (ab \o c)[Len(ab) + k] = c[k]
    <3>1. ab \in Seq(Step) /\ c \in Seq(Step)
      BY <1>8, <1>11, <1>ab
    <3> QED
      BY <3>1, Concatenation
  <2>2. Len(ab) = 1 + n
    BY <1>11, <1>ab
  <2> DEFINE abc == ab \o c
  <2> HIDE DEF abc
  <2>3. abc \in Seq(Step) /\ Len(abc) = 2 + n /\ abc[1 + n + 1] = c[1] /\ \A k \in 1 .. n + 1 : abc[k] = ab[k]
    BY <1>4, <1>8, <2>1, <2>2 DEF abc
  <2>4. 1 + n + 1 = n + 2
    BY <1>4
  <2> QED
    BY <2>3, <2>4 DEF abc
<1>abc. PICK abc : abc = ab \o c
  OBVIOUS
<1>s. PICK s : s = abc \o p
  OBVIOUS
<1>13. /\ s \in Seq(Step) /\ Len(s) = n + 2 + m
       /\ \A k \in 1 .. n + 2 : s[k] = abc[k]
       /\ \A k \in n + 3 .. n + 2 + m : s[k] = p[k - (n + 2)]
  <2>1. /\ abc \o p \in Seq(Step) /\ Len(abc \o p) = Len(abc) + Len(p)
        /\ \A k \in 1 .. Len(abc) : (abc \o p)[k] = abc[k]
        /\ \A k \in Len(abc) + 1 .. Len(abc) + Len(p) : (abc \o p)[k] = p[k - Len(abc)]
    <3>1. abc \in Seq(Step) /\ p \in Seq(Step)
      BY <1>7, <1>12, <1>abc
    <3> QED
      BY <3>1, Concatenation
  <2>2. Len(abc) = n + 2 /\ Len(p) = m
    BY <1>4, <1>12, <1>abc, <1>m
  <2>3. n + 2 + 1 = n + 3
    BY <1>4
  <2> QED
    BY <1>s, <2>1, <2>2, <2>3
<1>14. /\ s[1] = delete_table_OCALL(t) /\ s[n + 2] = freeSpace(t)
       /\ \A k \in 2 .. n + 1 : s[k] = writeBucket(t, k - 1)
       /\ \A k \in n + 3 .. n + 2 + m : s[k].op = "moveData" /\ s[k].tableID \in TableIDs
  <2>1. s[1] = delete_table_OCALL(t)
    <3>1. 1 \in 1 .. n + 2 /\ 1 \in 1 .. n + 1
      BY <1>4
    <3> QED
      BY <1>8, <1>11, <1>12, <1>13, <1>ab, <1>abc, <3>1
  <2>2. s[n + 2] = freeSpace(t)
    <3>1. n + 2 \in 1 .. n + 2
      BY <1>4
    <3> QED
      BY <1>8, <1>12, <1>13, <1>abc, <3>1
  <2>3. ASSUME NEW k \in 2 .. n + 1
        PROVE  s[k] = writeBucket(t, k - 1)
    <3>1. k \in 1 .. n + 2 /\ k \in 1 .. n + 1 /\ k - 1 \in 1 .. n
      BY <1>4
    <3>2. s[k] = ab[k]
      BY <1>12, <1>13, <1>abc, <3>1
    <3>3. ab[k] = b[k - 1]
      BY <1>11, <1>ab
    <3> QED
      BY <1>9, <3>1, <3>2, <3>3
  <2>4. ASSUME NEW k \in n + 3 .. n + 2 + m
        PROVE  s[k].op = "moveData" /\ s[k].tableID \in TableIDs
    <3>1. k - (n + 2) \in 1 .. m
      BY <1>4, <1>7
    <3>2. s[k] = p[k - (n + 2)]
      BY <1>13
    <3> QED
      BY <1>7, <3>1, <3>2
  <2> QED
    BY <2>1, <2>2, <2>3, <2>4
<1>15. steps' = s
  BY <1>10, <1>ab, <1>abc, <1>s
<1>16. \A k \in 1 .. n + 2 + m : k = 1 \/ k \in 2 .. n + 1 \/ k = n + 2 \/ k \in n + 3 .. n + 2 + m
  BY <1>4, <1>7
<1>17. /\ s[1].op = "delete_table" /\ s[n + 2].op = "freeSpace"
       /\ \A k \in 2 .. n + 1 : s[k].op = "writeBucket" /\ s[k].tableID = t /\ s[k].bucket = k - 1
  <2>1. /\ delete_table_OCALL(t).op = "delete_table" /\ freeSpace(t).op = "freeSpace"
        /\ \A i : writeBucket(t, i).op = "writeBucket" /\ writeBucket(t, i).tableID = t /\ writeBucket(t, i).bucket = i
    BY DEF delete_table_OCALL, freeSpace, writeBucket
  <2> QED
    BY <1>14, <2>1
<1>18. ASSUME NEW k \in 1 .. n + 2 + m
       PROVE  Single(s[k])'
  <2>1. CASE k = 1 \/ k = n + 2
    BY <1>17, <2>1 DEF Single
  <2>2. CASE k \in 2 .. n + 1
    <3>1. k - 1 \in 1 .. n /\ s[k].op = "writeBucket" /\ s[k].tableID = t /\ s[k].bucket = k - 1
      BY <1>4, <1>17, <2>2
    <3> QED
      BY <1>1, <1>3, <1>6, <1>n, <3>1 DEF Single, TableIDs
  <2>3. CASE k \in n + 3 .. n + 2 + m
    BY <1>1, <1>3, <1>14, <2>3 DEF Single, TableIDs
  <2> QED
    BY <1>16, <2>1, <2>2, <2>3
<1>19. ASSUME NEW k \in 1 .. n + 2 + m, NEW l \in 1 .. n + 2 + m, k < l
       PROVE  Ordered(s[k], s[l])
  <2>1. s[l].op \in {"writeBucket", "freeSpace", "moveData"}
    <3>1. l # 1
      BY <1>4, <1>7, <1>19
    <3> QED
      BY <1>14, <1>16, <1>17, <3>1
  <2>2. s[k].op = "moveData" => s[l].op = "moveData"
    <3>1. s[k].op = "moveData" => k \in n + 3 .. n + 2 + m
      BY <1>16, <1>17
    <3>2. k \in n + 3 .. n + 2 + m => l \in n + 3 .. n + 2 + m
      BY <1>4, <1>7, <1>19
    <3> QED
      BY <1>14, <3>1, <3>2
  <2>3. s[l].op = "writeBucket" => s[k].op \in {"delete_table", "writeBucket"}
    <3>1. s[l].op = "writeBucket" => l \in 2 .. n + 1
      BY <1>14, <1>16, <1>17
    <3>2. l \in 2 .. n + 1 => k = 1 \/ k \in 2 .. n + 1
      BY <1>4, <1>7, <1>19
    <3> QED
      BY <1>17, <3>1, <3>2
  <2> QED
    BY <2>1, <2>2, <2>3 DEF Ordered
<1>20. ASSUME NEW k \in 1 .. Len(s) - 1
       PROVE  Follows(s[k], s[k + 1])
  <2>1. k + 1 \in 1 .. n + 2 + m /\ k + 1 # 1
    BY <1>4, <1>7, <1>13
  <2>2. s[k + 1].op \in {"writeBucket", "freeSpace", "moveData"}
    BY <1>14, <1>16, <1>17, <2>1
  <2> QED
    BY <2>2 DEF Follows
<1>21. First(s[1])'
  BY <1>17 DEF First
<1>22. StepInv'
  <2>1. Len(s) = n + 2 + m
    BY <1>13
  <2>2. \A k \in 1 .. Len(s) : Single(s[k])'
    BY <1>18, <2>1
  <2>3. \A k, l \in 1 .. Len(s) : k < l => Ordered(s[k], s[l])
    BY <1>19, <2>1
  <2>4. \A k \in 1 .. Len(s) - 1 : Follows(s[k], s[k + 1])
    BY <1>20
  <2> QED
    BY <1>15, <1>21, <2>2, <2>3, <2>4 DEF StepInv
<1> QED
  BY <1>2, <1>22

(* The blocks of a bucket come before what was to be done after it.        *)
LEMMA BucketStarts ==
  ASSUME TypeInv, EndsInv, StepInv, WriteBucketStep
  PROVE  StepInv'
<1>1. /\ steps # <<>> /\ Head(steps).op = "writeBucket"
      /\ UNCHANGED <<usage, parts, pds, failed, lost, tdata>>
      /\ UNCHANGED <<untrustedTableStorage, untrustedBinStorage>>
  BY DEF WriteBucketStep, InBody, faultVars, hostVars, enclaveVars
<1>p. PICK p : p = Tail(steps)
  OBVIOUS
<1>m. PICK m : m = Len(p)
  OBVIOUS
<1>h. PICK h : h = steps[1]
  OBVIOUS
<1>2. /\ Head(steps) = h /\ h \in Step /\ Single(h) /\ h.op = "writeBucket"
      /\ p \in Seq(Step) /\ m \in Nat
      /\ \A k \in 1 .. m : p[k] \in Step /\ Single(p[k])
      /\ \A k, l \in 1 .. m : k < l => Ordered(p[k], p[l])
      /\ Ordinary => \A k \in 1 .. m - 1 : Follows(p[k], p[k + 1])
      /\ Ordinary /\ m # 0 => Follows(h, p[1])
  <2>1. /\ Head(steps) = steps[1] /\ steps[1] \in Step /\ Single(steps[1])
        /\ Tail(steps) \in Seq(Step)
        /\ \A k \in 1 .. Len(Tail(steps)) : Tail(steps)[k] = steps[k + 1] /\ steps[k + 1] \in Step /\ Single(steps[k + 1])
        /\ \A k, l \in 1 .. Len(Tail(steps)) : k < l => Ordered(Tail(steps)[k], Tail(steps)[l])
        /\ Ordinary => \A k \in 1 .. Len(Tail(steps)) - 1 : Follows(Tail(steps)[k], Tail(steps)[k + 1])
        /\ Ordinary /\ Tail(steps) # <<>> => Follows(steps[1], Tail(steps)[1])
    BY <1>1, Pending
  <2>2. Len(p) \in Nat /\ (m # 0 => p # <<>>)
    <3>1. p \in Seq(Step)
      BY <1>p, <2>1
    <3> QED
      BY <1>m, <3>1
  <2> HIDE DEF Single, Ordered, Follows
  <2>3. \A k \in 1 .. m : p[k] \in Step /\ Single(p[k])
    <3> SUFFICES ASSUME NEW k \in 1 .. Len(Tail(steps))
                 PROVE  Tail(steps)[k] \in Step /\ Single(Tail(steps)[k])
      BY <1>p, <1>m
    <3> QED
      BY <2>1
  <2> QED
    BY <1>1, <1>p, <1>m, <1>h, <2>1, <2>2, <2>3
<1>t. PICK t, i : t = h.tableID /\ i = h.bucket
  OBVIOUS
<1>3. /\ t \in TableIDs /\ t \in 0 .. 1 /\ pds = "HTree" /\ i \in 1 .. Len(parts[t])
      /\ Len(tdata[t]) = Last(parts[t])
  BY <1>2, <1>t DEF Single, TableIDs
<1> DEFINE rows == [j \in 1 .. NumData(t, i) |-> tdata[t][BinStart(t, i) + j]]
           bucket == FirstBucket(t) + i - 1
<1>4. rows \in Seq(Row) /\ bucket \in Nat
  <2>1. tdata \in [0 .. 1 -> Seq(Row)] /\ parts \in [0 .. 1 -> Seq(Nat)]
    BY DEF TypeInv
  <2> QED
    BY <1>3, <2>1, BucketRows
<1>5. steps' = WriteDataBlock_Wrapper(bucket, rows) \o p
  BY <1>2, <1>p, <1>t DEF WriteBucketStep
<1> HIDE DEF rows, bucket
<1>w. PICK w : w = WriteDataBlock_Wrapper(bucket, rows)
  OBVIOUS
<1>n. PICK n : n = Len(w)
  OBVIOUS
<1>6. /\ w \in Seq(Step) /\ n \in Nat \ {0}
      /\ \A k \in 1 .. n : w[k].op = "writeDataBlock"
      /\ \A k \in 1 .. n - 1 : Follows(w[k], w[k + 1])
      /\ Opening(w[1])
  BY <1>4, <1>w, <1>n, WriteBlocks
<1>s. PICK s : s = w \o p
  OBVIOUS
<1>7. /\ s \in Seq(Step) /\ Len(s) = n + m
      /\ \A k \in 1 .. n : s[k] = w[k]
      /\ \A k \in n + 1 .. n + m : s[k] = p[k - n]
  <2>1. w \in Seq(Step) /\ p \in Seq(Step)
    BY <1>2, <1>6
  <2> QED
    BY <1>s, <1>n, <1>m, <2>1, Concatenation
<1>8. steps' = s
  BY <1>5, <1>w, <1>s
<1>9. \A k \in 1 .. n + m : k \in 1 .. n \/ (k \in n + 1 .. n + m /\ k - n \in 1 .. m)
  BY <1>2, <1>6
<1>10. ASSUME NEW k \in 1 .. n + m
       PROVE  Single(s[k])'
  <2>1. CASE k \in 1 .. n
    BY <1>6, <1>7, <2>1 DEF Single
  <2>2. CASE k \in n + 1 .. n + m /\ k - n \in 1 .. m
    <3>1. s[k] = p[k - n] /\ Single(p[k - n])
      BY <1>2, <1>7, <2>2
    <3>2. Single(p[k - n])'
      BY <1>1, <3>1 DEF Single, Hopeless, TableIDs
    <3> QED
      BY <3>1, <3>2
  <2> QED
    BY <1>9, <2>1, <2>2
<1>11. ASSUME NEW k \in 1 .. n + m, NEW l \in 1 .. n + m, k < l
       PROVE  Ordered(s[k], s[l])
  <2>1. CASE k \in 1 .. n /\ l \in 1 .. n
    BY <1>6, <1>7, <2>1 DEF Ordered
  <2>2. CASE k \in 1 .. n /\ l \in n + 1 .. n + m
    BY <1>6, <1>7, <2>2 DEF Ordered
  <2>3. CASE k \in n + 1 .. n + m
    <3>1. l \in n + 1 .. n + m /\ k - n \in 1 .. m /\ l - n \in 1 .. m /\ k - n < l - n
      BY <1>2, <1>6, <1>11, <2>3
    <3> QED
      BY <1>2, <1>7, <2>3, <3>1
  <2> QED
    BY <1>9, <2>1, <2>2, <2>3
<1>12. ASSUME Ordinary', NEW k \in 1 .. Len(s) - 1
       PROVE  Follows(s[k], s[k + 1])
  <2>0. Ordinary
    BY <1>1, <1>12 DEF Ordinary, SeveralSparseBins
  <2>1. CASE k \in 1 .. n - 1
    <3>1. k \in 1 .. n /\ k + 1 \in 1 .. n
      BY <1>6, <2>1
    <3> QED
      BY <1>6, <1>7, <2>1, <3>1
  <2>2. CASE k = n
    <3>1. m # 0 /\ k + 1 \in n + 1 .. n + m /\ k + 1 - n = 1 /\ k \in 1 .. n
      BY <1>2, <1>6, <1>7, <1>12, <2>2
    <3>2. s[k + 1] = p[1] /\ Follows(h, p[1])
      <4>1. s[k + 1] = p[(k + 1) - n]
        BY <1>7, <3>1
      <4>2. s[k + 1] = p[1]
        BY <1>2, <1>6, <3>1, <4>1
      <4> QED
        BY <1>2, <2>0, <3>1, <4>2
    <3> QED
      BY <1>2, <3>2 DEF Follows
  <2>3. CASE k > n
    <3>1. /\ k \in n + 1 .. n + m /\ k + 1 \in n + 1 .. n + m
          /\ k - n \in 1 .. m - 1 /\ k + 1 - n = (k - n) + 1
      BY <1>2, <1>6, <1>7, <1>12, <2>3
    <3>2. s[k] = p[k - n] /\ s[k + 1] = p[(k - n) + 1]
      <4>1. s[k] = p[k - n] /\ s[k + 1] = p[(k + 1) - n]
        BY <1>7, <3>1
      <4> QED
        BY <1>2, <1>6, <3>1, <4>1
    <3> QED
      BY <1>2, <2>0, <3>1, <3>2
  <2> QED
    BY <1>6, <1>7, <1>12, <2>1, <2>2, <2>3
<1>13. First(s[1])'
  <2>1. 1 \in 1 .. n /\ s[1] = w[1] /\ s[1] \in Step /\ s[1].op = "writeDataBlock"
    <3>1. 1 \in 1 .. n
      BY <1>6
    <3> QED
      BY <1>6, <1>7, <1>n, <3>1
  <2>2. s[1].pos = 0 /\ s[1].binID \in Nat
    BY <1>6, <2>1, StepFields DEF Opening
  <2>3. BinRows(s[1].binID)' \in Nat
    BY <1>1 DEF BinRows, TypeInv, Storage
  <2> QED
    BY <2>1, <2>2, <2>3 DEF First
<1> QED
  <2>1. Len(s) = n + m
    BY <1>7
  <2>2. \A k \in 1 .. Len(s) : Single(s[k])'
    BY <1>10, <2>1
  <2>3. \A k, l \in 1 .. Len(s) : k < l => Ordered(s[k], s[l])
    BY <1>11, <2>1
  <2>4. Ordinary' => \A k \in 1 .. Len(s) - 1 : Follows(s[k], s[k + 1])
    BY <1>12
  <2> QED
    BY <1>8, <1>13, <2>2, <2>3, <2>4 DEF StepInv

(* What holds between calls holds after each step through the host.        *)
LEMMA StartsSteps ==
  ASSUME TypeInv, TypeInv', StartInv, Steps
  PROVE  StartInv'
<1>1. EndsInv /\ StepInv /\ Untouched /\ Needs /\ Idle /\ StaysUp
  BY DEF StartInv
<1>2. ASSUME steps # <<>>, up, UNCHANGED <<usage, calls, call, up, meta, parts, pds, indexed, failed>>,
             StepInv', died' => lost' \/ SeveralSparseBins,
             steps[1].op \in {"readDataBlock", "obliSort", "abort"} =>
               steps' = Tail(steps) /\ UNCHANGED untrustedTableStorage
      PROVE  StartInv'
  <2>1. EndsInv' /\ Needs'
    BY <1>1, <1>2 DEF EndsInv, Needs, Comes, TableIDs
  <2>2. Idle' /\ StaysUp'
    BY <1>1, <1>2 DEF Idle, StaysUp, SeveralSparseBins
  <2>3. Untouched'
    <3> SUFFICES ASSUME NEW k \in 1 .. Len(calls), Stage(calls[k].name) <= 3
                 PROVE  /\ \A t \in TableIDs : 0 \in DOMAIN (untrustedTableStorage'[t])
                        /\ \A j \in 1 .. Len(steps') : steps'[j].op \in {"readDataBlock", "obliSort", "abort"}
      BY <1>2 DEF Untouched, TableIDs
    <3>1. /\ \A t \in TableIDs : 0 \in DOMAIN (untrustedTableStorage[t])
          /\ \A j \in 1 .. Len(steps) : steps[j].op \in {"readDataBlock", "obliSort", "abort"}
      BY <1>1 DEF Untouched
    <3>2. 1 \in 1 .. Len(steps) /\ \A j \in 1 .. Len(Tail(steps)) : Tail(steps)[j] = steps[j + 1] /\ j + 1 \in 1 .. Len(steps)
      <4>1. Len(steps) \in Nat \ {0}
            /\ \A j \in 1 .. Len(Tail(steps)) : Tail(steps)[j] = steps[j + 1] /\ j + 1 \in 1 .. Len(steps)
        BY <1>1, <1>2, Pending
      <4> QED
        BY <4>1
    <3>3. steps' = Tail(steps) /\ UNCHANGED untrustedTableStorage
      BY <1>2, <3>1, <3>2
    <3> QED
      BY <3>1, <3>2, <3>3
  <2> QED
    BY <1>2, <2>1, <2>2, <2>3 DEF StartInv
<1>3. ASSUME steps # <<>>
      PROVE  /\ Head(steps) = steps[1] /\ steps[1] \in Step /\ Single(steps[1])
             /\ Ordinary => First(steps[1])
  BY <1>1, <1>3, Pending
<1>4. ASSUME NEW op, Request(op)
      PROVE  /\ steps # <<>> /\ steps' = Tail(steps) /\ up /\ ~died
             /\ Head(steps) = steps[1] /\ steps[1] \in Step /\ steps[1].op = op /\ Single(steps[1])
             /\ Ordinary => First(steps[1])
             /\ UNCHANGED <<usage, calls, call, up, meta, parts, pds, indexed, failed, lost>>
  <2>1. /\ steps # <<>> /\ steps' = Tail(steps) /\ up /\ ~died /\ Head(steps).op = op
        /\ UNCHANGED <<usage, calls, call, up, meta, parts, pds, indexed, failed, lost>>
    BY <1>4 DEF Request, InBody, faultVars
  <2> QED
    BY <1>3, <2>1
<1>5. ASSUME NEW op, Request(op), UNCHANGED <<untrustedTableStorage, untrustedBinStorage, died>>,
             op \notin {"delete_table", "writeBucket", "writeDataBlock", "initBinStorage"}
      PROVE  StartInv'
  <2>1. StepInv'
    BY <1>1, <1>4, <1>5, TailSteps
  <2> QED
    BY <1>2, <1>4, <1>5, <2>1
<1>6. ASSUME Ordinary' , UNCHANGED <<usage, parts, lost>>
      PROVE  Ordinary
  BY <1>6 DEF Ordinary, SeveralSparseBins
<1>7. CASE ReadStep
  <2>1. Request("readDataBlock")
    BY <1>7 DEF ReadStep
  <2>2. steps[1].binID = 0 /\ 0 \in DOMAIN (untrustedTableStorage[steps[1].tableID])
    BY <1>4, <2>1, StepFields DEF Single
  <2>3. UNCHANGED <<untrustedTableStorage, untrustedBinStorage, died>>
    BY <1>4, <1>7, <2>1, <2>2 DEF ReadStep, hostVars
  <2> QED
    BY <1>5, <2>1, <2>3
<1>8. CASE LostRead \/ LostRequest
  <2>1. /\ steps # <<>> /\ steps' = Tail(steps) /\ up /\ ~died /\ lost' = TRUE
        /\ UNCHANGED <<usage, calls, call, up, meta, parts, pds, indexed, failed>>
        /\ UNCHANGED <<untrustedTableStorage, untrustedBinStorage, died>>
        /\ Head(steps).op = "readDataBlock" \/ UNCHANGED tdata
    BY <1>8 DEF LostRead, LostRequest, InBody, hostVars, enclaveVars
  <2>2. Head(steps) = steps[1]
    BY <1>3, <2>1
  <2>3. ~Ordinary'
    BY <2>1 DEF Ordinary
  <2>4. StepInv'
    BY <1>1, <2>1, <2>2, <2>3, TailSteps
  <2> QED
    BY <1>2, <2>1, <2>4
<1>9. CASE WriteStep
  <2>s. PICK s : s = steps[1]
    OBVIOUS
  <2>1. Request("writeDataBlock") /\ UNCHANGED tdata
    BY <1>9 DEF WriteStep, Writing
  <2>2. /\ s \in Step /\ s.op = "writeDataBlock" /\ Head(steps) = s
        /\ HandleWriteDataBlock(s.binID, s.pos, s.dblock)
    BY <1>4, <1>9, <2>1, <2>s DEF WriteStep
  <2>3. s.binID \in Nat /\ s.pos \in Nat /\ s.dblock \in Seq(Row)
    BY <2>2, StepFields
  <2> DEFINE storage == IF s.binID \in DOMAIN untrustedBinStorage THEN untrustedBinStorage[s.binID] ELSE <<>>
  <2>4. storage \in Seq(Row) /\ Len(storage) \in Nat /\ BinRows(s.binID) = Len(storage)
    <3>1. Storage(untrustedBinStorage)
      BY DEF TypeInv
    <3> QED
      BY <3>1 DEF BinRows, Storage
  <2>5. CASE s.pos > Size(storage)
    <3>1. Die
      BY <2>2, <2>5 DEF HandleWriteDataBlock
    <3>2. ~Ordinary
      <4> SUFFICES ASSUME Ordinary
                   PROVE  FALSE
        OBVIOUS
      <4>1. s.pos <= BinRows(s.binID)
        BY <1>4, <2>1, <2>2, <2>s DEF First
      <4> QED
        BY <2>3, <2>4, <2>5, <4>1 DEF Size
    <3>3. ~Ordinary'
      BY <1>4, <1>6, <2>1, <3>2
    <3>4. StepInv'
      BY <1>1, <1>4, <2>1, <2>2, <2>s, <3>1, <3>3, TailSteps DEF Die
    <3>5. lost \/ SeveralSparseBins
      BY <3>2 DEF Ordinary
    <3> QED
      BY <1>2, <1>4, <2>1, <2>2, <2>s, <3>1, <3>4, <3>5 DEF Die
  <2>6. CASE ~(s.pos > Size(storage))
    <3>1. /\ untrustedBinStorage' = With(untrustedBinStorage, s.binID, Stored(storage, s.pos, s.dblock))
          /\ UNCHANGED <<untrustedTableStorage, indexFile, died>>
      BY <2>2, <2>6 DEF HandleWriteDataBlock
    <3>2. s.pos <= Len(storage)
      BY <2>3, <2>4, <2>6 DEF Size
    <3> HIDE DEF storage
    <3>3. Stored(storage, s.pos, s.dblock) \in Seq(Row)
          /\ Len(Stored(storage, s.pos, s.dblock)) >= s.pos + Len(s.dblock)
      <4>1. LET new == Stored(storage, s.pos, s.dblock) IN
            /\ new \in Seq(Row)
            /\ Len(new) = IF s.pos + Len(s.dblock) > Len(storage) THEN s.pos + Len(s.dblock) ELSE Len(storage)
        BY <2>3, <2>4, <3>2, StoredRows
      <4>2. Len(s.dblock) \in Nat
        BY <2>3
      <4> QED
        BY <2>3, <2>4, <4>1, <4>2
    <3>4. BinRows(s.binID)' = Len(Stored(storage, s.pos, s.dblock))
      <4>1. PICK new, b : new = Stored(storage, s.pos, s.dblock) /\ b = s.binID
        OBVIOUS
      <4>2. untrustedBinStorage' = With(untrustedBinStorage, b, new)
        BY <3>1, <4>1
      <4>3. b \in DOMAIN untrustedBinStorage' /\ untrustedBinStorage'[b] = new
        BY <4>2 DEF With
      <4> QED
        BY <4>1, <4>3 DEF BinRows
    <3>5. \A id : id = steps[1].binID => BinRows(id)' >= steps[1].pos + Len(steps[1].dblock)
      <4> SUFFICES ASSUME NEW id, id = s.binID
                   PROVE  BinRows(id)' >= s.pos + Len(s.dblock)
        BY <2>s
      <4>1. BinRows(id)' = Len(Stored(storage, s.pos, s.dblock))
        BY <3>4
      <4> QED
        BY <3>3, <4>1
    <3>6. StepInv'
      BY <1>1, <1>4, <2>1, <2>2, <2>s, <3>1, <3>5, TailSteps
    <3> QED
      BY <1>2, <1>4, <2>1, <2>2, <2>s, <3>1, <3>6
  <2> QED
    BY <2>5, <2>6
<1>10. CASE ExpandStep
  <2>s. PICK s : s = steps[1]
    OBVIOUS
  <2>1. Request("expand_table") /\ UNCHANGED tdata
    BY <1>10 DEF ExpandStep, Writing
  <2>2. /\ s \in Step /\ s.op = "expand_table" /\ Head(steps) = s
        /\ HandleExpandTable(s.tableID, s.noiseSum)
    BY <1>4, <1>10, <2>1, <2>s DEF ExpandStep
  <2>3. s.tableID \in 0 .. 1 /\ 0 \in DOMAIN (untrustedTableStorage[s.tableID])
    BY <1>4, <2>1, <2>2, <2>s, StepFields DEF Single
  <2> DEFINE new == untrustedTableStorage[s.tableID][0] \o [k \in 1 .. s.noiseSum |-> Dummy]
  <2>4. /\ untrustedTableStorage' = [untrustedTableStorage EXCEPT ![s.tableID][0] = new]
        /\ UNCHANGED <<untrustedBinStorage, indexFile, died>>
    BY <2>2, <2>3 DEF HandleExpandTable
  <2> HIDE DEF new
  <2>5. untrustedTableStorage' = [untrustedTableStorage EXCEPT ![s.tableID] =
                                    [untrustedTableStorage[s.tableID] EXCEPT ![0] = new]]
    BY <2>4
  <2>6. \A t \in 0 .. 1 : 0 \in DOMAIN (untrustedTableStorage[t]) => 0 \in DOMAIN (untrustedTableStorage'[t])
    BY <2>3, <2>5, OtherTables
  <2>7. StepInv'
    BY <1>1, <1>4, <2>1, <2>2, <2>4, <2>6, <2>s, TailSteps
  <2> QED
    BY <1>2, <1>4, <2>1, <2>2, <2>4, <2>7, <2>s
<1>11. CASE InitBinStep
  <2>s. PICK s : s = steps[1]
    OBVIOUS
  <2>1. Request("initBinStorage") /\ UNCHANGED tdata
    BY <1>11 DEF InitBinStep, Writing
  <2>2. /\ s \in Step /\ s.op = "initBinStorage" /\ Head(steps) = s
        /\ HandleInitBinStorage(s.tableID, s.binID)
    BY <1>4, <1>11, <2>1, <2>s DEF InitBinStep
  <2>3. s.tableID \in 0 .. 1 /\ s.binID = 0 /\ 0 \in DOMAIN (untrustedTableStorage[s.tableID])
    BY <1>4, <2>1, <2>2, <2>s, StepFields DEF Single
  <2>4. /\ 0 \in DOMAIN untrustedBinStorage'
        /\ untrustedTableStorage' = [untrustedTableStorage EXCEPT ![s.tableID] = Without(untrustedTableStorage[s.tableID], 0)]
        /\ UNCHANGED <<indexFile, died>>
    BY <2>2, <2>3 DEF HandleInitBinStorage, TypeInv
  <2>5. \A t \in 0 .. 1 : t # s.tableID => untrustedTableStorage'[t] = untrustedTableStorage[t]
    BY <2>3, <2>4, OtherTables
  <2>6. StepInv'
    BY <1>1, <1>4, <2>1, <2>2, <2>4, <2>5, <2>s, TailSteps
  <2> QED
    BY <1>2, <1>4, <2>1, <2>2, <2>4, <2>6, <2>s
<1>12. CASE DeleteBinStep
  <2>1. Request("delete_bin") /\ UNCHANGED tdata
    BY <1>12 DEF DeleteBinStep, Writing
  <2>2. UNCHANGED <<untrustedTableStorage, died>>
    BY <1>12 DEF DeleteBinStep, HandleDeleteBin
  <2>3. StepInv'
    BY <1>1, <1>4, <2>1, <2>2, TailSteps
  <2> QED
    BY <1>2, <1>4, <2>1, <2>2, <2>3
<1>13. CASE DeleteTableStep
  <2>s. PICK s : s = steps[1]
    OBVIOUS
  <2>1. Request("delete_table") /\ UNCHANGED tdata
    BY <1>13 DEF DeleteTableStep, Writing
  <2>2. /\ s \in Step /\ s.op = "delete_table" /\ Head(steps) = s /\ HandleDeleteTable(s.tableID)
    BY <1>4, <1>13, <2>1, <2>s DEF DeleteTableStep
  <2>3. s.tableID \in 0 .. 1
    BY <2>2, StepFields
  <2>4. /\ untrustedTableStorage' = [untrustedTableStorage EXCEPT ![s.tableID] = NoStorage]
        /\ UNCHANGED <<untrustedBinStorage, indexFile, died>>
    BY <2>2 DEF HandleDeleteTable
  <2>5. \A t \in 0 .. 1 : t # s.tableID => untrustedTableStorage'[t] = untrustedTableStorage[t]
    BY <2>3, <2>4, OtherTables
  <2>6. StepInv'
    BY <1>1, <1>4, <2>1, <2>2, <2>4, <2>5, <2>s, TailSteps
  <2> QED
    BY <1>2, <1>4, <2>1, <2>2, <2>4, <2>6, <2>s
<1>14. ASSUME NEW s, s = steps[1], NEW op, Request(op), UNCHANGED tdata, s.tableID \in 0 .. 1,
              op \in {"move_resize_bin_totable", "collect_resize_bins"},
              \/ Die /\ ~Ordinary
              \/ /\ \E storage : untrustedTableStorage' =
                      [untrustedTableStorage EXCEPT ![s.tableID] = With(untrustedTableStorage[s.tableID], 0, storage)]
                 /\ UNCHANGED died
       PROVE  StartInv'
  <2>1. \A t \in 0 .. 1 : 0 \in DOMAIN (untrustedTableStorage[t]) => 0 \in DOMAIN (untrustedTableStorage'[t])
    <3>1. CASE Die
      BY <3>1 DEF Die
    <3>2. CASE \E storage : untrustedTableStorage' =
                 [untrustedTableStorage EXCEPT ![s.tableID] = With(untrustedTableStorage[s.tableID], 0, storage)]
      <4>1. PICK storage : untrustedTableStorage' =
              [untrustedTableStorage EXCEPT ![s.tableID] = With(untrustedTableStorage[s.tableID], 0, storage)]
        BY <3>2
      <4>2. \A t \in 0 .. 1 : t # s.tableID => untrustedTableStorage'[t] = untrustedTableStorage[t]
        BY <1>14, <4>1, OtherTables
      <4>3. untrustedTableStorage'[s.tableID] = With(untrustedTableStorage[s.tableID], 0, storage)
        <5>1. PICK map : map = With(untrustedTableStorage[s.tableID], 0, storage)
          OBVIOUS
        <5>2. untrustedTableStorage' = [untrustedTableStorage EXCEPT ![s.tableID] = map]
          BY <4>1, <5>1
        <5>3. \A t \in 0 .. 1 : \A m :
                untrustedTableStorage' = [untrustedTableStorage EXCEPT ![t] = m] => untrustedTableStorage'[t] = m
          BY OtherTables
        <5> QED
          BY <1>14, <5>1, <5>2, <5>3
      <4>4. 0 \in DOMAIN With(untrustedTableStorage[s.tableID], 0, storage)
        BY DEF With
      <4> QED
        BY <4>2, <4>3, <4>4
    <3> QED
      BY <1>14, <3>1, <3>2
  <2>2. StepInv'
    BY <1>1, <1>4, <1>14, <2>1, TailSteps
  <2>3. died' => lost' \/ SeveralSparseBins
    BY <1>4, <1>14 DEF Ordinary
  <2> QED
    BY <1>2, <1>4, <1>14, <2>2, <2>3
<1>15. CASE MoveBinStep
  <2>s. PICK s : s = steps[1]
    OBVIOUS
  <2>1. Request("move_resize_bin_totable") /\ UNCHANGED tdata
    BY <1>15 DEF MoveBinStep, Writing
  <2>2. /\ s \in Step /\ s.op = "move_resize_bin_totable" /\ Head(steps) = s
        /\ HandleMoveResizeBinToTable(s.tableID, s.srcBinID, s.destBinID, s.size)
    BY <1>4, <1>15, <2>1, <2>s DEF MoveBinStep
  <2>3. s.tableID \in 0 .. 1 /\ s.destBinID = 0
    BY <2>2, StepFields
  <2>4. Ordinary => s.srcBinID \in DOMAIN untrustedBinStorage
    BY <1>4, <2>1, <2>2, <2>s DEF First
  <2>5. \/ Die /\ ~Ordinary
        \/ /\ \E storage : untrustedTableStorage' =
                [untrustedTableStorage EXCEPT ![s.tableID] = With(untrustedTableStorage[s.tableID], 0, storage)]
           /\ UNCHANGED died
    <3>1. CASE s.srcBinID \notin DOMAIN untrustedBinStorage
      BY <2>2, <2>4, <3>1 DEF HandleMoveResizeBinToTable
    <3>2. CASE s.srcBinID \in DOMAIN untrustedBinStorage
      <4>1. /\ \E storage \in Resized(untrustedBinStorage[s.srcBinID], s.size) : untrustedTableStorage' =
                 [untrustedTableStorage EXCEPT ![s.tableID] = With(@, 0, storage)]
            /\ UNCHANGED died
        BY <2>2, <2>3, <3>2 DEF HandleMoveResizeBinToTable
      <4>2. PICK storage : untrustedTableStorage' =
              [untrustedTableStorage EXCEPT ![s.tableID] = With(untrustedTableStorage[s.tableID], 0, storage)]
        BY <2>3, <4>1 DEF TypeInv
      <4> QED
        BY <4>1, <4>2
    <3> QED
      BY <3>1, <3>2
  <2> QED
    BY <1>14, <2>1, <2>3, <2>5, <2>s
<1>16. CASE CollectStep
  <2>s. PICK s : s = steps[1]
    OBVIOUS
  <2>1. Request("collect_resize_bins") /\ UNCHANGED tdata
    BY <1>16 DEF CollectStep, Writing
  <2>2. /\ s \in Step /\ s.op = "collect_resize_bins" /\ Head(steps) = s
        /\ HandleCollectResizeBins(s.tableID, s.leaf, s.size)
    BY <1>4, <1>16, <2>1, <2>s DEF CollectStep
  <2>3. s.tableID \in 0 .. 1 /\ s.leaf = 0
    BY <2>2, StepFields
  <2>4. Ordinary => s.leaf \in DOMAIN untrustedBinStorage
    BY <1>4, <2>1, <2>2, <2>3, <2>s DEF First
  <2>5. \/ Die /\ ~Ordinary
        \/ /\ \E storage : untrustedTableStorage' =
                [untrustedTableStorage EXCEPT ![s.tableID] = With(untrustedTableStorage[s.tableID], 0, storage)]
           /\ UNCHANGED died
    <3>1. CASE s.leaf \notin DOMAIN untrustedBinStorage
      BY <2>2, <2>4, <3>1 DEF HandleCollectResizeBins
    <3>2. CASE s.leaf \in DOMAIN untrustedBinStorage
      <4>1. /\ \E storage \in Resized(untrustedBinStorage[s.leaf], s.size) : untrustedTableStorage' =
                 [untrustedTableStorage EXCEPT ![s.tableID] = With(@, 0, storage)]
            /\ UNCHANGED died
        BY <2>2, <2>3, <3>2 DEF HandleCollectResizeBins
      <4>2. PICK storage : untrustedTableStorage' =
              [untrustedTableStorage EXCEPT ![s.tableID] = With(untrustedTableStorage[s.tableID], 0, storage)]
        BY <2>3, <4>1 DEF TypeInv
      <4> QED
        BY <4>1, <4>2
    <3> QED
      BY <3>1, <3>2
  <2> QED
    BY <1>14, <2>1, <2>3, <2>5, <2>s
<1>17. CASE WriteIndexStep
  <2>1. Request("write_index") /\ UNCHANGED <<untrustedTableStorage, untrustedBinStorage, died>>
    BY <1>17 DEF WriteIndexStep, Writing, HandleWriteIndex
  <2> QED
    BY <1>5, <2>1
<1>18. CASE SortStep
  <2>1. Request("obliSort") /\ UNCHANGED <<untrustedTableStorage, untrustedBinStorage, died>>
    BY <1>18 DEF SortStep, hostVars
  <2> QED
    BY <1>5, <2>1
<1>19. CASE FreeStep
  <2>1. Request("freeSpace") /\ UNCHANGED <<untrustedTableStorage, untrustedBinStorage, died>>
    BY <1>19 DEF FreeStep, hostVars
  <2> QED
    BY <1>5, <2>1
<1>20. CASE MoveDataStep
  <2>1. /\ steps # <<>> /\ up /\ ~died /\ Head(steps).op = "moveData" /\ UNCHANGED died
        /\ UNCHANGED <<usage, calls, call, up, meta, parts, pds, indexed, failed>>
    BY <1>20 DEF MoveDataStep, InBody, faultVars, hostVars
  <2>2. StepInv'
    BY <1>1, <1>20, MoveStarts
  <2> QED
    BY <1>2, <1>3, <2>1, <2>2
<1>21. CASE WriteBucketStep
  <2>1. /\ steps # <<>> /\ up /\ ~died /\ Head(steps).op = "writeBucket" /\ UNCHANGED died
        /\ UNCHANGED <<usage, calls, call, up, meta, parts, pds, indexed, failed>>
    BY <1>21 DEF WriteBucketStep, InBody, faultVars, hostVars, enclaveVars
  <2>2. StepInv'
    BY <1>1, <1>21, BucketStarts
  <2> QED
    BY <1>2, <1>3, <2>1, <2>2
<1>22. CASE AbortStep
  <2>1. /\ steps # <<>> /\ Head(steps).op = "abort" /\ ~died /\ ~up' /\ steps' = <<>> /\ call' = NoCall
        /\ UNCHANGED <<calls, failed, usage, parts, pds, meta, indexed, lost>>
        /\ UNCHANGED <<untrustedTableStorage, died>>
    BY <1>22 DEF AbortStep, InBody, Refused, enclaveVars, hostVars
  <2>2. failed \/ Hopeless
    BY <1>3, <2>1 DEF Single
  <2>3. EndsInv' /\ Needs' /\ Idle'
    BY <1>1, <2>1 DEF EndsInv, TableIDs, Needs, Idle
  <2>4. StaysUp'
    BY <2>1, <2>2 DEF StaysUp, Hopeless
  <2>5. Len(steps') = 0
    BY <2>1
  <2>6. StepInv' /\ Untouched'
    BY <1>1, <2>1, <2>5 DEF StepInv, Untouched, TableIDs
  <2> QED
    BY <2>3, <2>4, <2>6 DEF StartInv
<1> QED
  BY <1>7, <1>8, <1>9, <1>10, <1>11, <1>12, <1>13, <1>15, <1>16, <1>17, <1>18, <1>19, <1>20, <1>21, <1>22 DEF Steps

(* Every step of a run keeps the types.                                    *)
LEMMA TypeNext ==
  ASSUME CallsInv, TypeInv, EndsInv, StepInv, [SessionNext]_sessionVars
  PROVE  TypeInv'
<1>1. CASE Body
  BY <1>1, TypeBody
<1>2. CASE Steps
  BY <1>2, TypeStep
<1>3. CASE UNCHANGED sessionVars
  BY <1>3 DEF sessionVars, enclaveVars, faultVars, hostVars, TypeInv, Storage
<1>4. CASE ReturnEcall
  BY <1>4 DEF ReturnEcall, enclaveVars, faultVars, hostVars, TypeInv, Storage
<1>5. CASE FailedEcall
  <2>1. UNCHANGED <<steps, up, lost, died, meta, indexed, tdata, dblock, parts, noisyOutputSize, outputSize,
                    untrustedTableStorage, untrustedBinStorage>>
    BY <1>5 DEF FailedEcall, Refused, enclaveVars, hostVars
  <2>2. failed' \in BOOLEAN
    BY <1>5 DEF FailedEcall
  <2> QED
    BY <2>1, <2>2 DEF TypeInv, Storage
<1> QED
  BY <1>1, <1>2, <1>3, <1>4, <1>5 DEF SessionNext

(* What holds between calls holds when an ECALL returns or fails.          *)
LEMMA StartsOther ==
  ASSUME CallsInv, TypeInv, StartInv, ReturnEcall \/ FailedEcall \/ UNCHANGED sessionVars
  PROVE  StartInv'
<1>1. EndsInv /\ StepInv /\ Untouched /\ Needs /\ Idle /\ StaysUp
  BY DEF StartInv
<1>2. ASSUME UNCHANGED <<usage, steps, parts, pds, tdata, meta, indexed, lost, died,
                         untrustedTableStorage, untrustedBinStorage>>,
             failed => failed'
      PROVE  EndsInv' /\ StepInv'
  BY <1>1, <1>2 DEF EndsInv, StepInv, TableIDs, Single, First, BinRows, Hopeless, SeveralSparseBins, Ordinary
<1>3. CASE UNCHANGED sessionVars
  <2>1. UNCHANGED <<usage, calls, call, up, steps, parts, pds, tdata, meta, indexed, failed, lost, died,
                    untrustedTableStorage, untrustedBinStorage>>
    BY <1>3 DEF sessionVars, enclaveVars, faultVars, hostVars
  <2>2. EndsInv' /\ StepInv'
    BY <1>2, <2>1
  <2> QED
    BY <1>1, <2>1, <2>2 DEF StartInv, Untouched, TableIDs, Needs, Comes, Idle, StaysUp, Hopeless, SeveralSparseBins
<1>4. CASE ReturnEcall
  <2>1. /\ steps = <<>>
        /\ UNCHANGED <<usage, calls, up, steps, parts, pds, tdata, meta, indexed, failed, lost, died,
                       untrustedTableStorage, untrustedBinStorage>>
    BY <1>4 DEF ReturnEcall, enclaveVars, faultVars, hostVars
  <2>2. EndsInv' /\ StepInv'
    BY <1>2, <2>1
  <2> QED
    BY <1>1, <2>1, <2>2 DEF StartInv, Untouched, TableIDs, Needs, Comes, Idle, StaysUp, Hopeless, SeveralSparseBins
<1>5. CASE FailedEcall
  <2>1. /\ call = NoCall /\ calls # <<>> /\ calls' = Tail(calls) /\ failed' = (failed \/ up) /\ ~died
        /\ UNCHANGED <<usage, call, up, steps, parts, pds, tdata, meta, indexed, lost, died,
                       untrustedTableStorage, untrustedBinStorage>>
    BY <1>5 DEF FailedEcall, Refused, enclaveVars, hostVars
  <2>2. EndsInv' /\ StepInv'
    BY <1>2, <2>1
  <2>3. Needs'
    BY <2>1 DEF Needs
  <2>4. StaysUp'
    BY <1>1, <2>1 DEF StaysUp, Hopeless
  <2>5. Idle'
    BY <1>1, <2>1 DEF Idle
  <2>6. Untouched'
    <3>1. \A k \in 1 .. Len(calls') : calls'[k] = calls[k + 1] /\ k + 1 \in 1 .. Len(calls)
      <4>1. /\ Len(calls) \in Nat \ {0} /\ Len(Tail(calls)) = Len(calls) - 1
            /\ \A k \in 1 .. Len(calls) - 1 : Tail(calls)[k] = calls[k + 1]
        BY <2>1, TailOf DEF CallsInv
      <4> QED
        BY <2>1, <4>1
    <3> SUFFICES ASSUME NEW k \in 1 .. Len(calls'), Stage(calls'[k].name) <= 3
                 PROVE  /\ \A t \in TableIDs : 0 \in DOMAIN (untrustedTableStorage[t])
                        /\ \A j \in 1 .. Len(steps) : steps[j].op \in {"readDataBlock", "obliSort", "abort"}
      BY <2>1 DEF Untouched, TableIDs
    <3>2. k + 1 \in 1 .. Len(calls) /\ Stage(calls[k + 1].name) <= 3
      BY <3>1
    <3> QED
      BY <1>1, <3>2 DEF Untouched
  <2> QED
    BY <2>2, <2>3, <2>4, <2>5, <2>6 DEF StartInv
<1> QED
  BY <1>3, <1>4, <1>5

(* The inductive invariant of a run: the ECALLs to come fit the usage and  *)
(* are in order, main and the host have what their types say, and what     *)
(* each ECALL and each step to do relies on is there.                      *)
SessionInv == CallsInv /\ TypeInv /\ StartInv

(* It holds in every run, for any usage, tables, noise and failures.       *)
THEOREM SessionInvariant == SessionSpec => []SessionInv
<1>1. SessionInit => SessionInv
  BY CallsInit, TypeInit, StartInit, NeedsInit DEF StartInv, SessionInv
<1>2. SessionInv /\ [SessionNext]_sessionVars => SessionInv'
  <2> SUFFICES ASSUME CallsInv, TypeInv, StartInv, [SessionNext]_sessionVars
               PROVE  CallsInv' /\ TypeInv' /\ StartInv'
    BY DEF SessionInv
  <2>1. CallsInv'
    BY CallsNext
  <2>2. TypeInv'
    BY TypeNext DEF StartInv
  <2>3. CASE Body
    BY <2>1, <2>2, <2>3, StartsBody
  <2>4. CASE Steps
    BY <2>1, <2>2, <2>4, StartsSteps
  <2>5. CASE ReturnEcall \/ FailedEcall \/ UNCHANGED sessionVars
    BY <2>1, <2>2, <2>5, StartsOther
  <2> QED
    BY <2>3, <2>4, <2>5 DEF SessionNext
<1> QED
  BY <1>1, <1>2, PTL DEF SessionSpec

(* The enclave and the host stay up, unless an ECALL failed, a request was *)
(* lost or the usage cannot work.                                          *)
THEOREM SessionStaysUp == SessionSpec => []StaysUp
<1>1. SessionInv => StaysUp
  BY DEF SessionInv, StartInv
<1> QED
  BY <1>1, SessionInvariant, PTL

-----------------------------------------------------------------------------
(* What the host does to a table itself.                                   *)
Changing == {"expand_table", "initBinStorage", "move_resize_bin_totable", "delete_table",
             "collect_resize_bins"}

(* A read that is not the last one of its table, or not the first.         *)
More(s) == s.op = "readDataBlock" /\ s.pos + s.numData < TableSize[s.tableID]
Later(s) == s.op = "readDataBlock" /\ s.pos # 0

(* Blocks of a table are read one after the other.                         *)
Joint(a, b) ==
  More(a) \/ Later(b) =>
    /\ a.op = "readDataBlock" /\ b.op = "readDataBlock"
    /\ a.tableID = b.tableID /\ b.pos = a.pos + a.numData

(* No table is read that was changed before, and none is left half read.   *)
Undisturbed(a, b) ==
  /\ a.op \in Changing /\ b.op = "readDataBlock" => a.tableID # b.tableID
  /\ a.op = "abort" => b.op # "freeSpace"
ReadsInOrder(s) ==
  /\ \A k \in 1 .. Len(s) : s[k].op = "readDataBlock" =>
       s[k].numData # 0 /\ s[k].pos + s[k].numData <= TableSize[s[k].tableID]
  /\ \A k, l \in 1 .. Len(s) : k < l => Undisturbed(s[k], s[l])
  /\ \A k \in 1 .. Len(s) - 1 : Joint(s[k], s[k + 1])
  /\ s # <<>> => ~More(s[Len(s)])
Fresh(s) == s # <<>> => ~Later(s[1])

(* Rows of a table each at most once, and dummies; all of them, if any.    *)
OnceEach(t, rows) ==
  /\ \A k \in DOMAIN rows : rows[k] \in RowsOf(t) \cup {Dummy}
  /\ \A k, l \in DOMAIN rows : rows[k] = rows[l] => k = l \/ rows[k] = Dummy
Complete(t, rows) ==
  /\ \A k \in DOMAIN rows : rows[k] # Dummy
  /\ rows = <<>> \/ \A row \in RowsOf(t) : \E k \in DOMAIN rows : rows[k] = row

HalfRead(t) == steps # <<>> /\ Later(steps[1]) /\ steps[1].tableID = t
HasRead(t) ==
  IF HalfRead(t)
  THEN /\ Len(tdata[t]) = steps[1].pos
       /\ \A k \in 1 .. Len(tdata[t]) : tdata[t][k] = <<t, TableSize[t] + 1 - k>>
  ELSE /\ OnceEach(t, tdata[t])
       /\ (\A k \in 1 .. Len(steps) : ~(steps[k].op = "freeSpace" /\ steps[k].tableID = t)) =>
            Complete(t, tdata[t])

AsLoaded(t) ==
  0 \in DOMAIN (untrustedTableStorage[t]) /\ untrustedTableStorage[t][0] = LoadedTable(t)

ReadInv ==
  ~lost =>
    /\ ReadsInOrder(steps)
    /\ \A k \in 1 .. Len(steps) : steps[k].op = "readDataBlock" =>
         steps[k].tableID \in TableIDs /\ AsLoaded(steps[k].tableID)
    /\ (\E k \in 1 .. Len(calls) : Stage(calls[k].name) <= 3) => \A t \in TableIDs : AsLoaded(t)
    /\ \A t \in TableIDs : HasRead(t)

(* Steps without a read are in order.                                      *)
LEMMA QuietOrder ==
  ASSUME NEW s \in Seq(Step), \A k \in 1 .. Len(s) : s[k].op # "readDataBlock",
         (\A k \in 1 .. Len(s) : s[k].op # "abort") \/ (\A k \in 1 .. Len(s) : s[k].op # "freeSpace")
  PROVE  ReadsInOrder(s) /\ Fresh(s)
<1>1. Len(s) \in Nat /\ (s # <<>> => 1 \in 1 .. Len(s) /\ Len(s) \in 1 .. Len(s))
  <2>1. s # <<>> => Len(s) # 0
    BY EmptySeq
  <2> QED
    BY <2>1
<1>2. \A k \in 1 .. Len(s) : ~More(s[k]) /\ ~Later(s[k])
  BY DEF More, Later
<1>3. \A k \in 1 .. Len(s) - 1 : Joint(s[k], s[k + 1])
  <2> SUFFICES ASSUME NEW k \in 1 .. Len(s) - 1
               PROVE  Joint(s[k], s[k + 1])
    OBVIOUS
  <2>1. k \in 1 .. Len(s) /\ k + 1 \in 1 .. Len(s)
    BY <1>1
  <2> QED
    BY <1>2, <2>1 DEF Joint
<1>4. \A k, l \in 1 .. Len(s) : Undisturbed(s[k], s[l])
  BY DEF Undisturbed
<1>5. s # <<>> => ~More(s[Len(s)]) /\ ~Later(s[1])
  BY <1>1, <1>2
<1> QED
  BY <1>3, <1>4, <1>5 DEF ReadsInOrder, Fresh

(* Steps behind one another are in order, if the first ones change nothing *)
(* that the others read.                                                   *)
LEMMA OrderJoined ==
  ASSUME NEW a \in Seq(Step), ReadsInOrder(a), NEW b \in Seq(Step), ReadsInOrder(b), Fresh(b),
         \A k \in 1 .. Len(a), l \in 1 .. Len(b) : Undisturbed(a[k], b[l])
  PROVE  ReadsInOrder(a \o b) /\ (Fresh(a) => Fresh(a \o b))
<1> DEFINE s == a \o b
           m == Len(a)
           n == Len(b)
<1>1. /\ s \in Seq(Step) /\ Len(s) = m + n /\ m \in Nat /\ n \in Nat
      /\ \A k \in 1 .. m : s[k] = a[k]
      /\ \A k \in m + 1 .. m + n : s[k] = b[k - m]
  BY Concatenation
<1>2. (a = <<>> <=> m = 0) /\ (b = <<>> <=> n = 0) /\ (s = <<>> <=> m + n = 0)
  BY <1>1, EmptySeq
<1>3. /\ \A k \in 1 .. m : a[k].op = "readDataBlock" =>
           a[k].numData # 0 /\ a[k].pos + a[k].numData <= TableSize[a[k].tableID]
      /\ \A k, l \in 1 .. m : k < l => Undisturbed(a[k], a[l])
      /\ \A k \in 1 .. m - 1 : Joint(a[k], a[k + 1])
      /\ a # <<>> => ~More(a[m])
  BY DEF ReadsInOrder
<1>4. /\ \A k \in 1 .. n : b[k].op = "readDataBlock" =>
           b[k].numData # 0 /\ b[k].pos + b[k].numData <= TableSize[b[k].tableID]
      /\ \A k, l \in 1 .. n : k < l => Undisturbed(b[k], b[l])
      /\ \A k \in 1 .. n - 1 : Joint(b[k], b[k + 1])
      /\ b # <<>> => ~More(b[n])
  BY DEF ReadsInOrder
<1>5. \A k \in 1 .. m, l \in 1 .. n : Undisturbed(a[k], b[l])
  OBVIOUS
<1>6. b # <<>> => ~Later(b[1])
  BY DEF Fresh
<1> HIDE DEF s, m, n
<1>0. Len(s) = m + n /\ m \in Nat /\ n \in Nat
  BY <1>1
<1>7. \A k \in 1 .. m + n : k \notin 1 .. m => k \in m + 1 .. m + n /\ k - m \in 1 .. n
  BY <1>1
<1>8. \A k \in 1 .. Len(s) : s[k].op = "readDataBlock" =>
        s[k].numData # 0 /\ s[k].pos + s[k].numData <= TableSize[s[k].tableID]
  <2> SUFFICES ASSUME NEW k \in 1 .. m + n, s[k].op = "readDataBlock"
               PROVE  s[k].numData # 0 /\ s[k].pos + s[k].numData <= TableSize[s[k].tableID]
    BY <1>0
  <2>1. CASE k \in 1 .. m
    BY <1>1, <1>3, <2>1
  <2>2. CASE k \notin 1 .. m
    BY <1>1, <1>4, <1>7, <2>2
  <2> QED
    BY <2>1, <2>2
<1>9. \A k, l \in 1 .. Len(s) : k < l => Undisturbed(s[k], s[l])
  <2> SUFFICES ASSUME NEW k \in 1 .. m + n, NEW l \in 1 .. m + n, k < l
               PROVE  Undisturbed(s[k], s[l])
    BY <1>0
  <2>1. CASE k \in 1 .. m /\ l \in 1 .. m
    <3>1. s[k] = a[k] /\ s[l] = a[l]
      BY <1>1, <2>1
    <3>2. Undisturbed(a[k], a[l])
      BY <1>3, <2>1
    <3> QED
      BY <3>1, <3>2
  <2>2. CASE k \in 1 .. m /\ l \notin 1 .. m
    BY <1>1, <1>5, <1>7, <2>2
  <2>3. CASE k \notin 1 .. m
    <3>1. l \notin 1 .. m /\ k - m < l - m
      BY <1>1, <2>3
    <3>2. s[k] = b[k - m] /\ s[l] = b[l - m] /\ k - m \in 1 .. n /\ l - m \in 1 .. n
      BY <1>1, <1>7, <2>3, <3>1
    <3> QED
      BY <1>4, <3>1, <3>2
  <2> QED
    BY <2>1, <2>2, <2>3
<1>10. \A k \in 1 .. Len(s) - 1 : Joint(s[k], s[k + 1])
  <2> SUFFICES ASSUME NEW k \in 1 .. m + n - 1
               PROVE  Joint(s[k], s[k + 1])
    BY <1>0
  <2>1. k \in 1 .. m + n /\ k + 1 \in 1 .. m + n
    BY <1>1
  <2>2. CASE k \in 1 .. m - 1
    <3>1. k \in 1 .. m /\ k + 1 \in 1 .. m
      BY <1>1, <2>2
    <3> QED
      BY <1>1, <1>3, <2>2, <3>1
  <2>3. CASE k = m
    <3>1. m \in 1 .. m /\ m + 1 \in m + 1 .. m + n /\ (m + 1) - m = 1 /\ m # 0 /\ n # 0
      BY <1>1, <2>1, <2>3
    <3>2. s[m] = a[m] /\ s[m + 1] = b[1]
      BY <1>1, <3>1
    <3>3. ~More(a[m]) /\ ~Later(b[1])
      BY <1>2, <1>3, <1>6, <3>1
    <3> QED
      BY <2>3, <3>2, <3>3 DEF Joint
  <2>4. CASE k \notin 1 .. m
    <3>1. k + 1 \notin 1 .. m /\ (k + 1) - m = (k - m) + 1 /\ k - m \in 1 .. n - 1
      BY <1>1, <2>1, <2>4
    <3>2. s[k] = b[k - m] /\ s[k + 1] = b[(k - m) + 1]
      BY <1>1, <1>7, <2>1, <2>4, <3>1
    <3> QED
      BY <1>4, <3>1, <3>2
  <2> QED
    BY <1>1, <2>2, <2>3, <2>4
<1>11. s # <<>> => ~More(s[Len(s)])
  <2>1. CASE n = 0
    <3>1. s # <<>> => m \in 1 .. m /\ Len(s) = m /\ a # <<>>
      BY <1>1, <1>2, <2>1
    <3> QED
      BY <1>1, <1>3, <3>1
  <2>2. CASE n # 0
    <3>1. Len(s) \in m + 1 .. m + n /\ Len(s) - m = n /\ b # <<>>
      BY <1>1, <1>2, <2>2
    <3> QED
      BY <1>1, <1>4, <3>1
  <2> QED
    BY <2>1, <2>2
<1>12. Fresh(a) => Fresh(s)
  <2>1. CASE m = 0
    <3>1. s # <<>> => 1 \in m + 1 .. m + n /\ 1 - m = 1 /\ b # <<>>
      BY <1>1, <1>2, <2>1
    <3> QED
      BY <1>1, <1>6, <3>1 DEF Fresh
  <2>2. CASE m # 0
    <3>1. 1 \in 1 .. m /\ a # <<>>
      BY <1>1, <1>2, <2>2
    <3> QED
      BY <1>1, <3>1 DEF Fresh
  <2> QED
    BY <2>1, <2>2
<1>13. ReadsInOrder(s)
  BY <1>8, <1>9, <1>10, <1>11 DEF ReadsInOrder
<1> QED
  BY <1>12, <1>13 DEF s

(* What is left after the first step is in order, and starts with a table  *)
(* unless the first step has not finished one.                             *)
LEMMA OrderLeft ==
  ASSUME NEW s \in Seq(Step), s # <<>>, ReadsInOrder(s)
  PROVE  /\ ReadsInOrder(Tail(s))
         /\ More(s[1]) => Tail(s) # <<>>
         /\ Tail(s) # <<>> => Joint(s[1], Tail(s)[1])
         /\ s[1].op # "readDataBlock" => Fresh(Tail(s))
<1> DEFINE n == Len(s)
           d == Tail(s)
<1>1. /\ n \in Nat \ {0} /\ d \in Seq(Step) /\ Len(d) = n - 1
      /\ \A k \in 1 .. n - 1 : d[k] = s[k + 1]
  BY TailOf
<1>2. d = <<>> <=> n = 1
  BY <1>1, EmptySeq
<1>3. /\ \A k \in 1 .. n : s[k].op = "readDataBlock" =>
           s[k].numData # 0 /\ s[k].pos + s[k].numData <= TableSize[s[k].tableID]
      /\ \A k, l \in 1 .. n : k < l => Undisturbed(s[k], s[l])
      /\ \A k \in 1 .. n - 1 : Joint(s[k], s[k + 1])
      /\ ~More(s[n])
  BY DEF ReadsInOrder
<1> HIDE DEF n, d
<1>4. \A k \in 1 .. n - 1 : k + 1 \in 1 .. n
  BY <1>1
<1>5. \A k, l \in 1 .. n - 1 : k < l => k + 1 < l + 1
  BY <1>1
<1>6. \A k \in 1 .. (n - 1) - 1 : k + 1 \in 1 .. n - 1 /\ k \in 1 .. n - 1
  BY <1>1
<1>7. d # <<>> => n - 1 \in 1 .. n - 1 /\ (n - 1) + 1 = n /\ 1 \in 1 .. n - 1
  BY <1>1, <1>2
<1>8. ReadsInOrder(d)
  <2>1. \A k \in 1 .. Len(d) : d[k].op = "readDataBlock" =>
          d[k].numData # 0 /\ d[k].pos + d[k].numData <= TableSize[d[k].tableID]
    BY <1>1, <1>3, <1>4
  <2>2. \A k, l \in 1 .. Len(d) : k < l => Undisturbed(d[k], d[l])
    BY <1>1, <1>3, <1>4, <1>5
  <2>3. \A k \in 1 .. Len(d) - 1 : Joint(d[k], d[k + 1])
    BY <1>1, <1>3, <1>6
  <2>4. d # <<>> => ~More(d[Len(d)])
    BY <1>1, <1>3, <1>7
  <2> QED
    BY <2>1, <2>2, <2>3, <2>4 DEF ReadsInOrder
<1>9. d # <<>> => Joint(s[1], d[1])
  BY <1>1, <1>3, <1>7
<1>10. More(s[1]) => d # <<>>
  BY <1>2, <1>3
<1>11. s[1].op # "readDataBlock" => Fresh(d)
  BY <1>9 DEF Fresh, Joint
<1> QED
  BY <1>8, <1>9, <1>10, <1>11 DEF d

(* What the steps of an ECALL read and change when it is entered.          *)
ReadPlan(s, R, C) ==
  /\ s \in Seq(Step) /\ ReadsInOrder(s) /\ Fresh(s)
  /\ \A k \in 1 .. Len(s) :
       /\ s[k].op # "freeSpace"
       /\ s[k].op = "readDataBlock" => s[k].tableID \in R
       /\ s[k].op \in Changing => s[k].tableID \in C

(* Two of them behind one another, if the second reads nothing that the    *)
(* first changes.                                                          *)
LEMMA ReadPlanJoin ==
  ASSUME NEW a, NEW R, NEW C, ReadPlan(a, R, C), NEW b, NEW S, NEW D, ReadPlan(b, S, D), C \cap S = {}
  PROVE  ReadPlan(a \o b, R \cup S, C \cup D)
<1> DEFINE m == Len(a)
           n == Len(b)
           s == a \o b
<1>1. /\ a \in Seq(Step) /\ ReadsInOrder(a) /\ Fresh(a)
      /\ b \in Seq(Step) /\ ReadsInOrder(b) /\ Fresh(b)
  BY DEF ReadPlan
<1>2. /\ \A k \in 1 .. m :
           /\ a[k].op # "freeSpace"
           /\ a[k].op = "readDataBlock" => a[k].tableID \in R
           /\ a[k].op \in Changing => a[k].tableID \in C
      /\ \A k \in 1 .. n :
           /\ b[k].op # "freeSpace"
           /\ b[k].op = "readDataBlock" => b[k].tableID \in S
           /\ b[k].op \in Changing => b[k].tableID \in D
  BY DEF ReadPlan
<1>3. /\ s \in Seq(Step) /\ Len(s) = m + n /\ m \in Nat /\ n \in Nat
      /\ \A k \in 1 .. m : s[k] = a[k]
      /\ \A k \in m + 1 .. m + n : s[k] = b[k - m]
  BY <1>1, Concatenation
<1>4. \A k \in 1 .. m, l \in 1 .. n : Undisturbed(a[k], b[l])
  BY <1>2 DEF Undisturbed
<1>5. ReadsInOrder(s) /\ Fresh(s)
  BY <1>1, <1>4, OrderJoined
<1> HIDE DEF s, m, n
<1>6. \A k \in 1 .. m + n : k \notin 1 .. m => k \in m + 1 .. m + n /\ k - m \in 1 .. n
  BY <1>3
<1>7. ASSUME NEW k \in 1 .. Len(s)
      PROVE  /\ s[k].op # "freeSpace"
             /\ s[k].op = "readDataBlock" => s[k].tableID \in R \cup S
             /\ s[k].op \in Changing => s[k].tableID \in C \cup D
  <2>1. CASE k \in 1 .. m
    BY <1>2, <1>3, <2>1
  <2>2. CASE k \notin 1 .. m
    <3>1. s[k] = b[k - m] /\ k - m \in 1 .. n
      BY <1>3, <1>6, <2>2
    <3> QED
      BY <1>2, <3>1
  <2> QED
    BY <2>1, <2>2
<1>8. ReadPlan(s, R \cup S, C \cup D)
  BY <1>3, <1>5, <1>7 DEF ReadPlan
<1> QED
  BY <1>8 DEF s

(* One may be allowed more than it does.                                   *)
LEMMA ReadPlanMore ==
  ASSUME NEW s, NEW R, NEW C, ReadPlan(s, R, C), NEW S, NEW D, R \subseteq S, C \subseteq D
  PROVE  ReadPlan(s, S, D)
BY DEF ReadPlan

(* One that reads nothing.                                                 *)
LEMMA ReadPlanQuiet ==
  ASSUME NEW s \in Seq(Step), NEW C,
         \A k \in 1 .. Len(s) :
           /\ s[k].op \notin {"readDataBlock", "freeSpace"}
           /\ s[k].op \in Changing => s[k].tableID \in C
  PROVE  ReadPlan(s, {}, C)
<1>1. ReadsInOrder(s) /\ Fresh(s)
  BY QuietOrder
<1> QED
  BY <1>1 DEF ReadPlan

(* Of a table with rows no block is empty.                                 *)
LEMMA BlockNotEmpty ==
  ASSUME NEW size \in Nat \ {0}
  PROVE  \A k \in 1 .. Blocks(size) : BlockLength(size, k) # 0
<1> DEFINE d == OCALL_MAXSIZE
           c == (size + d - 1) \div d
<1>1. d \in Nat \ {0}
  BY SessionAssumption
<1>2. Blocks(size) = c
  BY DEF Blocks
<1>3. c \in Nat \ {0} /\ \A k \in 1 .. c : (k - 1) * d \in Nat /\ (k - 1) * d < size
  BY <1>1, Division
<1> SUFFICES ASSUME NEW k \in 1 .. c
             PROVE  BlockLength(size, k) # 0
  BY <1>2
<1>4. PICK p \in Nat : p = (k - 1) * d /\ p < size
  BY <1>3
<1>5. BlockLength(size, k) = IF d <= size - p THEN d ELSE size - p
  BY <1>1, <1>4, MinOf DEF BlockLength
<1> QED
  BY <1>1, <1>4, <1>5

(* The table has to be read in blocks, from its first row to its last.     *)
LEMMA ReadPlanTable ==
  ASSUME NEW t \in 0 .. 1
  PROVE  ReadPlan(ReadDataBlock_Wrapper(t), {t}, {})
<1> DEFINE s == ReadDataBlock_Wrapper(t)
           size == TableSize[t]
           n == Blocks(size)
           len(k) == BlockLength(size, k)
           M == OCALL_MAXSIZE
<1>1. /\ s \in Seq(Step) /\ Len(s) = n /\ n \in Nat \ {0}
      /\ \A k \in 1 .. n : s[k] = readDataBlock_OCALL(t, 0, (k - 1) * M, len(k))
  BY ReadBlocks
<1>2. size \in Nat \ {0} /\ M \in Nat \ {0}
  BY SessionAssumption
<1>3. \A k \in 1 .. n :
        /\ (k - 1) * M \in Nat /\ len(k) \in Nat /\ len(k) # 0
        /\ (k - 1) * M + len(k) <= size
        /\ k < n => (k - 1) * M + len(k) = (k + 1 - 1) * M
        /\ k = n => (k - 1) * M + len(k) = size
  BY <1>2, BlockBounds, BlockNotEmpty
<1> HIDE DEF s, n, size, len
<1>4. \A k \in 1 .. n : /\ s[k].op = "readDataBlock" /\ s[k].tableID = t
                        /\ s[k].pos = (k - 1) * M /\ s[k].numData = len(k)
  BY <1>1 DEF readDataBlock_OCALL
<1>6. \A k \in 1 .. n - 1 : Joint(s[k], s[k + 1])
  <2> SUFFICES ASSUME NEW k \in 1 .. n - 1
               PROVE  Joint(s[k], s[k + 1])
    OBVIOUS
  <2>1. k \in 1 .. n /\ k + 1 \in 1 .. n /\ k < n
    BY <1>1
  <2>2. s[k].pos = (k - 1) * M /\ s[k].numData = len(k) /\ s[k + 1].pos = (k + 1 - 1) * M
    BY <1>4, <2>1
  <2>3. (k + 1 - 1) * M = (k - 1) * M + len(k)
    BY <1>3, <2>1
  <2> QED
    BY <1>4, <2>1, <2>2, <2>3 DEF Joint
<1>7. ~More(s[n]) /\ ~Later(s[1])
  <2>1. n \in 1 .. n /\ 1 \in 1 .. n
    BY <1>1
  <2>3. s[n].pos + s[n].numData = size /\ s[n].tableID = t
    BY <1>3, <1>4, <2>1
  <2>4. ~(s[n].pos + s[n].numData < TableSize[s[n].tableID])
    BY <1>2, <2>3 DEF size
  <2>5. s[1].pos = 0
    <3>1. s[1].pos = (1 - 1) * M
      BY <1>4, <2>1
    <3> QED
      BY <1>2, <3>1
  <2> QED
    BY <2>4, <2>5 DEF More, Later
<1>8. \A k \in 1 .. n : s[k].op \notin {"freeSpace", "abort"} \cup Changing
  BY <1>4 DEF Changing
<1>9. \A k, l \in 1 .. n : Undisturbed(s[k], s[l])
  BY <1>8 DEF Undisturbed
<1>10. \A k \in 1 .. n : s[k].numData # 0 /\ s[k].pos + s[k].numData <= TableSize[s[k].tableID]
  BY <1>3, <1>4 DEF size
<1>11. ReadsInOrder(s) /\ Fresh(s)
  BY <1>1, <1>6, <1>7, <1>9, <1>10 DEF ReadsInOrder, Fresh
<1>12. ReadPlan(s, {t}, {})
  BY <1>1, <1>4, <1>8, <1>11 DEF ReadPlan
<1> QED
  BY <1>12 DEF s

(* Room for dummies changes one table.                                     *)
LEMMA ReadPlanExpand ==
  ASSUME NEW t \in 0 .. 1, NEW n \in Nat, NEW d \in Nat \ {0}
  PROVE  ReadPlan(ExpandTable(t, n, d), {}, {t})
<1> DEFINE s == ExpandTable(t, n, d)
<1>1. s \in Seq(Step) /\ \A k \in 1 .. Len(s) : s[k].op = "expand_table" /\ s[k].tableID = t
  BY ExpandBlocks
<1> HIDE DEF s
<1>2. ReadPlan(s, {}, {t})
  BY <1>1, ReadPlanQuiet
<1> QED
  BY <1>2 DEF s

(* A table that becomes a bin, and what comes after.                       *)
LEMMA ReadPlanBin ==
  ASSUME NEW t \in 0 .. 1, NEW s \in Step, s.op \in {"collect_resize_bins", "move_resize_bin_totable", "abort"},
         s.op # "abort" => s.tableID = t
  PROVE  ReadPlan(<<initBinStorage_OCALL(t, 0), s>>, {}, {t})
<1> DEFINE i == initBinStorage_OCALL(t, 0)
           q == <<i, s>>
<1>1. i \in Step /\ i.op = "initBinStorage" /\ i.tableID = t
  BY StepMade DEF initBinStorage_OCALL
<1> HIDE DEF i
<1>2. q \in Seq(Step) /\ Len(q) = 2 /\ q[1] = i /\ q[2] = s
  BY <1>1
<1> HIDE DEF q
<1>3. \A k \in 1 .. Len(q) : k = 1 \/ k = 2
  BY <1>2
<1>4. \A k \in 1 .. Len(q) : /\ q[k].op \notin {"readDataBlock", "freeSpace"}
                             /\ q[k].op \in Changing => q[k].tableID = t
  BY <1>1, <1>2, <1>3 DEF Changing
<1>5. ReadPlan(q, {}, {t})
  BY <1>2, <1>4, ReadPlanQuiet
<1> QED
  BY <1>5 DEF q, i

(* createPDS reads the table, or changes it and does not read it.          *)
LEMMA ReadPlanTree ==
  ASSUME NEW t \in 0 .. 1, NEW noise \in Nat, NEW numLeaves
  PROVE  ReadPlan(TreeSteps(t, noise, numLeaves), {t}, {t})
<1> DEFINE size == TableSize[t] + noise
           c == IF numLeaves = 1 THEN collect_resize_bins_OCALL(t, 0, size) ELSE abort
           a == ExpandTable(t, noise, OCALL_MAXSIZE)
           b == <<initBinStorage_OCALL(t, 0), c>>
<1>1. size \in Nat /\ OCALL_MAXSIZE \in Nat \ {0}
  BY SessionAssumption
<1>2. c \in Step /\ c.op \in {"collect_resize_bins", "abort"} /\ (c.op # "abort" => c.tableID = t)
  <2>1. collect_resize_bins_OCALL(t, 0, size) \in Step /\ abort \in Step
    BY <1>1, StepMade
  <2>2. /\ collect_resize_bins_OCALL(t, 0, size).op = "collect_resize_bins"
        /\ collect_resize_bins_OCALL(t, 0, size).tableID = t /\ abort.op = "abort"
    BY DEF collect_resize_bins_OCALL, abort
  <2> QED
    BY <2>1, <2>2
<1>3. TreeSteps(t, noise, numLeaves) = IF size <= IO_BLOCKSIZE THEN ReadDataBlock_Wrapper(t) ELSE a \o b
  BY DEF TreeSteps
<1> HIDE DEF c
<1>4. ReadPlan(b, {}, {t})
  BY <1>2, ReadPlanBin
<1>5. ReadPlan(a, {}, {t})
  BY <1>1, ReadPlanExpand
<1> HIDE DEF a, b, size
<1>6. ReadPlan(a \o b, {t}, {t})
  <2>1. {t} \cap {} = {} /\ {} \cup {} \subseteq {t} /\ {t} \cup {t} \subseteq {t}
    OBVIOUS
  <2>2. ReadPlan(a \o b, {} \cup {}, {t} \cup {t})
    BY <1>4, <1>5, <2>1, ReadPlanJoin
  <2> QED
    BY <2>1, <2>2, ReadPlanMore
<1>7. ReadPlan(ReadDataBlock_Wrapper(t), {t}, {t})
  <2>1. ReadPlan(ReadDataBlock_Wrapper(t), {t}, {}) /\ {} \subseteq {t} /\ {t} \subseteq {t}
    BY ReadPlanTable
  <2> QED
    BY <2>1, ReadPlanMore
<1> QED
  BY <1>3, <1>6, <1>7

(* So do the sparse bins.                                                  *)
LEMMA ReadPlanSparse ==
  ASSUME NEW t \in 0 .. 1, NEW noise \in Nat
  PROVE  ReadPlan(SparseSteps(t, noise), {t}, {t})
<1>1. 2 * IO_BLOCKSIZE \in Nat \ {0} /\ {} \subseteq {t} /\ {t} \subseteq {t}
  BY SessionAssumption
<1>2. /\ ReadPlan(ExpandTable(t, noise, 2 * IO_BLOCKSIZE), {}, {t})
      /\ ReadPlan(ReadDataBlock_Wrapper(t), {t}, {})
  BY <1>1, ReadPlanExpand, ReadPlanTable
<1>3. /\ ReadPlan(ExpandTable(t, noise, 2 * IO_BLOCKSIZE), {t}, {t})
      /\ ReadPlan(ReadDataBlock_Wrapper(t), {t}, {t})
  BY <1>1, <1>2, ReadPlanMore
<1> QED
  BY <1>3 DEF SparseSteps

(* createBins reads nothing.                                               *)
LEMMA ReadPlanCreateBins ==
  ASSUME NEW t \in 0 .. 1, NEW noise \in Nat, NEW numBins
  PROVE  ReadPlan(CreateBinsSteps(t, noise, numBins), {}, {t})
<1> DEFINE size == TableSize[t] + noise
           i == initBinStorage_OCALL(t, 0)
           m == move_resize_bin_totable_OCALL(t, 0, 0, size)
           d == delete_bin_OCALL(0)
           m1 == move_resize_bin_totable_OCALL(t, 1, 0, size \div 2)
<1>1. size \in Nat /\ size \div 2 \in Nat
  BY SessionAssumption
<1>2. i \in Step /\ m \in Step /\ d \in Step /\ m1 \in Step
  BY <1>1, StepMade
<1>3. /\ i.op = "initBinStorage" /\ i.tableID = t /\ d.op = "delete_bin"
      /\ m.op = "move_resize_bin_totable" /\ m.tableID = t
      /\ m1.op = "move_resize_bin_totable" /\ m1.tableID = t
  BY DEF initBinStorage_OCALL, delete_bin_OCALL, move_resize_bin_totable_OCALL
<1>4. CreateBinsSteps(t, noise, numBins) = IF size <= IO_BLOCKSIZE THEN <<>>
                                           ELSE <<i>> \o IF numBins = 1 THEN <<m>> ELSE <<d, m1>>
  BY DEF CreateBinsSteps
<1>5. ReadPlan(<<i, m>>, {}, {t})
  <2> HIDE DEF m
  <2>1. m \in Step /\ m.op \in {"collect_resize_bins", "move_resize_bin_totable", "abort"}
        /\ (m.op # "abort" => m.tableID = t)
    BY <1>2, <1>3
  <2> QED
    BY <2>1, ReadPlanBin
<1> HIDE DEF i, m, d, m1, size
<1>6. CASE size <= IO_BLOCKSIZE
  <2> DEFINE q == <<>>
  <2>1. q \in Seq(Step) /\ \A k \in 1 .. Len(q) : FALSE
    OBVIOUS
  <2>2. CreateBinsSteps(t, noise, numBins) = q
    BY <1>4, <1>6
  <2> HIDE DEF q
  <2>3. ReadPlan(q, {}, {t})
    BY <2>1, ReadPlanQuiet
  <2> QED
    BY <2>2, <2>3
<1>7. CASE ~(size <= IO_BLOCKSIZE) /\ numBins = 1
  <2>1. <<i>> \o <<m>> = <<i, m>>
    BY Joined
  <2> QED
    BY <1>4, <1>5, <1>7, <2>1
<1>8. CASE ~(size <= IO_BLOCKSIZE) /\ numBins # 1
  <2> DEFINE q == <<i, d, m1>>
  <2>1. <<i>> \o <<d, m1>> = q
    BY Joined
  <2>2. q \in Seq(Step) /\ Len(q) = 3 /\ q[1] = i /\ q[2] = d /\ q[3] = m1
    BY <1>2
  <2> HIDE DEF q
  <2>3. \A k \in 1 .. Len(q) : k = 1 \/ k = 2 \/ k = 3
    BY <2>2
  <2>4. \A k \in 1 .. Len(q) : /\ q[k].op \notin {"readDataBlock", "freeSpace"}
                               /\ q[k].op \in Changing => q[k].tableID = t
    BY <1>3, <2>2, <2>3 DEF Changing
  <2>5. ReadPlan(q, {}, {t})
    BY <2>2, <2>4, ReadPlanQuiet
  <2> QED
    BY <1>4, <1>8, <2>1, <2>5
<1> QED
  BY <1>6, <1>7, <1>8

(* createCZSC reads both tables before it makes bins.                      *)
LEMMA ReadPlanCZSC ==
  ASSUME NEW noise1 \in Nat, NEW noise2 \in Nat, NEW numBins
  PROVE  ReadPlan(SparseSteps(0, noise1) \o SparseSteps(1, noise2) \o
                  CreateBinsSteps(0, noise1, numBins) \o CreateBinsSteps(1, noise2, numBins),
                  {0, 1}, {0, 1})
<1> DEFINE a == SparseSteps(0, noise1)
           b == SparseSteps(1, noise2)
           c == CreateBinsSteps(0, noise1, numBins)
           d == CreateBinsSteps(1, noise2, numBins)
<1>1. 0 \in 0 .. 1 /\ 1 \in 0 .. 1
  OBVIOUS
<1>2. ReadPlan(a, {0}, {0}) /\ ReadPlan(b, {1}, {1})
  BY <1>1, ReadPlanSparse
<1>3. ReadPlan(c, {}, {0}) /\ ReadPlan(d, {}, {1})
  BY <1>1, ReadPlanCreateBins
<1> HIDE DEF a, b, c, d
<1>4. ReadPlan(a \o b, {0} \cup {1}, {0} \cup {1})
  <2>1. {0} \cap {1} = {}
    OBVIOUS
  <2> QED
    BY <1>2, <2>1, ReadPlanJoin
<1>5. ReadPlan(a \o b \o c, ({0} \cup {1}) \cup {}, ({0} \cup {1}) \cup {0})
  <2>1. ({0} \cup {1}) \cap {} = {}
    OBVIOUS
  <2> QED
    BY <1>3, <1>4, <2>1, ReadPlanJoin
<1>6. ReadPlan(a \o b \o c \o d, (({0} \cup {1}) \cup {}) \cup {}, (({0} \cup {1}) \cup {0}) \cup {1})
  <2>1. (({0} \cup {1}) \cup {0}) \cap {} = {}
    OBVIOUS
  <2> QED
    BY <1>3, <1>5, <2>1, ReadPlanJoin
<1>7. ReadPlan(a \o b \o c \o d, {0, 1}, {0, 1})
  <2>1. (({0} \cup {1}) \cup {}) \cup {} \subseteq {0, 1} /\ (({0} \cup {1}) \cup {0}) \cup {1} \subseteq {0, 1}
    OBVIOUS
  <2> QED
    BY <1>6, <2>1, ReadPlanMore
<1> QED
  BY <1>7 DEF a, b, c, d

(* An ECALL reads tables that are as they were loaded.                     *)
LEMMA ReadEntered ==
  ASSUME CallsInv, Idle, ReadInv, NEW name, Enter(name), tdata' = tdata,
         NEW R, NEW C, ReadPlan(steps', R, C), R \subseteq TableIDs, R # {} => Stage(name) <= 3
  PROVE  ReadInv'
<1>1. /\ call = NoCall /\ call' = calls[1] /\ call'.name = name /\ Len(calls) \in Nat \ {0}
      /\ \A k \in 1 .. Len(calls') : calls'[k] = calls[k + 1] /\ k + 1 \in 1 .. Len(calls)
      /\ UNCHANGED <<usage, lost, untrustedTableStorage>>
  BY Entered
<1>2. steps = <<>>
  BY <1>1 DEF Idle
<1>3. TableIDs' = TableIDs /\ 1 \in 1 .. Len(calls) /\ \A k \in 1 .. Len(steps) : FALSE
  BY <1>1, <1>2 DEF TableIDs
<1> SUFFICES ASSUME ~lost
             PROVE  /\ ReadsInOrder(steps')
                    /\ \A k \in 1 .. Len(steps') : steps'[k].op = "readDataBlock" =>
                         steps'[k].tableID \in TableIDs /\ AsLoaded(steps'[k].tableID)
                    /\ (\E k \in 1 .. Len(calls') : Stage(calls'[k].name) <= 3) =>
                         \A t \in TableIDs : AsLoaded(t)
                    /\ \A t \in TableIDs : HasRead(t)'
  BY <1>1, <1>3 DEF ReadInv, AsLoaded, ReadsInOrder, More, Joint, Later, Undisturbed
<1>4. /\ (\E k \in 1 .. Len(calls) : Stage(calls[k].name) <= 3) => \A t \in TableIDs : AsLoaded(t)
      /\ \A t \in TableIDs : HasRead(t)
  BY DEF ReadInv
<1>5. /\ ReadsInOrder(steps') /\ Fresh(steps')
      /\ \A k \in 1 .. Len(steps') : steps'[k].op = "readDataBlock" => steps'[k].tableID \in R
  BY DEF ReadPlan
<1>6. R # {} => \A t \in TableIDs : AsLoaded(t)
  BY <1>1, <1>3, <1>4
<1>7. (\E k \in 1 .. Len(calls') : Stage(calls'[k].name) <= 3) => \A t \in TableIDs : AsLoaded(t)
  BY <1>1, <1>4
<1>8. ASSUME NEW t \in TableIDs
      PROVE  HasRead(t)'
  <2>1. ~HalfRead(t) /\ ~HalfRead(t)'
    BY <1>2, <1>5 DEF HalfRead, Fresh, Later
  <2>2. OnceEach(t, tdata[t]) /\ Complete(t, tdata[t])
    BY <1>3, <1>4, <2>1 DEF HasRead
  <2>3. OnceEach(t, tdata'[t]) /\ Complete(t, tdata'[t])
    BY <2>2
  <2> QED
    BY <2>1, <2>3 DEF HasRead, OnceEach, Complete, RowsOf
<1> QED
  BY <1>5, <1>6, <1>7, <1>8

(* Whatever ECALL is entered.                                              *)
LEMMA ReadBody ==
  ASSUME CallsInv, TypeInv, Idle, ReadInv, Body
  PROVE  ReadInv'
<1>1. ASSUME NEW name, Enter(name)
      PROVE  /\ call'.name = name /\ Fits(call') /\ usage \in Usages /\ call' \in EcallRecord /\ 0 \in TableIDs
  <2>1. Fits(call') /\ call'.name = name /\ usage' = usage /\ usage \in Usages /\ call' \in EcallRecord
    BY <1>1, Entered DEF CallsInv
  <2> QED
    BY <2>1 DEF TableIDs
<1>2. ASSUME NEW name, Enter(name), tdata' = tdata, steps' = <<>>
      PROVE  ReadInv'
  <2> DEFINE q == <<>>
  <2>1. q \in Seq(Step) /\ \A k \in 1 .. Len(q) : FALSE
    OBVIOUS
  <2>2. steps' = q
    BY <1>2
  <2> HIDE DEF q
  <2>3. ReadPlan(q, {}, {}) /\ {} \subseteq TableIDs
    BY <2>1, ReadPlanQuiet
  <2> QED
    BY <1>2, <2>2, <2>3, ReadEntered
<1>3. ASSUME NEW name, Enter(name), tdata' = tdata,
             NEW s \in Step, s.op \in {"abort", "write_index"}, steps' = <<s>>
      PROVE  ReadInv'
  <2> DEFINE q == <<s>>
  <2>1. q \in Seq(Step) /\ Len(q) = 1 /\ q[1] = s
    BY OneStep
  <2>2. steps' = q
    BY <1>3
  <2> HIDE DEF q
  <2>3. \A k \in 1 .. Len(q) : q[k].op \in {"abort", "write_index"}
    BY <1>3, <2>1
  <2>4. ReadPlan(q, {}, {}) /\ {} \subseteq TableIDs
    BY <2>1, <2>3, ReadPlanQuiet DEF Changing
  <2> QED
    BY <1>3, <2>2, <2>4, ReadEntered
<1>4. abort \in Step /\ abort.op = "abort" /\ write_index_OCALL \in Step /\ write_index_OCALL.op = "write_index"
  <2>1. 0 \in 0 .. 1 /\ 0 \in Nat
    OBVIOUS
  <2> QED
    BY <2>1, StepMade DEF abort, write_index_OCALL
<1>5. ASSUME NEW t \in 0 .. 1, NEW s \in Step, s.op = "obliSort"
      PROVE  ReadPlan(Append(ReadDataBlock_Wrapper(t), s), {t}, {})
  <2> DEFINE q == <<s>>
             a == ReadDataBlock_Wrapper(t)
  <2>1. q \in Seq(Step) /\ Len(q) = 1 /\ q[1] = s
    BY OneStep
  <2>2. ReadPlan(a, {t}, {}) /\ a \in Seq(Step)
    BY ReadPlanTable DEF ReadPlan
  <2>3. a \o q = Append(a, s)
    BY <2>2, Appending
  <2> HIDE DEF q, a
  <2>4. \A k \in 1 .. Len(q) : q[k].op = "obliSort"
    BY <1>5, <2>1
  <2>5. ReadPlan(q, {}, {})
    BY <2>1, <2>4, ReadPlanQuiet DEF Changing
  <2>6. {} \cap {} = {} /\ {t} \cup {} = {t} /\ {} \cup {} = {}
    OBVIOUS
  <2>7. ReadPlan(a \o q, {t} \cup {}, {} \cup {})
    BY <2>2, <2>5, <2>6, ReadPlanJoin
  <2> QED
    BY <2>3, <2>6, <2>7 DEF a
<1>6. CASE ExtractMeta
  BY <1>2, <1>6 DEF ExtractMeta
<1>7. CASE ExtractData
  <2>1. Enter("extractData") /\ tdata' = tdata
        /\ steps' = Append(ReadDataBlock_Wrapper(call'.arg), obliSort(call'.arg))
    BY <1>7 DEF ExtractData
  <2>2. call'.arg \in TableIDs /\ call'.arg \in 0 .. 1
    BY <1>1, <2>1 DEF Fits, TableIDs
  <2>3. obliSort(call'.arg) \in Step /\ obliSort(call'.arg).op = "obliSort"
    BY <2>2, StepMade DEF obliSort
  <2>4. ReadPlan(steps', {call'.arg}, {})
    BY <1>5, <2>1, <2>2, <2>3
  <2>5. {call'.arg} \subseteq TableIDs /\ Stage("extractData") <= 3
    BY <2>2 DEF Stage, Loading
  <2> QED
    BY <2>1, <2>4, <2>5, ReadEntered
<1>8. CASE CreatePDS
  <2>1. Enter("createPDS") /\ tdata' = tdata
        /\ \E noiseSum \in TreeNoise, numLeaves \in 1 .. MaxBins :
             steps' = IF meta = {} THEN <<abort>> ELSE TreeSteps(0, noiseSum, numLeaves)
    BY <1>8 DEF CreatePDS
  <2>2. CASE meta = {}
    BY <1>3, <1>4, <2>1, <2>2
  <2>3. CASE meta # {}
    <3>1. PICK noise \in TreeNoise, numLeaves \in 1 .. MaxBins : steps' = TreeSteps(0, noise, numLeaves)
      BY <2>1, <2>3
    <3>2. noise \in Nat /\ 0 \in 0 .. 1
      BY SessionAssumption
    <3>3. ReadPlan(steps', {0}, {0})
      BY <3>1, <3>2, ReadPlanTree
    <3>4. {0} \subseteq TableIDs /\ Stage("createPDS") <= 3
      BY <1>1, <2>1 DEF Stage, Loading, Making
    <3> QED
      BY <2>1, <3>3, <3>4, ReadEntered
  <2> QED
    BY <2>2, <2>3
<1>9. CASE InitJoinPDS
  <2>1. Enter("initJoinPDS") /\ tdata' = tdata /\ steps' = IF meta = {} THEN <<abort>> ELSE <<>>
    BY <1>9 DEF InitJoinPDS, enclaveVars
  <2> QED
    BY <1>2, <1>3, <1>4, <2>1
<1>10. CASE InitHTree
  <2>1. Enter("initHTree") /\ tdata' = tdata /\ steps' = IF usage.pf THEN <<abort>> ELSE <<>>
    BY <1>10 DEF InitHTree
  <2> QED
    BY <1>2, <1>3, <1>4, <2>1
<1>11. CASE CreateJoinBuckets
  <2>1. Enter("createJoinBuckets") /\ tdata' = tdata
        /\ steps' = IF pds # "HTree" THEN <<abort>>
                    ELSE IF usage.op = "select" THEN Append(Append(ReadDataBlock_Wrapper(0), obliSort(0)), moveData(0))
                    ELSE <<moveData(0), moveData(1)>>
    BY <1>11 DEF CreateJoinBuckets, enclaveVars
  <2>2. /\ moveData(0) \in Step /\ moveData(1) \in Step
        /\ moveData(0).op = "moveData" /\ moveData(1).op = "moveData"
    <3>1. 0 \in 0 .. 1 /\ 1 \in 0 .. 1 /\ 0 \in Nat
      OBVIOUS
    <3> QED
      BY <3>1, StepMade DEF moveData
  <2>3. CASE pds # "HTree"
    BY <1>3, <1>4, <2>1, <2>3
  <2>4. CASE pds = "HTree" /\ usage.op = "select"
    <3> DEFINE a == Append(ReadDataBlock_Wrapper(0), obliSort(0))
               q == <<moveData(0)>>
    <3>3. a \in Seq(Step) /\ ReadPlan(a, {0}, {})
      <4>1. 0 \in 0 .. 1 /\ 0 \in Nat
        OBVIOUS
      <4>2. obliSort(0) \in Step /\ obliSort(0).op = "obliSort"
        BY <4>1, StepMade DEF obliSort
      <4> QED
        BY <1>5, <4>1, <4>2 DEF ReadPlan
    <3>4. q \in Seq(Step) /\ Len(q) = 1 /\ q[1] = moveData(0)
      BY <2>2, OneStep
    <3>5. a \o q = Append(a, moveData(0))
      BY <2>2, <3>3, Appending
    <3> HIDE DEF a, q
    <3>6. \A k \in 1 .. Len(q) : q[k].op = "moveData"
      BY <2>2, <3>4
    <3>7. ReadPlan(q, {}, {})
      BY <3>4, <3>6, ReadPlanQuiet DEF Changing
    <3>8. {} \cap {} = {} /\ {0} \cup {} = {0} /\ {} \cup {} = {}
      OBVIOUS
    <3>9. ReadPlan(a \o q, {0} \cup {}, {} \cup {})
      BY <3>3, <3>7, <3>8, ReadPlanJoin
    <3>10. steps' = a \o q
      BY <2>1, <2>4, <3>5 DEF a
    <3>1. ReadPlan(steps', {0}, {})
      BY <3>8, <3>9, <3>10
    <3>2. {0} \subseteq TableIDs /\ Stage("createJoinBuckets") <= 3
      BY <1>1, <2>1 DEF Stage, Loading, Making
    <3> QED
      BY <2>1, <3>1, <3>2, ReadEntered
  <2>5. CASE pds = "HTree" /\ usage.op # "select"
    <3> DEFINE q == <<moveData(0), moveData(1)>>
    <3>1. steps' = q
      BY <2>1, <2>5
    <3>2. q \in Seq(Step) /\ Len(q) = 2 /\ q[1] = moveData(0) /\ q[2] = moveData(1)
      BY <2>2
    <3> HIDE DEF q
    <3>3. \A k \in 1 .. Len(q) : k = 1 \/ k = 2
      BY <3>2
    <3>4. \A k \in 1 .. Len(q) : q[k].op = "moveData"
      BY <2>2, <3>2, <3>3
    <3>5. ReadPlan(q, {}, {}) /\ {} \subseteq TableIDs
      BY <3>2, <3>4, ReadPlanQuiet DEF Changing
    <3>6. ReadPlan(steps', {}, {}) /\ Enter("createJoinBuckets") /\ tdata' = tdata
      BY <2>1, <3>1, <3>5
    <3> QED
      BY <3>5, <3>6, ReadEntered
  <2> QED
    BY <2>3, <2>4, <2>5
<1>12. CASE CreateCZSC
  <2>1. Enter("createCZSC") /\ tdata' = tdata
        /\ \E noise1, noise2 \in TreeNoise, numBins \in 1 .. MaxBins :
             steps' = SparseSteps(0, noise1) \o SparseSteps(1, noise2) \o
                      CreateBinsSteps(0, noise1, numBins) \o CreateBinsSteps(1, noise2, numBins)
    BY <1>12 DEF CreateCZSC
  <2>2. PICK noise1 \in TreeNoise, noise2 \in TreeNoise, numBins \in 1 .. MaxBins :
          steps' = SparseSteps(0, noise1) \o SparseSteps(1, noise2) \o
                   CreateBinsSteps(0, noise1, numBins) \o CreateBinsSteps(1, noise2, numBins)
    BY <2>1
  <2>3. noise1 \in Nat /\ noise2 \in Nat
    BY SessionAssumption
  <2>4. ReadPlan(steps', {0, 1}, {0, 1})
    BY <2>2, <2>3, ReadPlanCZSC
  <2>5. {0, 1} \subseteq TableIDs /\ Stage("createCZSC") <= 3
    BY <1>1, <2>1 DEF Fits, TableIDs, Stage, Loading, Making
  <2> QED
    BY <2>1, <2>4, <2>5, ReadEntered
<1>13. CASE BuildIndex
  <2>1. Enter("buildIndex") /\ tdata' = tdata /\ steps' = <<IF pds = "none" THEN abort ELSE write_index_OCALL>>
    BY <1>13 DEF BuildIndex
  <2>2. CASE pds = "none"
    BY <1>3, <1>4, <2>1, <2>2
  <2>3. CASE pds # "none"
    BY <1>3, <1>4, <2>1, <2>3
  <2> QED
    BY <2>2, <2>3
<1>14. CASE IdxSelect
  <2>1. Enter("idxSelect") /\ tdata' = tdata /\ steps' = IF indexed THEN <<>> ELSE <<abort>>
    BY <1>14 DEF IdxSelect, enclaveVars
  <2> QED
    BY <1>2, <1>3, <1>4, <2>1
<1>15. CASE InnerJoin
  BY <1>2, <1>15 DEF InnerJoin
<1>16. CASE CZSCJoinCall
  <2>1. Enter("czscJoin") /\ tdata' = tdata /\ steps' = IF pds # "CZSC" \/ usage.pf THEN <<abort>> ELSE <<>>
    BY <1>16 DEF CZSCJoinCall
  <2> QED
    BY <1>2, <1>3, <1>4, <2>1
<1>17. CASE JoinCompactCall
  <2> DEFINE rows == [k \in 1 .. noisyOutputSize |-> <<2, call'.arg>>]
             q == WriteDataBlock_Wrapper(0, rows)
  <2>1. Enter("joinCompact") /\ tdata' = tdata
        /\ steps' = IF noisyOutputSize >= outputSize THEN <<>> ELSE q
    BY <1>17 DEF JoinCompactCall
  <2>2. CASE noisyOutputSize >= outputSize
    BY <1>2, <2>1, <2>2
  <2>3. CASE ~(noisyOutputSize >= outputSize)
    <3>4. <<2, call'.arg>> \in Row /\ noisyOutputSize \in Nat /\ 0 \in Nat
      BY <1>1, <2>1 DEF Row, EcallRecord, TypeInv
    <3>5. rows \in Seq(Row)
      BY <3>4
    <3> HIDE DEF rows
    <3>1. q \in Seq(Step) /\ \A k \in 1 .. Len(q) : q[k].op = "writeDataBlock"
      BY <3>4, <3>5, WriteBlocks
    <3>2. steps' = q
      BY <2>1, <2>3
    <3> HIDE DEF q
    <3>3. ReadPlan(q, {}, {}) /\ {} \subseteq TableIDs
      BY <3>1, ReadPlanQuiet DEF Changing
    <3> QED
      BY <2>1, <3>2, <3>3, ReadEntered
  <2> QED
    BY <2>2, <2>3
<1> QED
  BY <1>6, <1>7, <1>8, <1>9, <1>10, <1>11, <1>12, <1>13, <1>14, <1>15, <1>16, <1>17 DEF Body

(* What is to be shown of the state after a step.                          *)
LEMMA ReadNext ==
  ASSUME UNCHANGED usage,
         ~lost' => /\ ReadsInOrder(steps')
                   /\ \A k \in 1 .. Len(steps') : steps'[k].op = "readDataBlock" =>
                        steps'[k].tableID \in TableIDs /\ AsLoaded(steps[k].tableID)'
                   /\ (\E k \in 1 .. Len(calls') : Stage(calls'[k].name) <= 3) =>
                        \A t \in TableIDs : AsLoaded(t)'
                   /\ \A t \in TableIDs : HasRead(t)'
  PROVE  ReadInv'
<1>1. TableIDs' = TableIDs
  BY DEF TableIDs
<1> QED
  BY <1>1 DEF ReadInv, ReadsInOrder, More, Joint, Later, Undisturbed

(* A step that reads nothing is done.  Of the tables it may change only    *)
(* its own, and of the rows read it loses none.                            *)
LEMMA ReadDone ==
  ASSUME TypeInv, Untouched, ReadInv, ~lost, UNCHANGED <<usage, calls>>,
         steps # <<>>, steps[1].op # "readDataBlock", steps' = Tail(steps),
         \A t \in 0 .. 1 : ~(steps[1].op \in Changing /\ steps[1].tableID = t) =>
           untrustedTableStorage'[t] = untrustedTableStorage[t],
         \A t \in TableIDs :
           \/ tdata'[t] = <<>>
           \/ /\ ~(steps[1].op = "freeSpace" /\ steps[1].tableID = t)
              /\ OnceEach(t, tdata[t]) => OnceEach(t, tdata'[t])
              /\ Complete(t, tdata[t]) => Complete(t, tdata'[t])
  PROVE  ReadInv'
<1>1. /\ ReadsInOrder(steps)
      /\ \A k \in 1 .. Len(steps) : steps[k].op = "readDataBlock" =>
           steps[k].tableID \in TableIDs /\ AsLoaded(steps[k].tableID)
      /\ (\E k \in 1 .. Len(calls) : Stage(calls[k].name) <= 3) => \A t \in TableIDs : AsLoaded(t)
      /\ \A t \in TableIDs : HasRead(t)
  BY DEF ReadInv
<1>2. /\ steps \in Seq(Step) /\ Len(steps) \in Nat \ {0} /\ Len(steps') = Len(steps) - 1
      /\ \A k \in 1 .. Len(steps) - 1 : steps'[k] = steps[k + 1]
  BY TailOf DEF TypeInv
<1>3. \A k \in 1 .. Len(steps') : steps'[k] = steps[k + 1] /\ k + 1 \in 1 .. Len(steps) /\ 1 < k + 1
  BY <1>2
<1>4. ReadsInOrder(steps') /\ Fresh(steps')
  <2>1. ReadsInOrder(Tail(steps)) /\ Fresh(Tail(steps))
    BY <1>1, <1>2, OrderLeft
  <2> QED
    BY <2>1
<1>5. \A k, l \in 1 .. Len(steps) : k < l => Undisturbed(steps[k], steps[l])
  BY <1>1 DEF ReadsInOrder
<1>6. 1 \in 1 .. Len(steps) /\ TableIDs \subseteq 0 .. 1
  BY <1>2 DEF TableIDs
<1>7. ASSUME NEW t \in TableIDs, AsLoaded(t), ~(steps[1].op \in Changing /\ steps[1].tableID = t)
      PROVE  AsLoaded(t)'
  <2>1. untrustedTableStorage'[t] = untrustedTableStorage[t]
    BY <1>6, <1>7
  <2> QED
    BY <1>7, <2>1 DEF AsLoaded
<1>8. ASSUME NEW k \in 1 .. Len(steps'), steps'[k].op = "readDataBlock"
      PROVE  steps'[k].tableID \in TableIDs /\ AsLoaded(steps[k].tableID)'
  <2> DEFINE s == steps'[k]
  <2>1. s = steps[k + 1] /\ k + 1 \in 1 .. Len(steps) /\ Undisturbed(steps[1], steps[k + 1])
    BY <1>3, <1>5, <1>6
  <2>2. s.tableID \in TableIDs /\ AsLoaded(s.tableID)
    BY <1>1, <1>8, <2>1
  <2>3. ~(steps[1].op \in Changing /\ steps[1].tableID = s.tableID)
    BY <1>8, <2>1 DEF Undisturbed
  <2> HIDE DEF s
  <2>4. PICK t \in TableIDs : t = s.tableID
    BY <2>2
  <2>5. s = steps'[k]
    BY DEF s
  <2>6. AsLoaded(t) /\ ~(steps[1].op \in Changing /\ steps[1].tableID = t)
    BY <2>2, <2>3, <2>4
  <2>7. AsLoaded(t)' /\ t = steps'[k].tableID
    BY <1>7, <2>4, <2>5, <2>6
  <2> QED
    BY <2>4, <2>5, <2>7 DEF AsLoaded
<1>9. ASSUME NEW k \in 1 .. Len(calls'), Stage(calls'[k].name) <= 3, NEW t \in TableIDs
      PROVE  AsLoaded(t)'
  <2>1. k \in 1 .. Len(calls) /\ Stage(calls[k].name) <= 3
    BY <1>9
  <2>2. steps[1].op \in {"readDataBlock", "obliSort", "abort"}
    BY <1>6, <2>1 DEF Untouched
  <2>3. AsLoaded(t) /\ steps[1].op \notin Changing
    BY <1>1, <2>1, <2>2 DEF Changing
  <2> QED
    BY <1>7, <2>3
<1>10. ASSUME NEW t \in TableIDs
       PROVE  HasRead(t)'
  <2>1. ~HalfRead(t) /\ ~HalfRead(t)'
    BY <1>4 DEF HalfRead, Fresh, Later
  <2>2. /\ OnceEach(t, tdata[t])
        /\ (\A k \in 1 .. Len(steps) : ~(steps[k].op = "freeSpace" /\ steps[k].tableID = t)) =>
             Complete(t, tdata[t])
    BY <1>1, <2>1 DEF HasRead
  <2>3. \/ tdata'[t] = <<>>
        \/ /\ ~(steps[1].op = "freeSpace" /\ steps[1].tableID = t)
           /\ OnceEach(t, tdata[t]) => OnceEach(t, tdata'[t])
           /\ Complete(t, tdata[t]) => Complete(t, tdata'[t])
    OBVIOUS
  <2>4. CASE tdata'[t] = <<>>
    <3>1. \A rows : rows = <<>> => OnceEach(t, rows) /\ Complete(t, rows)
      BY DEF OnceEach, Complete
    <3>2. OnceEach(t, tdata'[t]) /\ Complete(t, tdata'[t])
      BY <2>4, <3>1
    <3> QED
      BY <2>1, <3>2 DEF HasRead, OnceEach, Complete, RowsOf
  <2>5. CASE tdata'[t] # <<>>
    <3>1. OnceEach(t, tdata'[t])
      BY <2>2, <2>3, <2>5
    <3>2. ASSUME \A k \in 1 .. Len(steps') : ~(steps'[k].op = "freeSpace" /\ steps'[k].tableID = t)
          PROVE  Complete(t, tdata'[t])
      <4>1. ASSUME NEW k \in 1 .. Len(steps)
            PROVE  ~(steps[k].op = "freeSpace" /\ steps[k].tableID = t)
        <5>1. CASE k = 1
          BY <2>3, <2>5, <5>1
        <5>2. CASE k # 1
          <6>1. k - 1 \in 1 .. Len(steps') /\ (k - 1) + 1 = k
            BY <1>2, <5>2
          <6>2. steps'[k - 1] = steps[k]
            BY <1>3, <6>1
          <6> QED
            BY <3>2, <6>1, <6>2
        <5> QED
          BY <5>1, <5>2
      <4> QED
        BY <2>2, <2>3, <2>5, <4>1
    <3> QED
      BY <2>1, <3>1, <3>2 DEF HasRead, OnceEach, Complete, RowsOf
  <2> QED
    BY <2>4, <2>5
<1> QED
  BY <1>4, <1>8, <1>9, <1>10, ReadNext

(* The sort has every row where it had it before or elsewhere.             *)
LEMMA PermutedRows ==
  ASSUME NEW rows \in Seq(Row), NEW perm \in Bijection(DOMAIN rows, DOMAIN rows), NEW t
  PROVE  /\ OnceEach(t, rows) => OnceEach(t, Permuted(rows, perm))
         /\ Complete(t, rows) => Complete(t, Permuted(rows, perm))
<1> DEFINE D == DOMAIN rows
           q == Permuted(rows, perm)
<1>1. /\ perm \in [D -> D]
      /\ \A k, l \in D : perm[k] = perm[l] => k = l
      /\ \A k \in D : \E l \in D : perm[l] = k
  BY DEF Bijection, Injection, Surjection, IsInjective
<1>2. q = [k \in D |-> rows[perm[k]]] /\ DOMAIN q = D /\ \A k \in D : q[k] = rows[perm[k]] /\ perm[k] \in D
  BY <1>1 DEF Permuted
<1>3. rows = <<>> => q = <<>>
  <2> SUFFICES ASSUME rows = <<>>
               PROVE  q = <<>>
    OBVIOUS
  <2>1. D = {}
    OBVIOUS
  <2> HIDE DEF D
  <2>2. [k \in D |-> rows[perm[k]]] = <<>>
    BY <2>1
  <2> QED
    BY <1>2, <2>2
<1> HIDE DEF q
<1>4. OnceEach(t, rows) => OnceEach(t, q)
  BY <1>1, <1>2 DEF OnceEach
<1>5. ASSUME Complete(t, rows)
      PROVE  Complete(t, q)
  <2>1. \A k \in D : q[k] # Dummy
    BY <1>2, <1>5 DEF Complete
  <2>2. CASE rows = <<>>
    BY <1>2, <1>3, <2>1, <2>2 DEF Complete
  <2>3. ASSUME rows # <<>>, NEW row \in RowsOf(t)
        PROVE  \E k \in D : q[k] = row
    <3>1. PICK k \in D : rows[k] = row
      BY <1>5, <2>3 DEF Complete
    <3>2. PICK l \in D : perm[l] = k
      BY <1>1
    <3> QED
      BY <1>2, <3>1, <3>2
  <2> QED
    BY <1>2, <2>1, <2>2, <2>3 DEF Complete
<1> QED
  BY <1>4, <1>5 DEF q

(* The place of a row among those that are not dummies grows with it.      *)
LEMMA PlacesCounted ==
  ASSUME NEW n \in Nat, NEW size \in Nat, NEW places \in kSubset(n, 1 .. size)
  PROVE  /\ \A k \in places : Cardinality(places \cap 1 .. k) \in 1 .. n
         /\ \A k, l \in places : k < l => Cardinality(places \cap 1 .. k) < Cardinality(places \cap 1 .. l)
<1>1. places \subseteq 1 .. size /\ Cardinality(places) = n
  BY DEF kSubset
<1>2. IsFiniteSet(1 .. size)
  BY FS_Interval
<1>3. IsFiniteSet(places)
  BY <1>1, <1>2, FS_Subset
<1>4. ASSUME NEW k \in places
      PROVE  /\ IsFiniteSet(places \cap 1 .. k) /\ Cardinality(places \cap 1 .. k) \in 1 .. n
  <2> DEFINE A == places \cap 1 .. k
  <2>1. A \subseteq places /\ k \in A
    BY <1>1
  <2> HIDE DEF A
  <2>2. IsFiniteSet(A) /\ Cardinality(A) <= Cardinality(places)
    BY <1>3, <2>1, FS_Subset
  <2>3. Cardinality(A) \in Nat /\ Cardinality(A) # 0
    BY <2>1, <2>2, FS_CardinalityType, FS_EmptySet
  <2>4. Cardinality(A) \in 1 .. n
    BY <1>1, <2>2, <2>3
  <2> QED
    BY <2>2, <2>4 DEF A
<1>5. ASSUME NEW k \in places, NEW l \in places, k < l
      PROVE  Cardinality(places \cap 1 .. k) < Cardinality(places \cap 1 .. l)
  <2> DEFINE A == places \cap 1 .. k
             B == places \cap 1 .. l
  <2>1. A \in SUBSET B /\ l \in B /\ l \notin A
    BY <1>1, <1>5
  <2>2. IsFiniteSet(B)
    BY <1>4
  <2> HIDE DEF A, B
  <2>3. A # B
    BY <2>1
  <2>4. Cardinality(A) <= Cardinality(B) /\ Cardinality(B) # Cardinality(A)
    BY <2>1, <2>2, <2>3, FS_Subset
  <2>5. Cardinality(A) < Cardinality(B)
    <3>1. Cardinality(A) \in Nat /\ Cardinality(B) \in Nat
      BY <1>4, FS_CardinalityType DEF A, B
    <3> QED
      BY <2>4, <3>1
  <2> QED
    BY <2>5 DEF A, B
<1> QED
  BY <1>4, <1>5

(* With dummies among them the rows are still each at one place.           *)
LEMMA PaddedOnce ==
  ASSUME NEW rows \in Seq(Row), NEW size \in Nat, NEW places \in kSubset(Len(rows), 1 .. size),
         NEW t, OnceEach(t, rows)
  PROVE  OnceEach(t, Padded(rows, places, size))
<1> DEFINE rank(k) == Cardinality(places \cap 1 .. k)
           q == Padded(rows, places, size)
<1>1. Len(rows) \in Nat /\ DOMAIN rows = 1 .. Len(rows)
  OBVIOUS
<1>2. /\ \A k \in places : rank(k) \in 1 .. Len(rows)
      /\ \A k, l \in places : k < l => rank(k) < rank(l)
  BY <1>1, PlacesCounted
<1>3. places \subseteq 1 .. size
  BY DEF kSubset
<1>4. DOMAIN q = 1 .. size /\ \A k \in 1 .. size : q[k] = IF k \in places THEN rows[rank(k)] ELSE Dummy
  BY DEF Padded
<1> HIDE DEF rank, q
<1>5. \A k, l \in places : k # l => rank(k) # rank(l)
  <2> SUFFICES ASSUME NEW k \in places, NEW l \in places, k # l
               PROVE  rank(k) # rank(l)
    OBVIOUS
  <2>1. k \in Nat /\ l \in Nat /\ rank(k) \in Nat /\ rank(l) \in Nat
    BY <1>2, <1>3
  <2>2. CASE k < l
    BY <1>2, <2>1, <2>2
  <2>3. CASE l < k
    BY <1>2, <2>1, <2>3
  <2> QED
    BY <2>1, <2>2, <2>3
<1>6. /\ \A k \in 1 .. Len(rows) : rows[k] \in RowsOf(t) \cup {Dummy}
      /\ \A k, l \in 1 .. Len(rows) : rows[k] = rows[l] => k = l \/ rows[k] = Dummy
  BY <1>1 DEF OnceEach
<1>7. ASSUME NEW k \in 1 .. size
      PROVE  q[k] \in RowsOf(t) \cup {Dummy}
  BY <1>2, <1>4, <1>6
<1>8. ASSUME NEW k \in 1 .. size, NEW l \in 1 .. size, q[k] = q[l], q[k] # Dummy
      PROVE  k = l
  <2>1. k \in places /\ l \in places
    BY <1>4, <1>8
  <2>2. rows[rank(k)] = rows[rank(l)] /\ rows[rank(k)] # Dummy
    BY <1>4, <1>8, <2>1
  <2>3. rank(k) = rank(l)
    BY <1>2, <1>6, <2>1, <2>2
  <2> QED
    BY <1>5, <2>1, <2>3
<1>9. OnceEach(t, q)
  BY <1>4, <1>7, <1>8 DEF OnceEach
<1> QED
  BY <1>9 DEF q

(* A handler changes no table but that of the request, and no rows that    *)
(* have been read.                                                         *)
LEMMA ReadHandled ==
  ASSUME TypeInv, Untouched, ReadInv, NEW op, Writing(op), op # "readDataBlock", op # "freeSpace",
         \/ UNCHANGED untrustedTableStorage
         \/ op \in Changing /\ \E t \in 0 .. 1 : \E map : t = steps[1].tableID
              /\ untrustedTableStorage' = [untrustedTableStorage EXCEPT ![t] = map]
  PROVE  ReadInv'
<1>1. /\ steps # <<>> /\ steps' = Tail(steps) /\ Head(steps).op = op
      /\ UNCHANGED <<usage, calls, tdata, lost>>
  BY DEF Writing, Request, InBody, faultVars
<1>2. steps[1].op = op
  <2>1. Head(steps) = steps[1]
    BY <1>1, TailOf DEF TypeInv
  <2> QED
    BY <1>1, <2>1
<1>3. ASSUME NEW t \in 0 .. 1, ~(steps[1].op \in Changing /\ steps[1].tableID = t)
      PROVE  untrustedTableStorage'[t] = untrustedTableStorage[t]
  <2>1. CASE UNCHANGED untrustedTableStorage
    BY <2>1
  <2>2. CASE op \in Changing /\ \E u \in 0 .. 1 : \E map : u = steps[1].tableID
               /\ untrustedTableStorage' = [untrustedTableStorage EXCEPT ![u] = map]
    <3>1. PICK u \in 0 .. 1 : u = steps[1].tableID
            /\ \E map : untrustedTableStorage' = [untrustedTableStorage EXCEPT ![u] = map]
      BY <2>2
    <3>2. PICK map : untrustedTableStorage' = [untrustedTableStorage EXCEPT ![u] = map]
      BY <3>1
    <3>3. t # u
      BY <1>2, <1>3, <2>2, <3>1
    <3> QED
      BY <3>2, <3>3, OtherTables
  <2> QED
    BY <2>1, <2>2
<1>4. CASE lost
  BY <1>1, <1>4 DEF ReadInv
<1>5. CASE ~lost
  BY <1>1, <1>2, <1>3, <1>5, ReadDone
<1> QED
  BY <1>4, <1>5

(* The handlers, one after the other.                                      *)
LEMMA ReadHost ==
  ASSUME TypeInv, StartInv, ReadInv,
         \/ WriteStep \/ ExpandStep \/ InitBinStep \/ DeleteBinStep \/ DeleteTableStep \/ MoveBinStep
         \/ CollectStep \/ WriteIndexStep
  PROVE  ReadInv'
<1>1. Untouched
  BY DEF StartInv
<1>2. ASSUME NEW op, Writing(op)
      PROVE  steps[1] \in Step /\ steps[1].op = op /\ Head(steps) = steps[1]
  <2>1. steps # <<>> /\ Head(steps).op = op
    BY <1>2 DEF Writing, Request, InBody
  <2> QED
    BY <2>1, TailOf DEF TypeInv
<1>3. CASE WriteStep
  <2>1. Writing("writeDataBlock") /\ HandleWriteDataBlock(Head(steps).binID, Head(steps).pos, Head(steps).dblock)
    BY <1>3 DEF WriteStep
  <2>2. UNCHANGED untrustedTableStorage
    BY <2>1 DEF HandleWriteDataBlock, Die
  <2> QED
    BY <1>1, <2>1, <2>2, ReadHandled
<1>4. CASE DeleteBinStep
  <2>1. Writing("delete_bin") /\ UNCHANGED untrustedTableStorage
    BY <1>4 DEF DeleteBinStep, HandleDeleteBin
  <2> QED
    BY <1>1, <2>1, ReadHandled
<1>5. CASE WriteIndexStep
  <2>1. Writing("write_index") /\ UNCHANGED untrustedTableStorage
    BY <1>5 DEF WriteIndexStep, HandleWriteIndex
  <2> QED
    BY <1>1, <2>1, ReadHandled
<1>6. ASSUME NEW op \in Changing, Writing(op), NEW t \in 0 .. 1, t = steps[1].tableID,
             \/ Die
             \/ \E map : untrustedTableStorage' = [untrustedTableStorage EXCEPT ![t] = map]
      PROVE  ReadInv'
  <2>1. op # "readDataBlock" /\ op # "freeSpace"
    BY DEF Changing
  <2>2. \/ UNCHANGED untrustedTableStorage
        \/ op \in Changing /\ \E u \in 0 .. 1 : \E map : u = steps[1].tableID
             /\ untrustedTableStorage' = [untrustedTableStorage EXCEPT ![u] = map]
    BY <1>6 DEF Die
  <2> QED
    BY <1>1, <1>6, <2>1, <2>2, ReadHandled
<1>7. CASE ExpandStep
  <2>s. PICK s, t : s = steps[1] /\ t = s.tableID
    OBVIOUS
  <2>1. Writing("expand_table") /\ HandleExpandTable(Head(steps).tableID, Head(steps).noiseSum)
    BY <1>7 DEF ExpandStep
  <2>2. t \in 0 .. 1 /\ t = steps[1].tableID /\ HandleExpandTable(t, s.noiseSum)
    BY <1>2, <2>1, <2>s, StepFields
  <2>3. \/ Die
        \/ \E map : untrustedTableStorage' = [untrustedTableStorage EXCEPT ![t] = map]
    BY <2>2 DEF HandleExpandTable
  <2> QED
    BY <1>6, <2>1, <2>2, <2>3 DEF Changing
<1>8. CASE InitBinStep
  <2>s. PICK s, t : s = steps[1] /\ t = s.tableID
    OBVIOUS
  <2>1. Writing("initBinStorage") /\ HandleInitBinStorage(Head(steps).tableID, Head(steps).binID)
    BY <1>8 DEF InitBinStep
  <2>2. t \in 0 .. 1 /\ t = steps[1].tableID /\ HandleInitBinStorage(t, s.binID)
    BY <1>2, <2>1, <2>s, StepFields
  <2>3. \E map : untrustedTableStorage' = [untrustedTableStorage EXCEPT ![t] = map]
    BY <2>2 DEF HandleInitBinStorage
  <2> QED
    BY <1>6, <2>1, <2>2, <2>3 DEF Changing
<1>9. CASE DeleteTableStep
  <2>s. PICK s, t : s = steps[1] /\ t = s.tableID
    OBVIOUS
  <2>1. Writing("delete_table") /\ HandleDeleteTable(Head(steps).tableID)
    BY <1>9 DEF DeleteTableStep
  <2>2. t \in 0 .. 1 /\ t = steps[1].tableID /\ HandleDeleteTable(t)
    BY <1>2, <2>1, <2>s, StepFields
  <2>3. \E map : untrustedTableStorage' = [untrustedTableStorage EXCEPT ![t] = map]
    BY <2>2 DEF HandleDeleteTable
  <2> QED
    BY <1>6, <2>1, <2>2, <2>3 DEF Changing
<1>10. CASE MoveBinStep
  <2>s. PICK s, t : s = steps[1] /\ t = s.tableID
    OBVIOUS
  <2>1. /\ Writing("move_resize_bin_totable")
        /\ HandleMoveResizeBinToTable(Head(steps).tableID, Head(steps).srcBinID, Head(steps).destBinID,
                                      Head(steps).size)
    BY <1>10 DEF MoveBinStep
  <2>2. /\ t \in 0 .. 1 /\ t = steps[1].tableID
        /\ HandleMoveResizeBinToTable(t, s.srcBinID, s.destBinID, s.size)
    BY <1>2, <2>1, <2>s, StepFields
  <2>3. \/ Die
        \/ \E map : untrustedTableStorage' = [untrustedTableStorage EXCEPT ![t] = map]
    <3>1. CASE s.srcBinID \in DOMAIN untrustedBinStorage
      <4>1. PICK storage : untrustedTableStorage' =
              [untrustedTableStorage EXCEPT ![t] = With(@, s.destBinID, storage)]
        BY <2>2, <3>1 DEF HandleMoveResizeBinToTable
      <4> QED
        BY <4>1
    <3> QED
      BY <2>2, <3>1 DEF HandleMoveResizeBinToTable
  <2> QED
    BY <1>6, <2>1, <2>2, <2>3 DEF Changing
<1>11. CASE CollectStep
  <2>s. PICK s, t : s = steps[1] /\ t = s.tableID
    OBVIOUS
  <2>1. /\ Writing("collect_resize_bins")
        /\ HandleCollectResizeBins(Head(steps).tableID, Head(steps).leaf, Head(steps).size)
    BY <1>11 DEF CollectStep
  <2>2. t \in 0 .. 1 /\ t = steps[1].tableID /\ HandleCollectResizeBins(t, s.leaf, s.size)
    BY <1>2, <2>1, <2>s, StepFields
  <2>3. \/ Die
        \/ \E map : untrustedTableStorage' = [untrustedTableStorage EXCEPT ![t] = map]
    <3>1. CASE s.leaf \in DOMAIN untrustedBinStorage
      <4>1. PICK storage : untrustedTableStorage' =
              [untrustedTableStorage EXCEPT ![t] = With(@, s.leaf, storage)]
        BY <2>2, <3>1 DEF HandleCollectResizeBins
      <4> QED
        BY <4>1
    <3> QED
      BY <2>2, <3>1 DEF HandleCollectResizeBins
  <2> QED
    BY <1>6, <2>1, <2>2, <2>3 DEF Changing
<1> QED
  BY <1>3, <1>4, <1>5, <1>7, <1>8, <1>9, <1>10, <1>11

(* The sort loses no row, and what is freed is no longer read.             *)
LEMMA ReadInside ==
  ASSUME TypeInv, StartInv, ReadInv, SortStep \/ FreeStep
  PROVE  ReadInv'
<1>1. Untouched
  BY DEF StartInv
<1>2. ASSUME NEW op, Request(op)
      PROVE  /\ steps[1] \in Step /\ steps[1].op = op /\ Head(steps) = steps[1]
             /\ steps # <<>> /\ steps' = Tail(steps) /\ UNCHANGED <<usage, calls, lost>>
  <2>1. steps # <<>> /\ Head(steps).op = op /\ steps' = Tail(steps) /\ UNCHANGED <<usage, calls, lost>>
    BY <1>2 DEF Request, InBody, faultVars
  <2> QED
    BY <2>1, TailOf DEF TypeInv
<1>3. UNCHANGED untrustedTableStorage /\ tdata \in [0 .. 1 -> Seq(Row)] /\ TableIDs \subseteq 0 .. 1
  BY DEF SortStep, FreeStep, hostVars, TypeInv, TableIDs
<1>s. PICK s, t : s = steps[1] /\ t = s.tableID
  OBVIOUS
<1>4. CASE SortStep
  <2>1. Request("obliSort")
    BY <1>4 DEF SortStep
  <2>2. s \in Step /\ s.op = "obliSort" /\ Head(steps) = s
    BY <1>2, <1>s, <2>1
  <2>3. t \in 0 .. 1
    BY <1>s, <2>2, StepFields
  <2>4. PICK perm \in Bijection(DOMAIN (tdata[t]), DOMAIN (tdata[t])) :
          tdata' = [tdata EXCEPT ![t] = Permuted(tdata[t], perm)]
    <3>1. \E perm \in Bijection(DOMAIN (tdata[t]), DOMAIN (tdata[t])) :
            tdata' = [tdata EXCEPT ![t] = Permuted(@, perm)]
      BY <1>4, <1>s, <2>2 DEF SortStep
    <3> QED
      BY <1>3, <2>3, <3>1
  <2>5. /\ tdata'[t] = Permuted(tdata[t], perm)
        /\ \A u \in 0 .. 1 : u # t => tdata'[u] = tdata[u]
    BY <1>3, <2>3, <2>4
  <2>6. tdata[t] \in Seq(Row)
    BY <1>3, <2>3
  <2>7. \A u \in TableIDs : /\ OnceEach(u, tdata[u]) => OnceEach(u, tdata'[u])
                            /\ Complete(u, tdata[u]) => Complete(u, tdata'[u])
    <3> SUFFICES ASSUME NEW u \in TableIDs
                 PROVE  /\ OnceEach(u, tdata[u]) => OnceEach(u, tdata'[u])
                        /\ Complete(u, tdata[u]) => Complete(u, tdata'[u])
      OBVIOUS
    <3>1. CASE u = t
      BY <2>5, <2>6, <3>1, PermutedRows
    <3>2. CASE u # t
      <4>1. tdata'[u] = tdata[u]
        BY <1>3, <2>5, <3>2
      <4> QED
        BY <4>1
    <3> QED
      BY <3>1, <3>2
  <2>8. CASE lost
    BY <1>2, <2>1, <2>8 DEF ReadInv
  <2>9. CASE ~lost
    <3>1. steps[1].op # "readDataBlock" /\ steps[1].op # "freeSpace"
      BY <1>2, <2>1
    <3>2. UNCHANGED <<usage, calls>> /\ steps # <<>> /\ steps' = Tail(steps)
      BY <1>2, <2>1
    <3> QED
      BY <1>1, <1>3, <2>7, <2>9, <3>1, <3>2, ReadDone
  <2> QED
    BY <2>8, <2>9
<1>5. CASE FreeStep
  <2>1. Request("freeSpace") /\ tdata' = [tdata EXCEPT ![Head(steps).tableID] = <<>>]
    BY <1>5 DEF FreeStep
  <2>2. s \in Step /\ s.op = "freeSpace" /\ Head(steps) = s
    BY <1>2, <1>s, <2>1
  <2>3. t \in 0 .. 1 /\ tdata' = [tdata EXCEPT ![t] = <<>>]
    BY <1>s, <2>1, <2>2, StepFields
  <2>4. tdata'[t] = <<>> /\ \A u \in 0 .. 1 : u # t => tdata'[u] = tdata[u]
    BY <1>3, <2>3
  <2>5. CASE lost
    BY <1>2, <2>1, <2>5 DEF ReadInv
  <2>6. CASE ~lost
    <3>1. steps[1].op # "readDataBlock" /\ steps[1].tableID = t
      BY <1>2, <1>s, <2>1
    <3>2. UNCHANGED <<usage, calls>> /\ steps # <<>> /\ steps' = Tail(steps)
      BY <1>2, <2>1
    <3>3. ASSUME NEW u \in TableIDs
          PROVE  \/ tdata'[u] = <<>>
                 \/ /\ ~(steps[1].op = "freeSpace" /\ steps[1].tableID = u)
                    /\ OnceEach(u, tdata[u]) => OnceEach(u, tdata'[u])
                    /\ Complete(u, tdata[u]) => Complete(u, tdata'[u])
      <4>1. CASE u = t
        BY <2>4, <4>1
      <4>2. CASE u # t
        <5>1. tdata'[u] = tdata[u]
          BY <1>3, <2>4, <4>2
        <5> QED
          BY <3>1, <4>2, <5>1
      <4> QED
        BY <4>1, <4>2
    <3> QED
      BY <1>1, <1>3, <2>6, <3>1, <3>2, <3>3, ReadDone
  <2> QED
    BY <2>5, <2>6
<1> QED
  BY <1>4, <1>5

(* The rows of a table up to some place, as they were loaded.              *)
LEMMA RowsLoaded ==
  ASSUME NEW t \in 0 .. 1, NEW m \in 0 .. TableSize[t], NEW rows \in Seq(Row), Len(rows) = m,
         \A k \in 1 .. m : rows[k] = <<t, TableSize[t] + 1 - k>>
  PROVE  OnceEach(t, rows) /\ (m = TableSize[t] => Complete(t, rows))
<1>n. PICK n : n = TableSize[t]
  OBVIOUS
<1>1. n \in Nat \ {0} /\ m \in 0 .. n /\ DOMAIN rows = 1 .. m
  BY <1>n, SessionAssumption
<1>2. \A k \in 1 .. m : rows[k] = <<t, n + 1 - k>>
  BY <1>n
<1>3. \A k \in 1 .. m : rows[k] \in RowsOf(t) /\ rows[k] # Dummy
  <2> SUFFICES ASSUME NEW k \in 1 .. m
               PROVE  rows[k] \in RowsOf(t) /\ rows[k] # Dummy
    OBVIOUS
  <2>1. n + 1 - k \in 1 .. n /\ n + 1 - k # 0
    BY <1>1
  <2> QED
    <3>1. rows[k] = <<t, n + 1 - k>>
      BY <1>2
    <3>2. <<t, n + 1 - k>> \in RowsOf(t)
      BY <1>n, <2>1 DEF RowsOf
    <3>3. <<t, n + 1 - k>> # Dummy
      BY <2>1 DEF Dummy
    <3> QED
      BY <3>1, <3>2, <3>3
<1>4. \A k, l \in 1 .. m : rows[k] = rows[l] => k = l
  <2> SUFFICES ASSUME NEW k \in 1 .. m, NEW l \in 1 .. m, rows[k] = rows[l]
               PROVE  k = l
    OBVIOUS
  <2>1. n + 1 - k = n + 1 - l
    BY <1>2
  <2> QED
    BY <1>1, <2>1
<1>5. ASSUME m = n, NEW row \in RowsOf(t)
      PROVE  \E k \in 1 .. m : rows[k] = row
  <2>1. PICK r \in 1 .. n : row = <<t, r>>
    BY <1>n DEF RowsOf
  <2>2. n + 1 - r \in 1 .. n /\ n + 1 - (n + 1 - r) = r
    BY <1>1
  <2> QED
    BY <1>2, <1>5, <2>1, <2>2
<1> QED
  BY <1>n, <1>1, <1>3, <1>4, <1>5 DEF OnceEach, Complete

(* A block of a table follows on the rows read before.                     *)
LEMMA BlockAppended ==
  ASSUME NEW t \in 0 .. 1, NEW pos \in Nat, NEW n \in Nat, pos + n <= TableSize[t],
         NEW before \in Seq(Row), Len(before) = pos,
         \A k \in 1 .. pos : before[k] = <<t, TableSize[t] + 1 - k>>
  PROVE  LET rows == before \o DataBlock(LoadedTable(t), pos, n) IN
         /\ rows \in Seq(Row) /\ Len(rows) = pos + n
         /\ \A k \in 1 .. pos + n : rows[k] = <<t, TableSize[t] + 1 - k>>
<1>1. TableSize[t] \in Nat
  BY SessionAssumption
<1>z. PICK z : z = TableSize[t]
  OBVIOUS
<1>2. LoadedTable(t) \in Seq(Row) /\ Len(LoadedTable(t)) = z /\ \A k \in 1 .. z : LoadedTable(t)[k] = <<t, z + 1 - k>>
  <2>1. \A k \in 1 .. z : <<t, z + 1 - k>> \in Row
    BY <1>1, <1>z DEF Row
  <2>2. LoadedTable(t) = [k \in 1 .. z |-> <<t, z + 1 - k>>]
    BY <1>z DEF LoadedTable
  <2>3. LoadedTable(t) \in [1 .. z -> Row]
    BY <2>1, <2>2
  <2>4. LoadedTable(t) \in Seq(Row) /\ Len(LoadedTable(t)) = z
    BY <1>1, <1>z, <2>3, FunctionIsSequence
  <2> QED
    BY <2>2, <2>4
<1>b. PICK b : b = DataBlock(LoadedTable(t), pos, n)
  OBVIOUS
<1>3. b \in Seq(Row) /\ Len(b) = n /\ \A k \in 1 .. n : b[k] = LoadedTable(t)[pos + k]
  <2>1. PICK all : all = LoadedTable(t)
    OBVIOUS
  <2>2. all \in Seq(Row) /\ pos + n <= Len(all)
    BY <1>z, <1>2, <2>1
  <2>3. /\ DataBlock(all, pos, n) \in Seq(Row) /\ Len(DataBlock(all, pos, n)) = n
        /\ pos + n <= Len(all) => \A k \in 1 .. n : DataBlock(all, pos, n)[k] = all[pos + k]
    BY <2>2, BlockRead
  <2> QED
    BY <1>b, <2>1, <2>2, <2>3
<1>4. \A k \in 1 .. n : b[k] = <<t, z + 1 - (pos + k)>>
  <2> SUFFICES ASSUME NEW k \in 1 .. n
               PROVE  b[k] = <<t, z + 1 - (pos + k)>>
    OBVIOUS
  <2>1. pos + k \in 1 .. z
    BY <1>1, <1>z
  <2> QED
    BY <1>2, <1>3, <2>1
<1>r. PICK rows : rows = before \o b
  OBVIOUS
<1>5. /\ rows \in Seq(Row) /\ Len(rows) = pos + n
      /\ \A k \in 1 .. pos : rows[k] = before[k]
      /\ \A k \in pos + 1 .. pos + n : rows[k] = b[k - pos]
  <2>1. b \in Seq(Row)
    BY <1>3
  <2>2. /\ before \o b \in Seq(Row) /\ Len(before \o b) = Len(before) + Len(b)
        /\ \A k \in 1 .. Len(before) : (before \o b)[k] = before[k]
        /\ \A k \in Len(before) + 1 .. Len(before) + Len(b) : (before \o b)[k] = b[k - Len(before)]
    BY <2>1, Concatenation
  <2> QED
    BY <1>3, <1>r, <2>2
<1>6. ASSUME NEW k \in 1 .. pos + n
      PROVE  rows[k] = <<t, z + 1 - k>>
  <2>1. CASE k \in 1 .. pos
    BY <1>5, <1>z, <2>1
  <2>2. CASE k \notin 1 .. pos
    <3>1. k \in pos + 1 .. pos + n /\ k - pos \in 1 .. n /\ pos + (k - pos) = k
      BY <2>2
    <3> QED
      BY <1>4, <1>5, <3>1
  <2> QED
    BY <2>1, <2>2
<1> QED
  BY <1>b, <1>r, <1>z, <1>5, <1>6

(* A block is read: the table goes on or is there as a whole.              *)
LEMMA ReadBlockRead ==
  ASSUME TypeInv, TypeInv', ReadInv, ReadStep
  PROVE  ReadInv'
<1>s. PICK s, t : s = steps[1] /\ t = s.tableID
  OBVIOUS
<1>d. PICK d : d = Tail(steps)
  OBVIOUS
<1>1. /\ steps # <<>> /\ steps' = d /\ Head(steps).op = "readDataBlock"
      /\ UNCHANGED <<usage, calls, lost>>
  BY <1>d DEF ReadStep, Request, InBody, faultVars
<1>2. /\ s \in Step /\ s.op = "readDataBlock" /\ Head(steps) = s
      /\ d \in Seq(Step) /\ Len(steps) \in Nat \ {0} /\ Len(d) = Len(steps) - 1
      /\ \A k \in 1 .. Len(d) : d[k] = steps[k + 1] /\ k + 1 \in 1 .. Len(steps)
  <2>1. /\ Len(steps) \in Nat \ {0} /\ Head(steps) = steps[1] /\ steps[1] \in Step
        /\ Tail(steps) \in Seq(Step) /\ Len(Tail(steps)) = Len(steps) - 1
        /\ \A k \in 1 .. Len(steps) - 1 : Tail(steps)[k] = steps[k + 1]
    BY <1>1, TailOf DEF TypeInv
  <2>2. \A k \in 1 .. Len(steps) - 1 : k + 1 \in 1 .. Len(steps)
    BY <2>1
  <2> QED
    BY <1>1, <1>s, <1>d, <2>1, <2>2
<1> SUFFICES ASSUME ~lost
             PROVE  ReadInv'
  BY <1>1 DEF ReadInv
<1>3. /\ ReadsInOrder(steps)
      /\ \A k \in 1 .. Len(steps) : steps[k].op = "readDataBlock" =>
           steps[k].tableID \in TableIDs /\ AsLoaded(steps[k].tableID)
      /\ (\E k \in 1 .. Len(calls) : Stage(calls[k].name) <= 3) => \A u \in TableIDs : AsLoaded(u)
      /\ \A u \in TableIDs : HasRead(u)
  BY DEF ReadInv
<1>4. 1 \in 1 .. Len(steps) /\ TableIDs \subseteq 0 .. 1
  BY <1>2 DEF TableIDs
<1>5. /\ t \in TableIDs /\ t \in 0 .. 1 /\ AsLoaded(t)
      /\ s.numData # 0 /\ s.pos + s.numData <= TableSize[t]
  BY <1>2, <1>3, <1>4, <1>s DEF ReadsInOrder
<1>6. s.binID = 0 /\ s.pos \in Nat /\ s.numData \in Nat
  BY <1>2, StepFields
<1>7. /\ UNCHANGED untrustedTableStorage
      /\ tdata' = Appended(t, s.pos, DataBlock(LoadedTable(t), s.pos, s.numData))
  <2>1. LET storages == untrustedTableStorage[t] IN
        IF 0 \notin DOMAIN storages THEN Die /\ UNCHANGED <<tdata, dblock>>
        ELSE /\ dblock' = DataBlock(storages[0], s.pos, s.numData)
             /\ tdata' = Appended(t, s.pos, dblock')
             /\ UNCHANGED hostVars
    BY <1>2, <1>6, <1>s DEF ReadStep
  <2> QED
    BY <1>5, <2>1 DEF AsLoaded, hostVars
<1>8. ReadsInOrder(d) /\ (More(s) => d # <<>>) /\ (d # <<>> => Joint(s, d[1]))
  <2>1. steps \in Seq(Step)
    BY DEF TypeInv
  <2>2. /\ ReadsInOrder(Tail(steps)) /\ (More(steps[1]) => Tail(steps) # <<>>)
        /\ (Tail(steps) # <<>> => Joint(steps[1], Tail(steps)[1]))
    BY <1>1, <1>3, <2>1, OrderLeft
  <2> QED
    BY <1>s, <1>d, <2>2
<1>9. d # <<>> => Len(d) \in Nat /\ 1 \in 1 .. Len(d) /\ d[1] \in Step
  <2>1. d # <<>> => Len(d) # 0 /\ Len(d) \in Nat
    BY <1>2, EmptySeq
  <2> QED
    BY <1>2, <2>1
<1> DEFINE before == IF s.pos = 0 THEN <<>> ELSE tdata[t]
           rows == before \o DataBlock(LoadedTable(t), s.pos, s.numData)
<1>10. /\ before \in Seq(Row) /\ Len(before) = s.pos
       /\ \A k \in 1 .. s.pos : before[k] = <<t, TableSize[t] + 1 - k>>
  <2>1. CASE s.pos = 0
    BY <2>1
  <2>2. CASE s.pos # 0
    <3>1. HalfRead(t)
      BY <1>1, <1>2, <1>s, <2>2 DEF HalfRead, Later
    <3>2. tdata[t] \in Seq(Row)
      BY <1>5 DEF TypeInv
    <3>3. /\ Len(tdata[t]) = s.pos
          /\ \A k \in 1 .. Len(tdata[t]) : tdata[t][k] = <<t, TableSize[t] + 1 - k>>
      BY <1>3, <1>5, <1>s, <3>1 DEF HasRead
    <3> QED
      BY <2>2, <3>2, <3>3
  <2> QED
    BY <2>1, <2>2
<1>11. /\ tdata'[t] = rows
       /\ \A u \in 0 .. 1 : u # t => tdata'[u] = tdata[u]
  <2>1. tdata \in [0 .. 1 -> Seq(Row)]
    BY DEF TypeInv
  <2>2. tdata' = [tdata EXCEPT ![t] = (IF s.pos = 0 THEN <<>> ELSE tdata[t]) \o DataBlock(LoadedTable(t), s.pos, s.numData)]
    BY <1>5, <1>7, <2>1 DEF Appended
  <2> QED
    BY <1>5, <2>1, <2>2
<1> HIDE DEF before
<1> HIDE DEF rows
<1>12. /\ rows \in Seq(Row) /\ Len(rows) = s.pos + s.numData
       /\ \A k \in 1 .. s.pos + s.numData : rows[k] = <<t, TableSize[t] + 1 - k>>
  <2>1. PICK p, n : p = s.pos /\ n = s.numData
    OBVIOUS
  <2>2. /\ p \in Nat /\ n \in Nat /\ p + n <= TableSize[t] /\ before \in Seq(Row) /\ Len(before) = p
        /\ \A k \in 1 .. p : before[k] = <<t, TableSize[t] + 1 - k>>
    BY <1>5, <1>6, <1>10, <2>1
  <2>3. LET r == before \o DataBlock(LoadedTable(t), p, n) IN
        /\ r \in Seq(Row) /\ Len(r) = p + n
        /\ \A k \in 1 .. p + n : r[k] = <<t, TableSize[t] + 1 - k>>
    BY <1>5, <2>2, BlockAppended
  <2> QED
    BY <2>1, <2>3 DEF rows
<1>z. TableSize[t] \in Nat \ {0}
  BY <1>5, SessionAssumption
<1>13. ASSUME d # <<>>, Later(d[1])
       PROVE  More(s) /\ d[1].tableID = t /\ d[1].pos = s.pos + s.numData
  <2>1. d[1].op = "readDataBlock" /\ d[1].tableID = t /\ d[1].pos = s.pos + s.numData
    BY <1>8, <1>13, <1>s DEF Joint
  <2>2. d[1].numData # 0 /\ d[1].pos + d[1].numData <= TableSize[t]
    BY <1>8, <1>9, <1>13, <2>1 DEF ReadsInOrder
  <2>3. d[1].numData \in Nat
    BY <1>9, <1>13, <2>1, StepFields
  <2>4. s.pos + s.numData < TableSize[t]
    BY <1>6, <1>z, <2>1, <2>2, <2>3
  <2> QED
    BY <1>2, <1>s, <2>1, <2>4 DEF More
<1>14. HasRead(t)'
  <2>1. CASE More(s)
    <3>1. d # <<>> /\ d[1].op = "readDataBlock" /\ d[1].tableID = t /\ d[1].pos = s.pos + s.numData
      BY <1>8, <1>s, <2>1 DEF Joint
    <3>2. s.pos + s.numData # 0
      BY <1>5, <1>6
    <3>3. HalfRead(t)'
      BY <1>1, <3>1, <3>2 DEF HalfRead, Later
    <3>4. /\ Len(tdata'[t]) = steps'[1].pos
          /\ \A k \in 1 .. Len(tdata'[t]) : tdata'[t][k] = <<t, TableSize[t] + 1 - k>>
      BY <1>1, <1>11, <1>12, <3>1
    <3> QED
      BY <3>3, <3>4 DEF HasRead
  <2>2. CASE ~More(s)
    <3>1. ~HalfRead(t)'
      BY <1>1, <1>13, <2>2 DEF HalfRead, Later
    <3>2. s.pos + s.numData = TableSize[t]
      BY <1>2, <1>5, <1>6, <1>s, <1>z, <2>2 DEF More
    <3>3. OnceEach(t, rows) /\ Complete(t, rows)
      <4>1. s.pos + s.numData \in 0 .. TableSize[t]
        BY <1>z, <3>2
      <4> QED
        BY <1>5, <1>12, <3>2, <4>1, RowsLoaded
    <3> QED
      BY <1>11, <3>1, <3>3 DEF HasRead, OnceEach, Complete, RowsOf
  <2> QED
    BY <2>1, <2>2
<1>15. ASSUME NEW u \in TableIDs, u # t
       PROVE  HasRead(u)'
  <2>1. ~HalfRead(u)
    BY <1>15, <1>s DEF HalfRead
  <2>2. ~HalfRead(u)'
    BY <1>1, <1>13, <1>15 DEF HalfRead, Later
  <2>3. tdata'[u] = tdata[u]
    BY <1>4, <1>11, <1>15
  <2>4. /\ OnceEach(u, tdata[u])
        /\ (\A k \in 1 .. Len(steps) : ~(steps[k].op = "freeSpace" /\ steps[k].tableID = u)) =>
             Complete(u, tdata[u])
    BY <1>3, <2>1 DEF HasRead
  <2>5. ASSUME \A k \in 1 .. Len(d) : ~(d[k].op = "freeSpace" /\ d[k].tableID = u)
        PROVE  Complete(u, tdata[u])
    <3>1. ASSUME NEW k \in 1 .. Len(steps)
          PROVE  ~(steps[k].op = "freeSpace" /\ steps[k].tableID = u)
      <4>1. CASE k = 1
        BY <1>2, <1>s, <4>1
      <4>2. CASE k # 1
        <5>1. k - 1 \in 1 .. Len(d) /\ (k - 1) + 1 = k
          BY <1>2, <4>2
        <5>2. d[k - 1] = steps[k]
          BY <1>2, <5>1
        <5> QED
          BY <2>5, <5>1, <5>2
      <4> QED
        BY <4>1, <4>2
    <3> QED
      BY <2>4, <3>1
  <2> QED
    BY <1>1, <2>2, <2>3, <2>4, <2>5 DEF HasRead, OnceEach, Complete, RowsOf
<1>16. \A u \in TableIDs : HasRead(u)'
  BY <1>14, <1>15
<1>17. \A u : AsLoaded(u) => AsLoaded(u)'
  BY <1>7 DEF AsLoaded
<1>18. ASSUME NEW k \in 1 .. Len(steps'), steps'[k].op = "readDataBlock"
       PROVE  steps'[k].tableID \in TableIDs /\ AsLoaded(steps[k].tableID)'
  <2>1. steps'[k] = steps[k + 1] /\ k + 1 \in 1 .. Len(steps)
    BY <1>1, <1>2
  <2>2. steps[k + 1].tableID \in TableIDs /\ AsLoaded(steps[k + 1].tableID)
    BY <1>3, <1>18, <2>1
  <2>3. PICK u : u = steps[k + 1].tableID
    OBVIOUS
  <2>4. u \in TableIDs /\ AsLoaded(u)' /\ u = steps'[k].tableID
    BY <1>17, <2>1, <2>2, <2>3
  <2> QED
    BY <2>4 DEF AsLoaded
<1>19. (\E k \in 1 .. Len(calls') : Stage(calls'[k].name) <= 3) => \A u \in TableIDs : AsLoaded(u)'
  BY <1>1, <1>3, <1>17
<1> QED
  BY <1>1, <1>8, <1>16, <1>18, <1>19, ReadNext

(* Every step of two sequences is a step of the whole, and no other is.    *)
LEMMA StepsJoined ==
  ASSUME NEW a \in Seq(Step), NEW b \in Seq(Step), NEW ops,
         \A k \in 1 .. Len(a) : a[k].op \in ops, \A k \in 1 .. Len(b) : b[k].op \in ops
  PROVE  /\ a \o b \in Seq(Step) /\ \A k \in 1 .. Len(a \o b) : (a \o b)[k].op \in ops
         /\ \A j \in 1 .. Len(a) : \E k \in 1 .. Len(a \o b) : (a \o b)[k] = a[j]
         /\ \A j \in 1 .. Len(b) : \E k \in 1 .. Len(a \o b) : (a \o b)[k] = b[j]
<1>m. PICK s, m, n : s = a \o b /\ m = Len(a) /\ n = Len(b)
  OBVIOUS
<1>1. /\ s \in Seq(Step) /\ Len(s) = m + n /\ m \in Nat /\ n \in Nat
      /\ \A k \in 1 .. m : s[k] = a[k]
      /\ \A k \in m + 1 .. m + n : s[k] = b[k - m]
  <2>1. /\ a \o b \in Seq(Step) /\ Len(a \o b) = Len(a) + Len(b)
        /\ \A k \in 1 .. Len(a) : (a \o b)[k] = a[k]
        /\ \A k \in Len(a) + 1 .. Len(a) + Len(b) : (a \o b)[k] = b[k - Len(a)]
    BY Concatenation
  <2> QED
    BY <1>m, <2>1
<1>2. ASSUME NEW k \in 1 .. m + n
      PROVE  s[k].op \in ops
  <2>1. CASE k \in 1 .. m
    BY <1>m, <1>1, <2>1
  <2>2. CASE k \notin 1 .. m
    <3>1. k \in m + 1 .. m + n /\ k - m \in 1 .. n
      BY <1>1, <2>2
    <3> QED
      BY <1>m, <1>1, <3>1
  <2> QED
    BY <2>1, <2>2
<1>3. \A j \in 1 .. m : j \in 1 .. m + n /\ s[j] = a[j]
  BY <1>1
<1>4. ASSUME NEW j \in 1 .. n
      PROVE  m + j \in 1 .. m + n /\ s[m + j] = b[j]
  <2>1. m + j \in m + 1 .. m + n /\ m + j \in 1 .. m + n /\ (m + j) - m = j
    BY <1>1
  <2> QED
    BY <1>1, <2>1
<1> QED
  BY <1>m, <1>1, <1>2, <1>3, <1>4

(* The steps that take the place of a moveData read nothing, and free the  *)
(* table in the end.                                                       *)
LEMMA MoveDataPlan ==
  ASSUME TypeInv, EndsInv, StepInv, MoveDataStep, NEW t, t = steps[1].tableID
  PROVE  /\ t \in TableIDs /\ \A k \in 1 .. Len(steps) : steps[k].op = "moveData"
         /\ steps' \in Seq(Step)
         /\ \A k \in 1 .. Len(steps') :
              steps'[k].op \in {"delete_table", "writeBucket", "freeSpace", "moveData"}
         /\ \E k \in 1 .. Len(steps') : steps'[k].op = "freeSpace" /\ steps'[k].tableID = t
         /\ \A u \in 0 .. 1 : u # t => tdata'[u] = tdata[u]
         /\ OnceEach(t, tdata[t]) => OnceEach(t, tdata'[t])
<1>1. /\ steps # <<>> /\ Head(steps).op = "moveData"
  BY DEF MoveDataStep, InBody
<1>2. /\ Head(steps) = steps[1] /\ steps[1] \in Step /\ Single(steps[1]) /\ Len(steps) \in Nat \ {0}
      /\ Tail(steps) \in Seq(Step) /\ Len(Tail(steps)) = Len(steps) - 1
      /\ \A k \in 1 .. Len(Tail(steps)) : Tail(steps)[k] = steps[k + 1] /\ k + 1 \in 1 .. Len(steps)
      /\ \A k \in 1 .. Len(steps) : k > 1 => Ordered(steps[1], steps[k])
  BY <1>1, Pending
<1>3. t \in TableIDs /\ t \in 0 .. 1 /\ pds = "HTree" /\ parts[t] # <<>> /\ parts[t] \in Seq(Nat)
  <2>1. t \in TableIDs /\ pds = "HTree"
    BY <1>1, <1>2 DEF Single
  <2>2. t \in 0 .. 1
    BY <2>1 DEF TableIDs
  <2>3. parts[t] # <<>>
    BY <2>1 DEF EndsInv
  <2>4. parts \in [0 .. 1 -> Seq(Nat)]
    BY DEF TypeInv
  <2> QED
    BY <2>1, <2>2, <2>3, <2>4
<1>4. \A k \in 1 .. Len(steps) : steps[k].op = "moveData"
  <2> SUFFICES ASSUME NEW k \in 1 .. Len(steps)
               PROVE  steps[k].op = "moveData"
    OBVIOUS
  <2>1. k = 1 \/ k > 1
    BY <1>2
  <2> QED
    BY <1>1, <1>2, <2>1 DEF Ordered
<1>p. PICK p, n : p = Tail(steps) /\ n = Len(parts[t])
  OBVIOUS
<1>5. p \in Seq(Step) /\ \A k \in 1 .. Len(p) : p[k].op = "moveData"
  BY <1>2, <1>4, <1>p
<1>6. n \in Nat /\ DOMAIN parts[t] = 1 .. n
  BY <1>3, <1>p
<1>7. /\ \E places \in kSubset(Len(tdata[t]), 1 .. Last(parts[t])) :
           tdata' = [tdata EXCEPT ![t] = Padded(@, places, Last(parts[t]))]
      /\ steps' = <<delete_table_OCALL(t)>> \o [i \in 1 .. n |-> writeBucket(t, i)] \o <<freeSpace(t)>> \o p
  BY <1>2, <1>p, <1>6 DEF MoveDataStep
<1>8. /\ \A u \in 0 .. 1 : u # t => tdata'[u] = tdata[u]
      /\ OnceEach(t, tdata[t]) => OnceEach(t, tdata'[t])
  <2>1. Last(parts[t]) \in Nat
    BY <1>3, LastOf DEF Last
  <2>2. tdata \in [0 .. 1 -> Seq(Row)] /\ tdata[t] \in Seq(Row)
    BY <1>3 DEF TypeInv
  <2>3. PICK places \in kSubset(Len(tdata[t]), 1 .. Last(parts[t])) :
          tdata' = [tdata EXCEPT ![t] = Padded(@, places, Last(parts[t]))]
    BY <1>7
  <2>4. /\ tdata'[t] = Padded(tdata[t], places, Last(parts[t]))
        /\ \A u \in 0 .. 1 : u # t => tdata'[u] = tdata[u]
    BY <1>3, <2>2, <2>3
  <2>5. OnceEach(t, tdata[t]) => OnceEach(t, Padded(tdata[t], places, Last(parts[t])))
    BY <2>1, <2>2, PaddedOnce
  <2> QED
    BY <2>4, <2>5
<1> DEFINE a == <<delete_table_OCALL(t)>>
           b == [i \in 1 .. n |-> writeBucket(t, i)]
           c == <<freeSpace(t)>>
           ops == {"delete_table", "writeBucket", "freeSpace", "moveData"}
<1>9. /\ a \in Seq(Step) /\ Len(a) = 1 /\ a[1] = delete_table_OCALL(t)
      /\ c \in Seq(Step) /\ Len(c) = 1 /\ c[1] = freeSpace(t)
  <2>1. delete_table_OCALL(t) \in Step /\ freeSpace(t) \in Step
    BY <1>3, StepMade
  <2> QED
    BY <2>1, OneStep
<1>10. b \in Seq(Step) /\ Len(b) = n /\ \A i \in 1 .. n : b[i] = writeBucket(t, i)
  <2>1. \A i \in 1 .. n : writeBucket(t, i) \in Step
    <3> SUFFICES ASSUME NEW i \in 1 .. n
                 PROVE  writeBucket(t, i) \in Step
      OBVIOUS
    <3>1. i \in Nat
      BY <1>6
    <3> QED
      BY <1>3, <3>1, StepMade
  <2>2. b \in [1 .. n -> Step] /\ \A i \in 1 .. n : b[i] = writeBucket(t, i)
    BY <2>1
  <2> QED
    BY <1>6, <2>2, FunctionIsSequence
<1>11. steps' = ((a \o b) \o c) \o p
  BY <1>7
<1> HIDE DEF a, b, c
<1>12. /\ \A k \in 1 .. Len(a) : a[k].op \in ops
       /\ \A k \in 1 .. Len(b) : b[k].op \in ops
       /\ \A k \in 1 .. Len(c) : c[k].op \in ops
       /\ \A k \in 1 .. Len(p) : p[k].op \in ops
       /\ c[1].op = "freeSpace" /\ c[1].tableID = t
  <2>1. /\ \A i : writeBucket(t, i).op \in ops
        /\ delete_table_OCALL(t).op \in ops
        /\ freeSpace(t).op \in ops /\ freeSpace(t).op = "freeSpace" /\ freeSpace(t).tableID = t
    BY DEF writeBucket, delete_table_OCALL, freeSpace
  <2>2. \A k \in 1 .. Len(p) : p[k].op \in ops
    BY <1>5
  <2> HIDE DEF ops
  <2> QED
    BY <1>9, <1>10, <2>1, <2>2
<1> HIDE DEF ops
<1>13. a \o b \in Seq(Step) /\ \A k \in 1 .. Len(a \o b) : (a \o b)[k].op \in ops
  BY <1>9, <1>10, <1>12, StepsJoined
<1>14. PICK ab : ab = a \o b
  OBVIOUS
<1>15. /\ ab \o c \in Seq(Step) /\ \A k \in 1 .. Len(ab \o c) : (ab \o c)[k].op \in ops
       /\ \A j \in 1 .. Len(c) : \E k \in 1 .. Len(ab \o c) : (ab \o c)[k] = c[j]
  <2>1. ab \in Seq(Step) /\ \A k \in 1 .. Len(ab) : ab[k].op \in ops
    BY <1>13, <1>14
  <2> QED
    BY <1>9, <1>12, <2>1, StepsJoined
<1>16. PICK abc : abc = ab \o c
  OBVIOUS
<1>17. /\ abc \in Seq(Step) /\ \A k \in 1 .. Len(abc) : abc[k].op \in ops
       /\ \E k \in 1 .. Len(abc) : abc[k] = c[1]
  BY <1>9, <1>15, <1>16
<1>18. /\ abc \o p \in Seq(Step) /\ \A k \in 1 .. Len(abc \o p) : (abc \o p)[k].op \in ops
       /\ \A j \in 1 .. Len(abc) : \E k \in 1 .. Len(abc \o p) : (abc \o p)[k] = abc[j]
  BY <1>5, <1>12, <1>17, StepsJoined
<1>19. PICK s : s = abc \o p
  OBVIOUS
<1>20. /\ s \in Seq(Step) /\ \A k \in 1 .. Len(s) : s[k].op \in ops
       /\ \E k \in 1 .. Len(s) : s[k].op = "freeSpace" /\ s[k].tableID = t
  <2>1. PICK j \in 1 .. Len(abc) : abc[j] = c[1]
    BY <1>17
  <2>2. PICK k \in 1 .. Len(s) : s[k] = abc[j]
    BY <1>18, <1>19
  <2>3. s[k].op = "freeSpace" /\ s[k].tableID = t
    BY <1>12, <2>1, <2>2
  <2> QED
    BY <1>18, <1>19, <2>3
<1>21. steps' = s
  BY <1>11, <1>14, <1>16, <1>19
<1>22. /\ steps' \in Seq(Step) /\ \A k \in 1 .. Len(steps') : steps'[k].op \in ops
       /\ \E k \in 1 .. Len(steps') : steps'[k].op = "freeSpace" /\ steps'[k].tableID = t
  BY <1>20, <1>21
<1> QED
  BY <1>3, <1>4, <1>8, <1>22 DEF ops

(* moveData starts to write: the table has its rows among dummies.         *)
LEMMA ReadMoveData ==
  ASSUME TypeInv, StartInv, ReadInv, MoveDataStep
  PROVE  ReadInv'
<1>1. EndsInv /\ StepInv
  BY DEF StartInv
<1>2. UNCHANGED <<usage, calls, lost, untrustedTableStorage>>
  BY DEF MoveDataStep, faultVars, hostVars
<1> SUFFICES ASSUME ~lost
             PROVE  ReadInv'
  BY <1>2 DEF ReadInv
<1>t. PICK t : t = steps[1].tableID
  OBVIOUS
<1>3. /\ t \in TableIDs /\ \A k \in 1 .. Len(steps) : steps[k].op = "moveData"
      /\ steps' \in Seq(Step)
      /\ \A k \in 1 .. Len(steps') :
           steps'[k].op \in {"delete_table", "writeBucket", "freeSpace", "moveData"}
      /\ \E k \in 1 .. Len(steps') : steps'[k].op = "freeSpace" /\ steps'[k].tableID = t
      /\ \A u \in 0 .. 1 : u # t => tdata'[u] = tdata[u]
      /\ OnceEach(t, tdata[t]) => OnceEach(t, tdata'[t])
  BY <1>1, <1>t, MoveDataPlan
<1>4. /\ (\E k \in 1 .. Len(calls) : Stage(calls[k].name) <= 3) => \A u \in TableIDs : AsLoaded(u)
      /\ \A u \in TableIDs : HasRead(u)
  BY DEF ReadInv
<1>5. ReadsInOrder(steps') /\ Fresh(steps')
  <2>1. PICK s : s = steps'
    OBVIOUS
  <2>2. s \in Seq(Step) /\ \A k \in 1 .. Len(s) : s[k].op # "readDataBlock" /\ s[k].op # "abort"
    BY <1>3, <2>1
  <2>3. ReadsInOrder(s) /\ Fresh(s)
    BY <2>2, QuietOrder
  <2> QED
    BY <2>1, <2>3
<1>6. \A k \in 1 .. Len(steps') : steps'[k].op # "readDataBlock"
  BY <1>3
<1>7. (\E k \in 1 .. Len(calls') : Stage(calls'[k].name) <= 3) => \A u \in TableIDs : AsLoaded(u)'
  BY <1>2, <1>4 DEF AsLoaded
<1>8. ASSUME NEW u \in TableIDs
      PROVE  HasRead(u)'
  <2>1. ~HalfRead(u)'
    BY <1>5 DEF HalfRead, Fresh, Later
  <2>2. ~HalfRead(u)
    <3>1. steps # <<>> /\ Len(steps) \in Nat \ {0}
      BY Pending, <1>1 DEF MoveDataStep, InBody
    <3>2. steps[1].op = "moveData"
      BY <1>3, <3>1
    <3> QED
      BY <3>2 DEF HalfRead, Later
  <2>3. OnceEach(u, tdata[u]) /\ Complete(u, tdata[u])
    BY <1>3, <1>4, <2>2 DEF HasRead
  <2>4. CASE u = t
    BY <1>3, <2>1, <2>3, <2>4 DEF HasRead, OnceEach, Complete, RowsOf
  <2>5. CASE u # t
    <3>1. tdata'[u] = tdata[u]
      BY <1>3, <2>5 DEF TableIDs
    <3> QED
      BY <2>1, <2>3, <3>1 DEF HasRead, OnceEach, Complete, RowsOf
  <2> QED
    BY <2>4, <2>5
<1> QED
  BY <1>2, <1>5, <1>6, <1>7, <1>8, ReadNext

(* A bucket is written from what was read.                                 *)
LEMMA ReadWriteBucket ==
  ASSUME TypeInv, StartInv, ReadInv, WriteBucketStep
  PROVE  ReadInv'
<1>1. EndsInv /\ StepInv
  BY DEF StartInv
<1>2. /\ steps # <<>> /\ Head(steps).op = "writeBucket"
      /\ UNCHANGED <<usage, calls, lost, parts, pds, tdata, untrustedTableStorage>>
  BY DEF WriteBucketStep, InBody, faultVars, hostVars, enclaveVars
<1> SUFFICES ASSUME ~lost
             PROVE  ReadInv'
  BY <1>2 DEF ReadInv
<1>p. PICK p, h, m : p = Tail(steps) /\ h = steps[1] /\ m = Len(p)
  OBVIOUS
<1>3. /\ Head(steps) = h /\ h \in Step /\ Single(h) /\ h.op = "writeBucket"
      /\ p \in Seq(Step) /\ m \in Nat /\ Len(steps) \in Nat \ {0} /\ m = Len(steps) - 1
      /\ \A k \in 1 .. m : p[k] = steps[k + 1] /\ k + 1 \in 1 .. Len(steps)
  <2>1. /\ Head(steps) = steps[1] /\ steps[1] \in Step /\ Single(steps[1])
        /\ Tail(steps) \in Seq(Step) /\ Len(steps) \in Nat \ {0} /\ Len(Tail(steps)) = Len(steps) - 1
        /\ \A k \in 1 .. Len(Tail(steps)) : Tail(steps)[k] = steps[k + 1] /\ k + 1 \in 1 .. Len(steps)
    BY <1>1, <1>2, Pending
  <2> HIDE DEF Single
  <2>2. m \in Nat
    BY <1>p, <2>1
  <2> QED
    BY <1>2, <1>p, <2>1, <2>2
<1>t. PICK t, i : t = h.tableID /\ i = h.bucket
  OBVIOUS
<1>4. /\ t \in TableIDs /\ t \in 0 .. 1 /\ pds = "HTree" /\ i \in 1 .. Len(parts[t])
      /\ Len(tdata[t]) = Last(parts[t])
  BY <1>3, <1>t DEF Single, TableIDs
<1> DEFINE rows == [j \in 1 .. NumData(t, i) |-> tdata[t][BinStart(t, i) + j]]
           bucket == FirstBucket(t) + i - 1
<1>5. rows \in Seq(Row) /\ bucket \in Nat
  <2>1. tdata \in [0 .. 1 -> Seq(Row)] /\ parts \in [0 .. 1 -> Seq(Nat)]
    BY DEF TypeInv
  <2> QED
    BY <1>1, <1>4, <2>1, BucketRows
<1>6. steps' = WriteDataBlock_Wrapper(bucket, rows) \o p
  BY <1>3, <1>p, <1>t DEF WriteBucketStep
<1> HIDE DEF rows, bucket
<1>w. PICK w, n, s : w = WriteDataBlock_Wrapper(bucket, rows) /\ n = Len(w) /\ s = w \o p
  OBVIOUS
<1>7. w \in Seq(Step) /\ n \in Nat /\ \A k \in 1 .. n : w[k].op = "writeDataBlock"
  <2>1. /\ WriteDataBlock_Wrapper(bucket, rows) \in Seq(Step)
        /\ Len(WriteDataBlock_Wrapper(bucket, rows)) \in Nat \ {0}
        /\ \A k \in 1 .. Len(WriteDataBlock_Wrapper(bucket, rows)) :
             WriteDataBlock_Wrapper(bucket, rows)[k].op = "writeDataBlock"
    BY <1>5, WriteBlocks
  <2> QED
    BY <1>w, <2>1
<1>8. ReadsInOrder(w) /\ Fresh(w)
  <2>1. \A k \in 1 .. Len(w) : w[k].op # "readDataBlock" /\ w[k].op # "abort"
    BY <1>7, <1>w
  <2> QED
    BY <1>7, <2>1, QuietOrder
<1>9. /\ ReadsInOrder(steps)
      /\ \A k \in 1 .. Len(steps) : steps[k].op = "readDataBlock" =>
           steps[k].tableID \in TableIDs /\ AsLoaded(steps[k].tableID)
      /\ (\E k \in 1 .. Len(calls) : Stage(calls[k].name) <= 3) => \A u \in TableIDs : AsLoaded(u)
      /\ \A u \in TableIDs : HasRead(u)
  BY DEF ReadInv
<1>10. ReadsInOrder(p) /\ Fresh(p)
  <2>1. steps \in Seq(Step) /\ steps[1].op # "readDataBlock"
    BY <1>3, <1>p DEF TypeInv
  <2> QED
    BY <1>2, <1>9, <1>p, <2>1, OrderLeft
<1>11. \A k \in 1 .. Len(w), l \in 1 .. Len(p) : Undisturbed(w[k], p[l])
  BY <1>7, <1>w DEF Undisturbed, Changing
<1>12. ReadsInOrder(s) /\ Fresh(s)
  BY <1>3, <1>7, <1>8, <1>10, <1>11, <1>w, OrderJoined
<1>13. /\ s \in Seq(Step) /\ Len(s) = n + m
       /\ \A k \in 1 .. n : s[k] = w[k]
       /\ \A k \in n + 1 .. n + m : s[k] = p[k - n]
  <2>1. /\ w \o p \in Seq(Step) /\ Len(w \o p) = Len(w) + Len(p)
        /\ \A k \in 1 .. Len(w) : (w \o p)[k] = w[k]
        /\ \A k \in Len(w) + 1 .. Len(w) + Len(p) : (w \o p)[k] = p[k - Len(w)]
    BY <1>3, <1>7, Concatenation
  <2> QED
    BY <1>p, <1>w, <2>1
<1>14. steps' = s
  BY <1>6, <1>w
<1>15. ASSUME NEW k \in 1 .. n + m, s[k].op = "readDataBlock"
       PROVE  s[k].tableID \in TableIDs /\ AsLoaded(s[k].tableID)
  <2>1. k \notin 1 .. n
    BY <1>7, <1>13, <1>15
  <2>2. k \in n + 1 .. n + m /\ k - n \in 1 .. m
    BY <1>3, <1>7, <2>1
  <2>3. s[k] = steps[(k - n) + 1] /\ (k - n) + 1 \in 1 .. Len(steps)
    BY <1>3, <1>13, <2>2
  <2> QED
    BY <1>9, <1>15, <2>3
<1>16. \A u : AsLoaded(u) => AsLoaded(u)'
  BY <1>2 DEF AsLoaded
<1>17. ASSUME NEW k \in 1 .. Len(steps'), steps'[k].op = "readDataBlock"
       PROVE  steps'[k].tableID \in TableIDs /\ AsLoaded(steps[k].tableID)'
  <2>1. s[k].tableID \in TableIDs /\ AsLoaded(s[k].tableID) /\ steps'[k] = s[k]
    BY <1>13, <1>14, <1>15, <1>17
  <2>2. PICK u : u = s[k].tableID
    OBVIOUS
  <2>3. u \in TableIDs /\ AsLoaded(u)' /\ u = steps'[k].tableID
    BY <1>16, <2>1, <2>2
  <2> QED
    BY <2>3 DEF AsLoaded
<1>18. (\E k \in 1 .. Len(calls') : Stage(calls'[k].name) <= 3) => \A u \in TableIDs : AsLoaded(u)'
  BY <1>2, <1>9, <1>16
<1>19. ASSUME NEW u \in TableIDs
       PROVE  HasRead(u)'
  <2>1. ~HalfRead(u)'
    BY <1>12, <1>14 DEF HalfRead, Fresh, Later
  <2>2. ~HalfRead(u)
    BY <1>3, <1>p DEF HalfRead, Later
  <2>3. /\ OnceEach(u, tdata[u])
        /\ (\A k \in 1 .. Len(steps) : ~(steps[k].op = "freeSpace" /\ steps[k].tableID = u)) =>
             Complete(u, tdata[u])
    BY <1>9, <2>2 DEF HasRead
  <2>4. ASSUME \A k \in 1 .. Len(s) : ~(s[k].op = "freeSpace" /\ s[k].tableID = u)
        PROVE  Complete(u, tdata[u])
    <3>1. ASSUME NEW k \in 1 .. Len(steps)
          PROVE  ~(steps[k].op = "freeSpace" /\ steps[k].tableID = u)
      <4>1. CASE k = 1
        BY <1>3, <1>p, <4>1
      <4>2. CASE k # 1
        <5>1. k - 1 \in 1 .. m /\ (k - 1) + 1 = k /\ n + (k - 1) \in n + 1 .. n + m
              /\ n + (k - 1) \in 1 .. Len(s) /\ (n + (k - 1)) - n = k - 1
          BY <1>3, <1>7, <1>13, <4>2
        <5>2. s[n + (k - 1)] = steps[k]
          BY <1>3, <1>13, <5>1
        <5> QED
          BY <2>4, <5>1, <5>2
      <4> QED
        BY <4>1, <4>2
    <3> QED
      BY <2>3, <3>1
  <2> QED
    BY <1>2, <1>14, <2>1, <2>3, <2>4 DEF HasRead, OnceEach, Complete, RowsOf
<1> QED
  BY <1>2, <1>12, <1>14, <1>17, <1>18, <1>19, ReadNext

(* An enclave that is lost has what it had read.                           *)
LEMMA ReadAborted ==
  ASSUME TypeInv, StartInv, ReadInv, AbortStep
  PROVE  ReadInv'
<1>1. /\ steps # <<>> /\ Head(steps).op = "abort" /\ steps' = <<>>
      /\ UNCHANGED <<usage, calls, lost, tdata, untrustedTableStorage>>
  BY DEF AbortStep, InBody, Refused, enclaveVars, hostVars
<1> SUFFICES ASSUME ~lost
             PROVE  ReadInv'
  BY <1>1 DEF ReadInv
<1>2. Len(steps) \in Nat \ {0} /\ Head(steps) = steps[1]
  BY <1>1, TailOf DEF TypeInv
<1>3. steps[1].op = "abort" /\ 1 \in 1 .. Len(steps)
  BY <1>1, <1>2
<1>4. /\ ReadsInOrder(steps)
      /\ (\E k \in 1 .. Len(calls) : Stage(calls[k].name) <= 3) => \A u \in TableIDs : AsLoaded(u)
      /\ \A u \in TableIDs : HasRead(u)
  BY DEF ReadInv
<1>5. \A k \in 1 .. Len(steps) : steps[k].op # "freeSpace"
  <2> SUFFICES ASSUME NEW k \in 1 .. Len(steps)
               PROVE  steps[k].op # "freeSpace"
    OBVIOUS
  <2>1. k = 1 \/ 1 < k
    BY <1>2
  <2>2. 1 < k => Undisturbed(steps[1], steps[k])
    BY <1>3, <1>4 DEF ReadsInOrder
  <2> QED
    BY <1>3, <2>1, <2>2 DEF Undisturbed
<1>6. ReadsInOrder(steps') /\ \A k \in 1 .. Len(steps') : FALSE
  <2> DEFINE s == <<>>
  <2>1. s \in Seq(Step) /\ \A k \in 1 .. Len(s) : FALSE
    OBVIOUS
  <2> HIDE DEF s
  <2>2. ReadsInOrder(s)
    BY <2>1, QuietOrder
  <2>3. steps' = s
    BY <1>1 DEF s
  <2> QED
    BY <2>1, <2>2, <2>3
<1>7. (\E k \in 1 .. Len(calls') : Stage(calls'[k].name) <= 3) => \A u \in TableIDs : AsLoaded(u)'
  BY <1>1, <1>4 DEF AsLoaded
<1>8. ASSUME NEW u \in TableIDs
      PROVE  HasRead(u)'
  <2>1. ~HalfRead(u) /\ ~HalfRead(u)'
    BY <1>1, <1>3 DEF HalfRead, Later
  <2>2. OnceEach(u, tdata[u]) /\ Complete(u, tdata[u])
    BY <1>4, <1>5, <2>1 DEF HasRead
  <2> QED
    BY <1>1, <2>1, <2>2 DEF HasRead, OnceEach, Complete, RowsOf
<1> QED
  BY <1>1, <1>6, <1>7, <1>8, ReadNext

(* Whatever step is done.                                                  *)
LEMMA ReadSteps ==
  ASSUME TypeInv, TypeInv', StartInv, ReadInv, Steps
  PROVE  ReadInv'
<1>1. CASE LostRead \/ LostRequest
  <2>1. lost' = TRUE
    BY <1>1 DEF LostRead, LostRequest
  <2> QED
    BY <2>1 DEF ReadInv
<1>2. CASE \/ WriteStep \/ ExpandStep \/ InitBinStep \/ DeleteBinStep \/ DeleteTableStep
           \/ MoveBinStep \/ CollectStep \/ WriteIndexStep
  BY <1>2, ReadHost
<1>3. CASE SortStep \/ FreeStep
  BY <1>3, ReadInside
<1>4. CASE ReadStep
  BY <1>4, ReadBlockRead
<1>5. CASE MoveDataStep
  BY <1>5, ReadMoveData
<1>6. CASE WriteBucketStep
  BY <1>6, ReadWriteBucket
<1>7. CASE AbortStep
  BY <1>7, ReadAborted
<1> QED
  BY <1>1, <1>2, <1>3, <1>4, <1>5, <1>6, <1>7 DEF Steps

(* An ECALL returns or fails.                                              *)
LEMMA ReadOther ==
  ASSUME CallsInv, ReadInv, ReturnEcall \/ FailedEcall \/ UNCHANGED sessionVars
  PROVE  ReadInv'
<1>1. UNCHANGED <<usage, steps, lost, tdata, untrustedTableStorage>>
  BY DEF ReturnEcall, FailedEcall, Refused, sessionVars, enclaveVars, faultVars, hostVars
<1> SUFFICES ASSUME ~lost
             PROVE  ReadInv'
  BY <1>1 DEF ReadInv
<1>2. /\ ReadsInOrder(steps)
      /\ \A k \in 1 .. Len(steps) : steps[k].op = "readDataBlock" =>
           steps[k].tableID \in TableIDs /\ AsLoaded(steps[k].tableID)
      /\ (\E k \in 1 .. Len(calls) : Stage(calls[k].name) <= 3) => \A u \in TableIDs : AsLoaded(u)
      /\ \A u \in TableIDs : HasRead(u)
  BY DEF ReadInv
<1>3. (\E k \in 1 .. Len(calls') : Stage(calls'[k].name) <= 3) =>
        \E k \in 1 .. Len(calls) : Stage(calls[k].name) <= 3
  <2>1. CASE UNCHANGED calls
    BY <2>1
  <2>2. CASE FailedEcall
    <3>1. calls # <<>> /\ calls' = Tail(calls)
      BY <2>2 DEF FailedEcall
    <3>2. /\ Len(calls) \in Nat \ {0} /\ Len(Tail(calls)) = Len(calls) - 1
          /\ \A k \in 1 .. Len(calls) - 1 : Tail(calls)[k] = calls[k + 1]
      BY <3>1, TailOf DEF CallsInv
    <3>3. \A k \in 1 .. Len(calls') : calls'[k] = calls[k + 1] /\ k + 1 \in 1 .. Len(calls)
      BY <3>1, <3>2
    <3> QED
      BY <3>3
  <2>3. UNCHANGED calls \/ FailedEcall
    BY DEF ReturnEcall, sessionVars
  <2> QED
    BY <2>1, <2>2, <2>3
<1>4. \A u : AsLoaded(u) => AsLoaded(u)'
  BY <1>1 DEF AsLoaded
<1>5. \A k \in 1 .. Len(steps') : steps'[k].op = "readDataBlock" =>
        steps'[k].tableID \in TableIDs /\ AsLoaded(steps[k].tableID)'
  <2> SUFFICES ASSUME NEW k \in 1 .. Len(steps), steps[k].op = "readDataBlock"
               PROVE  steps[k].tableID \in TableIDs /\ AsLoaded(steps[k].tableID)'
    BY <1>1
  <2>1. steps[k].tableID \in TableIDs /\ AsLoaded(steps[k].tableID)
    BY <1>2
  <2> QED
    BY <1>1, <2>1 DEF AsLoaded
<1>6. \A u \in TableIDs : HasRead(u)'
  BY <1>1, <1>2 DEF HasRead, HalfRead, OnceEach, Complete, RowsOf
<1> QED
  BY <1>1, <1>2, <1>3, <1>4, <1>5, <1>6, ReadNext

(* At first every table is as it was loaded, and nothing is read.          *)
LEMMA ReadInit ==
  ASSUME SessionInit
  PROVE  ReadInv
<1>1. /\ steps = <<>> /\ tdata = [t \in 0 .. 1 |-> <<>>]
      /\ untrustedTableStorage = [t \in 0 .. 1 |-> IF t \in TableIDs THEN With(NoStorage, 0, LoadedTable(t)) ELSE NoStorage]
  BY DEF SessionInit
<1>2. TableIDs \subseteq 0 .. 1
  BY DEF TableIDs
<1>3. ReadsInOrder(steps) /\ \A k \in 1 .. Len(steps) : FALSE
  <2> DEFINE s == <<>>
  <2>1. s \in Seq(Step) /\ \A k \in 1 .. Len(s) : FALSE
    OBVIOUS
  <2> HIDE DEF s
  <2>2. ReadsInOrder(s)
    BY <2>1, QuietOrder
  <2>3. steps = s
    BY <1>1 DEF s
  <2> QED
    BY <2>1, <2>2, <2>3
<1>4. ASSUME NEW t \in TableIDs
      PROVE  AsLoaded(t) /\ HasRead(t)
  <2>1. untrustedTableStorage[t] = With(NoStorage, 0, LoadedTable(t)) /\ tdata[t] = <<>>
    BY <1>1, <1>2
  <2>2. 0 \in DOMAIN With(NoStorage, 0, LoadedTable(t)) /\ With(NoStorage, 0, LoadedTable(t))[0] = LoadedTable(t)
    BY DEF With
  <2>3. AsLoaded(t)
    BY <2>1, <2>2 DEF AsLoaded
  <2>4. ~HalfRead(t)
    BY <1>1 DEF HalfRead
  <2>5. \A rows : rows = <<>> => OnceEach(t, rows) /\ Complete(t, rows)
    BY DEF OnceEach, Complete
  <2> QED
    BY <2>1, <2>3, <2>4, <2>5 DEF HasRead
<1> QED
  BY <1>3, <1>4 DEF ReadInv

(* What holds of every table then is what RowsRead says.                   *)
LEMMA ReadEnough ==
  ASSUME TypeInv, Idle, ReadInv
  PROVE  RowsRead
<1> SUFFICES ASSUME ~lost, NEW t \in TableIDs
             PROVE  /\ OnceEach(t, tdata[t])
                    /\ call = NoCall /\ tdata[t] # <<>> => {tdata[t][k] : k \in DOMAIN tdata[t]} = RowsOf(t)
  BY DEF RowsRead, OnceEach
<1>1. /\ ReadsInOrder(steps) /\ HasRead(t)
      /\ \A k \in 1 .. Len(steps) : steps[k].op = "readDataBlock" =>
           steps[k].tableID \in TableIDs /\ AsLoaded(steps[k].tableID)
  BY DEF ReadInv
<1>2. t \in 0 .. 1 /\ tdata[t] \in Seq(Row)
  BY DEF TypeInv, TableIDs
<1>3. OnceEach(t, tdata[t])
  <2>1. CASE HalfRead(t)
    <3>1. steps # <<>> /\ steps[1].op = "readDataBlock" /\ steps[1].tableID = t
      BY <2>1 DEF HalfRead, Later
    <3>2. Len(steps) \in Nat \ {0} /\ steps[1] \in Step
      BY <3>1, TailOf DEF TypeInv
    <3>3. steps[1].pos \in Nat /\ steps[1].numData \in Nat
      BY <3>1, <3>2, StepFields
    <3>4. 1 \in 1 .. Len(steps)
      BY <3>2
    <3>5. steps[1].pos + steps[1].numData <= TableSize[t]
      BY <1>1, <3>1, <3>4 DEF ReadsInOrder
    <3>6. TableSize[t] \in Nat
      BY <1>2, SessionAssumption
    <3>7. steps[1].pos \in 0 .. TableSize[t]
      BY <3>3, <3>5, <3>6
    <3>8. /\ Len(tdata[t]) = steps[1].pos
          /\ \A k \in 1 .. Len(tdata[t]) : tdata[t][k] = <<t, TableSize[t] + 1 - k>>
      BY <1>1, <2>1 DEF HasRead
    <3> QED
      BY <1>2, <3>7, <3>8, RowsLoaded
  <2>2. CASE ~HalfRead(t)
    BY <1>1, <2>2 DEF HasRead
  <2> QED
    BY <2>1, <2>2
<1>4. ASSUME call = NoCall, tdata[t] # <<>>
      PROVE  {tdata[t][k] : k \in DOMAIN tdata[t]} = RowsOf(t)
  <2>1. steps = <<>> /\ Len(steps) = 0
    BY <1>4 DEF Idle
  <2>2. ~HalfRead(t) /\ \A k \in 1 .. Len(steps) : FALSE
    BY <2>1 DEF HalfRead
  <2>3. Complete(t, tdata[t])
    BY <1>1, <2>2 DEF HasRead
  <2>4. \A k \in DOMAIN tdata[t] : tdata[t][k] \in RowsOf(t)
    BY <1>3, <2>3 DEF OnceEach, Complete
  <2>5. \A row \in RowsOf(t) : \E k \in DOMAIN tdata[t] : tdata[t][k] = row
    BY <1>4, <2>3 DEF Complete
  <2> QED
    BY <2>4, <2>5
<1> QED
  BY <1>3, <1>4

(* A table that has been read block by block is complete, and no row of it *)
(* is there twice, for any tables, blocks and noise, unless a request was  *)
(* lost.                                                                   *)
THEOREM SessionReads == SessionSpec => []RowsRead
<1>1. SessionInit => ReadInv
  BY ReadInit
<1>2. SessionInv /\ SessionInv' /\ ReadInv /\ [SessionNext]_sessionVars => ReadInv'
  <2> SUFFICES ASSUME CallsInv, TypeInv, TypeInv', StartInv, ReadInv, [SessionNext]_sessionVars
               PROVE  ReadInv'
    BY DEF SessionInv
  <2>1. Idle
    BY DEF StartInv
  <2>2. CASE Body
    BY <2>1, <2>2, ReadBody
  <2>3. CASE Steps
    BY <2>3, ReadSteps
  <2>4. CASE ReturnEcall \/ FailedEcall \/ UNCHANGED sessionVars
    BY <2>4, ReadOther
  <2> QED
    BY <2>2, <2>3, <2>4 DEF SessionNext
<1>3. SessionInv /\ ReadInv => RowsRead
  BY ReadEnough DEF SessionInv, StartInv
<1> QED
  BY <1>1, <1>2, <1>3, SessionInvariant, PTL DEF SessionSpec
=============================================================================
