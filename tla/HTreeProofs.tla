----------------------------- MODULE HTreeProofs -----------------------------
(***************************************************************************)
(* Every query over ordered buckets joins the pairs of buckets that share  *)
(* a key, each of them once, however many buckets there are and whatever   *)
(* their ranges; and the buckets that HTree builds are ordered, cover the  *)
(* domain of the keys, and are as large as the rows that belong in them.   *)
(***************************************************************************)
EXTENDS HTree, BlockProofs, FiniteSetTheorems

walk == <<buckets, walkVars>>

WalkNext == WalkStep \/ \E qs, qe \in Int, jattr \in BOOLEAN : StartWalk(qs, qe, jattr)

(* The pairs that meet and that the walk has gone past when it looks at    *)
(* the buckets m and n.                                                    *)
Past(m, n) == {p \in Pairs : Meet(p[1], p[2]) /\ (p[1] < m \/ p[2] < n)}

Ordered == buckets \in [{1, 2} -> Seq(Ranged)] /\ \A t \in {1, 2} : InOrder(buckets[t])

Typed ==
  /\ request \in [qs : Int, qe : Int, jattr : BOOLEAN]
  /\ i \in Nat \ {0} /\ j \in Nat \ {0}
  /\ written \in Nat /\ selectedCountIdx \in Nat /\ written < selectedCountIdx
  /\ pass \in {"idle", "measure", "join", "joined"}

(* What has been joined is what the walk has gone past.                    *)
JoinedPast ==
  /\ pass = "measure" => joined = {}
  /\ pass = "join" => joined = Past(i, j)
  /\ EveryPairJoined

WalkInv == Ordered /\ Typed /\ JoinedPast

-----------------------------------------------------------------------------
(* The buckets and their bounds.                                           *)
LEMMA BucketTypes ==
  ASSUME Ordered, NEW t \in {1, 2}
  PROVE  /\ Len(buckets[t]) \in Nat
         /\ \A k \in 1 .. Len(buckets[t]) :
              /\ buckets[t][k].keyMin \in Int /\ buckets[t][k].keyMax \in Int
              /\ buckets[t][k].numData \in Nat
<1>1. buckets[t] \in Seq(Ranged)
  BY DEF Ordered
<1>2. Len(buckets[t]) \in Nat /\ \A k \in 1 .. Len(buckets[t]) : buckets[t][k] \in Ranged
  BY <1>1
<1> QED
  BY <1>2 DEF Ranged

(* The two buckets in front of the walk.                                   *)
LEMMA InFront ==
  ASSUME Ordered, Typed, Walking
  PROVE  i \in 1 .. Len(buckets[1]) /\ j \in 1 .. Len(buckets[2])
<1>1. Len(buckets[1]) \in Nat /\ Len(buckets[2]) \in Nat
  BY BucketTypes
<1> QED
  BY <1>1 DEF Typed, Walking

(* A bucket of table 1 whose keys end before those of l begin meets no     *)
(* bucket of table 2 from l on.                                            *)
LEMMA MeetsNoLater ==
  ASSUME Ordered, NEW k \in 1 .. Len(buckets[1]), NEW l \in 1 .. Len(buckets[2]),
         NEW b \in 1 .. Len(buckets[2]), l <= b,
         buckets[1][k].keyMax < buckets[2][l].keyMin
  PROVE  ~Meet(k, b)
<1> DEFINE end == buckets[1][k].keyMax
           from(m) == buckets[2][m].keyMin
           to(m) == buckets[2][m].keyMax
<1>1. end \in Int /\ from(l) \in Int /\ from(b) \in Int /\ to(l) \in Int
  BY BucketTypes
<1>2. from(l) <= to(l) /\ (l < b => to(l) < from(b))
  BY DEF Ordered, InOrder
<1>3. l = b \/ l < b
  OBVIOUS
<1>4. end < from(l)
  OBVIOUS
<1>5. ~(from(b) <= end)
  <2> HIDE DEF end, from, to
  <2>1. CASE l = b
    BY <1>1, <1>4, <2>1
  <2>2. CASE l < b
    BY <1>1, <1>2, <1>4, <2>2
  <2> QED
    BY <1>3, <2>1, <2>2
<1> QED
  BY <1>5 DEF Meet

(* The same for a bucket of table 2.                                       *)
LEMMA MetByNoLater ==
  ASSUME Ordered, NEW k \in 1 .. Len(buckets[2]), NEW l \in 1 .. Len(buckets[1]),
         NEW b \in 1 .. Len(buckets[1]), l <= b,
         buckets[2][k].keyMax < buckets[1][l].keyMin
  PROVE  ~Meet(b, k)
<1> DEFINE end == buckets[2][k].keyMax
           from(m) == buckets[1][m].keyMin
           to(m) == buckets[1][m].keyMax
<1>1. end \in Int /\ from(l) \in Int /\ from(b) \in Int /\ to(l) \in Int
  BY BucketTypes
<1>2. from(l) <= to(l) /\ (l < b => to(l) < from(b))
  BY DEF Ordered, InOrder
<1>3. l = b \/ l < b
  OBVIOUS
<1>4. end < from(l)
  OBVIOUS
<1>5. ~(from(b) <= end)
  <2> HIDE DEF end, from, to
  <2>1. CASE l = b
    BY <1>1, <1>4, <2>1
  <2>2. CASE l < b
    BY <1>1, <1>2, <1>4, <2>2
  <2> QED
    BY <1>3, <2>1, <2>2
<1> QED
  BY <1>5 DEF Meet

(* Leaving behind a bucket that meets nothing the walk has not gone past.  *)
LEMMA LeaveLeft ==
  ASSUME Ordered, Typed, Walking,
         \A b \in 1 .. Len(buckets[2]) : j < b => ~Meet(i, b)
  PROVE  Past(i + 1, j) = Past(i, j) \cup {p \in {<<i, j>>} : Meet(i, j)}
<1>1. i \in 1 .. Len(buckets[1]) /\ j \in 1 .. Len(buckets[2])
  BY InFront
<1>2. ASSUME NEW p \in Pairs, Meet(p[1], p[2]), p[1] < i + 1
      PROVE  p[1] < i \/ p[2] < j \/ p = <<i, j>>
  <2>1. /\ p[1] \in 1 .. Len(buckets[1]) /\ p[2] \in 1 .. Len(buckets[2])
        /\ p = <<p[1], p[2]>>
    BY <1>2 DEF Pairs
  <2>2. p[1] < i \/ p[1] = i
    BY <2>1, <1>1, <1>2
  <2>3. p[2] < j \/ p[2] = j \/ j < p[2]
    BY <2>1, <1>1
  <2> QED
    BY <2>1, <2>2, <2>3, <1>2
<1>3. \A p \in Pairs : p[1] < i => p[1] < i + 1
  BY <1>1 DEF Pairs
<1>4. <<i, j>> \in Pairs /\ i < i + 1
  BY <1>1 DEF Pairs
<1> QED
  BY <1>2, <1>3, <1>4 DEF Past

(* A bucket of table 2 that none of those left of table 1 meets.           *)
LEMMA LeaveRight ==
  ASSUME Ordered, Typed, Walking,
         \A a \in 1 .. Len(buckets[1]) : i < a => ~Meet(a, j)
  PROVE  Past(i, j + 1) = Past(i, j) \cup {p \in {<<i, j>>} : Meet(i, j)}
<1>1. i \in 1 .. Len(buckets[1]) /\ j \in 1 .. Len(buckets[2])
  BY InFront
<1>2. ASSUME NEW p \in Pairs, Meet(p[1], p[2]), p[2] < j + 1
      PROVE  p[1] < i \/ p[2] < j \/ p = <<i, j>>
  <2>1. /\ p[1] \in 1 .. Len(buckets[1]) /\ p[2] \in 1 .. Len(buckets[2])
        /\ p = <<p[1], p[2]>>
    BY <1>2 DEF Pairs
  <2>2. p[2] < j \/ p[2] = j
    BY <2>1, <1>1, <1>2
  <2>3. p[1] < i \/ p[1] = i \/ i < p[1]
    BY <2>1, <1>1
  <2> QED
    BY <2>1, <2>2, <2>3, <1>2
<1>3. \A p \in Pairs : p[2] < j => p[2] < j + 1
  BY <1>1 DEF Pairs
<1>4. <<i, j>> \in Pairs /\ j < j + 1
  BY <1>1 DEF Pairs
<1> QED
  BY <1>2, <1>3, <1>4 DEF Past

(* Leaving both behind.                                                    *)
LEMMA LeaveBoth ==
  ASSUME Ordered, Typed, Walking,
         \A b \in 1 .. Len(buckets[2]) : j < b => ~Meet(i, b),
         \A a \in 1 .. Len(buckets[1]) : i < a => ~Meet(a, j)
  PROVE  Past(i + 1, j + 1) = Past(i, j) \cup {p \in {<<i, j>>} : Meet(i, j)}
<1>1. i \in 1 .. Len(buckets[1]) /\ j \in 1 .. Len(buckets[2])
  BY InFront
<1>2. ASSUME NEW p \in Pairs, Meet(p[1], p[2]), p[1] < i + 1 \/ p[2] < j + 1
      PROVE  p[1] < i \/ p[2] < j \/ p = <<i, j>>
  <2>1. /\ p[1] \in 1 .. Len(buckets[1]) /\ p[2] \in 1 .. Len(buckets[2])
        /\ p = <<p[1], p[2]>>
    BY <1>2 DEF Pairs
  <2>2. p[1] < i \/ p[1] = i \/ i < p[1]
    BY <2>1, <1>1
  <2>3. p[2] < j \/ p[2] = j \/ j < p[2]
    BY <2>1, <1>1
  <2>4. ~(i < p[1] /\ j < p[2])
    BY <2>1, <1>1, <1>2
  <2> QED
    BY <2>1, <2>2, <2>3, <2>4, <1>2
<1>3. \A p \in Pairs : (p[1] < i => p[1] < i + 1) /\ (p[2] < j => p[2] < j + 1)
  BY <1>1 DEF Pairs
<1>4. <<i, j>> \in Pairs /\ i < i + 1
  BY <1>1 DEF Pairs
<1> QED
  BY <1>2, <1>3, <1>4 DEF Past

-----------------------------------------------------------------------------
(* A pair that is joined when the walk advances.                           *)
LEMMA AdvancePast ==
  ASSUME Ordered, Typed, Walking, ~SkipLeft, ~SkipRight, Advance
  PROVE  i' \in Nat \ {0} /\ j' \in Nat \ {0} /\ Past(i', j') = Past(i, j) \cup {<<i, j>>}
<1>1. i \in 1 .. Len(buckets[1]) /\ j \in 1 .. Len(buckets[2])
  BY InFront
<1>2. /\ Left.keyMin \in Int /\ Left.keyMax \in Int
      /\ Right.keyMin \in Int /\ Right.keyMax \in Int
  BY <1>1, BucketTypes DEF Left, Right
<1>3. Meet(i, j)
  <2>1. Left.keyMin <= Right.keyMax /\ Right.keyMin <= Left.keyMax
    BY <1>2 DEF SkipLeft, SkipRight
  <2> QED
    BY <2>1 DEF SkipLeft, SkipRight, Meet, Left, Right
<1>4. {p \in {<<i, j>>} : Meet(i, j)} = {<<i, j>>}
  BY <1>3
<1>5. ASSUME NextLeft, NEW b \in 1 .. Len(buckets[2]), j < b PROVE ~Meet(i, b)
  <2>1. Right.keyMax < buckets[2][b].keyMin
    BY <1>1, <1>5 DEF Ordered, InOrder, Right
  <2>2. buckets[2][b].keyMin \in Int
    BY BucketTypes
  <2>3. buckets[1][i].keyMax < buckets[2][b].keyMin
    BY <1>2, <1>5, <2>1, <2>2 DEF NextLeft, Left
  <2> QED
    BY <1>1, <2>3, MeetsNoLater
<1>6. ASSUME NextRight, NEW a \in 1 .. Len(buckets[1]), i < a PROVE ~Meet(a, j)
  <2>1. Left.keyMax < buckets[1][a].keyMin
    BY <1>1, <1>6 DEF Ordered, InOrder, Left
  <2>2. buckets[1][a].keyMin \in Int
    BY BucketTypes
  <2>3. buckets[2][j].keyMax < buckets[1][a].keyMin
    BY <1>2, <1>6, <2>1, <2>2 DEF NextRight, Right
  <2> QED
    BY <1>1, <2>3, MetByNoLater
<1>7. NextLeft \/ NextRight
  BY <1>2 DEF NextLeft, NextRight
<1>8. CASE NextLeft /\ NextRight
  BY <1>1, <1>4, <1>5, <1>6, <1>8, LeaveBoth DEF Advance
<1>9. CASE NextLeft /\ ~NextRight
  BY <1>1, <1>4, <1>5, <1>9, LeaveLeft DEF Advance
<1>10. CASE ~NextLeft /\ NextRight
  BY <1>1, <1>4, <1>6, <1>10, LeaveRight DEF Advance
<1> QED
  BY <1>7, <1>8, <1>9, <1>10

(* A bucket that is left out.                                              *)
LEMMA SkipPast ==
  ASSUME Ordered, Typed, Skip
  PROVE  i' \in Nat \ {0} /\ j' \in Nat \ {0} /\ Past(i', j') = Past(i, j)
<1>1. Walking /\ i \in 1 .. Len(buckets[1]) /\ j \in 1 .. Len(buckets[2])
  BY InFront DEF Skip
<1>2. CASE SkipLeft /\ i' = i + 1 /\ j' = j
  <2>1. ASSUME NEW b \in 1 .. Len(buckets[2]), j <= b PROVE ~Meet(i, b)
    <3>1. CASE Left.keyMax < Right.keyMin
      BY <1>1, <2>1, <3>1, MeetsNoLater DEF Left, Right
    <3>2. CASE Outside(Left)
      BY <3>2 DEF Meet, Left
    <3> QED
      BY <1>2, <3>1, <3>2 DEF SkipLeft
  <2>2. ~Meet(i, j) /\ \A b \in 1 .. Len(buckets[2]) : j < b => ~Meet(i, b)
    BY <1>1, <2>1
  <2>3. Past(i + 1, j) = Past(i, j) \cup {p \in {<<i, j>>} : Meet(i, j)}
    BY <1>1, <2>2, LeaveLeft
  <2>4. {p \in {<<i, j>>} : Meet(i, j)} = {}
    BY <2>2
  <2>5. i' \in Nat \ {0} /\ j' \in Nat \ {0}
    BY <1>1, <1>2
  <2> QED
    BY <1>2, <2>3, <2>4, <2>5
<1>3. CASE SkipRight /\ j' = j + 1 /\ i' = i
  <2>1. ASSUME NEW a \in 1 .. Len(buckets[1]), i <= a PROVE ~Meet(a, j)
    <3>1. CASE Left.keyMin > Right.keyMax
      <4>1. Left.keyMin \in Int /\ Right.keyMax \in Int
        BY <1>1, BucketTypes DEF Left, Right
      <4>2. buckets[2][j].keyMax < buckets[1][i].keyMin
        BY <3>1, <4>1 DEF Left, Right
      <4> QED
        BY <1>1, <2>1, <4>2, MetByNoLater
    <3>2. CASE Outside(Right)
      BY <3>2 DEF Meet, Right
    <3> QED
      BY <1>3, <3>1, <3>2 DEF SkipRight
  <2>2. ~Meet(i, j) /\ \A a \in 1 .. Len(buckets[1]) : i < a => ~Meet(a, j)
    BY <1>1, <2>1
  <2>3. Past(i, j + 1) = Past(i, j) \cup {p \in {<<i, j>>} : Meet(i, j)}
    BY <1>1, <2>2, LeaveRight
  <2>4. {p \in {<<i, j>>} : Meet(i, j)} = {}
    BY <2>2
  <2>5. i' \in Nat \ {0} /\ j' \in Nat \ {0}
    BY <1>1, <1>3
  <2> QED
    BY <1>3, <2>3, <2>4, <2>5
<1> QED
  BY <1>2, <1>3 DEF Skip

(* The walk has gone past every pair when one of the tables has no bucket  *)
(* left, and past none when it begins.                                     *)
LEMMA PastEnds ==
  ASSUME Ordered, Typed
  PROVE  /\ i > Len(buckets[1]) \/ j > Len(buckets[2]) => Past(i, j) = {p \in Pairs : Meet(p[1], p[2])}
         /\ Past(1, 1) = {}
<1>1. \A p \in Pairs : p[1] \in 1 .. Len(buckets[1]) /\ p[2] \in 1 .. Len(buckets[2])
  BY DEF Pairs
<1>2. Len(buckets[1]) \in Nat /\ Len(buckets[2]) \in Nat /\ i \in Nat /\ j \in Nat
  BY BucketTypes DEF Typed
<1>3. ASSUME i > Len(buckets[1]) \/ j > Len(buckets[2]), NEW p \in Pairs PROVE p[1] < i \/ p[2] < j
  BY <1>1, <1>2, <1>3
<1>4. ASSUME NEW p \in Pairs PROVE ~(p[1] < 1 \/ p[2] < 1)
  BY <1>1, <1>4
<1> QED
  BY <1>3, <1>4 DEF Past

-----------------------------------------------------------------------------
(* The walk begins with ordered buckets and nothing joined.                *)
LEMMA InitInv == WalkSpec => WalkInv
<1> SUFFICES ASSUME WalkSpec PROVE WalkInv
  OBVIOUS
<1> QED
  BY DEF WalkSpec, WalkInit, WalkInv, Ordered, Typed, JoinedPast, EveryPairJoined

(* What the pairs gone past are after a step that leaves the buckets and   *)
(* the query alone.                                                        *)
LEMMA PastFrame ==
  ASSUME UNCHANGED <<buckets, request>>
  PROVE  /\ Past(i, j)' = Past(i', j')
         /\ EveryPairJoined' <=> (pass' = "joined" => joined' = {p \in Pairs : Meet(p[1], p[2])})
         /\ Ordered => Ordered'
BY DEF Past, Pairs, Meet, Outside, EveryPairJoined, Ordered, InOrder

(* A query begins.                                                         *)
LEMMA StartWalkInv ==
  ASSUME WalkInv, NEW qs \in Int, NEW qe \in Int, NEW jattr \in BOOLEAN, StartWalk(qs, qe, jattr)
  PROVE  WalkInv'
<1>1. Ordered'
  BY DEF WalkInv, StartWalk, Ordered, InOrder
<1>2. Typed'
  <2>1. request' \in [qs : Int, qe : Int, jattr : BOOLEAN]
    BY DEF StartWalk
  <2>2. i' = 1 /\ j' = 1 /\ written' = 0 /\ selectedCountIdx' = 1 /\ pass' = "measure"
    BY DEF StartWalk
  <2> QED
    BY <2>1, <2>2 DEF Typed
<1>3. JoinedPast'
  BY DEF StartWalk, JoinedPast, EveryPairJoined
<1> QED
  BY <1>1, <1>2, <1>3 DEF WalkInv

(* A bucket is left behind that meets nothing.                             *)
LEMMA SkipInv == ASSUME WalkInv, Skip PROVE WalkInv'
<1>1. UNCHANGED <<buckets, request, pass, written, selectedCountIdx, joined>> /\ pass \in {"measure", "join"}
  BY DEF Skip, Walking
<1>2. i' \in Nat \ {0} /\ j' \in Nat \ {0} /\ Past(i', j') = Past(i, j)
  BY SkipPast DEF WalkInv
<1> QED
  BY <1>1, <1>2, PastFrame DEF WalkInv, Typed, JoinedPast

(* A pair is measured.                                                     *)
LEMMA MeasurePairInv == ASSUME WalkInv, MeasurePair PROVE WalkInv'
<1>1. /\ UNCHANGED <<buckets, request, pass, written, selectedCountIdx, joined>> /\ pass = "measure"
      /\ Walking /\ ~SkipLeft /\ ~SkipRight /\ Advance
  BY DEF MeasurePair
<1>2. i' \in Nat \ {0} /\ j' \in Nat \ {0}
  BY <1>1, AdvancePast DEF WalkInv
<1> QED
  BY <1>1, <1>2, PastFrame DEF WalkInv, Typed, JoinedPast

(* A pair is joined.                                                       *)
LEMMA JoinPairInv == ASSUME WalkInv, JoinPair PROVE WalkInv'
<1>1. /\ UNCHANGED <<buckets, request, pass>> /\ pass = "join"
      /\ Walking /\ ~SkipLeft /\ ~SkipRight /\ Advance
      /\ joined' = joined \cup {<<i, j>>}
  BY DEF JoinPair
<1>2. i' \in Nat \ {0} /\ j' \in Nat \ {0} /\ Past(i', j') = Past(i, j) \cup {<<i, j>>}
  BY <1>1, AdvancePast DEF WalkInv
<1>3. written' \in Nat /\ selectedCountIdx' \in Nat /\ written' < selectedCountIdx'
  <2>1. Left.numData \in Nat /\ Right.numData \in Nat
    BY <1>1, InFront, BucketTypes DEF WalkInv, Left, Right
  <2>2. PICK m \in Nat : m = PairSize
    <3>1. Left.numData * Right.numData \in Nat
      BY ONLY <2>1
    <3> QED
      BY <3>1 DEF PairSize
  <2>3. PICK skipped \in 0 .. m : written' = written + m - skipped /\ selectedCountIdx' = selectedCountIdx + m
    BY <2>2 DEF JoinPair
  <2>4. written \in Nat /\ selectedCountIdx \in Nat /\ written < selectedCountIdx
    BY DEF WalkInv, Typed
  <2> QED
    BY <2>2, <2>3, <2>4
<1> QED
  BY <1>1, <1>2, <1>3, PastFrame DEF WalkInv, Typed, JoinedPast

(* A pass comes to its end.                                                *)
LEMMA EndPassInv == ASSUME WalkInv, EndPass PROVE WalkInv'
<1>1. /\ UNCHANGED <<buckets, request, written, selectedCountIdx, joined>>
      /\ i > Len(buckets[1]) \/ j > Len(buckets[2])
  BY DEF EndPass
<1>2. /\ Past(i, j) = {p \in Pairs : Meet(p[1], p[2])}
      /\ Past(1, 1) = {}
  BY <1>1, PastEnds DEF WalkInv
<1>3. CASE pass = "measure" /\ pass' = "join" /\ i' = 1 /\ j' = 1
  <2>1. Ordered' /\ Past(i, j)' = {} /\ (EveryPairJoined)'
    BY <1>1, <1>2, <1>3, PastFrame DEF WalkInv
  <2>2. joined' = {}
    BY <1>1, <1>3 DEF WalkInv, JoinedPast
  <2>3. Typed'
    BY <1>1, <1>3 DEF WalkInv, Typed
  <2> QED
    BY <1>3, <2>1, <2>2, <2>3 DEF WalkInv, JoinedPast
<1>4. CASE pass = "join" /\ pass' = "joined" /\ i' = i /\ j' = j
  BY <1>1, <1>2, <1>4, PastFrame DEF WalkInv, Typed, JoinedPast
<1> QED
  BY <1>3, <1>4 DEF EndPass

(* Every step of the walk.                                                 *)
LEMMA NextInv == WalkInv /\ [WalkNext]_walk => WalkInv'
<1> SUFFICES ASSUME WalkInv, [WalkNext]_walk PROVE WalkInv'
  OBVIOUS
<1>1. CASE \E qs, qe \in Int, jattr \in BOOLEAN : StartWalk(qs, qe, jattr)
  BY <1>1, StartWalkInv
<1>2. CASE WalkStep
  BY <1>2, SkipInv, MeasurePairInv, JoinPairInv, EndPassInv DEF WalkStep
<1>3. CASE UNCHANGED walk
  BY <1>3, PastFrame DEF walk, walkVars, WalkInv, Typed, JoinedPast, EveryPairJoined
<1> QED
  BY <1>1, <1>2, <1>3 DEF WalkNext

(* The inductive invariant of the walk.                                    *)
THEOREM WalkInvariant == WalkSpec => []WalkInv
<1>1. WalkSpec => [][WalkNext]_walk
  BY PTL DEF WalkSpec, WalkNext, walk
<1> QED
  BY <1>1, InitInv, NextInv, PTL

(* bucketCrossProduct joins exactly the pairs of buckets that share a key  *)
(* and may hold a row of the query.                                        *)
THEOREM EveryPairJoinedHolds == WalkSpec => []EveryPairJoined
<1>1. WalkInv => EveryPairJoined
  BY DEF WalkInv, JoinedPast
<1> QED
  BY <1>1, WalkInvariant, PTL

(* A step that counts rows is about another pair than those before it.     *)
LEMMA JoinsAnother ==
  ASSUME WalkInv, [WalkNext]_walk
  PROVE  [selectedCountIdx' > selectedCountIdx => joined' # joined]_walk
<1>1. CASE JoinPair
  <2>1. <<i, j>> \notin joined
    BY <1>1 DEF JoinPair, WalkInv, JoinedPast, Past, Typed
  <2> QED
    BY <1>1, <2>1 DEF JoinPair
<1>2. ASSUME selectedCountIdx' = selectedCountIdx \/ selectedCountIdx' = 1
      PROVE  ~(selectedCountIdx' > selectedCountIdx)
  BY <1>2 DEF WalkInv, Typed
<1>3. CASE Skip \/ MeasurePair \/ EndPass
  BY <1>2, <1>3 DEF Skip, MeasurePair, EndPass
<1>4. CASE \E qs, qe \in Int, jattr \in BOOLEAN : StartWalk(qs, qe, jattr)
  BY <1>2, <1>4 DEF StartWalk
<1>5. CASE UNCHANGED walk
  BY <1>5
<1> QED
  BY <1>1, <1>3, <1>4, <1>5 DEF WalkNext, WalkStep

(* It joins none of them a second time.                                    *)
THEOREM JoinedOnceHolds == WalkSpec => JoinedOnce
<1>1. ASSUME WalkInv, [WalkNext]_walk PROVE [selectedCountIdx' > selectedCountIdx => joined' # joined]_walk
  BY <1>1, JoinsAnother
<1>2. WalkSpec => [][WalkNext]_walk
  BY PTL DEF WalkSpec, WalkNext, walk
<1>3. JoinedOnce <=> [][selectedCountIdx' > selectedCountIdx => joined' # joined]_walk
  BY DEF JoinedOnce, walk
<1> QED
  BY <1>1, <1>2, <1>3, WalkInvariant, PTL

-----------------------------------------------------------------------------
(* The rows of joinOutput: a pair of rows of a pair of buckets has one.    *)
RowsOf(p) ==
  {p} \X ((1 .. buckets[1][p[1]].numData) \X (1 .. buckets[2][p[2]].numData))

RowPairs(S) == UNION {RowsOf(p) : p \in S}

Meeting == {p \in Pairs : Meet(p[1], p[2])}

(* Both passes count the rows of the pairs that the walk has gone past.    *)
RoomInv ==
  /\ pass = "measure" => xprodsize = Cardinality(RowPairs(Past(i, j))) /\ selectedCountIdx = 1
  /\ pass \in {"join", "joined"} => xprodsize = Cardinality(RowPairs(Meeting))
  /\ pass = "join" => selectedCountIdx = Cardinality(RowPairs(Past(i, j))) + 1
  /\ pass = "joined" => selectedCountIdx = Cardinality(RowPairs(Meeting)) + 1

(* A pair of buckets has as many pairs of rows as crossProduct counts.     *)
LEMMA RowsOfPair ==
  ASSUME Ordered, NEW p \in Pairs
  PROVE  /\ IsFiniteSet(RowsOf(p))
         /\ Cardinality(RowsOf(p)) = buckets[1][p[1]].numData * buckets[2][p[2]].numData
<1>1. p[1] \in 1 .. Len(buckets[1]) /\ p[2] \in 1 .. Len(buckets[2])
  BY DEF Pairs
<1>2. PICK m \in Nat : m = buckets[1][p[1]].numData
  BY <1>1, BucketTypes
<1>3. PICK n \in Nat : n = buckets[2][p[2]].numData
  BY <1>1, BucketTypes
<1>4. \A k \in Nat : IsFiniteSet(1 .. k) /\ Cardinality(1 .. k) = k
  <2>1. ASSUME NEW k \in Nat PROVE IsFiniteSet(1 .. k) /\ Cardinality(1 .. k) = k
    <3>1. /\ IsFiniteSet(1 .. k)
          /\ Cardinality(1 .. k) = IF 1 > k THEN 0 ELSE k - 1 + 1
      BY FS_Interval
    <3> QED
      BY <3>1
  <2> QED
    BY <2>1
<1> DEFINE cells == (1 .. m) \X (1 .. n)
<1>5. IsFiniteSet(cells) /\ Cardinality(cells) = m * n
  <2>1. IsFiniteSet(1 .. m) /\ IsFiniteSet(1 .. n)
    BY <1>4
  <2>2. IsFiniteSet(cells) /\ Cardinality(cells) = Cardinality(1 .. m) * Cardinality(1 .. n)
    BY <2>1, FS_Product
  <2>3. Cardinality(1 .. m) = m /\ Cardinality(1 .. n) = n
    BY <1>4
  <2> QED
    BY <2>2, <2>3
<1>6. IsFiniteSet({p}) /\ Cardinality({p}) = 1
  BY FS_Singleton
<1>7. m * n \in Nat
  OBVIOUS
<1>8. RowsOf(p) = {p} \X cells
  BY <1>2, <1>3 DEF RowsOf
<1> HIDE DEF cells
<1>9. IsFiniteSet({p} \X cells) /\ Cardinality({p} \X cells) = 1 * (m * n)
  BY <1>5, <1>6, FS_Product
<1>10. 1 * (m * n) = m * n
  BY <1>7
<1> QED
  BY <1>2, <1>3, <1>8, <1>9, <1>10

(* There are finitely many.                                                *)
LEMMA RowsFinite ==
  ASSUME Ordered, NEW S \in SUBSET Pairs
  PROVE  IsFiniteSet(RowPairs(S)) /\ Cardinality(RowPairs(S)) \in Nat
<1>1. Len(buckets[1]) \in Nat /\ Len(buckets[2]) \in Nat
  BY BucketTypes
<1>2. IsFiniteSet(1 .. Len(buckets[1])) /\ IsFiniteSet(1 .. Len(buckets[2]))
  <2>1. \A k \in Nat : IsFiniteSet(1 .. k)
    BY FS_Interval
  <2> QED
    BY <1>1, <2>1
<1>3. IsFiniteSet(Pairs)
  BY <1>2, FS_Product DEF Pairs
<1>4. IsFiniteSet(S)
  BY <1>3, FS_Subset
<1> DEFINE sets == {RowsOf(p) : p \in S}
<1>5. IsFiniteSet(sets)
  <2> DEFINE f == [p \in S |-> RowsOf(p)]
  <2>1. f \in Surjection(S, sets)
    BY DEF Surjection
  <2> QED
    BY <1>4, <2>1, FS_Surjection
<1>6. \A T \in sets : IsFiniteSet(T)
  BY RowsOfPair
<1> HIDE DEF sets
<1>7. IsFiniteSet(UNION sets)
  BY <1>5, <1>6, FS_UNION
<1>8. IsFiniteSet(RowPairs(S))
  BY <1>7 DEF RowPairs, sets
<1> QED
  BY <1>8, FS_CardinalityType

(* The rows of one more pair.                                              *)
LEMMA RowsAdded ==
  ASSUME Ordered, NEW S \in SUBSET Pairs, NEW p \in Pairs, p \notin S
  PROVE  Cardinality(RowPairs(S \cup {p})) =
           Cardinality(RowPairs(S)) + buckets[1][p[1]].numData * buckets[2][p[2]].numData
<1>1. RowPairs(S \cup {p}) = RowPairs(S) \cup RowsOf(p)
  BY DEF RowPairs
<1>2. \A q : \A x \in RowsOf(q) : x[1] = q
  BY DEF RowsOf
<1>3. RowPairs(S) \cap RowsOf(p) = {}
  <2>1. SUFFICES ASSUME NEW x \in RowPairs(S), x \in RowsOf(p) PROVE FALSE
    OBVIOUS
  <2>2. PICK q \in S : x \in RowsOf(q)
    BY <2>1 DEF RowPairs
  <2> QED
    BY <1>2, <2>1, <2>2
<1>4. /\ IsFiniteSet(RowPairs(S)) /\ Cardinality(RowPairs(S)) \in Nat
      /\ IsFiniteSet(RowsOf(p)) /\ Cardinality(RowsOf(p)) \in Nat
  BY RowsFinite, RowsOfPair, FS_CardinalityType
<1>5. Cardinality(RowPairs(S) \cup RowsOf(p)) =
        Cardinality(RowPairs(S)) + Cardinality(RowsOf(p)) - Cardinality(RowPairs(S) \cap RowsOf(p))
  BY <1>4, FS_Union
<1>6. Cardinality(RowPairs(S) \cap RowsOf(p)) = 0
  BY <1>3, FS_EmptySet
<1>7. Cardinality(RowPairs(S) \cup RowsOf(p)) = Cardinality(RowPairs(S)) + Cardinality(RowsOf(p))
  BY <1>4, <1>5, <1>6
<1> QED
  BY <1>1, <1>7, RowsOfPair

(* Nothing has been counted when the walk begins.                          *)
LEMMA NoRows == Cardinality(RowPairs({})) = 0
<1>1. RowPairs({}) = {}
  BY DEF RowPairs
<1> QED
  BY <1>1, FS_EmptySet

(* The rows of the pair in front of the walk.                              *)
LEMMA AdvanceRows ==
  ASSUME WalkInv, Walking, ~SkipLeft, ~SkipRight, Advance
  PROVE  Cardinality(RowPairs(Past(i', j'))) =
           Cardinality(RowPairs(Past(i, j))) + Left.numData * Right.numData
<1>1. Past(i', j') = Past(i, j) \cup {<<i, j>>}
  BY AdvancePast DEF WalkInv
<1>2. <<i, j>> \in Pairs
  BY InFront DEF WalkInv, Pairs
<1>3. <<i, j>> \notin Past(i, j) /\ Past(i, j) \in SUBSET Pairs
  BY DEF WalkInv, Typed, Past
<1>4. <<i, j>>[1] = i /\ <<i, j>>[2] = j
  OBVIOUS
<1> QED
  BY <1>1, <1>2, <1>3, <1>4, RowsAdded DEF WalkInv, Left, Right

(* The rows after a step that leaves the buckets and the query alone.      *)
LEMMA RoomFrame ==
  ASSUME UNCHANGED <<buckets, request>>
  PROVE  /\ RowPairs(Past(i, j))' = RowPairs(Past(i', j'))
         /\ RowPairs(Meeting)' = RowPairs(Meeting)
<1>1. Past(i, j)' = Past(i', j') /\ Meeting' = Meeting
  BY PastFrame DEF Meeting, Pairs, Meet, Outside
<1>2. ASSUME NEW S PROVE {RowsOf(p)' : p \in S} = {RowsOf(p) : p \in S}
  BY DEF RowsOf
<1> QED
  BY <1>1, <1>2 DEF RowPairs

(* Every step of the walk keeps the count.                                 *)
LEMMA RoomNext ==
  ASSUME WalkInv, RoomInv, [WalkNext]_walk
  PROVE  RoomInv'
<1>1. CASE \E qs, qe \in Int, jattr \in BOOLEAN : StartWalk(qs, qe, jattr)
  <2>1. PICK qs \in Int, qe \in Int, jattr \in BOOLEAN : StartWalk(qs, qe, jattr)
    BY <1>1
  <2>2. pass' = "measure" /\ i' = 1 /\ j' = 1 /\ xprodsize' = 0 /\ selectedCountIdx' = 1 /\ buckets' = buckets
    BY <2>1 DEF StartWalk
  <2>3. WalkInv'
    BY <2>1, StartWalkInv
  <2>4. Past(i, j)' = {}
    <3>1. \A p \in Pairs' : p[1] \in 1 .. Len(buckets'[1]) /\ p[2] \in 1 .. Len(buckets'[2])
      BY DEF Pairs
    <3>2. \A p \in Pairs' : ~ (p[1] < 1 \/ p[2] < 1)
      BY <3>1
    <3> QED
      BY <2>2, <3>2 DEF Past
  <2>5. RowPairs(Past(i, j))' = {}
    BY <2>4 DEF RowPairs
  <2> QED
    BY <2>2, <2>5, FS_EmptySet DEF RoomInv
<1>2. CASE Skip
  <2>1. UNCHANGED <<buckets, request, pass, xprodsize, selectedCountIdx>>
    BY <1>2 DEF Skip
  <2>2. Past(i', j') = Past(i, j)
    BY <1>2, SkipPast DEF WalkInv
  <2> QED
    BY <2>1, <2>2, RoomFrame DEF RoomInv
<1>3. CASE MeasurePair
  <2>1. /\ UNCHANGED <<buckets, request, pass, selectedCountIdx>> /\ pass = "measure"
        /\ xprodsize' = xprodsize + Left.numData * Right.numData
        /\ Walking /\ ~SkipLeft /\ ~SkipRight /\ Advance
    BY <1>3 DEF MeasurePair
  <2> QED
    BY <2>1, AdvanceRows, RoomFrame DEF RoomInv
<1>4. CASE JoinPair
  <2>1. /\ UNCHANGED <<buckets, request, pass, xprodsize>> /\ pass = "join"
        /\ selectedCountIdx' = selectedCountIdx + Left.numData * Right.numData
        /\ Walking /\ ~SkipLeft /\ ~SkipRight /\ Advance
    BY <1>4 DEF JoinPair, PairSize
  <2>2. /\ Cardinality(RowPairs(Past(i, j))) \in Nat
        /\ Left.numData * Right.numData \in Nat
    <3>1. Past(i, j) \in SUBSET Pairs
      BY DEF Past
    <3>2. Left.numData \in Nat /\ Right.numData \in Nat
      BY <2>1, InFront, BucketTypes DEF WalkInv, Left, Right
    <3>3. Left.numData * Right.numData \in Nat
      BY ONLY <3>2
    <3> QED
      BY <3>1, <3>3, RowsFinite DEF WalkInv
  <2>3. selectedCountIdx' = Cardinality(RowPairs(Past(i', j'))) + 1
    <3>1. selectedCountIdx = Cardinality(RowPairs(Past(i, j))) + 1
      BY <2>1 DEF RoomInv
    <3>2. \A m, n \in Nat : (m + 1) + n = (m + n) + 1
      OBVIOUS
    <3> QED
      BY <2>1, <2>2, <3>1, <3>2, AdvanceRows
  <2> QED
    BY <2>1, <2>3, RoomFrame DEF RoomInv
<1>5. CASE EndPass
  <2>1. /\ UNCHANGED <<buckets, request, xprodsize, selectedCountIdx>>
        /\ i > Len(buckets[1]) \/ j > Len(buckets[2])
    BY <1>5 DEF EndPass
  <2>2. Past(i, j) = Meeting /\ Past(1, 1) = {}
    BY <2>1, PastEnds DEF WalkInv, Meeting
  <2>3. CASE pass = "measure" /\ pass' = "join" /\ i' = 1 /\ j' = 1
    <3>1. RowPairs(Past(i, j))' = RowPairs({})
      BY <2>1, <2>2, <2>3, RoomFrame
    <3> QED
      BY <2>1, <2>2, <2>3, <3>1, NoRows, RoomFrame DEF RoomInv
  <2>4. CASE pass = "join" /\ pass' = "joined" /\ i' = i /\ j' = j
    BY <2>1, <2>2, <2>4, RoomFrame DEF RoomInv
  <2> QED
    BY <1>5, <2>3, <2>4 DEF EndPass
<1>6. CASE UNCHANGED walk
  <2>1. UNCHANGED <<buckets, request, i, j, pass, xprodsize, selectedCountIdx>>
    BY <1>6 DEF walk, walkVars
  <2> QED
    BY <2>1, RoomFrame DEF RoomInv
<1> QED
  BY <1>1, <1>2, <1>3, <1>4, <1>5, <1>6 DEF WalkNext, WalkStep

(* No pair is gone past that does not meet.                                *)
LEMMA RoomThere ==
  ASSUME WalkInv, RoomInv
  PROVE  RoomForEveryRow
<1>1. Past(i, j) \in SUBSET Meeting /\ Meeting \in SUBSET Pairs
  BY DEF Past, Meeting
<1>2. RowPairs(Past(i, j)) \in SUBSET RowPairs(Meeting)
  BY <1>1 DEF RowPairs
<1>3. IsFiniteSet(RowPairs(Meeting)) /\ Cardinality(RowPairs(Meeting)) \in Nat
  BY <1>1, RowsFinite DEF WalkInv
<1>4. Cardinality(RowPairs(Past(i, j))) <= Cardinality(RowPairs(Meeting))
  BY <1>2, <1>3, FS_Subset
<1>5. PICK past, all \in Nat : /\ past = Cardinality(RowPairs(Past(i, j)))
                              /\ all = Cardinality(RowPairs(Meeting)) /\ past <= all
  <2>1. IsFiniteSet(RowPairs(Past(i, j)))
    BY <1>2, <1>3, FS_Subset
  <2> QED
    BY <1>3, <1>4, <2>1, FS_CardinalityType
<1>6. /\ pass \in {"join", "joined"} => xprodsize = all
      /\ pass = "join" => selectedCountIdx = past + 1
      /\ pass = "joined" => selectedCountIdx = all + 1
  BY <1>5 DEF RoomInv
<1>7. written < selectedCountIdx
  BY DEF WalkInv, Typed
<1>8. past + 1 <= all + 1
  BY <1>5
<1> QED
  BY <1>5, <1>6, <1>7, <1>8 DEF RoomForEveryRow

(* The first pass of bucketCrossProduct makes joinOutput and               *)
(* selected_count large enough for the second one, whichever matches it    *)
(* passes over; and the second one sets all counts that were allocated.    *)
THEOREM RoomHolds == WalkSpec => []RoomForEveryRow
<1>1. WalkSpec => RoomInv
  BY DEF WalkSpec, WalkInit, RoomInv
<1>2. WalkInv /\ RoomInv => RoomForEveryRow
  BY RoomThere
<1>3. WalkInv /\ RoomInv /\ [WalkNext]_walk => RoomInv'
  BY RoomNext
<1>4. WalkSpec => [][WalkNext]_walk
  BY PTL DEF WalkSpec, WalkNext, walk
<1> QED
  BY <1>1, <1>2, <1>3, <1>4, WalkInvariant, PTL

-----------------------------------------------------------------------------
(* Numbers that rise.                                                      *)
Rising(v, n) == \A k \in 1 .. n - 1 : v[k] < v[k + 1]

(* Two of them are as far apart as their places at least.                  *)
LEMMA RisingGap ==
  ASSUME NEW n \in Nat, NEW v, \A k \in 1 .. n : v[k] \in Int, Rising(v, n),
         NEW k \in 1 .. n, NEW l \in 1 .. n, k <= l
  PROVE  v[l] - v[k] >= l - k
<1> DEFINE T == {d \in Nat : k + d <= n /\ ~ (v[k + d] - v[k] >= d)}
<1>1. T = {}
  <2> SUFFICES ASSUME T # {} PROVE FALSE
    OBVIOUS
  <2>1. PICK d \in T : \A c \in 0 .. d - 1 : c \notin T
    BY LeastNumber
  <2>2. d # 0
    <3>1. v[k] \in Int /\ k + 0 = k
      OBVIOUS
    <3> QED
      BY <2>1, <3>1
  <2>3. d - 1 \in 0 .. d - 1 /\ d - 1 \in Nat /\ k + (d - 1) <= n /\ k + (d - 1) \in 1 .. n - 1
        /\ (k + (d - 1)) + 1 = k + d /\ k + d \in 1 .. n
    BY <2>1, <2>2
  <2>4. v[k + (d - 1)] - v[k] >= d - 1
    BY <2>1, <2>3
  <2>5. v[k + (d - 1)] < v[k + d]
    BY <2>3 DEF Rising
  <2>6. v[k] \in Int /\ v[k + d] \in Int /\ v[k + (d - 1)] \in Int
    BY <2>3
  <2> QED
    BY <2>1, <2>4, <2>5, <2>6
<1>2. l - k \in Nat /\ k + (l - k) = l
  OBVIOUS
<1>3. l - k \notin T
  BY <1>1
<1> QED
  BY <1>2, <1>3

(* How many numbers of a set are not above k.                              *)
Rank(S, k) == Cardinality({l \in S : l <= k})

(* The rank of a number grows by one at every number of the set.           *)
LEMMA RankFacts ==
  ASSUME NEW N \in Nat, NEW S \in SUBSET (1 .. N)
  PROVE  /\ IsFiniteSet(S)
         /\ \A k \in 0 .. N : Rank(S, k) \in Nat
         /\ Rank(S, 0) = 0 /\ Rank(S, N) = Cardinality(S)
         /\ \A k \in 1 .. N : Rank(S, k) = Rank(S, k - 1) + (IF k \in S THEN 1 ELSE 0)
<1>0. \A l \in S : l \in Int /\ 1 <= l /\ l <= N
  OBVIOUS
<1>1. IsFiniteSet(S)
  <2>1. IsFiniteSet(1 .. N)
    BY FS_Interval
  <2> QED
    BY <2>1, FS_Subset
<1>2. ASSUME NEW k \in 0 .. N PROVE IsFiniteSet({l \in S : l <= k}) /\ Rank(S, k) \in Nat
  <2>1. IsFiniteSet({l \in S : l <= k})
    BY <1>1, FS_Subset
  <2> QED
    BY <2>1, FS_CardinalityType DEF Rank
<1>3. Rank(S, 0) = 0
  <2>1. \A l \in S : ~ (l <= 0)
    BY <1>0
  <2>2. {l \in S : l <= 0} = {}
    BY <2>1, Zenon
  <2> QED
    BY <2>2, FS_EmptySet DEF Rank
<1>4. Rank(S, N) = Cardinality(S)
  <2>1. {l \in S : l <= N} = S
    BY <1>0, Zenon
  <2> QED
    BY <2>1 DEF Rank
<1>5. ASSUME NEW k \in 1 .. N PROVE Rank(S, k) = Rank(S, k - 1) + (IF k \in S THEN 1 ELSE 0)
  <2> DEFINE A == {l \in S : l <= k - 1}
             B == {l \in S : l <= k}
  <2>1. k - 1 \in 0 .. N
    OBVIOUS
  <2>2. IsFiniteSet(A) /\ Cardinality(A) \in Nat
    BY <1>2, <2>1 DEF Rank
  <2>3. CASE k \in S
    <3>1. \A l \in S : l <= k <=> l <= k - 1 \/ l = k
      BY <1>0
    <3>2. ~ (k <= k - 1)
      OBVIOUS
    <3>3. B = A \cup {k} /\ k \notin A
      BY <2>3, <3>1, <3>2, Zenon
    <3> HIDE DEF A, B
    <3>4. Cardinality(B) = Cardinality(A) + 1
      BY <2>2, <3>3, FS_AddElement
    <3> QED
      BY <2>3, <3>4 DEF Rank, A, B
  <2>4. CASE k \notin S
    <3>1. \A l \in S : l <= k <=> l <= k - 1
      BY <1>0, <2>4
    <3>2. B = A
      BY <3>1, Zenon
    <3>3. Cardinality(B) = Cardinality(A)
      BY <3>2
    <3> QED
      BY <2>2, <2>4, <3>3 DEF Rank
  <2> QED
    BY <2>3, <2>4
<1> QED
  BY <1>1, <1>2, <1>3, <1>4, <1>5

(* Nth counts the numbers of a set off, in their order.                    *)
LEMMA RankRises ==
  ASSUME NEW N \in Nat, NEW S \in SUBSET (1 .. N), NEW k \in 0 .. N, NEW l \in 0 .. N, k <= l
  PROVE  Rank(S, k) <= Rank(S, l) /\ (k < l /\ l \in S => Rank(S, k) < Rank(S, l))
<1> DEFINE T == {d \in Nat : k + d <= N /\ ~ (Rank(S, k) <= Rank(S, k + d))}
<1>0. /\ \A m \in 0 .. N : Rank(S, m) \in Nat
      /\ \A m \in 1 .. N : Rank(S, m) = Rank(S, m - 1) + (IF m \in S THEN 1 ELSE 0)
  BY RankFacts
<1>1. T = {}
  <2> SUFFICES ASSUME T # {} PROVE FALSE
    OBVIOUS
  <2>1. PICK d \in T : \A c \in 0 .. d - 1 : c \notin T
    BY LeastNumber
  <2>2. d # 0
    <3>1. Rank(S, k) \in Nat /\ k + 0 = k
      BY <1>0
    <3> QED
      BY <2>1, <3>1
  <2>3. d - 1 \in 0 .. d - 1 /\ d - 1 \in Nat /\ k + (d - 1) <= N /\ k + d \in 1 .. N
        /\ (k + d) - 1 = k + (d - 1) /\ k + (d - 1) \in 0 .. N
    BY <2>1, <2>2
  <2>4. Rank(S, k) <= Rank(S, k + (d - 1))
    BY <2>1, <2>3
  <2>5. Rank(S, k + d) = Rank(S, k + (d - 1)) + (IF k + d \in S THEN 1 ELSE 0)
    BY <1>0, <2>3
  <2>6. Rank(S, k + (d - 1)) \in Nat /\ Rank(S, k) \in Nat
    BY <1>0, <2>3
  <2>7. Rank(S, k) <= Rank(S, k + d)
    BY <2>4, <2>5, <2>6
  <2> QED
    BY <2>1, <2>7
<1>2. ASSUME NEW m \in k .. N PROVE Rank(S, k) <= Rank(S, m)
  <2>1. m - k \in Nat /\ k + (m - k) = m /\ k + (m - k) <= N
    OBVIOUS
  <2>2. m - k \notin T
    BY <1>1
  <2> QED
    BY <2>1, <2>2
<1>3. ASSUME k < l, l \in S PROVE Rank(S, k) < Rank(S, l)
  <2>1. l - 1 \in k .. N /\ l \in 1 .. N /\ l - 1 \in 0 .. N
    BY <1>3
  <2>2. Rank(S, k) <= Rank(S, l - 1) /\ Rank(S, l) = Rank(S, l - 1) + 1
    BY <1>0, <1>2, <1>3, <2>1
  <2>3. Rank(S, k) \in Nat /\ Rank(S, l - 1) \in Nat
    BY <1>0, <2>1
  <2> QED
    BY <2>2, <2>3
<1>4. l \in k .. N
  OBVIOUS
<1> QED
  BY <1>2, <1>3, <1>4

(* The m-th number of a set is the one of rank m.                          *)
LEMMA NthFacts ==
  ASSUME NEW N \in Nat, NEW S \in SUBSET (1 .. N)
  PROVE  /\ Cardinality(S) \in 0 .. N
         /\ \A m \in 1 .. Cardinality(S) : Nth(S, m) \in S /\ Rank(S, Nth(S, m)) = m
         /\ \A m, l \in 1 .. Cardinality(S) : m < l => Nth(S, m) < Nth(S, l)
         /\ \A k \in S : Rank(S, k) \in 1 .. Cardinality(S) /\ Nth(S, Rank(S, k)) = k
<1> DEFINE M == Cardinality(S)
<1>0. /\ \A m \in 0 .. N : Rank(S, m) \in Nat
      /\ \A m \in 1 .. N : Rank(S, m) = Rank(S, m - 1) + (IF m \in S THEN 1 ELSE 0)
      /\ Rank(S, 0) = 0 /\ Rank(S, N) = M
  BY RankFacts
<1>1. M \in 0 .. N
  <2>1. IsFiniteSet(1 .. N) /\ Cardinality(1 .. N) = N
    <3>1. IsFiniteSet(1 .. N) /\ Cardinality(1 .. N) = IF 1 > N THEN 0 ELSE N - 1 + 1
      BY FS_Interval
    <3> QED
      BY <3>1
  <2>2. M <= Cardinality(1 .. N)
    BY <2>1, FS_Subset
  <2>3. M \in Nat
    BY <1>0
  <2> QED
    BY <2>1, <2>2, <2>3
<1> HIDE DEF M
<1>2. ASSUME NEW m \in 1 .. M PROVE \E k \in S : Rank(S, k) = m
  <2> DEFINE T == {k \in Nat : k <= N /\ Rank(S, k) >= m}
  <2>1. T \in SUBSET Nat /\ T # {}
    <3>1. N \in T
      BY <1>0, <1>2
    <3> QED
      BY <3>1
  <2>2. PICK k \in T : \A l \in 0 .. k - 1 : l \notin T
    BY <2>1, LeastNumber
  <2>3. k # 0
    BY <1>0, <2>2
  <2>4. k \in 1 .. N /\ k - 1 \in 0 .. k - 1 /\ k - 1 \in Nat /\ k - 1 <= N /\ k - 1 \in 0 .. N
    BY <2>2, <2>3
  <2>5. ~ (Rank(S, k - 1) >= m)
    BY <2>2, <2>4
  <2>6. Rank(S, k) = Rank(S, k - 1) + (IF k \in S THEN 1 ELSE 0) /\ Rank(S, k - 1) \in Nat
    BY <1>0, <2>4
  <2>7. Rank(S, k) >= m
    BY <2>2
  <2>8. k \in S /\ Rank(S, k) = m
    BY <1>1, <2>5, <2>6, <2>7
  <2> QED
    BY <2>8
<1>3. ASSUME NEW m \in 1 .. M PROVE Nth(S, m) \in S /\ Rank(S, Nth(S, m)) = m
  <2>1. \E k \in S : Cardinality({l \in S : l <= k}) = m
    BY <1>2 DEF Rank
  <2> QED
    BY <2>1 DEF Nth, Rank
<1>4. ASSUME NEW m \in 1 .. M, NEW l \in 1 .. M, m < l PROVE Nth(S, m) < Nth(S, l)
  <2>1. PICK x \in S, y \in S : x = Nth(S, m) /\ y = Nth(S, l) /\ Rank(S, x) = m /\ Rank(S, y) = l
    BY <1>3
  <2>2. x \in 0 .. N /\ y \in 0 .. N
    OBVIOUS
  <2>3. ~ (y <= x)
    <3>1. y <= x => l <= m
      BY <2>1, <2>2, RankRises
    <3> QED
      BY <1>4, <3>1, <1>1
  <2> QED
    BY <2>1, <2>2, <2>3
<1>5. ASSUME NEW k \in S PROVE Rank(S, k) \in 1 .. M /\ Nth(S, Rank(S, k)) = k
  <2>1. k \in 1 .. N /\ k \in 0 .. N /\ 0 \in 0 .. N /\ N \in 0 .. N
    OBVIOUS
  <2>2. Rank(S, 0) < Rank(S, k) /\ Rank(S, k) <= Rank(S, N)
    BY <2>1, RankRises
  <2>3. Rank(S, k) \in 1 .. M
    BY <1>0, <1>1, <2>1, <2>2
  <2>4. PICK x \in S : x = Nth(S, Rank(S, k)) /\ Rank(S, x) = Rank(S, k)
    BY <1>3, <2>3
  <2>5. x \in 0 .. N
    OBVIOUS
  <2>6. ~ (x < k) /\ ~ (k < x)
    <3>1. x < k => Rank(S, x) < Rank(S, k)
      BY <2>1, <2>5, RankRises
    <3>2. k < x => Rank(S, k) < Rank(S, x)
      BY <2>1, <2>5, RankRises
    <3>3. Rank(S, k) \in Int
      BY <2>3
    <3> QED
      BY <2>4, <3>1, <3>2, <3>3
  <2>7. x = k
    BY <2>1, <2>5, <2>6
  <2> QED
    BY <2>3, <2>4, <2>7
<1> QED
  BY <1>1, <1>3, <1>4, <1>5 DEF M

-----------------------------------------------------------------------------
(* The sorted tables.                                                      *)
Ascends(s) == \A k, l \in 1 .. Len(s) : k < l => s[k] <= s[l]

RowsInv ==
  /\ mode \in {"uni", "ind"}
  /\ rows \in [{1, 2} -> Seq(Int)]
  /\ \A t \in {1, 2} : Ascends(rows[t])
  /\ rows[1] # <<>> /\ (mode = "uni" => rows[2] # <<>>)

(* The last row of every key, and the key of a row counted from keyMin.    *)
LastOfKey(s) == {k \in 1 .. Len(s) : k = Len(s) \/ s[k + 1] # s[k]}

Slot(s, k) == s[k] - keyMin

(* A table whose keys are in the domain.                                   *)
InDomain(s) ==
  /\ keyMin \in Int /\ domainSize \in Nat \ {0}
  /\ s \in Seq(Int) /\ Len(s) # 0 /\ Ascends(s)
  /\ \A k \in 1 .. Len(s) : Slot(s, k) \in 0 .. domainSize - 1

KeyRows(s, v) == {k \in 1 .. Len(s) : Slot(s, k) = v}

(* A sequence of numbers.                                                  *)
LEMMA SeqFacts ==
  ASSUME NEW s \in Seq(Int)
  PROVE  Len(s) \in Nat /\ DOMAIN s = 1 .. Len(s) /\ \A k \in 1 .. Len(s) : s[k] \in Int
OBVIOUS

(* Every key has a last row.                                               *)
LEMMA LastRow ==
  ASSUME NEW s, InDomain(s), NEW r \in 1 .. Len(s)
  PROVE  \E k \in LastOfKey(s) : s[k] = s[r] /\ r <= k
<1> DEFINE L == Len(s)
           T == {k \in 0 .. L : k >= 1 /\ s[k] = s[r]}
<1>0. s \in Seq(Int) /\ L \in Nat /\ L \in 1 .. L /\ \A k \in 1 .. L : s[k] \in Int
  BY SeqFacts DEF InDomain
<1>1. r \in T /\ T \in SUBSET (0 .. L)
  BY <1>0
<1>2. PICK k \in T : \A m \in T : k >= m
  BY <1>0, <1>1, GreatestNumber
<1>3. k \in 1 .. L /\ s[k] = s[r] /\ r <= k
  BY <1>0, <1>1, <1>2
<1>4. ASSUME k # L PROVE s[k + 1] # s[k]
  <2>1. k + 1 \in 1 .. L /\ k + 1 \in 0 .. L /\ ~ (k >= k + 1)
    BY <1>0, <1>3, <1>4
  <2>2. k + 1 \notin T
    BY <1>2, <2>1
  <2> QED
    BY <1>3, <2>1, <2>2
<1> QED
  BY <1>3, <1>4 DEF LastOfKey

(* The count at the last row of a key is that of all its rows; the last    *)
(* rows of two keys are in the order of the keys.                          *)
LEMMA RunFacts ==
  ASSUME NEW s, InDomain(s)
  PROVE  /\ \A k \in LastOfKey(s) : RunLength(s, k) = Cardinality(KeyRows(s, Slot(s, k)))
         /\ \A k, l \in LastOfKey(s) : k < l => Slot(s, k) < Slot(s, l)
<1>0. /\ s \in Seq(Int) /\ Len(s) \in Nat /\ \A k \in 1 .. Len(s) : s[k] \in Int
      /\ \A k, l \in 1 .. Len(s) : k < l => s[k] <= s[l]
  BY SeqFacts DEF InDomain, Ascends
<1>1. ASSUME NEW k \in LastOfKey(s), NEW l \in 1 .. Len(s), k < l PROVE s[k] < s[l]
  <2>1. k \in 1 .. Len(s) /\ k # Len(s) /\ s[k + 1] # s[k]
    BY <1>0, <1>1 DEF LastOfKey
  <2>2. k + 1 \in 1 .. Len(s) /\ (k + 1 = l \/ k + 1 < l) /\ k < k + 1
    BY <1>0, <1>1, <2>1
  <2>3. s[k] <= s[k + 1] /\ (k + 1 < l => s[k + 1] <= s[l])
    BY <1>0, <2>1, <2>2
  <2>4. s[k] \in Int /\ s[k + 1] \in Int /\ s[l] \in Int
    BY <1>0, <2>1, <2>2
  <2> QED
    BY <2>1, <2>2, <2>3, <2>4
<1>2. ASSUME NEW k \in LastOfKey(s) PROVE RunLength(s, k) = Cardinality(KeyRows(s, Slot(s, k)))
  <2>1. k \in 1 .. Len(s)
    BY DEF LastOfKey
  <2>2. \A l \in 1 .. Len(s) : Slot(s, l) = Slot(s, k) <=> s[l] = s[k]
    <3>1. keyMin \in Int
      BY DEF InDomain
    <3> QED
      BY <1>0, <2>1, <3>1 DEF Slot
  <2>3. \A l \in 1 .. Len(s) : s[l] = s[k] => l \in 1 .. k
    BY <1>0, <1>1, <2>1
  <2>4. \A l \in 1 .. k : l \in 1 .. Len(s)
    BY <1>0, <2>1
  <2>5. {l \in 1 .. k : s[l] = s[k]} = KeyRows(s, Slot(s, k))
    BY <2>2, <2>3, <2>4, Zenon DEF KeyRows
  <2> QED
    BY <2>5 DEF RunLength
<1>3. ASSUME NEW k \in LastOfKey(s), NEW l \in LastOfKey(s), k < l PROVE Slot(s, k) < Slot(s, l)
  <2>1. k \in 1 .. Len(s) /\ l \in 1 .. Len(s)
    BY DEF LastOfKey
  <2>2. s[k] < s[l] /\ s[k] \in Int /\ s[l] \in Int
    BY <1>0, <1>1, <1>3, <2>1
  <2>3. keyMin \in Int
    BY DEF InDomain
  <2> QED
    BY <2>2, <2>3 DEF Slot
<1> QED
  BY <1>2, <1>3

-----------------------------------------------------------------------------
(* The compacted histogram: the last rows, then nothing.                   *)
Cells == [first : Int, second : Int]

(* The marked entries are the last rows of the keys.                       *)
LEMMA RunsMarked ==
  ASSUME NEW s, InDomain(s)
  PROVE  /\ Runs(s) \in [1 .. Len(s) -> Cells]
         /\ Len(Runs(s)) = Len(s)
         /\ Marked(Runs(s)) = LastOfKey(s)
         /\ \A k \in LastOfKey(s) : Runs(s)[k] = Entry(Slot(s, k), RunLength(s, k))
<1> DEFINE L == Len(s)
<1>0. /\ s \in Seq(Int) /\ L \in Nat /\ DOMAIN s = 1 .. L /\ \A k \in 1 .. L : s[k] \in Int
      /\ keyMin \in Int
  BY SeqFacts DEF InDomain
<1>1. ASSUME NEW k \in 1 .. L PROVE RunLength(s, k) \in Nat
  <2>1. IsFiniteSet(1 .. k)
    BY FS_Interval
  <2>2. IsFiniteSet({l \in 1 .. k : s[l] = s[k]})
    BY <2>1, FS_Subset
  <2> QED
    BY <2>2, FS_CardinalityType DEF RunLength
<1>2. \A k \in 1 .. L : Runs(s)[k] = IF k \in LastOfKey(s) THEN Entry(Slot(s, k), RunLength(s, k)) ELSE None
  BY <1>0 DEF Runs, LastOfKey, Slot
<1>3. \A k \in LastOfKey(s) : k \in 1 .. L
  BY DEF LastOfKey
<1>4. \A k \in LastOfKey(s) : Runs(s)[k] = Entry(Slot(s, k), RunLength(s, k))
  BY <1>2, <1>3
<1>5. DOMAIN Runs(s) = 1 .. L
  BY <1>0 DEF Runs
<1>6. ASSUME NEW k \in 1 .. L PROVE Runs(s)[k] \in Cells /\ (Runs(s)[k].second # IntMin <=> k \in LastOfKey(s))
  <2>1. CASE k \in LastOfKey(s)
    <3>1. Runs(s)[k] = Entry(Slot(s, k), RunLength(s, k)) /\ Slot(s, k) \in Int /\ RunLength(s, k) \in Nat
      BY <1>0, <1>1, <1>4, <2>1 DEF Slot
    <3>2. PICK x \in Int, y \in Nat : Runs(s)[k] = [first |-> x, second |-> y]
      BY <3>1 DEF Entry
    <3> QED
      BY <2>1, <3>2 DEF Cells, IntMin
  <2>2. CASE k \notin LastOfKey(s)
    <3>1. Runs(s)[k] = None
      BY <1>2, <2>2
    <3>2. None = [first |-> -1, second |-> -2147483647 - 1]
      BY DEF None, Entry, IntMin
    <3>3. None \in Cells /\ None.second = IntMin
      BY <3>2 DEF Cells, IntMin
    <3> QED
      BY <2>2, <3>1, <3>3
  <2> QED
    BY <2>1, <2>2
<1>7. Runs(s) \in [1 .. L -> Cells]
  <2>1. Runs(s) = [k \in 1 .. L |-> Runs(s)[k]]
    BY <1>0 DEF Runs
  <2> QED
    BY <1>6, <2>1
<1>8. Len(Runs(s)) = L
  BY <1>0, <1>7, ArrayIsSeq
<1>9. Marked(Runs(s)) = LastOfKey(s)
  <2>1. Marked(Runs(s)) = {k \in 1 .. L : Runs(s)[k].second # IntMin}
    BY <1>5 DEF Marked
  <2>2. \A k : k \in Marked(Runs(s)) <=> k \in LastOfKey(s)
    BY <1>3, <1>6, <2>1
  <2> QED
    BY <2>2
<1> QED
  BY <1>4, <1>7, <1>8, <1>9

(* What the compaction hands to expand: as many items as there are keys,   *)
(* in the order of the keys.                                               *)
Histogram(s) == Compacted(Runs(s), domainSize)

(* Compacted, they are where expand can take them from.                    *)
LEMMA HistogramSpread ==
  ASSUME NEW s, InDomain(s)
  PROVE  /\ Histogram(s) \in [1 .. domainSize -> Cells]
         /\ Spread(Histogram(s), Cardinality(LastOfKey(s)), domainSize)
         /\ \A m \in 1 .. Cardinality(LastOfKey(s)) :
              Histogram(s)[m] = Entry(Slot(s, Nth(LastOfKey(s), m)), RunLength(s, Nth(LastOfKey(s), m)))
         /\ \A m \in Cardinality(LastOfKey(s)) + 1 .. domainSize : Histogram(s)[m] \in {None, Entry(0, 0)}
<1> DEFINE M == Cardinality(LastOfKey(s))
           n == domainSize
           c == Histogram(s)
           nth(m) == Nth(LastOfKey(s), m)
           v == [m \in 1 .. M |-> Slot(s, nth(m))]
<1>0. /\ Len(s) \in Nat /\ n \in Nat \ {0} /\ keyMin \in Int /\ LastOfKey(s) \in SUBSET (1 .. Len(s))
      /\ \A k \in 1 .. Len(s) : Slot(s, k) \in 0 .. n - 1
  BY SeqFacts DEF InDomain, LastOfKey
<1>1. /\ M \in Nat
      /\ \A m \in 1 .. M : nth(m) \in LastOfKey(s)
      /\ \A m, l \in 1 .. M : m < l => nth(m) < nth(l)
  BY <1>0, NthFacts
<1>2. /\ \A m \in 1 .. M : v[m] = Slot(s, nth(m)) /\ v[m] \in 0 .. n - 1 /\ v[m] \in Int
  <2>1. \A m \in 1 .. M : nth(m) \in 1 .. Len(s)
    BY <1>0, <1>1
  <2> HIDE DEF n
  <2> QED
    BY <1>0, <2>1
<1>3. Rising(v, M)
  <2> SUFFICES ASSUME NEW m \in 1 .. M - 1 PROVE v[m] < v[m + 1]
    BY DEF Rising
  <2>1. m \in 1 .. M /\ m + 1 \in 1 .. M /\ m < m + 1
    BY <1>1
  <2>2. nth(m) < nth(m + 1) /\ nth(m) \in LastOfKey(s) /\ nth(m + 1) \in LastOfKey(s)
    BY <1>1, <2>1
  <2>3. Slot(s, nth(m)) < Slot(s, nth(m + 1))
    BY <2>2, RunFacts
  <2> HIDE DEF v
  <2> QED
    BY <1>2, <2>1, <2>3
<1> HIDE DEF v
<1>4. \A k, l \in 1 .. M : k <= l => v[l] - v[k] >= l - k
  BY <1>1, <1>2, <1>3, RisingGap
<1>5. \A k \in 1 .. M : v[k] >= k - 1
  <2> SUFFICES ASSUME NEW k \in 1 .. M PROVE v[k] >= k - 1
    OBVIOUS
  <2>1. 1 \in 1 .. M /\ 1 <= k
    BY <1>1
  <2>2. v[k] - v[1] >= k - 1 /\ v[1] \in 0 .. n - 1 /\ v[k] \in Int
    BY <1>2, <1>4, <2>1
  <2>3. v[1] >= 0 /\ v[1] \in Int
    BY <1>0, <2>2
  <2> QED
    BY <2>2, <2>3
<1>6. M <= n
  <2>1. CASE M = 0
    BY <1>0, <2>1
  <2>2. CASE M # 0
    <3>1. M \in 1 .. M
      BY <1>1, <2>2
    <3>2. v[M] >= M - 1 /\ v[M] \in 0 .. n - 1
      BY <1>2, <1>5, <3>1
    <3> HIDE DEF M, n
    <3> QED
      BY <1>0, <1>1, <3>2
  <2> QED
    BY <2>1, <2>2
<1>7. /\ Runs(s) \in [1 .. Len(s) -> Cells] /\ Marked(Runs(s)) = LastOfKey(s)
      /\ \A k \in LastOfKey(s) : Runs(s)[k] = Entry(Slot(s, k), RunLength(s, k))
  BY RunsMarked
<1>8. c = [m \in 1 .. n |-> IF m <= M THEN Runs(s)[nth(m)]
                            ELSE IF m <= Len(Runs(s)) THEN None ELSE Entry(0, 0)]
  BY <1>7 DEF Histogram, Compacted
<1>9. ASSUME NEW m \in 1 .. n
      PROVE  /\ c[m] = IF m <= M THEN Entry(Slot(s, nth(m)), RunLength(s, nth(m)))
                       ELSE IF m <= Len(Runs(s)) THEN None ELSE Entry(0, 0)
             /\ c[m] \in Cells
  <2> HIDE DEF c
  <2>1. CASE m <= M
    <3>1. m \in 1 .. M
      BY <1>0, <1>1, <2>1
    <3>2. c[m] = Runs(s)[nth(m)] /\ nth(m) \in LastOfKey(s) /\ nth(m) \in 1 .. Len(s)
      BY <1>0, <1>1, <1>8, <2>1, <3>1
    <3>3. Runs(s)[nth(m)] \in Cells
      BY <1>7, <3>2
    <3> HIDE DEF M, n
    <3> QED
      BY <1>7, <2>1, <3>2, <3>3
  <2>2. CASE ~ (m <= M)
    <3>1. c[m] = IF m <= Len(Runs(s)) THEN None ELSE Entry(0, 0)
      BY <1>8, <2>2
    <3>2. None \in Cells /\ Entry(0, 0) \in Cells
      BY DEF None, Entry, IntMin, Cells
    <3> QED
      BY <2>2, <3>1, <3>2
  <2> QED
    BY <2>1, <2>2
<1>10. c \in [1 .. n -> Cells]
  <2>1. DOMAIN c = 1 .. n /\ c = [m \in 1 .. n |-> c[m]]
    BY <1>8
  <2> HIDE DEF c, n
  <2> QED
    BY <1>9, <2>1
<1> HIDE DEF c
<1>11. \A m \in 1 .. M : m \in 1 .. n /\ c[m] = Entry(Slot(s, nth(m)), RunLength(s, nth(m))) /\ c[m].first = v[m]
  <2> SUFFICES ASSUME NEW m \in 1 .. M
               PROVE  m \in 1 .. n /\ c[m] = Entry(Slot(s, nth(m)), RunLength(s, nth(m))) /\ c[m].first = v[m]
    OBVIOUS
  <2>1. m \in 1 .. n /\ m <= M
    BY <1>0, <1>1, <1>6
  <2>2. c[m] = Entry(Slot(s, nth(m)), RunLength(s, nth(m)))
    BY <1>9, <2>1
  <2> QED
    BY <1>2, <2>1, <2>2 DEF Entry
<1>12. \A m \in M + 1 .. n : c[m] \in {None, Entry(0, 0)} /\ c[m].first \in Int /\ c[m].first <= 0
  <2> SUFFICES ASSUME NEW m \in M + 1 .. n
               PROVE  c[m] \in {None, Entry(0, 0)} /\ c[m].first \in Int /\ c[m].first <= 0
    OBVIOUS
  <2>1. m \in 1 .. n /\ ~ (m <= M)
    BY <1>0, <1>1
  <2>2. c[m] \in {None, Entry(0, 0)}
    BY <1>9, <2>1
  <2> QED
    BY <2>2 DEF None, Entry
<1>13. Spread(c, M, n)
  <2>1. M \in 0 .. n
    BY <1>0, <1>1, <1>6
  <2>2. ASSUME NEW k \in 1 .. M PROVE c[k].first \in k - 1 .. n - 1
    <3>1. c[k].first = v[k] /\ v[k] >= k - 1 /\ v[k] \in 0 .. n - 1
      BY <1>2, <1>5, <1>11
    <3> HIDE DEF M, n
    <3> QED
      BY <1>0, <1>1, <3>1
  <2>3. ASSUME NEW k \in 1 .. M, NEW l \in 1 .. M, k < l PROVE Way(c, k) <= Way(c, l)
    <3>1. Way(c, k) = v[k] - (k - 1) /\ Way(c, l) = v[l] - (l - 1)
      BY <1>11 DEF Way
    <3>2. v[l] - v[k] >= l - k /\ v[k] \in Int /\ v[l] \in Int
      BY <1>2, <1>4, <2>3
    <3> HIDE DEF M, n
    <3> QED
      BY <3>1, <3>2
  <2> HIDE DEF M, n
  <2> QED
    BY <1>12, <2>1, <2>2, <2>3 DEF Spread
<1> QED
  BY <1>10, <1>11, <1>12, <1>13 DEF c

(* getHistBins counts the rows of every key, whether the table has more    *)
(* rows than the domain has keys or fewer.                                 *)
LEMMA CountsCorrect ==
  ASSUME NEW s, InDomain(s), NEW k \in 0 .. domainSize - 1
  PROVE  Counts(s)[k] = Cardinality(KeyRows(s, k)) /\ Counts(s)[k] \in Nat
<1> DEFINE M == Cardinality(LastOfKey(s))
           n == domainSize
           c == Histogram(s)
           b == Place(c)
           h == Expand(c, None)
           nth(m) == Nth(LastOfKey(s), m)
<1>0. /\ Len(s) \in Nat /\ n \in Nat \ {0} /\ keyMin \in Int /\ LastOfKey(s) \in SUBSET (1 .. Len(s))
      /\ \A r \in 1 .. Len(s) : s[r] \in Int
  BY SeqFacts DEF InDomain, LastOfKey
<1>1. /\ M \in Nat
      /\ \A m \in 1 .. M : nth(m) \in LastOfKey(s)
      /\ \A r \in LastOfKey(s) : Rank(LastOfKey(s), r) \in 1 .. M /\ nth(Rank(LastOfKey(s), r)) = r
  BY <1>0, NthFacts
<1>2. /\ c \in [1 .. n -> Cells] /\ Spread(c, M, n)
      /\ \A m \in 1 .. M : c[m] = Entry(Slot(s, nth(m)), RunLength(s, nth(m)))
      /\ \A m \in M + 1 .. n : c[m] \in {None, Entry(0, 0)}
  BY HistogramSpread
<1>3. M \in 0 .. n
  BY <1>2 DEF Spread
<1> HIDE DEF c, M, n
<1>4. PICK from : Shuffled(b, c, from, n) /\ Home(c, from, M, n)
  <2>1. Placed(Place(c), c, n)
    BY <1>0, <1>2, ItemsPlaced
  <2> QED
    BY <1>2, <2>1 DEF Placed
<1>5. FilledFrom(h, b, None, n) /\ None.first < 0
  <2>1. None.first = -1
    BY DEF None, Entry
  <2>2. n \in Nat /\ c \in [1 .. n -> Cells] /\ None.first \in Int
    BY <1>0, <1>2, <2>1
  <2>3. FilledFrom(h, b, None, n)
    BY <2>2, SlotsFilled
  <2> QED
    BY <2>1, <2>3
<1> HIDE DEF b, h
<1>6. /\ from \in [1 .. n -> 1 .. n] /\ \A m \in 1 .. n : \E p \in 1 .. n : from[p] = m
      /\ \A p \in 1 .. n : b[p] = c[from[p]]
  BY <1>4 DEF Shuffled
<1>7. \A m \in 1 .. M : c[m].first = Slot(s, nth(m)) /\ c[m].second = Cardinality(KeyRows(s, c[m].first))
  <2> SUFFICES ASSUME NEW m \in 1 .. M
               PROVE  c[m].first = Slot(s, nth(m)) /\ c[m].second = Cardinality(KeyRows(s, c[m].first))
    OBVIOUS
  <2>1. c[m].first = Slot(s, nth(m)) /\ c[m].second = RunLength(s, nth(m))
    <3>1. c[m] = Entry(Slot(s, nth(m)), RunLength(s, nth(m)))
      BY <1>2
    <3>2. \A x, y : Entry(x, y).first = x /\ Entry(x, y).second = y
      BY DEF Entry
    <3> QED
      BY <3>1, <3>2
  <2>2. RunLength(s, nth(m)) = Cardinality(KeyRows(s, Slot(s, nth(m))))
    BY <1>1, RunFacts
  <2> QED
    BY <2>1, <2>2
\* An item lies in the slot of its key.
<1>8. ASSUME NEW m \in 1 .. M, c[m].first = k
      PROVE  b[k + 1] = c[m] /\ from[k + 1] = m /\ b[k + 1].first = k
  <2>1. m \in 1 .. n
    BY <1>0, <1>3
  <2>2. PICK p \in 1 .. n : from[p] = m
    BY <1>6, <2>1
  <2>3. c[from[p]].first = p - 1
    BY <1>4, <2>2 DEF Home
  <2>4. p = k + 1
    BY <1>8, <2>2, <2>3
  <2> QED
    BY <1>6, <1>8, <2>2, <2>4
<1>9. ASSUME \A m \in 1 .. M : c[m].first # k PROVE KeyRows(s, k) = {}
  <2> SUFFICES ASSUME NEW r \in 1 .. Len(s), Slot(s, r) = k PROVE FALSE
    BY DEF KeyRows
  <2>1. PICK l \in LastOfKey(s) : s[l] = s[r]
    BY LastRow
  <2>2. Slot(s, l) = k
    BY <2>1 DEF Slot
  <2>3. PICK m \in 1 .. M : nth(m) = l
    BY <1>1, <2>1
  <2>4. c[m].first = k
    BY <1>7, <2>2, <2>3
  <2> QED
    BY <1>9, <2>4
<1>10. k + 1 \in 1 .. n /\ k \in Int /\ k \in 0 .. n - 1
  BY <1>0 DEF n
<1>11. Counts(s)[k] = IF h[k + 1].first = k THEN h[k + 1].second ELSE 0
  <2>1. Counts(s) = [l \in 0 .. domainSize - 1 |->
                       IF Expand(Compacted(Runs(s), domainSize), None)[l + 1].first = l
                       THEN Expand(Compacted(Runs(s), domainSize), None)[l + 1].second ELSE 0]
    BY DEF Counts
  <2> QED
    BY <2>1 DEF h, c, Histogram
<1>12. Cardinality(KeyRows(s, k)) \in Nat
  <2>1. IsFiniteSet(1 .. Len(s))
    BY <1>0, FS_Interval
  <2>2. IsFiniteSet(KeyRows(s, k))
    BY <2>1, FS_Subset DEF KeyRows
  <2> QED
    BY <2>2, FS_CardinalityType
<1>13. CASE \E m \in 1 .. M : c[m].first = k
  <2>1. PICK m \in 1 .. M : c[m].first = k
    BY <1>13
  <2>2. b[k + 1] = c[m] /\ b[k + 1].first = k
    BY <1>8, <2>1
  <2>3. h[k + 1] = b[k + 1]
    <3>1. b[k + 1].first = (k + 1) - 1
      BY <1>10, <2>2
    <3> QED
      BY <1>5, <1>10, <3>1 DEF FilledFrom
  <2>4. h[k + 1] = c[m]
    BY <2>2, <2>3
  <2>5. h[k + 1].first = k /\ h[k + 1].second = Cardinality(KeyRows(s, k))
    BY <1>7, <2>1, <2>4
  <2> QED
    BY <1>11, <1>12, <2>5
<1>14. CASE ~ \E m \in 1 .. M : c[m].first = k
  <2>1. Cardinality(KeyRows(s, k)) = 0
    BY <1>9, <1>14, FS_EmptySet
  <2>2. CASE h[k + 1].first = k
    <3>1. h[k + 1] = b[k + 1]
      <4>1. h[k + 1].first = (k + 1) - 1
        BY <1>10, <2>2
      <4> QED
        BY <1>5, <1>10, <4>1 DEF FilledFrom
    <3>2. h[k + 1] = c[from[k + 1]] /\ from[k + 1] \in 1 .. n
      BY <1>6, <1>10, <3>1
    <3>3. from[k + 1] \notin 1 .. M
      BY <1>14, <2>2, <3>2
    <3>4. from[k + 1] \in M + 1 .. n
      BY <1>0, <1>1, <3>2, <3>3
    <3>5. h[k + 1] \in {None, Entry(0, 0)}
      BY <1>2, <3>2, <3>4
    <3>6. h[k + 1] = Entry(0, 0)
      BY <1>10, <2>2, <3>5 DEF None, Entry
    <3>7. h[k + 1].second = 0
      BY <3>6 DEF Entry
    <3> QED
      BY <1>11, <2>1, <2>2, <3>7
  <2>3. CASE h[k + 1].first # k
    BY <1>11, <2>1, <2>3
  <2> QED
    BY <2>2, <2>3
<1> QED
  BY <1>13, <1>14

-----------------------------------------------------------------------------
(* The state.  How many keys of a table the scan has been over, and which  *)
(* tables have their buckets.                                              *)
Scanned(t) ==
  CASE t \notin Tables \/ pc = "hist" -> 0
    [] t \in Tables /\ pc \in {"partition", "crashed"} ->
         IF t \in Cutting THEN at ELSE IF t < table THEN domainSize ELSE 0
    [] OTHER -> domainSize

Built(t) ==
  t \in Tables /\ (pc \in {"move", "slice", "query"} \/ (pc \in {"partition", "crashed"} /\ t < table))

InKeys(s, lo, hi) == {r \in 1 .. Len(s) : Slot(s, r) \in lo .. hi}

\* How many rows have keys from lo to hi, counted from min.
Held(s, min, lo, hi) == Cardinality({r \in 1 .. Len(s) : s[r] - min \in lo .. hi})

PcInv ==
  /\ pc \in {"hist", "partition", "crashed", "move", "slice", "query"}
  /\ table \in {1, 2} /\ (table = 2 => 2 \in Tables)
  /\ mode = "uni" /\ pc \in {"partition", "crashed"} => table = 1
  /\ mode = "uni" => pc # "slice"
  /\ at \in 0 .. domainSize /\ (pc = "hist" => at = 0 /\ \A t \in {1, 2} : real[t] = 0)
  /\ pass # "idle" => pc = "query"

HistInv ==
  /\ DOMAIN hist = {1, 2}
  /\ \A t \in Tables : pc # "hist" \/ t < table =>
       \A k \in 0 .. domainSize - 1 : hist[t][k] = Held(rows[t], keyMin, k, k)

Sizes == [real : Nat, noisy : Nat]

CutType ==
  /\ real \in [{1, 2} -> Nat]
  /\ boundaries \in [{1, 2} -> Seq(Nat)]
  /\ partitionSizes \in [{1, 2} -> Seq(Sizes)]
  /\ accumulateSizes \in [{1, 2} -> Seq(Cells)]

\* The first key of the k-th partition.
FirstKey(b, k) == IF k = 1 THEN 0 ELSE b[k - 1] + 1

(* The partitions that end at the keys b, all below reach: they are in the *)
(* order of their keys and as large as the rows with these keys.           *)
Partition(s, min, b, sizes, reach) ==
  /\ Len(sizes) = Len(b)
  /\ \A k \in 1 .. Len(b) : b[k] \in 0 .. reach - 1
  /\ \A k, l \in 1 .. Len(b) : k < l => b[k] < b[l]
  /\ \A k \in 1 .. Len(b) : /\ sizes[k].real = Held(s, min, FirstKey(b, k), b[k])
                            /\ sizes[k].noisy >= sizes[k].real

\* The last partition ends with the domain.
Complete(b, size) == Len(b) # 0 => b[Len(b)] = size - 1

Partitioned(t) ==
  /\ Partition(rows[t], keyMin, boundaries[t], partitionSizes[t], Scanned(t))
  /\ Scanned(t) = domainSize => /\ Complete(boundaries[t], domainSize)
                                /\ t = 1 \/ mode = "uni" => boundaries[t] # <<>>
  /\ pc = "partition" /\ t \in Cutting =>
       real[t] = Held(rows[t], keyMin, FirstKey(boundaries[t], Len(boundaries[t]) + 1), at - 1)

BucketInv ==
  /\ buckets = [t \in {1, 2} |-> IF Built(t) THEN [k \in 1 .. Len(boundaries[t]) |-> BucketOf(t, k)]
                                 ELSE <<>>]
  /\ pass = "idle" => /\ bucketNoisyMax \in Nat
                      /\ \A t \in {1, 2} : \A k \in 1 .. Len(buckets[t]) :
                           buckets[t][k].numData <= bucketNoisyMax

HTreeInv ==
  /\ RowsInv /\ PcInv /\ HistInv /\ CutType
  /\ \A t \in {1, 2} : Partitioned(t)
  /\ BucketInv
  /\ WalkInv /\ RoomInv

-----------------------------------------------------------------------------
(* The least of two numbers.                                               *)
LEMMA LeastOf ==
  ASSUME NEW S \in SUBSET Int, NEW x \in S, NEW y \in S, \A z \in S : x <= z \/ y <= z
  PROVE  Min(S) \in S /\ \A z \in S : Min(S) <= z
<1>1. \E z \in S : \A u \in S : z <= u
  <2>1. CASE x <= y
    <3>1. \A u \in S : x <= u
      BY <2>1
    <3> QED
      BY <3>1
  <2>2. CASE ~ (x <= y)
    <3>1. \A u \in S : y <= u
      BY <2>2
    <3> QED
      BY <3>1
  <2> QED
    BY <2>1, <2>2
<1> QED
  BY <1>1 DEF Min

(* The greatest of two.                                                    *)
LEMMA GreatestOf ==
  ASSUME NEW S \in SUBSET Int, NEW x \in S, NEW y \in S, \A z \in S : z <= x \/ z <= y
  PROVE  Max(S) \in S /\ \A z \in S : z <= Max(S)
<1>1. \E z \in S : \A u \in S : z >= u
  <2>1. CASE x <= y
    <3>1. \A u \in S : y >= u
      BY <2>1
    <3> QED
      BY <3>1
  <2>2. CASE ~ (x <= y)
    <3>1. \A u \in S : x >= u
      BY <2>2
    <3> QED
      BY <3>1
  <2> QED
    BY <2>1, <2>2
<1>2. Max(S) \in S /\ \A z \in S : Max(S) >= z
  BY <1>1 DEF Max
<1>3. \A z \in S : Max(S) \in Int /\ z \in Int
  BY <1>2
<1> QED
  BY <1>2, <1>3

(* Every key of a table is in the domain.                                  *)
LEMMA DomainFacts ==
  ASSUME RowsInv
  PROVE  /\ keyMin \in Int /\ domainSize \in Nat \ {0} /\ keyMax = keyMin + domainSize - 1
         /\ Tables \in SUBSET {1, 2} /\ 1 \in Tables /\ (mode = "uni" => 2 \in Tables)
         /\ \A t \in Tables : InDomain(rows[t])
<1> DEFINE S == UNION {Range(rows[t]) : t \in Tables}
           o == IF 2 \in Tables THEN 2 ELSE 1
           lo(t) == rows[t][1]
           hi(t) == rows[t][Len(rows[t])]
<1>1. Tables \in SUBSET {1, 2} /\ 1 \in Tables /\ (mode = "uni" => 2 \in Tables) /\ o \in Tables
      /\ \A t \in Tables : t = 1 \/ t = o
  BY DEF RowsInv, Tables
<1>2. ASSUME NEW t \in Tables
      PROVE  /\ rows[t] \in Seq(Int) /\ Len(rows[t]) \in Nat \ {0} /\ DOMAIN rows[t] = 1 .. Len(rows[t])
             /\ lo(t) \in Int /\ hi(t) \in Int
             /\ \A k \in 1 .. Len(rows[t]) : rows[t][k] \in Int /\ lo(t) <= rows[t][k] /\ rows[t][k] <= hi(t)
  <2>1. rows[t] \in Seq(Int) /\ rows[t] # <<>> /\ Ascends(rows[t])
    BY <1>1 DEF RowsInv, Tables
  <2>2. Len(rows[t]) \in Nat \ {0} /\ DOMAIN rows[t] = 1 .. Len(rows[t])
    BY <2>1
  <2>3. PICK s \in Seq(Int), n \in Nat \ {0} : s = rows[t] /\ n = Len(s)
    BY <2>1, <2>2
  <2>4. \A k \in 1 .. n : s[k] \in Int
    BY <2>3
  <2>5. 1 \in 1 .. n /\ n \in 1 .. n
    OBVIOUS
  <2>6. ASSUME NEW k \in 1 .. n PROVE s[1] <= s[k] /\ s[k] <= s[n]
    <3>1. (1 < k => s[1] <= s[k]) /\ (k < n => s[k] <= s[n])
      BY <2>1, <2>3, <2>5 DEF Ascends
    <3>2. s[1] \in Int /\ s[k] \in Int /\ s[n] \in Int
      BY <2>4, <2>5
    <3>3. (1 < k \/ k = 1) /\ (k < n \/ k = n)
      OBVIOUS
    <3> QED
      BY <3>1, <3>2, <3>3
  <2> QED
    BY <2>1, <2>2, <2>3, <2>4, <2>5, <2>6
<1>3. \A z : z \in S <=> \E t \in Tables : \E k \in 1 .. Len(rows[t]) : z = rows[t][k]
  <2>1. \A t \in Tables : Range(rows[t]) = {rows[t][k] : k \in 1 .. Len(rows[t])}
    BY <1>2 DEF Range
  <2>2. \A t \in Tables : \A z : z \in Range(rows[t]) <=> \E k \in 1 .. Len(rows[t]) : z = rows[t][k]
    BY <2>1
  <2>3. \A z : z \in S <=> \E t \in Tables : z \in Range(rows[t])
    BY Zenon
  <2> HIDE DEF S
  <2>4. ASSUME NEW z, z \in S PROVE \E t \in Tables : \E k \in 1 .. Len(rows[t]) : z = rows[t][k]
    <3>1. PICK t \in Tables : z \in Range(rows[t])
      BY <2>3, <2>4
    <3>2. PICK k \in 1 .. Len(rows[t]) : z = rows[t][k]
      BY <2>2, <3>1
    <3> QED
      BY <3>2
  <2>5. ASSUME NEW z, NEW t \in Tables, NEW k \in 1 .. Len(rows[t]), z = rows[t][k] PROVE z \in S
    <3>1. z \in Range(rows[t])
      BY <2>2, <2>5
    <3> QED
      BY <2>3, <3>1
  <2> QED
    BY <2>4, <2>5
<1> HIDE DEF S
<1>4. S \in SUBSET Int
  BY <1>2, <1>3
<1>5. \A t \in Tables : lo(t) \in S /\ hi(t) \in S
  <2> SUFFICES ASSUME NEW t \in Tables PROVE lo(t) \in S /\ hi(t) \in S
    OBVIOUS
  <2>1. 1 \in 1 .. Len(rows[t]) /\ Len(rows[t]) \in 1 .. Len(rows[t])
    BY <1>2
  <2> QED
    BY <1>3, <2>1
<1>6. \A z \in S : (lo(1) <= z \/ lo(o) <= z) /\ (z <= hi(1) \/ z <= hi(o))
  BY <1>1, <1>2, <1>3, SMTT(30)
<1> HIDE DEF lo, hi
<1>7. keyMin \in S /\ \A z \in S : keyMin <= z
  <2>1. PICK x \in S, y \in S : \A z \in S : x <= z \/ y <= z
    BY <1>1, <1>5, <1>6
  <2>2. Min(S) \in S /\ \A z \in S : Min(S) <= z
    BY <1>4, <2>1, LeastOf
  <2> QED
    BY <2>2 DEF keyMin, S
<1>8. keyMax \in S /\ \A z \in S : z <= keyMax
  <2>1. PICK x \in S, y \in S : \A z \in S : z <= x \/ z <= y
    BY <1>1, <1>5, <1>6
  <2>2. Max(S) \in S /\ \A z \in S : z <= Max(S)
    BY <1>4, <2>1, GreatestOf
  <2> QED
    BY <2>2 DEF keyMax, S
<1>9. keyMin \in Int /\ keyMax \in Int /\ keyMin <= keyMax
  BY <1>4, <1>7, <1>8
<1>10. domainSize \in Nat \ {0} /\ keyMax = keyMin + domainSize - 1
  BY <1>9 DEF domainSize
<1>11. ASSUME NEW t \in Tables PROVE InDomain(rows[t])
  <2>1. Ascends(rows[t])
    BY <1>1 DEF RowsInv
  <2>2. ASSUME NEW k \in 1 .. Len(rows[t]) PROVE Slot(rows[t], k) \in 0 .. domainSize - 1
    <3>1. rows[t][k] \in S /\ rows[t][k] \in Int
      BY <1>2, <1>3
    <3>2. PICK x \in Int : x = rows[t][k] /\ keyMin <= x /\ x <= keyMax
      BY <1>7, <1>8, <3>1
    <3>3. x - keyMin \in 0 .. domainSize - 1
      BY <1>9, <1>10, <3>2
    <3> QED
      BY <3>2, <3>3 DEF Slot
  <2> QED
    BY <1>2, <1>9, <1>10, <2>1, <2>2 DEF InDomain
<1> QED
  BY <1>1, <1>9, <1>10, <1>11

-----------------------------------------------------------------------------
(* The rows of one more key.                                               *)
LEMMA KeyAdded ==
  ASSUME NEW s, InDomain(s), NEW lo \in Nat, NEW hi \in Nat, lo <= hi
  PROVE  /\ IsFiniteSet(InKeys(s, lo, hi)) /\ Cardinality(InKeys(s, lo, hi)) \in Nat
         /\ Cardinality(InKeys(s, lo, hi - 1)) \in Nat /\ Cardinality(KeyRows(s, hi)) \in Nat
         /\ Cardinality(InKeys(s, lo, hi)) = Cardinality(InKeys(s, lo, hi - 1)) + Cardinality(KeyRows(s, hi))
<1> DEFINE A == InKeys(s, lo, hi - 1)
           B == KeyRows(s, hi)
           C == InKeys(s, lo, hi)
<1>1. \A r \in 1 .. Len(s) : Slot(s, r) \in Int
  BY DEF InDomain
<1>2. Len(s) \in Nat /\ IsFiniteSet(1 .. Len(s))
  <2>1. Len(s) \in Nat
    BY SeqFacts DEF InDomain
  <2> QED
    BY <2>1, FS_Interval
<1>3. IsFiniteSet(A) /\ IsFiniteSet(B) /\ IsFiniteSet(C)
  BY <1>2, FS_Subset DEF InKeys, KeyRows
<1>4. \A r \in 1 .. Len(s) : /\ Slot(s, r) \in lo .. hi <=> Slot(s, r) \in lo .. hi - 1 \/ Slot(s, r) = hi
                             /\ ~ (Slot(s, r) \in lo .. hi - 1 /\ Slot(s, r) = hi)
  <2> SUFFICES ASSUME NEW r \in 1 .. Len(s)
               PROVE  /\ Slot(s, r) \in lo .. hi <=> Slot(s, r) \in lo .. hi - 1 \/ Slot(s, r) = hi
                      /\ ~ (Slot(s, r) \in lo .. hi - 1 /\ Slot(s, r) = hi)
    OBVIOUS
  <2>1. PICK x \in Int : x = Slot(s, r)
    BY <1>1
  <2>2. (x \in lo .. hi <=> x \in lo .. hi - 1 \/ x = hi) /\ ~ (x \in lo .. hi - 1 /\ x = hi)
    OBVIOUS
  <2> QED
    BY <2>1, <2>2
<1>5. C = A \cup B /\ A \cap B = {}
  BY <1>4, Zenon DEF InKeys, KeyRows
<1> HIDE DEF A, B, C
<1>6. Cardinality(C) = Cardinality(A) + Cardinality(B) - Cardinality({})
  BY <1>3, <1>5, FS_Union
<1>7. Cardinality({}) = 0 /\ Cardinality(A) \in Nat /\ Cardinality(B) \in Nat /\ Cardinality(C) \in Nat
  BY <1>3, FS_EmptySet, FS_CardinalityType
<1>8. Cardinality(C) = Cardinality(A) + Cardinality(B)
  BY <1>6, <1>7
<1> QED
  BY <1>3, <1>7, <1>8 DEF A, B, C

(* Those of no key.                                                        *)
LEMMA NoKeys ==
  ASSUME NEW s, InDomain(s), NEW lo \in Nat
  PROVE  Cardinality(InKeys(s, lo, lo - 1)) = 0
<1>1. \A r \in 1 .. Len(s) : ~ (Slot(s, r) \in lo .. lo - 1)
  BY DEF InDomain
<1>2. InKeys(s, lo, lo - 1) = {}
  BY <1>1, Zenon DEF InKeys
<1> QED
  BY <1>2, FS_EmptySet

(* The sums of a list of numbers.                                          *)
SumsRun(list, n) ==
  /\ Sums(list) \in [0 .. n -> Nat]
  /\ Sums(list)[0] = 0
  /\ \A k \in 1 .. n : Sums(list)[k] = Sums(list)[k - 1] + list[k]

(* The sums of a list of numbers.                                          *)
LEMMA SumsFacts ==
  ASSUME NEW n \in Nat, NEW list \in [1 .. n -> Nat]
  PROVE  SumsRun(list, n)
<1> DEFINE S == [k \in 1 .. n |-> [x \in Nat |-> x + list[k]]]
           Body(f) == [k \in 0 .. n |-> IF k = 0 THEN 0 ELSE f[k - 1] + list[k]]
           g == CHOOSE f : f = Body(f)
<1>1. S \in [1 .. n -> [Nat -> Nat]]
  <2>1. \A k \in 1 .. n : \A x \in Nat : x + list[k] \in Nat
    OBVIOUS
  <2> QED
    BY <2>1
<1>2. \A k \in 1 .. n : \A x \in Nat : S[k][x] = x + list[k]
  OBVIOUS
<1> HIDE DEF S
<1>3. PICK f \in [0 .. n -> Nat] : \A k \in 0 .. n : f[k] = IF k = 0 THEN 0 ELSE S[k][f[k - 1]]
  <2>1. HasFirstValues(Nat, 0, S, n)
    BY <1>1, BoundedRecursion
  <2> QED
    BY <2>1 DEF HasFirstValues
<1>4. f = Body(f)
  <2>1. ASSUME NEW k \in 0 .. n PROVE f[k] = IF k = 0 THEN 0 ELSE f[k - 1] + list[k]
    <3>1. CASE k = 0
      BY <1>3, <3>1
    <3>2. CASE k # 0
      <4>1. k \in 1 .. n /\ k - 1 \in 0 .. n
        BY <3>2
      <4>2. f[k - 1] \in Nat /\ f[k] = S[k][f[k - 1]]
        BY <1>3, <3>2, <4>1
      <4> QED
        BY <1>2, <3>2, <4>1, <4>2
    <3> QED
      BY <3>1, <3>2
  <2> QED
    BY <2>1
<1>5. g = Body(g)
  <2> HIDE DEF Body
  <2> QED
    BY <1>4
<1>6. Sums(list) = g
  <2>1. Len(list) = n
    BY ArrayIsSeq
  <2>2. Sums(list) = CHOOSE h : h = [k \in 0 .. Len(list) |-> IF k = 0 THEN 0 ELSE h[k - 1] + list[k]]
    BY DEF Sums
  <2> QED
    BY <2>1, <2>2
<1> HIDE DEF g
<1>7. \A k \in 0 .. n : g[k] = IF k = 0 THEN 0 ELSE g[k - 1] + list[k]
  BY <1>5
<1>8. \A k \in 0 .. n : g[k] \in Nat
  <2> DEFINE T == {k \in Nat : k <= n /\ g[k] \notin Nat}
  <2>1. T = {}
    <3> SUFFICES ASSUME T # {} PROVE FALSE
      OBVIOUS
    <3>1. PICK k \in T : \A l \in 0 .. k - 1 : l \notin T
      BY LeastNumber
    <3>2. k # 0
      BY <1>7, <3>1
    <3>3. k \in 1 .. n /\ k \in 0 .. n /\ k - 1 \in 0 .. k - 1 /\ k - 1 \in Nat /\ k - 1 <= n
      BY <3>1, <3>2
    <3>4. g[k - 1] \in Nat /\ list[k] \in Nat /\ g[k] = g[k - 1] + list[k]
      BY <1>7, <3>1, <3>2, <3>3
    <3> QED
      BY <3>1, <3>4, SMTT(30)
  <2> QED
    BY <2>1, SMTT(30)
<1>9. g = [k \in 0 .. n |-> g[k]]
  BY <1>5
<1>10. g \in [0 .. n -> Nat]
  <2> HIDE DEF Body
  <2> QED
    BY <1>8, <1>9
<1>11. 0 \in 0 .. n /\ \A k \in 1 .. n : k \in 0 .. n /\ k # 0
  OBVIOUS
<1> QED
  BY <1>6, <1>7, <1>10, <1>11 DEF SumsRun

-----------------------------------------------------------------------------
(* The numbers of rows that the scan adds up.                              *)
LEMMA HeldFacts ==
  ASSUME NEW s, InDomain(s), NEW lo \in Nat, NEW hi \in Nat, lo <= hi
  PROVE  /\ Held(s, keyMin, lo, hi) \in Nat /\ Held(s, keyMin, lo, lo - 1) = 0
         /\ Held(s, keyMin, lo, hi) = Held(s, keyMin, lo, hi - 1) + Held(s, keyMin, hi, hi)
<1>1. \A x, y : Held(s, keyMin, x, y) = Cardinality(InKeys(s, x, y))
  BY DEF Held, InKeys, Slot
<1>2. \A r \in 1 .. Len(s) : Slot(s, r) \in hi .. hi <=> Slot(s, r) = hi
  <2>1. \A r \in 1 .. Len(s) : Slot(s, r) \in Int
    BY DEF InDomain
  <2> QED
    BY <2>1
<1>3. InKeys(s, hi, hi) = KeyRows(s, hi)
  BY <1>2, Zenon DEF InKeys, KeyRows
<1> QED
  BY <1>1, <1>3, KeyAdded, NoKeys

(* getHistBins, once more.                                                 *)
LEMMA CountsHeld ==
  ASSUME NEW s, InDomain(s), NEW k \in 0 .. domainSize - 1
  PROVE  Counts(s)[k] = Held(s, keyMin, k, k)
<1>1. Held(s, keyMin, k, k) = Cardinality(InKeys(s, k, k))
  BY DEF Held, InKeys, Slot
<1>2. \A r \in 1 .. Len(s) : Slot(s, r) \in k .. k <=> Slot(s, r) = k
  <2>1. \A r \in 1 .. Len(s) : Slot(s, r) \in Int
    BY DEF InDomain
  <2> QED
    BY <2>1
<1>3. InKeys(s, k, k) = KeyRows(s, k)
  BY <1>2, Zenon DEF InKeys, KeyRows
<1> QED
  BY <1>1, <1>3, CountsCorrect

(* One more key that is not the end of a partition, and one that is.       *)
LEMMA PartitionKeeps ==
  ASSUME NEW s, NEW min, NEW b \in Seq(Nat), NEW sizes, NEW reach \in Nat, NEW more \in Nat, reach <= more,
         Partition(s, min, b, sizes, reach)
  PROVE  Partition(s, min, b, sizes, more)
<1>1. \A k \in 1 .. Len(b) : b[k] \in 0 .. more - 1
  BY DEF Partition
<1> QED
  BY <1>1 DEF Partition

(* A key that ends one more partition.                                     *)
LEMMA PartitionGrows ==
  ASSUME NEW s, NEW min, NEW b \in Seq(Nat), NEW sizes \in Seq(Sizes), NEW reach \in Nat,
         Partition(s, min, b, sizes, reach), NEW p \in Sizes,
         p.real = Held(s, min, FirstKey(b, Len(b) + 1), reach), p.noisy >= p.real
  PROVE  /\ Partition(s, min, Append(b, reach), Append(sizes, p), reach + 1)
         /\ Len(Append(b, reach)) = Len(b) + 1 /\ Append(b, reach)[Len(b) + 1] = reach
<1> DEFINE n == Len(b)
           c == Append(b, reach)
           z == Append(sizes, p)
<1>1. n \in Nat /\ Len(sizes) = n
  BY DEF Partition
<1>2. Len(c) = n + 1 /\ Len(z) = n + 1 /\ c[n + 1] = reach /\ z[n + 1] = p
      /\ \A k \in 1 .. n : c[k] = b[k] /\ z[k] = sizes[k]
  BY <1>1
<1>3. \A k \in 1 .. n : b[k] \in 0 .. reach - 1
  BY DEF Partition
<1> HIDE DEF c, z
<1>4. ASSUME NEW k \in 1 .. n + 1 PROVE FirstKey(c, k) = FirstKey(b, k)
  <2>1. CASE k = 1
    BY <2>1 DEF FirstKey
  <2>2. CASE k # 1
    <3>1. k - 1 \in 1 .. n
      BY <1>1, <2>2
    <3> QED
      BY <1>2, <2>2, <3>1 DEF FirstKey
  <2> QED
    BY <2>1, <2>2
<1>5. ASSUME NEW k \in 1 .. n + 1
      PROVE  c[k] \in 0 .. reach /\ z[k].real = Held(s, min, FirstKey(c, k), c[k]) /\ z[k].noisy >= z[k].real
  <2>1. CASE k = n + 1
    BY <1>2, <1>4, <2>1
  <2>2. CASE k # n + 1
    <3>1. k \in 1 .. n
      BY <1>1, <2>2
    <3>2. b[k] \in 0 .. reach
      BY <1>3, <3>1
    <3>3. sizes[k].real = Held(s, min, FirstKey(b, k), b[k]) /\ sizes[k].noisy >= sizes[k].real
      BY <3>1 DEF Partition
    <3> QED
      BY <1>2, <1>4, <3>1, <3>2, <3>3
  <2> QED
    BY <2>1, <2>2
<1>6. ASSUME NEW k \in 1 .. n + 1, NEW l \in 1 .. n + 1, k < l PROVE c[k] < c[l]
  <2>1. k \in 1 .. n
    BY <1>1, <1>6
  <2>2. CASE l = n + 1
    BY <1>2, <1>3, <2>1, <2>2
  <2>3. CASE l # n + 1
    <3>1. l \in 1 .. n
      BY <1>1, <2>3
    <3> QED
      BY <1>2, <1>6, <2>1, <3>1 DEF Partition
  <2> QED
    BY <2>2, <2>3
<1>7. (reach + 1) - 1 = reach
  OBVIOUS
<1> QED
  BY <1>2, <1>5, <1>6, <1>7 DEF Partition, c, z

-----------------------------------------------------------------------------
(* The domain stays what it is.                                            *)
LEMMA TreeFrame ==
  ASSUME UNCHANGED <<mode, rows>>
  PROVE  /\ RowsInv => RowsInv'
         /\ keyMin' = keyMin /\ keyMax' = keyMax /\ domainSize' = domainSize /\ Tables' = Tables
<1>1. Tables' = Tables
  BY DEF Tables
<1>2. keyMin' = keyMin /\ keyMax' = keyMax
  BY <1>1 DEF keyMin, keyMax
<1>3. RowsInv => RowsInv'
  BY DEF RowsInv, Ascends
<1> QED
  BY <1>1, <1>2, <1>3 DEF domainSize

(* What there is to know of a table before a step.                         *)
LEMMA TableFacts ==
  ASSUME RowsInv, PcInv, CutType, NEW t \in {1, 2}, Partitioned(t)
  PROVE  /\ boundaries[t] \in Seq(Nat) /\ partitionSizes[t] \in Seq(Sizes) /\ accumulateSizes[t] \in Seq(Cells)
         /\ Len(boundaries[t]) \in Nat /\ Len(partitionSizes[t]) = Len(boundaries[t])
         /\ Scanned(t) \in 0 .. domainSize
         /\ \A k \in 1 .. Len(boundaries[t]) : boundaries[t][k] \in 0 .. Scanned(t) - 1
         /\ FirstKey(boundaries[t], Len(boundaries[t]) + 1) \in 0 .. Scanned(t)
         /\ (Scanned(t) = 0 => boundaries[t] = <<>>)
         /\ real[t] \in Nat
<1>1. /\ boundaries[t] \in Seq(Nat) /\ partitionSizes[t] \in Seq(Sizes) /\ accumulateSizes[t] \in Seq(Cells)
      /\ Len(boundaries[t]) \in Nat /\ real[t] \in Nat
  BY DEF CutType
<1>2. domainSize \in Nat /\ domainSize # 0
  BY DomainFacts
<1>3. Scanned(t) \in 0 .. domainSize
  <2>1. at \in 0 .. domainSize
    BY DEF PcInv
  <2> QED
    BY <1>2, <2>1 DEF Scanned, PcInv
<1>4. Len(partitionSizes[t]) = Len(boundaries[t])
      /\ \A k \in 1 .. Len(boundaries[t]) : boundaries[t][k] \in 0 .. Scanned(t) - 1
  BY DEF Partitioned, Partition
<1>5. FirstKey(boundaries[t], Len(boundaries[t]) + 1) \in 0 .. Scanned(t)
  <2>1. CASE Len(boundaries[t]) = 0
    BY <1>3, <2>1 DEF FirstKey
  <2>2. CASE Len(boundaries[t]) # 0
    <3>1. Len(boundaries[t]) \in 1 .. Len(boundaries[t]) /\ Len(boundaries[t]) + 1 # 1
          /\ (Len(boundaries[t]) + 1) - 1 = Len(boundaries[t])
      BY <1>1, <2>2
    <3>2. PICK x \in 0 .. Scanned(t) - 1 : x = boundaries[t][Len(boundaries[t])]
      BY <1>4, <3>1
    <3>3. x + 1 \in 0 .. Scanned(t)
      BY <1>3
    <3> QED
      BY <3>1, <3>2, <3>3 DEF FirstKey
  <2> QED
    BY <2>1, <2>2
<1>6. Scanned(t) = 0 => boundaries[t] = <<>>
  <2> SUFFICES ASSUME Scanned(t) = 0 PROVE boundaries[t] = <<>>
    OBVIOUS
  <2>1. ~ (Len(boundaries[t]) # 0)
    <3> SUFFICES ASSUME Len(boundaries[t]) # 0 PROVE FALSE
      OBVIOUS
    <3>1. 1 \in 1 .. Len(boundaries[t])
      BY <1>1
    <3>2. boundaries[t][1] \in 0 .. 0 - 1
      BY <1>4, <3>1
    <3> QED
      BY <3>2
  <2> QED
    BY <1>1, <2>1
<1> QED
  BY <1>1, <1>3, <1>4, <1>5, <1>6

(* The sums of the sizes.                                                  *)
LEMMA SizeSums ==
  ASSUME RowsInv, PcInv, CutType, NEW t \in {1, 2}, Partitioned(t)
  PROVE  /\ SumsRun([k \in 1 .. Len(boundaries[t]) |-> partitionSizes[t][k].real], Len(boundaries[t]))
         /\ SumsRun([k \in 1 .. Len(boundaries[t]) |-> partitionSizes[t][k].noisy], Len(boundaries[t]))
         /\ SumsRun([k \in 1 .. Len(boundaries[t]) |->
                       partitionSizes[t][k].noisy - partitionSizes[t][k].real], Len(boundaries[t]))
         /\ DOMAIN partitionSizes[t] = 1 .. Len(boundaries[t])
<1> DEFINE n == Len(boundaries[t])
<1>1. n \in Nat /\ partitionSizes[t] \in Seq(Sizes) /\ Len(partitionSizes[t]) = n
  BY TableFacts
<1>2. ASSUME NEW k \in 1 .. n
      PROVE  /\ partitionSizes[t][k].real \in Nat /\ partitionSizes[t][k].noisy \in Nat
             /\ partitionSizes[t][k].noisy - partitionSizes[t][k].real \in Nat
  <2>1. partitionSizes[t][k] \in Sizes
    BY <1>1
  <2>2. partitionSizes[t][k].real \in Nat /\ partitionSizes[t][k].noisy \in Nat
    BY <2>1 DEF Sizes
  <2>3. partitionSizes[t][k].noisy >= partitionSizes[t][k].real
    BY DEF Partitioned, Partition
  <2> QED
    BY <2>2, <2>3
<1>3. DOMAIN partitionSizes[t] = 1 .. n
  BY <1>1
<1> HIDE DEF n
<1>4. SumsRun([k \in 1 .. n |-> partitionSizes[t][k].real], n)
  <2>1. [k \in 1 .. n |-> partitionSizes[t][k].real] \in [1 .. n -> Nat]
    BY <1>2
  <2> QED
    BY <1>1, <2>1, SumsFacts
<1>5. SumsRun([k \in 1 .. n |-> partitionSizes[t][k].noisy], n)
  <2>1. [k \in 1 .. n |-> partitionSizes[t][k].noisy] \in [1 .. n -> Nat]
    BY <1>2
  <2> QED
    BY <1>1, <2>1, SumsFacts
<1>6. SumsRun([k \in 1 .. n |-> partitionSizes[t][k].noisy - partitionSizes[t][k].real], n)
  <2>1. [k \in 1 .. n |-> partitionSizes[t][k].noisy - partitionSizes[t][k].real] \in [1 .. n -> Nat]
    BY <1>2
  <2> QED
    BY <1>1, <2>1, SumsFacts
<1> QED
  BY <1>3, <1>4, <1>5, <1>6 DEF n

(* The entry of accumulateSizes that a cut adds.                           *)
LEMMA AccumulateType ==
  ASSUME RowsInv, PcInv, CutType, NEW t \in {1, 2}, Partitioned(t)
  PROVE  Accumulate(t) \in Cells /\ SumReal(t) \in Nat /\ SumNoise(t) \in Nat
<1> DEFINE n == Len(boundaries[t])
<1>1. n \in 0 .. n /\ Len(partitionSizes[t]) = n
  BY TableFacts
<1>2. /\ RealSums(t) \in [0 .. n -> Nat]
      /\ NoiseSums(t) \in [0 .. n -> Nat]
  BY SizeSums DEF SumsRun, RealSums, NoiseSums
<1>3. SumReal(t) \in Nat /\ SumNoise(t) \in Nat
  BY <1>1, <1>2 DEF SumReal, SumNoise
<1>4. PICK x \in Int, y \in Nat : Accumulate(t) = [first |-> x, second |-> y]
  BY <1>3 DEF Accumulate, Entry
<1> QED
  BY <1>3, <1>4 DEF Cells

-----------------------------------------------------------------------------
(* One key of the scan, for a table that is being cut.                     *)
Extended(t, cut) ==
  LET h == real[t] + hist[t][at]
  IN  /\ cut => /\ real'[t] = 0
                /\ boundaries'[t] = Append(boundaries[t], at)
                /\ \E p \in Sizes : /\ p.real = h /\ p.noisy >= h
                                    /\ partitionSizes'[t] = Append(partitionSizes[t], p)
                /\ accumulateSizes'[t] = Append(accumulateSizes[t], Accumulate(t))
      /\ ~cut => /\ real'[t] = h
                 /\ boundaries'[t] = boundaries[t] /\ partitionSizes'[t] = partitionSizes[t]
                 /\ accumulateSizes'[t] = accumulateSizes[t]

Untouched(t) ==
  /\ real'[t] = real[t] /\ boundaries'[t] = boundaries[t]
  /\ partitionSizes'[t] = partitionSizes[t] /\ accumulateSizes'[t] = accumulateSizes[t]

Scanning(cut) ==
  /\ pc = "partition" /\ at < domainSize /\ at' = at + 1
  /\ UNCHANGED <<treeVars, moveVars, table, pc, buckets, walkVars>>
  /\ DOMAIN real' = {1, 2} /\ DOMAIN boundaries' = {1, 2}
  /\ DOMAIN partitionSizes' = {1, 2} /\ DOMAIN accumulateSizes' = {1, 2}
  /\ real' = [t \in {1, 2} |-> real'[t]] /\ boundaries' = [t \in {1, 2} |-> boundaries'[t]]
  /\ partitionSizes' = [t \in {1, 2} |-> partitionSizes'[t]]
  /\ accumulateSizes' = [t \in {1, 2} |-> accumulateSizes'[t]]
  /\ \A t \in {1, 2} : IF t \in Cutting THEN Extended(t, cut) ELSE Untouched(t)

(* At the last key of the domain the partition ends, unless it is the      *)
(* second of two tables cut one by one and it has none.                    *)
EndsInTime(cut) ==
  at = domainSize - 1 /\ ~cut => mode = "ind" /\ table = 2 /\ boundaries[2] = <<>>

(* The tables that are cut are not empty.                                  *)
LEMMA CuttingTables ==
  ASSUME RowsInv, PcInv
  PROVE  Cutting \in SUBSET {1, 2} /\ Cutting \in SUBSET Tables
BY DomainFacts DEF PcInv, RowsInv, Cutting

(* The number of rows in the partition that the scan has come to.          *)
LEMMA ScanCounts ==
  ASSUME RowsInv, PcInv, HistInv, CutType, NEW t \in Cutting, Partitioned(t), pc = "partition", at < domainSize
  PROVE  /\ real[t] + hist[t][at] \in Nat /\ hist[t][at] \in Nat
         /\ real[t] + hist[t][at] =
              Held(rows[t], keyMin, FirstKey(boundaries[t], Len(boundaries[t]) + 1), at)
<1>1. t \in {1, 2} /\ t \in Tables /\ InDomain(rows[t]) /\ domainSize \in Nat
  BY CuttingTables, DomainFacts
<1>2. at \in Nat /\ at \in 0 .. domainSize - 1
  BY <1>1 DEF PcInv
<1>3. Scanned(t) = at
  BY <1>1 DEF Scanned
<1>4. PICK lo \in Nat : lo = FirstKey(boundaries[t], Len(boundaries[t]) + 1) /\ lo <= at
  BY <1>1, <1>2, <1>3, TableFacts
<1>5. real[t] = Held(rows[t], keyMin, lo, at - 1) /\ real[t] \in Nat
  BY <1>1, <1>4, TableFacts DEF Partitioned
<1>6. hist[t][at] = Held(rows[t], keyMin, at, at)
  BY <1>1, <1>2 DEF HistInv
<1>7. /\ Held(rows[t], keyMin, lo, at) = Held(rows[t], keyMin, lo, at - 1) + Held(rows[t], keyMin, at, at)
      /\ Held(rows[t], keyMin, at, at) \in Nat
  BY <1>1, <1>2, <1>4, HeldFacts
<1> QED
  BY <1>4, <1>5, <1>6, <1>7

(* boundaries.back().                                                      *)
LEMMA NatAppend ==
  ASSUME NEW b \in Seq(Nat)
  PROVE  b # <<>> => Len(b) \in 1 .. Len(b) /\ Last(b) = b[Len(b)]
BY DEF Last

(* ScanKey as a choice to cut or not, alike for the tables being cut.      *)
LEMMA ScanSteps ==
  ASSUME RowsInv, PcInv, HistInv, CutType, \A t \in {1, 2} : Partitioned(t), ScanKey
  PROVE  \E cut \in BOOLEAN : Scanning(cut) /\ EndsInTime(cut)
<1>1. PICK close \in BOOLEAN, noise \in [Cutting -> Noise] :
        /\ ~(at = domainSize - 1 /\ ~close /\ AllBoundaries = <<>>)
        /\ real' = [t \in {1, 2} |-> IF t \notin Cutting THEN real[t]
                                     ELSE IF Cuts(close) THEN 0
                                     ELSE [u \in Cutting |-> real[u] + hist[u][at]][t]]
        /\ partitionSizes' =
             [t \in {1, 2} |-> IF Cuts(close) /\ t \in Cutting
                THEN Append(partitionSizes[t],
                       [real |-> [u \in Cutting |-> real[u] + hist[u][at]][t],
                        noisy |-> [u \in Cutting |-> real[u] + hist[u][at]][t] + noise[t]])
                ELSE partitionSizes[t]]
        /\ accumulateSizes' =
             [t \in {1, 2} |-> IF Cuts(close) /\ t \in Cutting
                THEN Append(accumulateSizes[t], Accumulate(t)) ELSE accumulateSizes[t]]
        /\ boundaries' =
             [t \in {1, 2} |-> IF Cuts(close) /\ t \in Cutting
                THEN Append(boundaries[t], at) ELSE boundaries[t]]
  BY DEF ScanKey
<1>2. /\ pc = "partition" /\ at < domainSize /\ at' = at + 1
      /\ UNCHANGED <<treeVars, moveVars, table, pc, buckets, walkVars>>
  BY DEF ScanKey
<1>3. PICK cut \in BOOLEAN : cut <=> Cuts(close)
  OBVIOUS
<1>4. Cutting \in SUBSET {1, 2}
  BY CuttingTables
<1>5. ASSUME NEW t \in {1, 2} PROVE IF t \in Cutting THEN Extended(t, cut) ELSE Untouched(t)
  <2>1. CASE t \notin Cutting
    BY <1>1, <2>1 DEF Untouched
  <2>2. CASE t \in Cutting
    <3>1. PICK h \in Nat : h = real[t] + hist[t][at]
      BY <1>2, <2>2, ScanCounts
    <3>2. PICK z \in Nat : z = noise[t]
      BY <2>2, <1>1, HTreeAssumption
    <3>3. [u \in Cutting |-> real[u] + hist[u][at]][t] = h
      BY <2>2, <3>1
    <3>4. CASE cut
      <4>1. real'[t] = 0 /\ boundaries'[t] = Append(boundaries[t], at)
            /\ accumulateSizes'[t] = Append(accumulateSizes[t], Accumulate(t))
        BY <1>1, <1>3, <2>2, <3>4
      <4>2. partitionSizes'[t] = Append(partitionSizes[t], [real |-> h, noisy |-> h + z])
        BY <1>1, <1>3, <2>2, <3>2, <3>3, <3>4
      <4>3. [real |-> h, noisy |-> h + z] \in Sizes /\ h + z >= h
        BY DEF Sizes
      <4> QED
        BY <2>2, <3>1, <3>4, <4>1, <4>2, <4>3 DEF Extended
    <3>5. CASE ~cut
      <4>1. real'[t] = h /\ boundaries'[t] = boundaries[t] /\ partitionSizes'[t] = partitionSizes[t]
            /\ accumulateSizes'[t] = accumulateSizes[t]
        BY <1>1, <1>3, <2>2, <3>3, <3>5
      <4> QED
        BY <2>2, <3>1, <3>5, <4>1 DEF Extended
    <3> QED
      BY <3>4, <3>5
  <2> QED
    BY <2>1, <2>2
<1>6. Scanning(cut)
  <2>1. /\ DOMAIN real' = {1, 2} /\ DOMAIN boundaries' = {1, 2}
        /\ DOMAIN partitionSizes' = {1, 2} /\ DOMAIN accumulateSizes' = {1, 2}
    BY <1>1
  <2>2. /\ real' = [t \in {1, 2} |-> real'[t]] /\ boundaries' = [t \in {1, 2} |-> boundaries'[t]]
        /\ partitionSizes' = [t \in {1, 2} |-> partitionSizes'[t]]
        /\ accumulateSizes' = [t \in {1, 2} |-> accumulateSizes'[t]]
    BY <1>1
  <2> QED
    BY <1>2, <1>5, <2>1, <2>2 DEF Scanning
<1>7. EndsInTime(cut)
  <2> SUFFICES ASSUME at = domainSize - 1, ~cut PROVE mode = "ind" /\ table = 2 /\ boundaries[2] = <<>>
    BY DEF EndsInTime
  <2>1. AllBoundaries # <<>> /\ ~ (Last(AllBoundaries) < at)
    BY <1>1, <1>3 DEF Cuts
  <2>2. ASSUME NEW t \in Cutting, boundaries[t] # <<>>, AllBoundaries = boundaries[t] PROVE FALSE
    <3>1. t \in {1, 2} /\ t \in Tables
      BY CuttingTables
    <3>2. Scanned(t) = at /\ at \in Nat
      <4>1. at \in 0 .. domainSize /\ domainSize \in Nat
        BY DomainFacts DEF PcInv
      <4> QED
        BY <1>2, <3>1, <4>1 DEF Scanned
    <3>3. boundaries[t] \in Seq(Nat) /\ \A k \in 1 .. Len(boundaries[t]) : boundaries[t][k] \in 0 .. at - 1
      BY <3>1, <3>2, TableFacts
    <3>4. Len(boundaries[t]) \in 1 .. Len(boundaries[t]) /\ Last(boundaries[t]) = boundaries[t][Len(boundaries[t])]
      BY <2>2, <3>3, NatAppend
    <3>5. Last(boundaries[t]) \in 0 .. at - 1
      BY <3>3, <3>4
    <3>6. Last(boundaries[t]) < at
      BY <3>2, <3>5
    <3> QED
      BY <2>1, <2>2, <3>6
  <2>3. boundaries[1] \in Seq(Nat) /\ boundaries[2] \in Seq(Nat)
    BY DEF CutType
  <2>4. CASE mode = "uni"
    <3>1. AllBoundaries = boundaries[1] /\ 1 \in Cutting
      BY <2>3, <2>4 DEF AllBoundaries, Cutting
    <3> QED
      BY <2>1, <2>2, <3>1
  <2>5. CASE mode = "ind"
    <3>1. Cutting = {table} /\ AllBoundaries = boundaries[1] \o boundaries[2]
      BY <2>5 DEF Cutting, AllBoundaries
    <3>2. CASE table = 1
      <4>1. boundaries[2] = <<>>
        <5>1. Scanned(2) = 0
          BY <1>2, <3>1, <3>2 DEF Scanned
        <5> QED
          BY <5>1, TableFacts
      <4>2. AllBoundaries = boundaries[1]
        BY <2>3, <3>1, <4>1
      <4> QED
        BY <2>1, <2>2, <3>1, <3>2, <4>2
    <3>3. CASE table = 2
      <4>1. ASSUME boundaries[2] # <<>> PROVE FALSE
        <5>1. Scanned(2) = at /\ at \in Nat
          <6>1. at \in 0 .. domainSize /\ domainSize \in Nat /\ 2 \in Tables
            BY <3>3, DomainFacts DEF PcInv
          <6> QED
            BY <1>2, <3>1, <3>3, <6>1 DEF Scanned
        <5>2. \A k \in 1 .. Len(boundaries[2]) : boundaries[2][k] \in 0 .. at - 1
          BY <5>1, TableFacts
        <5>3. PICK b \in Seq(Nat), c \in Seq(Nat) : b = boundaries[1] /\ c = boundaries[2]
          BY <2>3
        <5>4. Len(c) \in 1 .. Len(c)
          BY <4>1, <5>3
        <5>5. Last(b \o c) = c[Len(c)]
          BY <5>4 DEF Last
        <5>6. c[Len(c)] \in 0 .. at - 1
          BY <5>2, <5>3, <5>4
        <5>7. c[Len(c)] < at
          BY <5>1, <5>6
        <5> QED
          BY <2>1, <3>1, <5>3, <5>5, <5>7
      <4> QED
        BY <2>5, <3>3, <4>1
    <3> QED
      BY <3>2, <3>3 DEF PcInv
  <2> QED
    BY <2>4, <2>5 DEF RowsInv
<1> QED
  BY <1>6, <1>7

(* A step that leaves the walk alone.                                      *)
LEMMA WalkFrame ==
  ASSUME WalkInv, RoomInv, UNCHANGED <<buckets, walkVars>>
  PROVE  WalkInv' /\ RoomInv'
<1>1. [WalkNext]_walk
  BY DEF walk
<1> QED
  BY <1>1, NextInv, RoomNext

(* The partitions of a table after one more key.                           *)
LEMMA ScanPartitioned ==
  ASSUME RowsInv, PcInv, HistInv, CutType, \A t \in {1, 2} : Partitioned(t),
         NEW cut \in BOOLEAN, Scanning(cut), EndsInTime(cut), NEW t \in {1, 2}
  PROVE  /\ boundaries'[t] \in Seq(Nat) /\ real'[t] \in Nat
         /\ partitionSizes'[t] \in Seq(Sizes) /\ accumulateSizes'[t] \in Seq(Cells)
         /\ Partitioned(t)'
<1>0. /\ pc = "partition" /\ pc' = pc /\ at < domainSize /\ at' = at + 1 /\ table' = table
      /\ mode' = mode /\ rows' = rows /\ keyMin' = keyMin /\ domainSize' = domainSize /\ Tables' = Tables
      /\ Cutting' = Cutting
  BY TreeFrame DEF Scanning, treeVars, Cutting
<1>1. /\ boundaries[t] \in Seq(Nat) /\ partitionSizes[t] \in Seq(Sizes) /\ accumulateSizes[t] \in Seq(Cells)
      /\ Len(boundaries[t]) \in Nat /\ Len(partitionSizes[t]) = Len(boundaries[t])
      /\ Scanned(t) \in 0 .. domainSize /\ real[t] \in Nat
      /\ FirstKey(boundaries[t], Len(boundaries[t]) + 1) \in 0 .. Scanned(t)
  BY TableFacts
<1>2. CASE t \notin Cutting
  <2>1. Untouched(t)
    BY <1>2 DEF Scanning
  <2>2. Scanned(t)' = Scanned(t)
    BY <1>0, <1>2 DEF Scanned
  <2>3. Partitioned(t)'
    BY <1>0, <1>2, <2>1, <2>2 DEF Partitioned, Untouched
  <2> QED
    BY <1>1, <2>1, <2>3 DEF Untouched
<1>3. CASE t \in Cutting
  <2>0. t \in Tables /\ domainSize \in Nat \ {0} /\ InDomain(rows[t])
    BY <1>3, CuttingTables, DomainFacts
  <2>1. Scanned(t) = at /\ Scanned(t)' = at + 1 /\ at \in Nat
    BY <1>0, <1>1, <1>3, <2>0 DEF Scanned
  <2>2. PICK h \in Nat : /\ h = real[t] + hist[t][at]
                         /\ h = Held(rows[t], keyMin, FirstKey(boundaries[t], Len(boundaries[t]) + 1), at)
    BY <1>0, <1>3, ScanCounts
  <2>3. Extended(t, cut)
    BY <1>3 DEF Scanning
  <2>4. Partition(rows[t], keyMin, boundaries[t], partitionSizes[t], at)
    BY <2>1 DEF Partitioned
  <2>5. CASE cut
    <3>1. /\ real'[t] = 0 /\ boundaries'[t] = Append(boundaries[t], at)
          /\ accumulateSizes'[t] = Append(accumulateSizes[t], Accumulate(t))
      BY <2>3, <2>5 DEF Extended
    <3>2. PICK p \in Sizes : /\ p.real = h /\ p.noisy >= h
                             /\ partitionSizes'[t] = Append(partitionSizes[t], p)
      BY <2>2, <2>3, <2>5 DEF Extended
    <3>3. /\ Partition(rows[t], keyMin, boundaries'[t], partitionSizes'[t], at + 1)
          /\ Len(boundaries'[t]) = Len(boundaries[t]) + 1
          /\ boundaries'[t][Len(boundaries[t]) + 1] = at
      <4>1. p.real = Held(rows[t], keyMin, FirstKey(boundaries[t], Len(boundaries[t]) + 1), at) /\ p.noisy >= p.real
        BY <2>2, <3>2
      <4>2. /\ Partition(rows[t], keyMin, Append(boundaries[t], at), Append(partitionSizes[t], p), at + 1)
            /\ Len(Append(boundaries[t], at)) = Len(boundaries[t]) + 1
            /\ Append(boundaries[t], at)[Len(boundaries[t]) + 1] = at
        BY <1>1, <2>1, <2>4, <4>1, PartitionGrows
      <4> QED
        BY <3>1, <3>2, <4>2
    <3>4. boundaries'[t] \in Seq(Nat) /\ real'[t] \in Nat
          /\ partitionSizes'[t] \in Seq(Sizes) /\ accumulateSizes'[t] \in Seq(Cells)
      <4>1. Accumulate(t) \in Cells
        BY AccumulateType
      <4> QED
        BY <1>1, <2>1, <3>1, <3>2, <4>1
    <3>5. boundaries'[t] # <<>>
      BY <1>1, <3>3, <3>4
    <3>6. at + 1 = domainSize => Complete(boundaries'[t], domainSize)
      BY <2>0, <2>1, <3>3 DEF Complete
    <3>7. FirstKey(boundaries'[t], Len(boundaries'[t]) + 1) = at + 1
      <4>1. Len(boundaries'[t]) + 1 # 1 /\ (Len(boundaries'[t]) + 1) - 1 = Len(boundaries[t]) + 1
        BY <1>1, <3>3
      <4> QED
        BY <3>3, <4>1 DEF FirstKey
    <3>8. Held(rows[t], keyMin, at + 1, (at + 1) - 1) = 0
      <4>1. at + 1 \in Nat /\ at + 1 <= at + 1
        BY <2>1
      <4> QED
        BY <2>0, <4>1, HeldFacts
    <3> QED
      BY <1>0, <2>1, <3>1, <3>3, <3>4, <3>5, <3>6, <3>7, <3>8 DEF Partitioned
  <2>6. CASE ~cut
    <3>1. /\ real'[t] = h /\ boundaries'[t] = boundaries[t] /\ partitionSizes'[t] = partitionSizes[t]
          /\ accumulateSizes'[t] = accumulateSizes[t]
      BY <2>2, <2>3, <2>6 DEF Extended
    <3>2. Partition(rows[t], keyMin, boundaries[t], partitionSizes[t], at + 1)
      <4>1. at + 1 \in Nat /\ at <= at + 1
        BY <2>1
      <4> QED
        BY <1>1, <2>1, <2>4, <4>1, PartitionKeeps
    <3>3. at + 1 = domainSize => /\ Complete(boundaries[t], domainSize)
                                 /\ t = 1 \/ mode = "uni" => boundaries[t] # <<>>
      <4> SUFFICES ASSUME at + 1 = domainSize
                   PROVE  Complete(boundaries[t], domainSize) /\ (t = 1 \/ mode = "uni" => boundaries[t] # <<>>)
        OBVIOUS
      <4>1. at = domainSize - 1
        BY <2>0, <2>1
      <4>2. mode = "ind" /\ table = 2 /\ boundaries[2] = <<>>
        BY <2>6, <4>1 DEF EndsInTime
      <4>3. t = 2
        BY <1>3, <4>2 DEF Cutting
      <4> QED
        BY <4>2, <4>3 DEF Complete
    <3>4. (at + 1) - 1 = at
      BY <2>1
    <3> QED
      BY <1>0, <1>1, <2>1, <2>2, <3>1, <3>2, <3>3, <3>4 DEF Partitioned
  <2> QED
    BY <2>5, <2>6
<1> QED
  BY <1>2, <1>3

(* One key of constructBucketsOneTime or constructBuckets.                 *)
LEMMA ScanKeyInv ==
  ASSUME HTreeInv, ScanKey
  PROVE  HTreeInv'
<1>0. RowsInv /\ PcInv /\ HistInv /\ CutType /\ BucketInv /\ WalkInv /\ RoomInv
      /\ \A t \in {1, 2} : Partitioned(t)
  BY DEF HTreeInv
<1>1. PICK cut \in BOOLEAN : Scanning(cut) /\ EndsInTime(cut)
  BY <1>0, ScanSteps
<1>2. /\ pc = "partition" /\ pc' = pc /\ at < domainSize /\ at' = at + 1 /\ table' = table
      /\ mode' = mode /\ rows' = rows /\ hist' = hist /\ keyMin' = keyMin /\ domainSize' = domainSize
      /\ Tables' = Tables /\ RowsInv' /\ UNCHANGED <<buckets, walkVars>>
  BY <1>0, <1>1, TreeFrame DEF Scanning, treeVars
<1>3. PcInv'
  <2>1. at + 1 \in 0 .. domainSize
    BY <1>0, <1>2, DomainFacts DEF PcInv
  <2> QED
    BY <1>0, <1>2, <2>1 DEF PcInv, walkVars
<1>4. HistInv'
  BY <1>0, <1>2 DEF HistInv
<1>5. \A t \in {1, 2} : /\ boundaries'[t] \in Seq(Nat) /\ real'[t] \in Nat
                        /\ partitionSizes'[t] \in Seq(Sizes) /\ accumulateSizes'[t] \in Seq(Cells)
                        /\ Partitioned(t)'
  BY <1>0, <1>1, ScanPartitioned
<1>6. CutType'
  BY <1>1, <1>5 DEF CutType, Scanning
<1>7. BucketInv'
  <2>1. ASSUME NEW t \in {1, 2}
        PROVE  (Built(t)' <=> Built(t)) /\ (Built(t) => Untouched(t))
    <3>1. Built(t)' <=> Built(t)
      BY <1>2 DEF Built
    <3>2. Built(t) => t < table /\ t # table
      BY <1>2 DEF Built
    <3>3. Built(t) => mode # "uni"
      BY <1>0, <1>2, <3>2 DEF PcInv
    <3>4. Built(t) => t \notin Cutting
      BY <3>2, <3>3 DEF Cutting
    <3> QED
      BY <1>1, <3>1, <3>4 DEF Scanning
  <2>2. ASSUME NEW t \in {1, 2}, Built(t), NEW k \in 1 .. Len(boundaries[t])
        PROVE  BucketOf(t, k)' = BucketOf(t, k)
    BY <1>2, <2>1, <2>2 DEF BucketOf, Untouched
  <2>3. \A t \in {1, 2} : Built(t) => boundaries'[t] = boundaries[t]
    BY <2>1 DEF Untouched
  <2>4. buckets' = [t \in {1, 2} |-> IF Built(t)' THEN [k \in 1 .. Len(boundaries'[t]) |-> BucketOf(t, k)']
                                     ELSE <<>>]
    BY <1>0, <1>2, <2>1, <2>2, <2>3 DEF BucketInv
  <2> QED
    BY <1>0, <1>2, <2>4 DEF BucketInv, walkVars
<1>8. WalkInv' /\ RoomInv'
  BY <1>0, <1>2, WalkFrame
<1> QED
  BY <1>2, <1>3, <1>4, <1>5, <1>6, <1>7, <1>8 DEF HTreeInv

-----------------------------------------------------------------------------
(* The other steps.  Before the first one there is nothing but the tables. *)
LEMMA TreeInitInv ==
  ASSUME Init
  PROVE  HTreeInv
<1>1. ASSUME NEW n \in Nat, NEW s \in SortedRows(n)
      PROVE  s \in Seq(Int) /\ Ascends(s)
  <2>1. PICK k \in 0 .. n : s \in [1 .. k -> Keys]
    BY DEF SortedRows
  <2>2. k \in Nat /\ s \in [1 .. k -> Int]
    <3>1. Keys \subseteq Int
      BY HTreeAssumption
    <3>2. \A l \in 1 .. k : s[l] \in Int
      BY <2>1, <3>1
    <3> QED
      BY <2>1, <3>2
  <2>3. s \in Seq(Int) /\ Len(s) = k /\ DOMAIN s = 1 .. k
    BY <2>2
  <2>4. \A x, y \in DOMAIN s : x < y => s[x] <= s[y]
    BY DEF SortedRows
  <2> QED
    BY <2>3, <2>4 DEF Ascends
<1>2. PICK s1 \in SortedRows(MaxSize[1]) \ {<<>>}, s2 \in SortedRows(MaxSize[2]) :
        rows = [t \in {1, 2} |-> IF t = 1 THEN s1 ELSE s2]
  BY DEF Init
<1>3. DOMAIN rows = {1, 2} /\ rows[1] = s1 /\ rows[2] = s2
  BY <1>2
<1>4. /\ mode \in {"uni", "ind"} /\ (mode = "uni" => rows[2] # <<>>)
      /\ table = 1 /\ at = 0 /\ pc = "hist" /\ bucketNoisyMax = 0 /\ WalkInit
      /\ hist = [t \in {1, 2} |-> <<>>] /\ real = [t \in {1, 2} |-> 0]
      /\ boundaries = [t \in {1, 2} |-> <<>>] /\ partitionSizes = [t \in {1, 2} |-> <<>>]
      /\ accumulateSizes = [t \in {1, 2} |-> <<>>] /\ buckets = [t \in {1, 2} |-> <<>>]
  BY DEF Init
<1>5. RowsInv
  <2>1. s1 \in Seq(Int) /\ s2 \in Seq(Int) /\ Ascends(s1) /\ Ascends(s2) /\ s1 # <<>>
    <3>1. MaxSize[1] \in Nat /\ MaxSize[2] \in Nat
      BY HTreeAssumption
    <3> QED
      BY <1>1, <3>1
  <2> QED
    BY <1>2, <1>3, <1>4, <2>1 DEF RowsInv
<1>6. domainSize \in Nat \ {0} /\ Tables \in SUBSET {1, 2}
  BY <1>5, DomainFacts
<1>7. pass = "idle"
  BY <1>4 DEF WalkInit
<1>8. PcInv
  BY <1>4, <1>6, <1>7 DEF PcInv
<1>9. HistInv
  <2>1. \A t \in Tables : ~ (t < table) /\ pc = "hist"
    BY <1>4, <1>6
  <2> QED
    BY <1>4, <2>1 DEF HistInv
<1>10. CutType
  BY <1>4 DEF CutType
<1>11. ASSUME NEW t \in {1, 2} PROVE Partitioned(t)
  <2>1. Scanned(t) = 0 /\ boundaries[t] = <<>> /\ partitionSizes[t] = <<>>
    BY <1>4 DEF Scanned
  <2>2. 1 .. Len(<<>>) = {} /\ Len(<<>>) = 0
    OBVIOUS
  <2>3. Partition(rows[t], keyMin, boundaries[t], partitionSizes[t], Scanned(t))
    BY <2>1, <2>2 DEF Partition
  <2> QED
    BY <1>4, <1>6, <2>1, <2>3 DEF Partitioned
<1>12. \A t \in {1, 2} : buckets[t] = <<>> /\ ~ Built(t)
  BY <1>4 DEF Built
<1>13. BucketInv
  BY <1>4, <1>12 DEF BucketInv
<1>14. WalkInv
  <2>1. Ordered
    BY <1>4 DEF Ordered, InOrder
  <2>2. Typed /\ JoinedPast
    BY <1>4 DEF WalkInit, Typed, JoinedPast, EveryPairJoined
  <2> QED
    BY <2>1, <2>2 DEF WalkInv
<1>15. RoomInv
  BY <1>7 DEF RoomInv
<1> QED
  BY <1>5, <1>8, <1>9, <1>10, <1>11, <1>13, <1>14, <1>15 DEF HTreeInv

(* getHistBins.                                                            *)
LEMMA GetHistBinsInv ==
  ASSUME HTreeInv, GetHistBins
  PROVE  HTreeInv'
<1>0. RowsInv /\ PcInv /\ HistInv /\ CutType /\ BucketInv /\ WalkInv /\ RoomInv
      /\ \A t \in {1, 2} : Partitioned(t)
  BY DEF HTreeInv
<1>1. /\ pc = "hist" /\ hist' = [hist EXCEPT ![table] = Counts(rows[table])]
      /\ UNCHANGED <<mode, rows, cutVars, moveVars, buckets, walkVars>>
  BY DEF GetHistBins
<1>2. RowsInv' /\ keyMin' = keyMin /\ domainSize' = domainSize /\ Tables' = Tables
  BY <1>0, <1>1, TreeFrame
<1>3. /\ Tables \in SUBSET {1, 2} /\ 1 \in Tables /\ domainSize \in Nat \ {0}
      /\ table \in {1, 2} /\ table \in Tables /\ \A t \in Tables : InDomain(rows[t])
  BY <1>0, DomainFacts DEF PcInv
<1>4. \/ table = 1 /\ 2 \in Tables /\ table' = 2 /\ pc' = "hist"
      \/ ~ (table = 1 /\ 2 \in Tables) /\ table' = 1 /\ pc' = "partition"
  BY <1>1 DEF GetHistBins
<1>5. UNCHANGED <<at, real, boundaries, partitionSizes, accumulateSizes, buckets, pass, bucketNoisyMax>>
  BY <1>1 DEF cutVars, walkVars
<1>6. PcInv'
  BY <1>0, <1>1, <1>2, <1>3, <1>4, <1>5 DEF PcInv
<1>7. HistInv'
  <2>1. \A k \in 0 .. domainSize - 1 : Counts(rows[table])[k] = Held(rows[table], keyMin, k, k)
    BY <1>3, CountsHeld
  <2>2. DOMAIN hist' = {1, 2}
    BY <1>0, <1>1 DEF HistInv
  <2>3. ASSUME NEW t \in Tables, pc' # "hist" \/ t < table'
        PROVE  \A k \in 0 .. domainSize - 1 : hist'[t][k] = Held(rows[t], keyMin, k, k)
    <3>1. t \in {1, 2}
      BY <1>3
    <3>2. CASE t = table
      <4>1. hist'[t] = Counts(rows[t])
        BY <1>0, <1>1, <3>1, <3>2 DEF HistInv
      <4> QED
        BY <2>1, <3>2, <4>1
    <3>3. CASE t # table
      <4>1. hist'[t] = hist[t]
        BY <1>0, <1>1, <3>1, <3>3 DEF HistInv
      <4>2. t < table
        BY <1>3, <1>4, <2>3, <3>1, <3>3
      <4> QED
        BY <1>0, <4>1, <4>2 DEF HistInv
    <3> QED
      BY <3>2, <3>3
  <2> QED
    BY <1>1, <1>2, <2>2, <2>3 DEF HistInv
<1>8. CutType'
  BY <1>0, <1>5 DEF CutType
<1>9. ASSUME NEW t \in {1, 2} PROVE Partitioned(t)'
  <2>1. Scanned(t) = 0 /\ boundaries[t] = <<>> /\ boundaries'[t] = <<>>
        /\ partitionSizes'[t] = partitionSizes[t] /\ real'[t] = real[t]
    <3>1. Scanned(t) = 0
      BY <1>1 DEF Scanned
    <3> QED
      BY <1>0, <1>5, <3>1, TableFacts
  <2>2. Scanned(t)' = 0
    <3>1. at' = 0
      BY <1>0, <1>1, <1>5 DEF PcInv
    <3>2. t \in Tables' /\ pc' # "hist" => ~ (t < table')
      BY <1>4
    <3> QED
      BY <1>4, <3>1, <3>2 DEF Scanned
  <2>3. Partition(rows[t], keyMin, boundaries[t], partitionSizes[t], 0)
    BY <1>0, <2>1 DEF Partitioned
  <2>4. pc' = "partition" /\ t \in Cutting' =>
          real'[t] = Held(rows[t], keyMin, FirstKey(boundaries[t], Len(boundaries[t]) + 1), at' - 1)
    <3>0. SUFFICES ASSUME pc' = "partition", t \in Cutting'
                   PROVE  real'[t] = Held(rows[t], keyMin, FirstKey(boundaries[t], Len(boundaries[t]) + 1), at' - 1)
      OBVIOUS
    <3>1. at' = 0 /\ Len(boundaries[t]) + 1 = 1
      BY <1>0, <1>1, <1>5, <2>1 DEF PcInv
    <3>2. Held(rows[t], keyMin, 0, 0 - 1) = 0
      <4>1. t \in Tables
        <5>1. table' = 1 /\ mode' = mode
          BY <1>1, <1>4, <3>0
        <5>2. mode = "uni" => 2 \in Tables
          BY <1>0, DomainFacts
        <5> QED
          BY <1>3, <3>0, <5>1, <5>2 DEF Cutting
      <4> QED
        BY <1>3, <4>1, HeldFacts
    <3>3. real'[t] = 0
      BY <1>0, <1>1, <2>1 DEF PcInv
    <3>4. FirstKey(boundaries[t], 1) = 0
      BY DEF FirstKey
    <3> QED
      BY <3>1, <3>2, <3>3, <3>4
  <2> QED
    BY <1>1, <1>2, <1>3, <1>5, <2>1, <2>2, <2>3, <2>4 DEF Partitioned
<1>10. BucketInv'
  <2>1. \A t \in {1, 2} : ~ Built(t) /\ ~ Built(t)'
    BY <1>1, <1>4 DEF Built
  <2> QED
    BY <1>0, <1>5, <2>1 DEF BucketInv
<1>11. WalkInv' /\ RoomInv'
  BY <1>0, <1>1, WalkFrame
<1> QED
  BY <1>2, <1>6, <1>7, <1>8, <1>9, <1>10, <1>11 DEF HTreeInv

(* A crash in the scan.                                                    *)
LEMMA BackOfEmptyInv ==
  ASSUME HTreeInv, BackOfEmpty
  PROVE  HTreeInv'
<1>0. RowsInv /\ PcInv /\ HistInv /\ CutType /\ BucketInv /\ WalkInv /\ RoomInv
      /\ \A t \in {1, 2} : Partitioned(t)
  BY DEF HTreeInv
<1>1. /\ pc = "partition" /\ pc' = "crashed"
      /\ UNCHANGED <<treeVars, cutVars, moveVars, table, buckets, walkVars>>
  BY DEF BackOfEmpty
<1>2. UNCHANGED <<mode, rows, hist, at, real, boundaries, partitionSizes, accumulateSizes, table, buckets,
                  pass, bucketNoisyMax>>
  BY <1>1 DEF treeVars, cutVars, walkVars
<1>3. RowsInv' /\ keyMin' = keyMin /\ domainSize' = domainSize /\ Tables' = Tables
  BY <1>0, <1>2, TreeFrame
<1>4. PcInv'
  BY <1>0, <1>1, <1>2, <1>3 DEF PcInv
<1>5. HistInv' /\ CutType'
  BY <1>0, <1>1, <1>2, <1>3 DEF HistInv, CutType
<1>6. ASSUME NEW t \in {1, 2} PROVE Partitioned(t)'
  <2>1. Scanned(t)' = Scanned(t)
    BY <1>1, <1>2, <1>3 DEF Scanned, Cutting
  <2> QED
    BY <1>0, <1>1, <1>2, <1>3, <2>1 DEF Partitioned
<1>7. BucketInv'
  <2>1. \A t \in {1, 2} : Built(t)' <=> Built(t)
    BY <1>1, <1>2, <1>3 DEF Built
  <2>2. \A t, k : BucketOf(t, k)' = BucketOf(t, k)
    BY <1>2, <1>3 DEF BucketOf
  <2> QED
    BY <1>0, <1>2, <2>1, <2>2 DEF BucketInv
<1>8. WalkInv' /\ RoomInv'
  BY <1>0, <1>1, WalkFrame
<1> QED
  BY <1>3, <1>4, <1>5, <1>6, <1>7, <1>8 DEF HTreeInv

(* The partitions and the buckets stay what they are after they are made.  *)
LEMMA TreeStays ==
  ASSUME HTreeInv, UNCHANGED <<treeVars, cutVars, buckets>>,
         pc \in {"move", "slice", "query"}, pc' \in {"move", "slice", "query"}, table' \in {1, 2},
         table' = 2 => 2 \in Tables, mode = "uni" => pc' # "slice", pass' # "idle" => pc' = "query",
         pass' = "idle" => pass = "idle" /\ bucketNoisyMax' = bucketNoisyMax, WalkInv', RoomInv'
  PROVE  HTreeInv'
<1>0. RowsInv /\ PcInv /\ HistInv /\ CutType /\ BucketInv
      /\ \A t \in {1, 2} : Partitioned(t)
  BY DEF HTreeInv
<1>2. UNCHANGED <<mode, rows, hist, at, real, boundaries, partitionSizes, accumulateSizes, buckets>>
  BY DEF treeVars, cutVars
<1>3. RowsInv' /\ keyMin' = keyMin /\ domainSize' = domainSize /\ Tables' = Tables
  BY <1>0, <1>2, TreeFrame
<1>4. PcInv'
  BY <1>0, <1>2, <1>3 DEF PcInv
<1>5. HistInv' /\ CutType'
  BY <1>0, <1>2, <1>3 DEF HistInv, CutType
<1>6. ASSUME NEW t \in {1, 2} PROVE Partitioned(t)'
  <2>1. Scanned(t)' = Scanned(t)
    BY <1>2, <1>3 DEF Scanned
  <2> QED
    BY <1>0, <1>2, <1>3, <2>1 DEF Partitioned
<1>7. BucketInv'
  <2>1. \A t \in {1, 2} : Built(t)' <=> Built(t)
    BY <1>2, <1>3 DEF Built
  <2>2. \A t, k : BucketOf(t, k)' = BucketOf(t, k)
    BY <1>2, <1>3 DEF BucketOf
  <2>3. buckets' = [t \in {1, 2} |-> IF Built(t)' THEN [k \in 1 .. Len(boundaries'[t]) |-> BucketOf(t, k)']
                                     ELSE <<>>]
    BY <1>0, <1>2, <2>1, <2>2 DEF BucketInv
  <2>4. pass' = "idle" => /\ bucketNoisyMax' \in Nat
                          /\ \A t \in {1, 2} : \A k \in 1 .. Len(buckets'[t]) :
                               buckets'[t][k].numData <= bucketNoisyMax'
    BY <1>0, <1>2 DEF BucketInv
  <2> QED
    BY <2>3, <2>4 DEF BucketInv
<1> QED
  BY <1>3, <1>4, <1>5, <1>6, <1>7 DEF HTreeInv

(* moveData.                                                               *)
LEMMA MoveInv ==
  ASSUME HTreeInv, MoveUni \/ FillInd \/ SliceInd \/ EndInd
  PROVE  HTreeInv'
<1>0. PcInv /\ BucketInv /\ WalkInv /\ RoomInv
  BY DEF HTreeInv
<1>1. UNCHANGED <<treeVars, cutVars, buckets, walkVars>>
  BY DEF MoveUni, FillInd, SliceInd, EndInd, moveVars
<1>2. pc \in {"move", "slice"} /\ pass = "idle"
  BY <1>0 DEF MoveUni, FillInd, SliceInd, EndInd, PcInv
<1>3. /\ pc' \in {"move", "slice", "query"} /\ table' \in {1, 2} /\ (table' = 2 => 2 \in Tables)
      /\ (mode = "uni" => pc' # "slice")
  <2>1. CASE MoveUni
    BY <1>0, <2>1 DEF MoveUni, EndTable, PcInv
  <2>2. CASE FillInd
    BY <1>0, <2>2 DEF FillInd, PcInv
  <2>3. CASE SliceInd
    BY <1>0, <2>3 DEF SliceInd, PcInv
  <2>4. CASE EndInd
    BY <1>0, <2>4 DEF EndInd, EndTable, PcInv
  <2> QED
    BY <2>1, <2>2, <2>3, <2>4
<1>4. WalkInv' /\ RoomInv'
  BY <1>0, <1>1, WalkFrame
<1>5. pass' = "idle" /\ bucketNoisyMax' = bucketNoisyMax
  BY <1>1, <1>2 DEF walkVars
<1> QED
  BY <1>1, <1>2, <1>3, <1>4, <1>5, TreeStays

(* A query.                                                                *)
LEMMA QueryInv ==
  ASSUME HTreeInv, Query \/ Walk
  PROVE  HTreeInv'
<1>0. PcInv /\ BucketInv /\ WalkInv /\ RoomInv
  BY DEF HTreeInv
<1>1. UNCHANGED <<treeVars, cutVars, table, pc>> /\ pc = "query"
  BY DEF Query, Walk
<1>2. WalkNext /\ UNCHANGED buckets /\ pass' # "idle"
  <2>1. CASE Query
    <3>1. PICK range \in Ranges, jattr \in BOOLEAN : StartWalk(range[1], range[2], jattr)
      BY <2>1 DEF Query
    <3>2. range[1] \in Int /\ range[2] \in Int
      BY HTreeAssumption
    <3> QED
      BY <3>1, <3>2 DEF WalkNext, StartWalk
  <2>2. CASE Walk
    BY <2>2 DEF Walk, CrossProduct, WalkNext, WalkStep, Skip, MeasurePair, JoinPair, EndPass, Walking
  <2> QED
    BY <2>1, <2>2
<1>3. WalkInv' /\ RoomInv'
  <2>1. [WalkNext]_walk
    BY <1>2
  <2> QED
    BY <1>0, <2>1, NextInv, RoomNext
<1>4. table' \in {1, 2} /\ (table' = 2 => 2 \in Tables)
  BY <1>0, <1>1 DEF PcInv
<1> QED
  BY <1>1, <1>2, <1>3, <1>4, TreeStays

(* The numbers of a list have a bound.                                     *)
LEMMA Bounded ==
  ASSUME NEW n \in Nat, NEW f \in [1 .. n -> Nat]
  PROVE  \E m \in Nat : \A k \in 1 .. n : f[k] <= m
<1> DEFINE T == {x \in Nat : x <= n /\ ~ \E m \in Nat : \A k \in 1 .. x : f[k] <= m}
<1>1. T = {}
  <2> SUFFICES ASSUME T # {} PROVE FALSE
    OBVIOUS
  <2>1. PICK x \in T : \A y \in 0 .. x - 1 : y \notin T
    BY LeastNumber
  <2>2. CASE x = 0
    <3>1. \A k \in 1 .. x : f[k] <= 0
      BY <2>2
    <3> QED
      BY <3>1
  <2>3. CASE x # 0
    <3>1. x \in 1 .. n /\ x - 1 \in 0 .. x - 1 /\ x - 1 \in Nat /\ x - 1 <= n
      BY <2>3
    <3>2. PICK m \in Nat : \A k \in 1 .. x - 1 : f[k] <= m
      BY <2>1, <3>1
    <3>3. PICK y \in Nat : y = f[x]
      BY <3>1
    <3>4. ASSUME NEW k \in 1 .. x PROVE f[k] <= m + y
      <4>1. PICK u \in Nat : u = f[k]
        <5>1. k \in 1 .. n
          BY <3>1
        <5> QED
          BY <5>1
      <4>2. CASE k = x
        BY <3>3, <4>1, <4>2
      <4>3. CASE k # x
        <5>1. k \in 1 .. x - 1
          BY <3>1, <4>3
        <5>2. u <= m
          BY <3>2, <4>1, <5>1
        <5> QED
          BY <4>1, <5>2
      <4> QED
        BY <4>2, <4>3
    <3>5. m + y \in Nat
      OBVIOUS
    <3>6. ~ \E l \in Nat : \A k \in 1 .. x : f[k] <= l
      BY <2>1, Zenon
    <3> QED
      BY <3>4, <3>5, <3>6
  <2> QED
    BY <2>2, <2>3
<1>2. n \notin T
  BY <1>1
<1> QED
  BY <1>2

(* The largest bucket: that of the partitions made before or now.          *)
LEMMA LargestBucket ==
  ASSUME RowsInv, PcInv, CutType, \A t \in {1, 2} : Partitioned(t), NEW z \in Nat, NEW C \in SUBSET {1, 2}
  PROVE  LET S == {z} \cup {p.noisy : p \in UNION {Range(partitionSizes[t]) : t \in C}}
         IN  /\ Max(S) \in Nat /\ z <= Max(S)
             /\ \A t \in C : \A k \in 1 .. Len(boundaries[t]) : partitionSizes[t][k].noisy <= Max(S)
<1> DEFINE S == {z} \cup {p.noisy : p \in UNION {Range(partitionSizes[t]) : t \in C}}
<1>1. ASSUME NEW t \in {1, 2}
      PROVE  /\ Len(boundaries[t]) \in Nat /\ DOMAIN partitionSizes[t] = 1 .. Len(boundaries[t])
             /\ \A k \in 1 .. Len(boundaries[t]) : partitionSizes[t][k].noisy \in Nat
             /\ \E m \in Nat : \A k \in 1 .. Len(boundaries[t]) : partitionSizes[t][k].noisy <= m
  <2>1. /\ Len(boundaries[t]) \in Nat /\ partitionSizes[t] \in Seq(Sizes)
        /\ Len(partitionSizes[t]) = Len(boundaries[t])
    BY TableFacts
  <2>2. \A k \in 1 .. Len(boundaries[t]) : partitionSizes[t][k].noisy \in Nat
    <3>1. \A k \in 1 .. Len(boundaries[t]) : partitionSizes[t][k] \in Sizes
      BY <2>1
    <3> QED
      BY <3>1 DEF Sizes
  <2>3. DOMAIN partitionSizes[t] = 1 .. Len(boundaries[t])
    BY <2>1
  <2> DEFINE n == Len(boundaries[t])
             f == [k \in 1 .. n |-> partitionSizes[t][k].noisy]
  <2>4. PICK m \in Nat : \A k \in 1 .. n : f[k] <= m
    <3>1. n \in Nat /\ f \in [1 .. n -> Nat]
      BY <2>1, <2>2
    <3> HIDE DEF n, f
    <3> QED
      BY <3>1, Bounded
  <2> QED
    BY <2>1, <2>2, <2>3, <2>4
<1>2. PICK m1 \in Nat : \A k \in 1 .. Len(boundaries[1]) : partitionSizes[1][k].noisy <= m1
  BY <1>1
<1>3. PICK m2 \in Nat : \A k \in 1 .. Len(boundaries[2]) : partitionSizes[2][k].noisy <= m2
  BY <1>1
<1>4. PICK N \in Nat : N >= z /\ N >= m1 /\ N >= m2
  <2>1. z + m1 + m2 \in Nat /\ z + m1 + m2 >= z /\ z + m1 + m2 >= m1 /\ z + m1 + m2 >= m2
    OBVIOUS
  <2> QED
    BY <2>1
<1>5. ASSUME NEW t \in {1, 2}, NEW k \in 1 .. Len(boundaries[t])
      PROVE  partitionSizes[t][k].noisy \in 0 .. N
  <2>1. partitionSizes[t][k].noisy \in Nat
    BY <1>1
  <2>2. CASE t = 1
    <3>1. partitionSizes[t][k].noisy <= m1
      BY <1>2, <2>2
    <3> QED
      BY <1>4, <2>1, <3>1
  <2>3. CASE t = 2
    <3>1. partitionSizes[t][k].noisy <= m2
      BY <1>3, <2>3
    <3> QED
      BY <1>4, <2>1, <3>1
  <2> QED
    BY <2>2, <2>3
<1>6. ASSUME NEW x \in S PROVE x \in 0 .. N
  <2>1. CASE x = z
    BY <1>4, <2>1
  <2>2. CASE x # z
    <3>1. PICK t \in C : \E p \in Range(partitionSizes[t]) : x = p.noisy
      BY <2>2
    <3>2. PICK k \in DOMAIN partitionSizes[t] : x = partitionSizes[t][k].noisy
      BY <3>1 DEF Range
    <3> QED
      BY <1>1, <1>5, <3>2
  <2> QED
    BY <2>1, <2>2
<1>7. z \in S /\ S \in SUBSET (0 .. N)
  BY <1>6
<1>8. \A t \in C : \A k \in 1 .. Len(boundaries[t]) : partitionSizes[t][k].noisy \in S
  <2> SUFFICES ASSUME NEW t \in C, NEW k \in 1 .. Len(boundaries[t])
               PROVE  \E p \in UNION {Range(partitionSizes[u]) : u \in C} : partitionSizes[t][k].noisy = p.noisy
    OBVIOUS
  <2>1. partitionSizes[t][k] \in Range(partitionSizes[t])
    BY <1>1 DEF Range
  <2> QED
    BY <2>1
<1> HIDE DEF S
<1>9. PICK x \in S : \A y \in S : x >= y
  BY <1>7, GreatestNumber
<1>10. Max(S) \in S /\ \A y \in S : Max(S) >= y
  BY <1>9 DEF Max
<1>11. Max(S) \in Nat /\ z <= Max(S)
       /\ \A t \in C : \A k \in 1 .. Len(boundaries[t]) : partitionSizes[t][k].noisy <= Max(S)
  <2>1. \A y \in S : y \in Nat
    BY <1>7
  <2>2. \A y \in S : y <= Max(S)
    BY <1>10, <2>1
  <2> QED
    BY <1>7, <1>8, <1>10, <2>1, <2>2
<1> QED
  BY <1>11 DEF S

(* The buckets that partitions make.                                       *)
BucketList(min, b, sizes) ==
  [k \in 1 .. Len(b) |-> Bucket(min + FirstKey(b, k), min + b[k], sizes[k].noisy)]

(* Buckets made from partitions are in the order of their keys.            *)
LEMMA BucketsInOrder ==
  ASSUME NEW s, NEW min \in Int, NEW b \in Seq(Nat), NEW sizes \in Seq(Sizes), NEW reach \in Nat,
         Partition(s, min, b, sizes, reach),
         NEW list, list = BucketList(min, b, sizes)
  PROVE  list \in Seq(Ranged) /\ InOrder(list) /\ Len(list) = Len(b)
<1> DEFINE n == Len(b)
<1>1. n \in Nat /\ Len(sizes) = n /\ \A k \in 1 .. n : b[k] \in Nat /\ sizes[k].noisy \in Nat
  <2>1. n \in Nat /\ Len(sizes) = n
    BY DEF Partition
  <2>2. \A k \in 1 .. n : b[k] \in Nat /\ sizes[k] \in Sizes
    BY <2>1
  <2> QED
    BY <2>1, <2>2 DEF Sizes
<1>2. ASSUME NEW k \in 1 .. n PROVE FirstKey(b, k) \in Nat /\ FirstKey(b, k) <= b[k]
  <2>1. CASE k = 1
    BY <1>1, <2>1 DEF FirstKey
  <2>2. CASE k # 1
    <3>1. k - 1 \in 1 .. n /\ k - 1 < k
      BY <1>1, <2>2
    <3>2. b[k - 1] < b[k] /\ b[k - 1] \in Nat /\ b[k] \in Nat
      BY <1>1, <3>1 DEF Partition
    <3> QED
      BY <2>2, <3>2, SMTT(30) DEF FirstKey
  <2> QED
    BY <2>1, <2>2
<1>3. ASSUME NEW k \in 1 .. n, NEW l \in 1 .. n, k < l
      PROVE  b[k] < FirstKey(b, l)
  <2>1. l # 1 /\ l - 1 \in 1 .. n /\ k <= l - 1
    BY <1>1, <1>3
  <2>2. PICK x \in Nat, y \in Nat : x = b[k] /\ y = b[l - 1]
    BY <1>1, <2>1
  <2>3. x <= y
    <3>1. CASE k = l - 1
      BY <2>2, <3>1
    <3>2. CASE k # l - 1
      <4>1. k < l - 1
        BY <2>1, <3>2
      <4>2. b[k] < b[l - 1]
        BY <2>1, <4>1 DEF Partition
      <4> QED
        BY <2>2, <4>2, SMTT(30)
    <3> QED
      BY <3>1, <3>2
  <2>4. FirstKey(b, l) = y + 1
    BY <2>1, <2>2 DEF FirstKey
  <2>5. x < y + 1
    BY <2>2, <2>3, SMTT(30)
  <2> QED
    BY <2>2, <2>4, <2>5
<1> HIDE DEF n
<1>4. list = [k \in 1 .. n |-> Bucket(min + FirstKey(b, k), min + b[k], sizes[k].noisy)]
  BY DEF n, BucketList
<1>5. ASSUME NEW k \in 1 .. n
      PROVE  /\ list[k] \in Ranged
             /\ list[k].keyMin = min + FirstKey(b, k) /\ list[k].keyMax = min + b[k]
  <2>1. list[k] = [keyMin |-> min + FirstKey(b, k), keyMax |-> min + b[k], numData |-> sizes[k].noisy]
    BY <1>4 DEF Bucket
  <2>2. min + FirstKey(b, k) \in Int /\ min + b[k] \in Int /\ sizes[k].noisy \in Nat
    BY <1>1, <1>2
  <2> QED
    BY <2>1, <2>2 DEF Ranged
<1>6. list \in Seq(Ranged) /\ Len(list) = n
  <2>1. list \in [1 .. n -> Ranged]
    BY <1>4, <1>5
  <2> HIDE DEF Ranged
  <2> QED
    BY <1>1, <2>1
<1>7. ASSUME NEW k \in 1 .. n PROVE list[k].keyMin <= list[k].keyMax
  <2>1. PICK x \in Nat, y \in Nat : x = FirstKey(b, k) /\ y = b[k] /\ x <= y
    BY <1>1, <1>2
  <2>2. min + x <= min + y
    BY <2>1
  <2> QED
    BY <1>5, <2>1, <2>2
<1>8. ASSUME NEW k \in 1 .. n, NEW l \in 1 .. n, k < l PROVE list[k].keyMax < list[l].keyMin
  <2>1. b[k] < FirstKey(b, l) /\ b[k] \in Nat /\ FirstKey(b, l) \in Nat
    BY <1>1, <1>2, <1>3, <1>8
  <2>2. min + b[k] < min + FirstKey(b, l)
    BY <2>1
  <2> QED
    BY <1>5, <2>2
<1> QED
  BY <1>6, <1>7, <1>8 DEF InOrder, n

(* The buckets of the partitions that the scan has come to the end of.     *)
LEMMA MakeBucketsInv ==
  ASSUME HTreeInv, MakeBuckets
  PROVE  HTreeInv'
<1>0. RowsInv /\ PcInv /\ HistInv /\ CutType /\ BucketInv /\ WalkInv /\ RoomInv
      /\ \A t \in {1, 2} : Partitioned(t)
  BY DEF HTreeInv
<1>1. /\ pc = "partition" /\ at = domainSize
      /\ buckets' = [t \in {1, 2} |-> IF t \notin Cutting THEN buckets[t]
                       ELSE [k \in DOMAIN boundaries[t] |-> BucketOf(t, k)]]
      /\ bucketNoisyMax' = Max({bucketNoisyMax} \cup
           {p.noisy : p \in UNION {Range(partitionSizes[t]) : t \in Cutting}})
      /\ real' = [t \in {1, 2} |-> 0]
      /\ UNCHANGED <<mode, rows, hist, boundaries, partitionSizes, accumulateSizes,
                     request, i, j, pass, xprodsize, written, selectedCountIdx, joined>>
  BY DEF MakeBuckets, treeVars
<1>2. \/ mode = "ind" /\ table = 1 /\ 2 \in Tables /\ table' = 2 /\ at' = 0 /\ pc' = "partition"
      \/ ~ (mode = "ind" /\ table = 1 /\ 2 \in Tables) /\ table' = 1 /\ at' = at /\ pc' = "move"
  BY <1>1 DEF MakeBuckets
<1>3. RowsInv' /\ keyMin' = keyMin /\ domainSize' = domainSize /\ Tables' = Tables
  BY <1>0, <1>1, TreeFrame
<1>4. /\ Tables \in SUBSET {1, 2} /\ 1 \in Tables /\ (mode = "uni" => 2 \in Tables)
      /\ domainSize \in Nat \ {0} /\ keyMin \in Int /\ \A t \in Tables : InDomain(rows[t])
  BY <1>0, DomainFacts
<1>5. pass = "idle" /\ table \in {1, 2} /\ (mode = "uni" => table = 1) /\ mode \in {"uni", "ind"}
  BY <1>0, <1>1 DEF PcInv, RowsInv
<1>6. Cutting \in SUBSET {1, 2} /\ Cutting \in SUBSET Tables
  BY <1>0, CuttingTables
<1>7. ASSUME NEW t \in {1, 2}
      PROVE  /\ Scanned(t)' = Scanned(t) /\ (Built(t)' <=> Built(t) \/ t \in Cutting)
             /\ (pc' = "partition" /\ t \in Cutting' => t = 2 /\ t \in Tables /\ at' = 0 /\ Scanned(t) = 0)
  <2>1. CASE mode = "ind" /\ table = 1 /\ 2 \in Tables
    BY <1>1, <1>2, <1>3, <1>4, <2>1 DEF Scanned, Built, Cutting
  <2>2. CASE ~ (mode = "ind" /\ table = 1 /\ 2 \in Tables)
    <3>1. pc' = "move" /\ at' = at
      BY <1>2, <2>2
    <3>2. t \in Tables => t \in Cutting \/ (t < table /\ t # table)
      <4>1. CASE mode = "uni"
        BY <4>1 DEF Cutting
      <4>2. CASE mode = "ind"
        <5>1. table = 2 \/ (2 \notin Tables /\ table = 1)
          BY <1>5, <2>2, <4>2
        <5>2. t = 1 \/ t = 2
          OBVIOUS
        <5> QED
          BY <4>2, <5>1, <5>2 DEF Cutting
      <4> QED
        BY <1>5, <4>1, <4>2
    <3>3. t \in Cutting => t \in Tables
      BY <1>6
    <3>4. Scanned(t)' = Scanned(t)
      BY <1>1, <1>3, <3>1, <3>2 DEF Scanned
    <3>5. Built(t)' <=> Built(t) \/ t \in Cutting
      BY <1>1, <1>3, <3>1, <3>2, <3>3 DEF Built
    <3> QED
      BY <3>1, <3>4, <3>5
  <2> QED
    BY <2>1, <2>2
<1>8. PcInv'
  <2>1. at' \in 0 .. domainSize
    BY <1>1, <1>2, <1>4
  <2> QED
    BY <1>1, <1>2, <1>3, <1>4, <1>5, <2>1 DEF PcInv
<1>9. HistInv'
  BY <1>0, <1>1, <1>2, <1>3 DEF HistInv
<1>10. CutType'
  BY <1>0, <1>1 DEF CutType
<1>11. ASSUME NEW t \in {1, 2} PROVE Partitioned(t)'
  <2>1. ASSUME pc' = "partition", t \in Cutting'
        PROVE  real'[t] = Held(rows[t], keyMin, FirstKey(boundaries[t], Len(boundaries[t]) + 1), at' - 1)
    <3>1. t \in Tables /\ at' = 0 /\ Scanned(t) = 0
      BY <1>7, <2>1
    <3>2. boundaries[t] = <<>>
      BY <1>0, <3>1, TableFacts
    <3>3. FirstKey(boundaries[t], Len(boundaries[t]) + 1) = 0
      BY <3>2 DEF FirstKey
    <3>4. Held(rows[t], keyMin, 0, 0 - 1) = 0
      BY <1>4, <3>1, HeldFacts
    <3> QED
      BY <1>1, <3>1, <3>3, <3>4
  <2> QED
    BY <1>0, <1>1, <1>3, <1>7, <2>1 DEF Partitioned
<1>12. \A t, k : BucketOf(t, k)' = BucketOf(t, k)
  BY <1>1, <1>3 DEF BucketOf
<1>13. \A t \in {1, 2} : DOMAIN boundaries[t] = 1 .. Len(boundaries[t])
  BY <1>0 DEF CutType
<1>14. ASSUME NEW t \in {1, 2}
       PROVE  /\ (t \notin Cutting => buckets'[t] = buckets[t])
              /\ (Built(t)' => buckets'[t] = [k \in 1 .. Len(boundaries[t]) |-> BucketOf(t, k)])
              /\ (~ Built(t)' => buckets'[t] = <<>>)
  <2>1. CASE t \in Cutting
    BY <1>1, <1>7, <1>13, <2>1
  <2>2. CASE t \notin Cutting
    <3>1. buckets'[t] = buckets[t] /\ (Built(t)' <=> Built(t))
      BY <1>1, <1>7, <2>2
    <3> QED
      BY <1>0, <2>2, <3>1 DEF BucketInv
  <2> QED
    BY <2>1, <2>2
<1>15. DOMAIN buckets' = {1, 2} /\ buckets' = [t \in {1, 2} |-> buckets'[t]]
  BY <1>1
<1>16. buckets' = [t \in {1, 2} |-> IF Built(t)' THEN [k \in 1 .. Len(boundaries'[t]) |-> BucketOf(t, k)']
                                    ELSE <<>>]
  BY <1>1, <1>12, <1>14, <1>15, SMTT(30)
<1>17. /\ bucketNoisyMax' \in Nat /\ bucketNoisyMax <= bucketNoisyMax' /\ bucketNoisyMax \in Nat
       /\ \A t \in Cutting : \A k \in 1 .. Len(boundaries[t]) : partitionSizes[t][k].noisy <= bucketNoisyMax'
  <2>1. bucketNoisyMax \in Nat
    BY <1>0, <1>5 DEF BucketInv
  <2> QED
    BY <1>0, <1>1, <1>6, <2>1, LargestBucket
<1>18. ASSUME NEW t \in {1, 2}
       PROVE  buckets'[t] \in Seq(Ranged) /\ InOrder(buckets'[t])
              /\ \A k \in 1 .. Len(buckets'[t]) : buckets'[t][k].numData <= bucketNoisyMax'
  <2>1. CASE ~ Built(t)'
    <3>1. buckets'[t] = <<>> /\ 1 .. Len(<<>>) = {} /\ <<>> \in Seq(Ranged)
      BY <1>14, <2>1
    <3> QED
      BY <3>1, Zenon DEF InOrder
  <2>2. CASE Built(t)'
    <3>1. buckets'[t] = BucketList(keyMin, boundaries[t], partitionSizes[t])
      BY <1>14, <2>2 DEF BucketOf, BucketList, FirstKey
    <3>2. /\ boundaries[t] \in Seq(Nat) /\ partitionSizes[t] \in Seq(Sizes)
          /\ Scanned(t) \in Nat
      <4>1. Scanned(t) \in 0 .. domainSize
        BY <1>0, TableFacts
      <4> QED
        BY <1>0, <1>4, <4>1 DEF CutType
    <3>3. Partition(rows[t], keyMin, boundaries[t], partitionSizes[t], Scanned(t))
      BY <1>0 DEF Partitioned
    <3>4. buckets'[t] \in Seq(Ranged) /\ InOrder(buckets'[t]) /\ Len(buckets'[t]) = Len(boundaries[t])
      BY <1>4, <3>1, <3>2, <3>3, BucketsInOrder
    <3>5. ASSUME NEW k \in 1 .. Len(buckets'[t])
          PROVE  buckets'[t][k].numData <= bucketNoisyMax'
      <4>1. CASE t \in Cutting
        <5>1. buckets'[t][k].numData = partitionSizes[t][k].noisy
          BY <1>14, <2>2, <3>4 DEF BucketOf, Bucket
        <5> QED
          BY <1>17, <3>4, <4>1, <5>1
      <4>2. CASE t \notin Cutting
        <5>1. buckets'[t] = buckets[t]
          BY <1>14, <4>2
        <5>2. buckets[t][k].numData <= bucketNoisyMax
          BY <1>0, <1>5, <5>1 DEF BucketInv
        <5>3. buckets[t][k].numData \in Nat
          <6>1. buckets[t][k] \in Ranged
            BY <3>4, <5>1
          <6> QED
            BY <6>1 DEF Ranged
        <5> QED
          BY <1>17, <5>1, <5>2, <5>3
      <4> QED
        BY <4>1, <4>2
    <3> QED
      BY <3>4, <3>5
  <2> QED
    BY <2>1, <2>2
<1>19. BucketInv'
  BY <1>16, <1>17, <1>18 DEF BucketInv
<1>20. WalkInv'
  <2>1. Ordered'
    <3>1. buckets' \in [{1, 2} -> Seq(Ranged)]
      BY <1>15, <1>18
    <3> QED
      BY <1>18, <3>1 DEF Ordered, InOrder
  <2>2. Typed'
    BY <1>0, <1>1 DEF WalkInv, Typed
  <2>3. JoinedPast'
    BY <1>1, <1>5 DEF JoinedPast, EveryPairJoined
  <2> QED
    BY <2>1, <2>2, <2>3 DEF WalkInv
<1>21. RoomInv'
  BY <1>1, <1>5 DEF RoomInv
<1> QED
  BY <1>3, <1>8, <1>9, <1>10, <1>11, <1>19, <1>20, <1>21 DEF HTreeInv

-----------------------------------------------------------------------------
(* What holds of the tree and of the queries over it.                      *)
LEMMA TreeNextInv == HTreeInv /\ [Next]_vars => HTreeInv'
<1> SUFFICES ASSUME HTreeInv, [Next]_vars PROVE HTreeInv'
  OBVIOUS
<1>1. CASE UNCHANGED vars
  <2>1. UNCHANGED <<mode, rows, hist, at, real, boundaries, partitionSizes, accumulateSizes, table, pc, buckets>>
        /\ UNCHANGED <<buckets, walkVars>> /\ UNCHANGED <<pass, bucketNoisyMax>>
    BY <1>1 DEF vars, treeVars, cutVars, walkVars
  <2>2. RowsInv /\ PcInv /\ HistInv /\ CutType /\ BucketInv /\ WalkInv /\ RoomInv
        /\ \A t \in {1, 2} : Partitioned(t)
    BY DEF HTreeInv
  <2>3. RowsInv' /\ keyMin' = keyMin /\ domainSize' = domainSize /\ Tables' = Tables
    BY <2>1, <2>2, TreeFrame
  <2>4. PcInv' /\ HistInv' /\ CutType'
    BY <2>1, <2>2, <2>3 DEF PcInv, HistInv, CutType
  <2>5. \A t \in {1, 2} : Scanned(t)' = Scanned(t) /\ (Built(t)' <=> Built(t))
        /\ (t \in Cutting' <=> t \in Cutting) /\ \A k : BucketOf(t, k)' = BucketOf(t, k)
    BY <2>1, <2>3 DEF Scanned, Built, Cutting, BucketOf
  <2>6. \A t \in {1, 2} : Partitioned(t)'
    BY <2>1, <2>2, <2>3, <2>5 DEF Partitioned
  <2>7. BucketInv'
    <3>1. buckets' = [t \in {1, 2} |-> IF Built(t)' THEN [k \in 1 .. Len(boundaries'[t]) |-> BucketOf(t, k)']
                                       ELSE <<>>]
      <4>1. \A t \in {1, 2} : (Built(t)' <=> Built(t)) /\ \A k : BucketOf(t, k)' = BucketOf(t, k)
        BY <2>5
      <4>2. \A t \in {1, 2} : \A k : BucketOf(t, k)' = BucketOf(t, k)
        BY <4>1
      <4>3. buckets = [t \in {1, 2} |-> IF Built(t) THEN [k \in 1 .. Len(boundaries[t]) |-> BucketOf(t, k)]
                                        ELSE <<>>]
        BY <2>2 DEF BucketInv
      <4>4. ASSUME NEW t \in {1, 2}
            PROVE  (IF Built(t)' THEN [k \in 1 .. Len(boundaries'[t]) |-> BucketOf(t, k)'] ELSE <<>>)
                     = (IF Built(t) THEN [k \in 1 .. Len(boundaries[t]) |-> BucketOf(t, k)] ELSE <<>>)
        BY <2>1, <4>1, <4>2
      <4> QED
        BY <2>1, <4>3, <4>4
    <3>2. pass' = "idle" => /\ bucketNoisyMax' \in Nat
                            /\ \A t \in {1, 2} : \A k \in 1 .. Len(buckets'[t]) :
                                 buckets'[t][k].numData <= bucketNoisyMax'
      BY <2>1, <2>2 DEF BucketInv
    <3> QED
      BY <3>1, <3>2 DEF BucketInv
  <2>8. WalkInv' /\ RoomInv'
    BY <2>1, <2>2, WalkFrame
  <2> QED
    BY <2>3, <2>4, <2>6, <2>7, <2>8 DEF HTreeInv
<1>2. CASE Next
  BY <1>2, GetHistBinsInv, ScanKeyInv, BackOfEmptyInv, MakeBucketsInv, MoveInv, QueryInv DEF Next, Build
<1> QED
  BY <1>1, <1>2

(* The inductive invariant: the histogram counts the rows of every key,    *)
(* the partitions are those of the keys scanned, the buckets are those of  *)
(* the partitions, and the walk over them is where it should be.           *)
THEOREM TreeInvariant == Spec => []HTreeInv
<1>1. Init => HTreeInv
  BY TreeInitInv
<1> QED
  BY <1>1, TreeNextInv, PTL DEF Spec

(* Every query over the buckets that HTree has built joins the pairs that  *)
(* share a key and may hold a row of the query, and no other.              *)
THEOREM TreeJoinsEveryPair == Spec => []EveryPairJoined
<1>1. HTreeInv => EveryPairJoined
  BY DEF HTreeInv, WalkInv, JoinedPast
<1> QED
  BY <1>1, TreeInvariant, PTL

(* joinOutput and selected_count have room for every query, and no count   *)
(* is left unset: whatever rows the buckets have, and whatever range.      *)
THEOREM TreeHasRoom == Spec => []RoomForEveryRow
<1>1. HTreeInv => RoomForEveryRow
  BY RoomThere DEF HTreeInv
<1> QED
  BY <1>1, TreeInvariant, PTL

(* No query over these buckets joins a pair twice.                         *)
THEOREM TreeJoinsOnce == Spec => JoinedOnce
<1>1. ASSUME HTreeInv, [Next]_vars PROVE [selectedCountIdx' > selectedCountIdx => joined' # joined]_walk
  <2>1. WalkInv
    BY <1>1 DEF HTreeInv
  <2>2. ASSUME selectedCountIdx' = selectedCountIdx PROVE ~(selectedCountIdx' > selectedCountIdx)
    BY <2>1, <2>2 DEF WalkInv, Typed
  <2>3. CASE Build
    <3>1. selectedCountIdx' = selectedCountIdx
      BY <2>3 DEF Build, GetHistBins, ScanKey, BackOfEmpty, MakeBuckets, MoveUni, FillInd, SliceInd, EndInd, walkVars
    <3> QED
      BY <2>2, <3>1
  <2>4. CASE Query \/ Walk
    <3>1. WalkNext
      <4>1. CASE Query
        <5>1. PICK range \in Ranges, jattr \in BOOLEAN : StartWalk(range[1], range[2], jattr)
          BY <4>1 DEF Query
        <5>2. range[1] \in Int /\ range[2] \in Int
          BY HTreeAssumption
        <5> QED
          BY <5>1, <5>2 DEF WalkNext
      <4>2. CASE Walk
        BY <4>2 DEF Walk, CrossProduct, WalkNext, WalkStep
      <4> QED
        BY <2>4, <4>1, <4>2
    <3> QED
      BY <2>1, <3>1, JoinsAnother
  <2>5. CASE UNCHANGED vars
    <3>1. selectedCountIdx' = selectedCountIdx
      BY <2>5 DEF vars, walkVars
    <3> QED
      BY <2>2, <3>1
  <2> QED
    BY <1>1, <2>3, <2>4, <2>5 DEF Next
<1>2. JoinedOnce <=> [][selectedCountIdx' > selectedCountIdx => joined' # joined]_walk
  BY DEF JoinedOnce, walk
<1> QED
  BY <1>1, <1>2, TreeInvariant, PTL DEF Spec

(* A key is in the range of one of the first n buckets.                    *)
InOneOf(list, n, v) == Cardinality({k \in 1 .. n : v \in list[k].keyMin .. list[k].keyMax}) = 1

(* A key of the domain is in one bucket, and in no other.                  *)
LEMMA OneBucket ==
  ASSUME NEW s, NEW min \in Int, NEW b \in Seq(Nat), NEW sizes \in Seq(Sizes), NEW size \in Nat \ {0},
         Partition(s, min, b, sizes, size), Complete(b, size), Len(b) # 0,
         NEW list, list = BucketList(min, b, sizes), NEW v \in min .. min + size - 1
  PROVE  InOneOf(list, Len(b), v)
<1> DEFINE n == Len(b)
           d == v - min
           T == {k \in Nat : k \in 1 .. n /\ b[k] >= d}
           K == {k \in 1 .. n : v \in list[k].keyMin .. list[k].keyMax}
<1>1. n \in Nat /\ n \in 1 .. n /\ b[n] = size - 1 /\ d \in Nat /\ d <= size - 1
  BY DEF Complete
<1>2. n \in T
  BY <1>1
<1>3. PICK k \in T : \A l \in 0 .. k - 1 : l \notin T
  <2>1. T \in SUBSET Nat /\ T # {}
    BY <1>2
  <2> HIDE DEF T
  <2> QED
    BY <2>1, LeastNumber
<1>4. k \in 1 .. n /\ b[k] >= d /\ b[k] \in Nat
  BY <1>3
<1>5. FirstKey(b, k) \in Nat /\ FirstKey(b, k) <= d
  <2>1. CASE k = 1
    BY <1>1, <2>1 DEF FirstKey
  <2>2. CASE k # 1
    <3>1. k - 1 \in 1 .. n /\ k - 1 \in 0 .. k - 1 /\ k - 1 \in Nat
      BY <1>4, <2>2
    <3>2. PICK x \in Nat : x = b[k - 1]
      BY <3>1
    <3>3. ~ (x >= d)
      BY <1>3, <3>1, <3>2
    <3>4. x + 1 <= d
      BY <1>1, <3>3
    <3> QED
      BY <2>2, <3>2, <3>4, SMTT(30) DEF FirstKey
  <2> QED
    BY <2>1, <2>2
<1>6. list \in Seq(Ranged) /\ InOrder(list) /\ Len(list) = n
  BY BucketsInOrder
<1>7. list[k].keyMin = min + FirstKey(b, k) /\ list[k].keyMax = min + b[k]
  BY <1>4 DEF BucketList, Bucket
<1>8. k \in K
  <2>1. PICK x \in Nat, y \in Nat : x = FirstKey(b, k) /\ y = b[k]
    BY <1>4, <1>5
  <2>2. v \in min + x .. min + y
    BY <1>1, <1>4, <1>5, <2>1, SMTT(30)
  <2> QED
    BY <1>4, <1>7, <2>1, <2>2
<1>9. ASSUME NEW l \in K, l # k PROVE FALSE
  <2>1. ASSUME NEW m \in K
        PROVE  /\ m \in 1 .. n /\ list[m].keyMin \in Int /\ list[m].keyMax \in Int
               /\ list[m].keyMin <= v /\ v <= list[m].keyMax
    <3>1. m \in 1 .. n /\ v \in list[m].keyMin .. list[m].keyMax
      OBVIOUS
    <3>2. list[m] \in Ranged
      BY <1>6, <3>1
    <3>3. list[m].keyMin \in Int /\ list[m].keyMax \in Int
      BY <3>2 DEF Ranged
    <3> QED
      BY <3>1, <3>3
  <2>2. k \in 1 .. n /\ l \in 1 .. n
    BY <1>8, <2>1
  <2>3. ASSUME NEW x \in K, NEW y \in K, x < y PROVE FALSE
    <3>1. list[x].keyMax < list[y].keyMin
      BY <1>6, <2>1, <2>3 DEF InOrder
    <3>2. PICK p \in Int, q \in Int : p = list[x].keyMax /\ q = list[y].keyMin /\ v <= p /\ q <= v
      BY <2>1
    <3> HIDE DEF K
    <3> QED
      BY <3>1, <3>2, SMTT(30)
  <2>4. CASE k < l
    BY <1>8, <2>3, <2>4
  <2>5. CASE ~ (k < l)
    <3>1. l < k
      BY <1>9, <2>2, <2>5
    <3> QED
      BY <1>8, <2>3, <3>1
  <2> QED
    BY <2>4, <2>5
<1> HIDE DEF K
<1>10. K = {k}
  BY <1>8, <1>9
<1> QED
  BY <1>10, FS_Singleton DEF K, InOneOf

(* The buckets of a table, when it has some.                               *)
LEMMA BucketsBuilt ==
  ASSUME HTreeInv, pc \in {"move", "slice", "query"}, NEW t \in Tables
  PROVE  /\ buckets[t] = BucketList(keyMin, boundaries[t], partitionSizes[t])
         /\ Partition(rows[t], keyMin, boundaries[t], partitionSizes[t], domainSize)
         /\ Complete(boundaries[t], domainSize)
         /\ (t = 1 \/ mode = "uni" => boundaries[t] # <<>>)
         /\ boundaries[t] \in Seq(Nat) /\ partitionSizes[t] \in Seq(Sizes)
         /\ DOMAIN buckets[t] = 1 .. Len(boundaries[t]) /\ Len(boundaries[t]) \in Nat
<1>1. t \in {1, 2}
  BY DEF Tables
<1>2. Scanned(t) = domainSize /\ Built(t)
  BY DEF Scanned, Built
<1>3. /\ Partition(rows[t], keyMin, boundaries[t], partitionSizes[t], domainSize)
      /\ Complete(boundaries[t], domainSize) /\ (t = 1 \/ mode = "uni" => boundaries[t] # <<>>)
  BY <1>1, <1>2 DEF HTreeInv, Partitioned
<1>4. buckets[t] = [k \in 1 .. Len(boundaries[t]) |-> BucketOf(t, k)]
  BY <1>1, <1>2 DEF HTreeInv, BucketInv
<1>5. buckets[t] = BucketList(keyMin, boundaries[t], partitionSizes[t])
  BY <1>4 DEF BucketOf, BucketList, FirstKey
<1>6. boundaries[t] \in Seq(Nat) /\ partitionSizes[t] \in Seq(Sizes)
  BY <1>1 DEF HTreeInv, CutType
<1> QED
  BY <1>3, <1>4, <1>5, <1>6

(* The buckets of a table cover its domain, and each is as large as the    *)
(* rows with its keys and the noise.                                       *)
THEOREM BucketsTile == Spec => []BucketsTileDomain
<1>1. HTreeInv => BucketsTileDomain
  <2> SUFFICES ASSUME HTreeInv, pc \in {"move", "slice", "query"}, NEW t \in Tables, buckets[t] # <<>>
               PROVE  /\ \A v \in keyMin .. keyMax :
                           Cardinality({k \in DOMAIN buckets[t] :
                                          v \in buckets[t][k].keyMin .. buckets[t][k].keyMax}) = 1
                      /\ \A k \in DOMAIN buckets[t] :
                           /\ partitionSizes[t][k].real =
                                Cardinality({r \in DOMAIN rows[t] :
                                               rows[t][r] \in buckets[t][k].keyMin .. buckets[t][k].keyMax})
                           /\ buckets[t][k].numData \in partitionSizes[t][k].real .. bucketNoisyMax \/ pass # "idle"
    BY DEF BucketsTileDomain
  <2> DEFINE b == boundaries[t]
             n == Len(b)
  <2>1. /\ buckets[t] = BucketList(keyMin, b, partitionSizes[t])
        /\ Partition(rows[t], keyMin, b, partitionSizes[t], domainSize) /\ Complete(b, domainSize)
        /\ b \in Seq(Nat) /\ partitionSizes[t] \in Seq(Sizes)
        /\ DOMAIN buckets[t] = 1 .. n /\ n \in Nat /\ t \in {1, 2}
    BY BucketsBuilt DEF Tables
  <2>2. keyMin \in Int /\ domainSize \in Nat \ {0} /\ keyMax = keyMin + domainSize - 1 /\ InDomain(rows[t])
    BY DomainFacts DEF HTreeInv
  <2>3. n # 0
    <3> SUFFICES ASSUME n = 0 PROVE FALSE
      OBVIOUS
    <3>1. buckets[t] \in Seq(Ranged) /\ Len(buckets[t]) = 0
      BY <2>1, <2>2, BucketsInOrder
    <3> QED
      BY <3>1
  <2>4. ASSUME NEW v \in keyMin .. keyMax
        PROVE  Cardinality({k \in DOMAIN buckets[t] : v \in buckets[t][k].keyMin .. buckets[t][k].keyMax}) = 1
    <3>1. v \in keyMin .. keyMin + domainSize - 1
      BY <2>2
    <3>2. Cardinality({k \in 1 .. n : v \in buckets[t][k].keyMin .. buckets[t][k].keyMax}) = 1
      <4>1. Len(b) # 0
        BY <2>3
      <4>2. InOneOf(buckets[t], Len(b), v)
        <5> HIDE DEF b
        <5> QED
          BY <2>1, <2>2, <3>1, <4>1, OneBucket
      <4> QED
        BY <4>2 DEF InOneOf
    <3> QED
      BY <2>1, <3>2
  <2>5. ASSUME NEW k \in DOMAIN buckets[t]
        PROVE  /\ partitionSizes[t][k].real =
                    Cardinality({r \in DOMAIN rows[t] :
                                   rows[t][r] \in buckets[t][k].keyMin .. buckets[t][k].keyMax})
               /\ buckets[t][k].numData \in partitionSizes[t][k].real .. bucketNoisyMax \/ pass # "idle"
    <3>1. k \in 1 .. n
      BY <2>1
    <3>2. /\ buckets[t][k].keyMin = keyMin + FirstKey(b, k) /\ buckets[t][k].keyMax = keyMin + b[k]
          /\ buckets[t][k].numData = partitionSizes[t][k].noisy
      BY <2>1, <3>1 DEF BucketList, Bucket
    <3>3. PICK lo \in Int, hi \in Int : lo = FirstKey(b, k) /\ hi = b[k]
      <4>1. b[k] \in Nat
        BY <2>1, <3>1
      <4>2. CASE k = 1
        BY <4>1, <4>2 DEF FirstKey
      <4>3. CASE k # 1
        <5>1. k - 1 \in 1 .. n
          BY <2>1, <3>1, <4>3
        <5>2. b[k - 1] \in Nat
          BY <2>1, <5>1
        <5> HIDE DEF b
        <5> QED
          BY <4>1, <4>3, <5>2 DEF FirstKey
      <4> QED
        BY <4>2, <4>3
    <3>4. partitionSizes[t][k].real = Held(rows[t], keyMin, lo, hi)
          /\ partitionSizes[t][k].noisy >= partitionSizes[t][k].real
      BY <2>1, <3>1, <3>3 DEF Partition
    <3>5. ASSUME NEW r \in 1 .. Len(rows[t])
          PROVE  rows[t][r] - keyMin \in lo .. hi
                   <=> rows[t][r] \in buckets[t][k].keyMin .. buckets[t][k].keyMax
      <4>1. rows[t][r] \in Int
        BY <2>2 DEF InDomain
      <4>2. rows[t][r] - keyMin \in lo .. hi <=> rows[t][r] \in keyMin + lo .. keyMin + hi
        BY <2>2, <4>1
      <4> QED
        BY <3>2, <3>3, <4>2
    <3>6. DOMAIN rows[t] = 1 .. Len(rows[t])
      BY <2>2 DEF InDomain
    <3>7. partitionSizes[t][k].real =
            Cardinality({r \in DOMAIN rows[t] : rows[t][r] \in buckets[t][k].keyMin .. buckets[t][k].keyMax})
      <4>1. {r \in 1 .. Len(rows[t]) : rows[t][r] - keyMin \in lo .. hi}
              = {r \in DOMAIN rows[t] : rows[t][r] \in buckets[t][k].keyMin .. buckets[t][k].keyMax}
        BY <3>5, <3>6, Zenon
      <4> QED
        BY <3>4, <4>1 DEF Held
    <3>8. pass = "idle" => buckets[t][k].numData \in partitionSizes[t][k].real .. bucketNoisyMax
      <4> SUFFICES ASSUME pass = "idle" PROVE buckets[t][k].numData \in partitionSizes[t][k].real .. bucketNoisyMax
        OBVIOUS
      <4>1. partitionSizes[t][k] \in Sizes
        BY <2>1, <3>1 DEF Partition
      <4>2. partitionSizes[t][k].real \in Nat /\ partitionSizes[t][k].noisy \in Nat
        BY <4>1 DEF Sizes
      <4>3. Len(buckets[t]) = n
        BY <2>1, <2>2, BucketsInOrder
      <4>4. bucketNoisyMax \in Nat /\ buckets[t][k].numData <= bucketNoisyMax
        BY <2>1, <3>1, <4>3 DEF HTreeInv, BucketInv
      <4> QED
        BY <3>2, <3>4, <4>2, <4>4
    <3> QED
      BY <3>7, <3>8
  <2> QED
    BY <2>4, <2>5
<1> QED
  BY <1>1, TreeInvariant, PTL

-----------------------------------------------------------------------------
(* The rows in the partitions.  Adjacent ranges of keys.                   *)
LEMMA HeldSplit ==
  ASSUME NEW s, InDomain(s), NEW lo \in Nat, NEW mid \in Int, NEW hi \in Int, lo <= mid + 1, mid <= hi
  PROVE  /\ Held(s, keyMin, lo, hi) = Held(s, keyMin, lo, mid) + Held(s, keyMin, mid + 1, hi)
         /\ Held(s, keyMin, lo, mid) \in Nat /\ Held(s, keyMin, mid + 1, hi) \in Nat
<1> DEFINE A == InKeys(s, lo, mid)
           B == InKeys(s, mid + 1, hi)
           C == InKeys(s, lo, hi)
<1>1. \A x, y : Held(s, keyMin, x, y) = Cardinality(InKeys(s, x, y))
  BY DEF Held, InKeys, Slot
<1>2. IsFiniteSet(1 .. Len(s)) /\ \A r \in 1 .. Len(s) : Slot(s, r) \in Int
  <2>1. Len(s) \in Nat
    BY SeqFacts DEF InDomain
  <2> QED
    BY <2>1, FS_Interval DEF InDomain
<1>3. IsFiniteSet(A) /\ IsFiniteSet(B)
  BY <1>2, FS_Subset DEF InKeys
<1>4. \A x \in Int : /\ x \in lo .. hi <=> x \in lo .. mid \/ x \in mid + 1 .. hi
                     /\ ~ (x \in lo .. mid /\ x \in mid + 1 .. hi)
  OBVIOUS
<1>5. C = A \cup B /\ A \cap B = {}
  <2>1. \A r \in 1 .. Len(s) : /\ Slot(s, r) \in lo .. hi <=> Slot(s, r) \in lo .. mid \/ Slot(s, r) \in mid + 1 .. hi
                               /\ ~ (Slot(s, r) \in lo .. mid /\ Slot(s, r) \in mid + 1 .. hi)
    BY <1>2, <1>4
  <2> QED
    BY <2>1, Zenon DEF InKeys
<1> HIDE DEF A, B, C
<1>6. Cardinality(C) = Cardinality(A) + Cardinality(B) - Cardinality({})
  BY <1>3, <1>5, FS_Union
<1>7. Cardinality({}) = 0 /\ Cardinality(A) \in Nat /\ Cardinality(B) \in Nat
  BY <1>3, FS_EmptySet, FS_CardinalityType
<1>8. Cardinality(C) = Cardinality(A) + Cardinality(B)
  BY <1>6, <1>7
<1> QED
  BY <1>1, <1>7, <1>8 DEF A, B, C

(* The whole domain holds all rows.                                        *)
LEMMA HeldAll ==
  ASSUME NEW s, InDomain(s)
  PROVE  Held(s, keyMin, 0, domainSize - 1) = Len(s)
<1>1. Held(s, keyMin, 0, domainSize - 1) = Cardinality(InKeys(s, 0, domainSize - 1))
  BY DEF Held, InKeys, Slot
<1>2. InKeys(s, 0, domainSize - 1) = 1 .. Len(s)
  <2>1. \A r \in 1 .. Len(s) : Slot(s, r) \in 0 .. domainSize - 1
    BY DEF InDomain
  <2> QED
    BY <2>1, Zenon DEF InKeys
<1>3. Len(s) \in Nat /\ Len(s) # 0
  BY SeqFacts DEF InDomain
<1>4. Cardinality(1 .. Len(s)) = Len(s)
  BY <1>3, FS_Interval
<1> QED
  BY <1>1, <1>2, <1>4

(* The sums of the sizes of a table, and the rows they count.              *)
SumsTied(t) ==
  LET n == Len(boundaries[t])
  IN  /\ SumsUp(RealSums(t), n) /\ SumsUp(NoisySums(t), n) /\ SumsUp(NoiseSums(t), n)
      /\ \A k \in 1 .. n : /\ RealSums(t)[k] = RealSums(t)[k - 1] + partitionSizes[t][k].real
                           /\ NoisySums(t)[k] = NoisySums(t)[k - 1] + partitionSizes[t][k].noisy
                           /\ NoiseSums(t)[k] = NoiseSums(t)[k - 1]
                                                  + (partitionSizes[t][k].noisy - partitionSizes[t][k].real)
      /\ \A k \in 1 .. n : /\ partitionSizes[t][k].real \in Nat /\ partitionSizes[t][k].noisy \in Nat
                           /\ partitionSizes[t][k].noisy >= partitionSizes[t][k].real
      /\ \A k \in 0 .. n : NoisySums(t)[k] = RealSums(t)[k] + NoiseSums(t)[k]

\* The rows of a table before its k + 1st partition are those that it has counted.
RowsCounted(t) ==
  \A k \in 0 .. Len(boundaries[t]) :
    RealSums(t)[k] = Held(rows[t], keyMin, 0, FirstKey(boundaries[t], k + 1) - 1)

(* The sums of the real, the noisy and the pure noise sizes go together.   *)
LEMMA SumsAreTied ==
  ASSUME RowsInv, PcInv, CutType, NEW t \in {1, 2}, Partitioned(t)
  PROVE  SumsTied(t)
<1> DEFINE n == Len(boundaries[t])
           ps == partitionSizes[t]
           R == RealSums(t)
           Y == NoisySums(t)
           E == NoiseSums(t)
<1>1. n \in Nat /\ DOMAIN ps = 1 .. n
  BY TableFacts, SizeSums
<1>2. ASSUME NEW k \in 1 .. n
      PROVE  ps[k].real \in Nat /\ ps[k].noisy \in Nat /\ ps[k].noisy >= ps[k].real
  <2>1. ps[k] \in Sizes
    <3>1. ps \in Seq(Sizes) /\ Len(ps) = n
      BY TableFacts
    <3> QED
      BY <3>1
  <2>2. ps[k].noisy >= ps[k].real
    BY DEF Partitioned, Partition
  <2> QED
    BY <2>1, <2>2 DEF Sizes
<1>3. /\ SumsRun([k \in 1 .. n |-> ps[k].real], n)
      /\ SumsRun([k \in 1 .. n |-> ps[k].noisy], n)
      /\ SumsRun([k \in 1 .. n |-> ps[k].noisy - ps[k].real], n)
  BY SizeSums
<1>4. R = Sums([k \in 1 .. n |-> ps[k].real]) /\ Y = Sums([k \in 1 .. n |-> ps[k].noisy])
      /\ E = Sums([k \in 1 .. n |-> ps[k].noisy - ps[k].real])
  BY <1>1 DEF RealSums, NoisySums, NoiseSums
<1> HIDE DEF n, ps, R, Y, E
<1>5. /\ R \in [0 .. n -> Nat] /\ Y \in [0 .. n -> Nat] /\ E \in [0 .. n -> Nat]
      /\ R[0] = 0 /\ Y[0] = 0 /\ E[0] = 0
      /\ \A k \in 1 .. n : R[k] = R[k - 1] + ps[k].real
      /\ \A k \in 1 .. n : Y[k] = Y[k - 1] + ps[k].noisy
      /\ \A k \in 1 .. n : E[k] = E[k - 1] + (ps[k].noisy - ps[k].real)
  BY <1>3, <1>4 DEF SumsRun
<1>6. ASSUME NEW k \in 1 .. n
      PROVE  R[k - 1] <= R[k] /\ Y[k - 1] <= Y[k] /\ E[k - 1] <= E[k]
  <2>1. k - 1 \in 0 .. n /\ k \in 0 .. n
    BY <1>1
  <2>2. PICK a \in Nat, b \in Nat, c \in Nat, x \in Nat, y \in Nat :
          /\ a = R[k - 1] /\ b = Y[k - 1] /\ c = E[k - 1] /\ x = ps[k].real /\ y = ps[k].noisy /\ y >= x
    BY <1>2, <1>5, <2>1
  <2>3. a <= a + x /\ b <= b + y /\ c <= c + (y - x)
    BY <2>2
  <2> QED
    BY <1>5, <2>2, <2>3
<1>7. SumsUp(R, n) /\ SumsUp(Y, n) /\ SumsUp(E, n)
  BY <1>1, <1>5, <1>6 DEF SumsUp
<1>8. ASSUME NEW k \in 0 .. n PROVE Y[k] = R[k] + E[k]
  <2> DEFINE T == {m \in Nat : m <= n /\ ~ (Y[m] = R[m] + E[m])}
  <2>1. T = {}
    <3> SUFFICES ASSUME T # {} PROVE FALSE
      OBVIOUS
    <3>1. PICK m \in T : \A y \in 0 .. m - 1 : y \notin T
      BY LeastNumber
    <3>2. m \in Nat /\ m <= n /\ Y[m] # R[m] + E[m]
      BY <3>1
    <3>3. m # 0
      BY <1>5, <3>2
    <3>4. m - 1 \in 0 .. m - 1 /\ m - 1 \in Nat /\ m - 1 <= n /\ m \in 1 .. n /\ m - 1 \in 0 .. n
      BY <1>1, <3>2, <3>3
    <3>5. Y[m - 1] = R[m - 1] + E[m - 1]
      BY <3>1, <3>4
    <3>6. PICK a \in Nat, c \in Nat, x \in Nat, y \in Nat :
            a = R[m - 1] /\ c = E[m - 1] /\ x = ps[m].real /\ y = ps[m].noisy
      BY <1>2, <1>5, <3>4
    <3>7. (a + c) + y = (a + x) + (c + (y - x))
      OBVIOUS
    <3>8. Y[m] = (a + c) + y /\ R[m] = a + x /\ E[m] = c + (y - x)
      BY <1>5, <3>4, <3>5, <3>6
    <3> QED
      BY <3>2, <3>7, <3>8
  <2>2. k \in Nat /\ k <= n
    BY <1>1
  <2> QED
    BY <2>1, <2>2
<1> QED
  BY <1>2, <1>5, <1>7, <1>8 DEF SumsTied, n, ps, R, Y, E

(* The real sizes count the rows, key by key.                              *)
LEMMA RowsAreCounted ==
  ASSUME RowsInv, PcInv, CutType, NEW t \in Tables, Partitioned(t)
  PROVE  RowsCounted(t)
<1> DEFINE n == Len(boundaries[t])
           b == boundaries[t]
           s == rows[t]
           R == RealSums(t)
           F(k) == FirstKey(b, k + 1) - 1
<1>0. t \in {1, 2} /\ InDomain(s) /\ n \in Nat /\ \A k \in 1 .. n : b[k] \in Nat
  <2>1. t \in {1, 2} /\ InDomain(s)
    BY DomainFacts DEF Tables
  <2>2. b \in Seq(Nat) /\ n \in Nat
    BY <2>1, TableFacts
  <2>3. \A k \in 1 .. n : b[k] \in Nat
    <3>1. \A x \in Seq(Nat) : \A k \in 1 .. Len(x) : x[k] \in Nat
      OBVIOUS
    <3> QED
      BY <2>2, <3>1
  <2> QED
    BY <2>1, <2>2, <2>3
<1>1. SumsTied(t)
  BY <1>0, SumsAreTied
<1>2. /\ R[0] = 0 /\ \A k \in 1 .. n : R[k] = R[k - 1] + partitionSizes[t][k].real
  BY <1>1 DEF SumsTied, SumsUp
<1>3. \A k \in 1 .. n : /\ partitionSizes[t][k].real = Held(s, keyMin, FirstKey(b, k), b[k])
                        /\ \A l \in 1 .. n : k < l => b[k] < b[l]
  BY DEF Partitioned, Partition
<1>4. F(0) = 0 - 1 /\ \A k \in 1 .. n : F(k) = b[k]
  <2>1. FirstKey(b, 0 + 1) = 0
    BY DEF FirstKey
  <2>2. ASSUME NEW k \in 1 .. n PROVE F(k) = b[k]
    <3>1. k + 1 # 1 /\ (k + 1) - 1 = k
      BY <1>0
    <3>2. PICK x \in Nat : x = b[k]
      BY <1>0
    <3>3. FirstKey(b, k + 1) = x + 1
      BY <3>1, <3>2 DEF FirstKey
    <3> QED
      BY <3>2, <3>3
  <2> QED
    BY <2>1, <2>2
<1>5. ASSUME NEW k \in 1 .. n
      PROVE  F(k - 1) \in Int /\ F(k - 1) + 1 >= 0 /\ F(k - 1) + 1 = FirstKey(b, k) /\ F(k - 1) <= b[k]
  <2>1. (k - 1) + 1 = k
    BY <1>0
  <2>2. CASE k = 1
    BY <1>0, <2>1, <2>2 DEF FirstKey
  <2>3. CASE k # 1
    <3>1. k - 1 \in 1 .. n /\ k - 1 < k
      BY <1>0, <2>3
    <3>2. PICK x \in Nat, y \in Nat : x = b[k - 1] /\ y = b[k]
      BY <1>0, <3>1
    <3>3. x < y
      BY <1>3, <3>1, <3>2
    <3>4. FirstKey(b, k) = x + 1
      BY <2>3, <3>2 DEF FirstKey
    <3> QED
      BY <2>1, <3>2, <3>3, <3>4
  <2> QED
    BY <2>2, <2>3
<1>7. ASSUME NEW lo \in Int, NEW hi \in Int, 0 <= lo + 1, lo <= hi
      PROVE  Held(s, keyMin, 0, hi) = Held(s, keyMin, 0, lo) + Held(s, keyMin, lo + 1, hi)
  <2> HIDE DEF F, s, b, n
  <2>1. 0 \in Nat
    OBVIOUS
  <2> QED
    BY <1>0, <1>7, <2>1, HeldSplit
<1> HIDE DEF F, s, b, n
<1>6. ASSUME NEW k \in 0 .. n PROVE R[k] = Held(s, keyMin, 0, F(k))
  <2> DEFINE T == {m \in Nat : m <= n /\ ~ (R[m] = Held(s, keyMin, 0, F(m)))}
  <2>1. T = {}
    <3> SUFFICES ASSUME T # {} PROVE FALSE
      OBVIOUS
    <3>1. PICK m \in T : \A y \in 0 .. m - 1 : y \notin T
      BY LeastNumber
    <3>2. m \in Nat /\ m <= n /\ R[m] # Held(s, keyMin, 0, F(m))
      BY <3>1
    <3>3. CASE m = 0
      <4>1. Held(s, keyMin, 0, 0 - 1) = 0
        BY <1>0, HeldFacts
      <4> QED
        BY <1>2, <1>4, <3>2, <3>3, <4>1
    <3>4. CASE m # 0
      <4>1. m - 1 \in 0 .. m - 1 /\ m - 1 \in Nat /\ m - 1 <= n /\ m \in 1 .. n
        BY <1>0, <3>2, <3>4
      <4>2. R[m - 1] = Held(s, keyMin, 0, F(m - 1))
        BY <3>1, <4>1
      <4>3. PICK lo \in Int, hi \in Nat : lo = F(m - 1) /\ hi = b[m] /\ 0 <= lo + 1 /\ lo <= hi
        BY <1>0, <1>5, <4>1
      <4>4. Held(s, keyMin, 0, hi) = Held(s, keyMin, 0, lo) + Held(s, keyMin, lo + 1, hi)
        <5>1. 0 \in Nat /\ hi \in Int
          BY <4>3
        <5> QED
          BY <4>3, <5>1, <1>7
      <4>5. R[m] = R[m - 1] + Held(s, keyMin, lo + 1, hi)
        BY <1>2, <1>3, <1>5, <4>1, <4>3
      <4> QED
        BY <1>4, <3>2, <4>1, <4>2, <4>3, <4>4, <4>5
    <3> QED
      BY <3>3, <3>4
  <2>2. k \in Nat /\ k <= n
    BY <1>0
  <2> QED
    BY <2>1, <2>2
<1> QED
  BY <1>6 DEF RowsCounted, F, s, b, n, R

\* The rows and the dummies of a table.
Total(t) == Len(rows[t]) + SumNoise(t)

(* A table that has its buckets: the rows that go into them are all there  *)
(* are, and nothing else.                                                  *)
LEMMA AllRowsCounted ==
  ASSUME RowsInv, PcInv, CutType, NEW t \in Tables, Partitioned(t), Scanned(t) = domainSize
  PROVE  /\ SumNoise(t) \in Nat /\ SumNoise(t) = NoiseSums(t)[Len(boundaries[t])]
         /\ Len(rows[t]) \in Nat /\ Total(t) \in Nat
         /\ boundaries[t] # <<>> => NoisySums(t)[Len(boundaries[t])] = Total(t)
<1> DEFINE n == Len(boundaries[t])
<1>0. t \in {1, 2} /\ InDomain(rows[t]) /\ domainSize \in Nat \ {0}
  BY DomainFacts DEF Tables
<1>1. n \in Nat /\ boundaries[t] \in Seq(Nat) /\ Len(partitionSizes[t]) = n
  BY <1>0, TableFacts
<1>2. SumsTied(t) /\ RowsCounted(t)
  BY <1>0, SumsAreTied, RowsAreCounted
<1>3. SumNoise(t) = NoiseSums(t)[n]
  BY <1>1 DEF SumNoise
<1>4. NoiseSums(t)[n] \in Nat /\ NoisySums(t)[n] = RealSums(t)[n] + NoiseSums(t)[n]
  <2>1. SumsUp(NoiseSums(t), n) /\ n \in 0 .. n
    BY <1>1, <1>2 DEF SumsTied
  <2>2. NoiseSums(t)[n] \in Nat
    BY <2>1 DEF SumsUp
  <2> QED
    BY <1>2, <2>1, <2>2 DEF SumsTied
<1>5. Len(rows[t]) \in Nat
  BY <1>0, SeqFacts DEF InDomain
<1>6. ASSUME boundaries[t] # <<>>
      PROVE  NoisySums(t)[n] = Total(t)
  <2>1. n # 0
    BY <1>1, <1>6
  <2>2. boundaries[t][n] = domainSize - 1
    BY <1>0, <2>1 DEF Partitioned, Complete
  <2>3. FirstKey(boundaries[t], n + 1) - 1 = domainSize - 1
    <3>1. n + 1 # 1 /\ (n + 1) - 1 = n
      BY <1>1, <2>1
    <3>2. FirstKey(boundaries[t], n + 1) = (domainSize - 1) + 1
      BY <2>2, <3>1 DEF FirstKey
    <3> QED
      BY <1>0, <3>2
  <2>4. RealSums(t)[n] = Held(rows[t], keyMin, 0, domainSize - 1)
    <3>1. n \in 0 .. n
      BY <1>1
    <3>2. RealSums(t)[n] = Held(rows[t], keyMin, 0, FirstKey(boundaries[t], n + 1) - 1)
      BY <1>2, <3>1 DEF RowsCounted
    <3> QED
      BY <2>3, <3>2
  <2>5. RealSums(t)[n] = Len(rows[t])
    BY <1>0, <2>4, HeldAll
  <2> QED
    BY <1>3, <1>4, <2>5 DEF Total
<1>7. Total(t) \in Nat
  BY <1>3, <1>4, <1>5 DEF Total
<1> QED
  BY <1>3, <1>4, <1>5, <1>6, <1>7

\* A row is in one of the sets and in no other.
InOne(c, D, row) == \E k \in D : row \in c[k] /\ \A l \in D : row \in c[l] => l = k

(* Which is to say that there is one set with the row.                     *)
LEMMA OneSet ==
  ASSUME NEW c, NEW D, NEW row, InOne(c, D, row)
  PROVE  Cardinality({k \in D : row \in c[k]}) = 1
<1>1. PICK k \in D : row \in c[k] /\ \A l \in D : row \in c[l] => l = k
  BY DEF InOne
<1>2. {l \in D : row \in c[l]} = {k}
  BY <1>1
<1> QED
  BY <1>2, FS_Singleton

\* The numbers of the entries in size places from first + 1 on.
Part(b, first, size) == {b[first + p].second : p \in 1 .. size}

\* Places that sums cut into parts, and entries with numbers.
PartsOf(c, b, S, n) == \A k \in 1 .. n : c[k] = Part(b, S[k - 1], S[k] - S[k - 1])

Numbered(a, total) == \A q \in 1 .. total : a[q].second = q

(* Entries that are placed by expand, with a number each, and then cut     *)
(* into parts: every number is in one part.                                *)
LEMMA PlacedApart ==
  ASSUME NEW total \in Nat, NEW E, NEW a \in [1 .. total -> E], Numbered(a, total),
         NEW n, NEW S, SumsUp(S, n), S[n] = total, NEW row \in 1 .. total,
         NEW c, PartsOf(c, Place(a), S, n)
  PROVE  InOne(c, 1 .. n, row)
<1> DEFINE b == Place(a)
<1>1. PICK from : Shuffled(b, a, from, total)
  BY ItemsPlaced DEF Placed
<1>2. /\ from \in [1 .. total -> 1 .. total]
      /\ \A p, q \in 1 .. total : from[p] = from[q] => p = q
      /\ \E p \in 1 .. total : from[p] = row
      /\ \A p \in 1 .. total : b[p] = a[from[p]]
  BY <1>1 DEF Shuffled
<1> HIDE DEF b
<1>3. \A p \in 1 .. total : b[p].second = from[p]
  BY <1>2 DEF Numbered
<1>4. PICK q \in 1 .. total : from[q] = row
  BY <1>2
<1>5. ASSUME NEW k \in 1 .. n
      PROVE  row \in c[k] <=> q \in S[k - 1] + 1 .. S[k]
  <2>0. n \in Nat /\ k - 1 \in 0 .. n /\ k \in 0 .. n /\ n \in 0 .. n
    BY DEF SumsUp
  <2>1. S[k - 1] \in Nat /\ S[k] \in Nat
    BY <2>0 DEF SumsUp
  <2>2. S[k] <= total
    <3>1. k <= n
      BY <2>0
    <3> QED
      BY <2>0, <3>1, SumsRise
  <2>3. PICK x \in Nat, y \in Nat : x = S[k - 1] /\ y = S[k] /\ y <= total
    BY <2>1, <2>2
  <2>4. c[k] = Part(b, x, y - x)
    BY <2>3 DEF b, PartsOf
  <2>5. ASSUME row \in c[k] PROVE q \in x + 1 .. y
    <3>1. PICK p \in 1 .. y - x : row = b[x + p].second
      BY <2>4, <2>5 DEF Part
    <3>2. x + p \in 1 .. total /\ x + p \in x + 1 .. y
      BY <2>3
    <3>3. from[x + p] = from[q]
      BY <1>3, <1>4, <3>1, <3>2
    <3>4. x + p = q
      BY <1>2, <3>2, <3>3
    <3> QED
      BY <3>2, <3>4
  <2>6. ASSUME q \in x + 1 .. y PROVE row \in c[k]
    <3>1. q - x \in 1 .. y - x /\ x + (q - x) = q
      BY <2>3, <2>6
    <3>2. row = b[x + (q - x)].second
      BY <1>3, <1>4, <3>1
    <3> QED
      BY <2>4, <3>1, <3>2 DEF Part
  <2> QED
    BY <2>3, <2>5, <2>6
<1>6. PICK k \in 1 .. n : /\ q \in S[k - 1] + 1 .. S[k]
                          /\ \A l \in 1 .. n : q \in S[l - 1] + 1 .. S[l] => l = k
  BY SumsCut
<1> QED
  BY <1>5, <1>6, Zenon DEF InOne

\* Two arrays, one behind the other.
Behind(w, s, u, n, m, E) ==
  /\ w \in [1 .. n + m -> E]
  /\ \A q \in 1 .. n : w[q] = s[q]
  /\ \A q \in n + 1 .. n + m : w[q] = u[q - n]

(* Their concatenation.                                                    *)
LEMMA OneBehindTheOther ==
  ASSUME NEW E, NEW n \in Nat, NEW m \in Nat, NEW s \in [1 .. n -> E], NEW u \in [1 .. m -> E]
  PROVE  Behind(s \o u, s, u, n, m, E)
<1>1. s \in Seq(E) /\ Len(s) = n /\ u \in Seq(E) /\ Len(u) = m
  OBVIOUS
<1>2. /\ s \o u \in Seq(E) /\ Len(s \o u) = n + m
      /\ \A q \in 1 .. n + m : (s \o u)[q] = IF q <= n THEN s[q] ELSE u[q - n]
  BY <1>1
<1>3. s \o u \in [1 .. n + m -> E]
  <2>1. \A w \in Seq(E) : w \in [1 .. Len(w) -> E]
    OBVIOUS
  <2> QED
    BY <1>2, <2>1
<1>4. /\ \A q \in 1 .. n : q \in 1 .. n + m /\ q <= n
      /\ \A q \in n + 1 .. n + m : q \in 1 .. n + m /\ ~ (q <= n)
  OBVIOUS
<1> QED
  BY <1>2, <1>3, <1>4 DEF Behind

\* The array that moveData hands to expand, for any offsets.
Spaced(off, n, m) ==
  [k \in 1 .. n |-> Entry((k - 1) + off[k].second, k)] \o [k \in 1 .. m |-> Entry(-1, n + k)]

\* Where its entries are to go.
MovedBy(a, off, n, m) ==
  /\ \A q \in 1 .. n : a[q].first = (q - 1) + off[q].second
  /\ \A q \in n + 1 .. n + m : a[q].first = -1

(* Its entries are numbered.                                               *)
LEMMA SpacedNumbers ==
  ASSUME NEW off, NEW n \in Nat, NEW m \in Nat
  PROVE  /\ \E E : Spaced(off, n, m) \in [1 .. n + m -> E]
         /\ Numbered(Spaced(off, n, m), n + m)
         /\ MovedBy(Spaced(off, n, m), off, n, m)
<1> DEFINE s == [k \in 1 .. n |-> Entry((k - 1) + off[k].second, k)]
           u == [k \in 1 .. m |-> Entry(-1, n + k)]
           E == {s[k] : k \in 1 .. n} \cup {u[k] : k \in 1 .. m}
<1>1. s \in [1 .. n -> E] /\ u \in [1 .. m -> E]
  OBVIOUS
<1>2. /\ \A k \in 1 .. n : s[k].first = (k - 1) + off[k].second /\ s[k].second = k
      /\ \A k \in 1 .. m : u[k].first = -1 /\ u[k].second = n + k
  BY DEF Entry
<1>3. Spaced(off, n, m) = s \o u
  BY DEF Spaced
<1> HIDE DEF s, u, E
<1>4. /\ s \o u \in [1 .. n + m -> E]
      /\ \A q \in 1 .. n : (s \o u)[q] = s[q]
      /\ \A q \in n + 1 .. n + m : (s \o u)[q] = u[q - n]
  <2>1. Behind(s \o u, s, u, n, m, E)
    BY <1>1, OneBehindTheOther
  <2> QED
    BY <2>1 DEF Behind
<1>5. ASSUME NEW q \in 1 .. n
      PROVE  (s \o u)[q].first = (q - 1) + off[q].second /\ (s \o u)[q].second = q
  BY <1>2, <1>4
<1>6. ASSUME NEW q \in n + 1 .. n + m
      PROVE  (s \o u)[q].first = -1 /\ (s \o u)[q].second = q
  <2>1. q - n \in 1 .. m /\ n + (q - n) = q
    OBVIOUS
  <2>2. (s \o u)[q] = u[q - n]
    BY <1>4
  <2>3. u[q - n].first = -1 /\ u[q - n].second = n + (q - n)
    BY <1>2, <2>1, Zenon
  <2> QED
    BY <2>1, <2>2, <2>3
<1>7. ASSUME NEW q \in 1 .. n + m PROVE (s \o u)[q].second = q
  <2>1. q \in 1 .. n \/ q \in n + 1 .. n + m
    OBVIOUS
  <2> QED
    BY <1>5, <1>6, <2>1
<1> QED
  BY <1>3, <1>4, <1>5, <1>6, <1>7 DEF Numbered, MovedBy

\* What moveData puts into the buckets of a table that is cut like the other one.
UniContent(t) ==
  [k \in DOMAIN buckets[t] |->
     LET first == NoisyBefore(t, k)
     IN  {Moved(t)[first + p].second : p \in 1 .. buckets[t][k].numData}]

(* The buckets are parts of the array that expand leaves.                  *)
LEMMA UniParts ==
  ASSUME HTreeInv, pc = "move", mode = "uni", NEW t \in Tables
  PROVE  PartsOf(UniContent(t), Place(Spaced(Offsets(t), Len(rows[t]), SumNoise(t))),
                 NoisySums(t), Len(boundaries[t]))
<1> DEFINE n == Len(boundaries[t])
           a == Spaced(Offsets(t), Len(rows[t]), SumNoise(t))
           c == UniContent(t)
           S == NoisySums(t)
<1>1. /\ buckets[t] = BucketList(keyMin, boundaries[t], partitionSizes[t])
      /\ DOMAIN buckets[t] = 1 .. n /\ n \in Nat
  BY BucketsBuilt
<1>2. SumsTied(t)
  BY SumsAreTied DEF HTreeInv, Tables
<1>3. Moved(t) = Place(a)
  BY DEF Moved, Spaced
<1>4. ASSUME NEW k \in 1 .. n
      PROVE  c[k] = Part(Place(a), S[k - 1], S[k] - S[k - 1])
  <2>1. buckets[t][k].numData = partitionSizes[t][k].noisy
    BY <1>1 DEF BucketList, Bucket
  <2>2. S[k] = S[k - 1] + partitionSizes[t][k].noisy /\ partitionSizes[t][k].noisy \in Nat /\ S[k - 1] \in Nat
    <3>1. k - 1 \in 0 .. n
      BY <1>1
    <3> QED
      BY <1>2, <3>1 DEF SumsTied, SumsUp
  <2>3. buckets[t][k].numData = S[k] - S[k - 1]
    BY <2>1, <2>2
  <2>4. c[k] = {Moved(t)[S[k - 1] + p].second : p \in 1 .. buckets[t][k].numData}
    BY <1>1 DEF UniContent, NoisyBefore
  <2> QED
    BY <1>3, <2>3, <2>4 DEF Part
<1> QED
  BY <1>4 DEF PartsOf

(* "uni": every row is in one bucket, whatever the offsets are.            *)
LEMMA UniOnce ==
  ASSUME HTreeInv, pc = "move", mode = "uni", NEW t \in Tables
  PROVE  DOMAIN UniContent(t) = DOMAIN buckets[t]
         /\ \A row \in 1 .. Total(t) : InOne(UniContent(t), DOMAIN buckets[t], row)
<1> DEFINE n == Len(boundaries[t])
           a == Spaced(Offsets(t), Len(rows[t]), SumNoise(t))
           c == UniContent(t)
           S == NoisySums(t)
<1>1. /\ buckets[t] = BucketList(keyMin, boundaries[t], partitionSizes[t])
      /\ boundaries[t] # <<>> /\ DOMAIN buckets[t] = 1 .. n /\ n \in Nat
  BY BucketsBuilt
<1>2. RowsInv /\ PcInv /\ CutType /\ Partitioned(t) /\ Scanned(t) = domainSize /\ t \in {1, 2}
  BY DEF HTreeInv, Scanned, Tables
<1>3. SumNoise(t) \in Nat /\ Len(rows[t]) \in Nat /\ Total(t) \in Nat /\ S[n] = Total(t)
  BY <1>1, <1>2, AllRowsCounted
<1>4. SumsTied(t)
  BY <1>2, SumsAreTied
<1>5. Total(t) = Len(rows[t]) + SumNoise(t)
  BY DEF Total
<1>7. PICK E : a \in [1 .. Total(t) -> E]
  <2>1. \E E : a \in [1 .. Len(rows[t]) + SumNoise(t) -> E]
    BY <1>3, SpacedNumbers, Zenon
  <2> QED
    BY <1>5, <2>1, Zenon
<1>8. Numbered(a, Total(t))
  <2>1. Numbered(a, Len(rows[t]) + SumNoise(t))
    BY <1>3, SpacedNumbers, Zenon
  <2> QED
    BY <1>5, <2>1, Zenon
<1>9. DOMAIN c = 1 .. n
  BY <1>1 DEF UniContent
<1>10. PartsOf(c, Place(a), S, n)
  BY UniParts
<1>11. SumsUp(S, n)
  BY <1>4 DEF SumsTied
<1> HIDE DEF a, c, S, n
<1>12. ASSUME NEW row \in 1 .. Total(t) PROVE InOne(c, 1 .. n, row)
  <2> QED
    BY <1>3, <1>7, <1>8, <1>10, <1>11, PlacedApart, Zenon
<1> QED
  BY <1>1, <1>9, <1>12 DEF c

-----------------------------------------------------------------------------
(* The slices of the sorted array.  How many buckets are filled, and how   *)
(* many rows are in them.                                                  *)
Sliced == Len(content[table])

SliceInv ==
  /\ Len(fillers) = SumNoise(table)
  /\ content[table] \in Seq(SUBSET (1 .. Total(table))) /\ Sliced <= Len(boundaries[table])
  /\ rest \in SUBSET (1 .. Total(table))
  /\ \A row \in rest : \A k \in 1 .. Sliced : row \notin content[table][k]
  /\ \A row \in 1 .. Total(table) : row \notin rest => InOne(content[table], 1 .. Sliced, row)
  /\ Cardinality(rest) = Total(table) - NoisySums(table)[Sliced]

\* Every row of a table that is done is in one bucket.
OnceEach(t) ==
  DOMAIN content[t] = DOMAIN buckets[t]
    /\ \A row \in 1 .. Total(t) : InOne(content[t], DOMAIN content[t], row)

ContentInv ==
  /\ DOMAIN content = {1, 2}
  /\ \A t \in Tables : Filled(t) /\ buckets[t] # <<>> => OnceEach(t)
  /\ pc = "slice" => SliceInv

\* The rows of S are left over or in one of m sets.
LeftOrIn(c, m, left, S) ==
  /\ c \in Seq(SUBSET S) /\ Len(c) = m
  /\ \A row \in left : \A k \in 1 .. m : row \notin c[k]
  /\ \A row \in S : row \notin left => InOne(c, 1 .. m, row)

(* A slice taken off: its rows are in the new bucket, the others where     *)
(* they were.                                                              *)
LEMMA SliceTaken ==
  ASSUME NEW S, NEW m \in Nat, NEW c, NEW left \in SUBSET S, LeftOrIn(c, m, left, S),
         NEW slice \in SUBSET left, NEW d, d = Append(c, slice)
  PROVE  LeftOrIn(d, m + 1, left \ slice, S)
<1>0. /\ c \in Seq(SUBSET S) /\ Len(c) = m
      /\ \A row \in left : \A k \in 1 .. m : row \notin c[k]
      /\ \A row \in S : row \notin left => InOne(c, 1 .. m, row)
  BY DEF LeftOrIn
<1>1. /\ d \in Seq(SUBSET S) /\ Len(d) = m + 1 /\ d[m + 1] = slice
      /\ \A k \in 1 .. m : d[k] = c[k]
  <2>1. slice \in SUBSET S
    OBVIOUS
  <2> QED
    BY <1>0, <2>1
<1>2. \A k \in 1 .. m + 1 : k \in 1 .. m \/ k = m + 1
  OBVIOUS
<1>3. m + 1 \in 1 .. m + 1 /\ m + 1 \notin 1 .. m /\ \A k \in 1 .. m : k \in 1 .. m + 1
  OBVIOUS
<1>4. ASSUME NEW row \in left \ slice, NEW k \in 1 .. m + 1 PROVE row \notin d[k]
  BY <1>0, <1>1, <1>2
<1>5. ASSUME NEW row \in S, row \notin left \ slice
      PROVE  InOne(d, 1 .. m + 1, row)
  <2>1. CASE row \in slice
    <3>1. row \in d[m + 1] /\ \A l \in 1 .. m + 1 : row \in d[l] => l = m + 1
      BY <1>0, <1>1, <1>2, <2>1
    <3> QED
      BY <1>3, <3>1, Zenon DEF InOne
  <2>2. CASE row \notin slice
    <3>1. row \notin left
      BY <1>5, <2>2
    <3>2. PICK k \in 1 .. m : row \in c[k] /\ \A l \in 1 .. m : row \in c[l] => l = k
      BY <1>0, <3>1 DEF InOne
    <3>3. row \in d[k] /\ \A l \in 1 .. m + 1 : row \in d[l] => l = k
      BY <1>1, <1>2, <2>2, <3>2
    <3> QED
      BY <1>3, <3>3, Zenon DEF InOne
  <2> QED
    BY <2>1, <2>2
<1> QED
  BY <1>1, <1>4, <1>5 DEF LeftOrIn

(* As many rows are left as its size says.                                 *)
LEMMA SliceSize ==
  ASSUME NEW S, IsFiniteSet(S), NEW left \in SUBSET S, NEW size \in Nat, NEW slice \in kSubset(size, left)
  PROVE  /\ slice \in SUBSET left
         /\ Cardinality(left \ slice) = Cardinality(left) - size /\ Cardinality(left) \in Nat
<1>1. slice \in SUBSET left /\ Cardinality(slice) = size
  BY DEF kSubset
<1>2. IsFiniteSet(left) /\ IsFiniteSet(slice)
  BY <1>1, FS_Subset
<1>3. Cardinality(left \ slice) = Cardinality(left) - Cardinality(left \cap slice)
  BY <1>2, FS_Difference
<1>4. left \cap slice = slice
  BY <1>1
<1> QED
  BY <1>1, <1>2, <1>3, <1>4, FS_CardinalityType

\* What the contents of the buckets are about.
contentVars == <<mode, rows, boundaries, partitionSizes, buckets>>

(* The sizes stay when the partitions do.                                  *)
LEMMA TotalsStay ==
  ASSUME UNCHANGED contentVars
  PROVE  /\ \A t : Total(t)' = Total(t) /\ SumNoise(t)' = SumNoise(t) /\ NoisySums(t)' = NoisySums(t)
         /\ Tables' = Tables
BY DEF contentVars, Total, SumNoise, NoiseSums, NoisySums, Tables

(* A table whose bucket contents stay keeps every row in one bucket.       *)
LEMMA OnceStays ==
  ASSUME UNCHANGED contentVars, NEW t, OnceEach(t), content'[t] = content[t]
  PROVE  OnceEach(t)'
BY TotalsStay DEF OnceEach, contentVars

(* Steps that do not touch the contents.                                   *)
LEMMA ContentStays ==
  ASSUME ContentInv, UNCHANGED contentVars, UNCHANGED <<moveVars, table, pc>>
  PROVE  ContentInv'
<1>1. DOMAIN content' = {1, 2} /\ content' = content /\ rest' = rest /\ fillers' = fillers
      /\ table' = table /\ pc' = pc /\ boundaries' = boundaries /\ buckets' = buckets
  BY DEF ContentInv, moveVars, contentVars
<1>2. ASSUME NEW t \in Tables', Filled(t)', buckets'[t] # <<>>
      PROVE  OnceEach(t)'
  <2>1. t \in Tables /\ Filled(t) /\ buckets[t] # <<>>
    BY <1>1, <1>2, TotalsStay DEF Filled
  <2> QED
    BY <1>1, <2>1, OnceStays DEF ContentInv
<1>3. ASSUME pc' = "slice" PROVE SliceInv'
  <2>1. SliceInv
    BY <1>1, <1>3 DEF ContentInv
  <2> QED
    BY <1>1, <2>1, TotalsStay DEF SliceInv, Sliced
<1> QED
  BY <1>1, <1>2, <1>3 DEF ContentInv

(* Before a table is moved no bucket has contents that count.              *)
LEMMA NotFilledYet ==
  ASSUME ContentInv, HTreeInv, GetHistBins \/ ScanKey \/ BackOfEmpty \/ MakeBuckets
  PROVE  ContentInv'
<1>1. content' = content /\ rows' = rows
  BY DEF GetHistBins, ScanKey, BackOfEmpty, MakeBuckets, moveVars, treeVars
<1>2. pc' \in {"hist", "partition", "crashed"} \/ (pc' = "move" /\ table' = 1)
  <2>1. CASE GetHistBins
    BY <2>1 DEF GetHistBins
  <2>2. CASE ScanKey
    BY <2>2 DEF ScanKey
  <2>3. CASE BackOfEmpty
    BY <2>3 DEF BackOfEmpty
  <2>4. CASE MakeBuckets
    BY <2>4 DEF MakeBuckets
  <2> QED
    BY <2>1, <2>2, <2>3, <2>4
<1>3. Tables' \in SUBSET {1, 2}
  BY DEF Tables
<1>4. ASSUME NEW t \in Tables' PROVE ~ Filled(t)'
  BY <1>2, <1>3 DEF Filled
<1>5. pc' # "slice" /\ DOMAIN content' = {1, 2}
  BY <1>1, <1>2 DEF ContentInv
<1> QED
  BY <1>4, <1>5 DEF ContentInv

(* A table that is filled now was filled before or is the one that ends.   *)
LEMMA FilledNext ==
  ASSUME HTreeInv, UNCHANGED contentVars, EndTable, pc \in {"move", "slice"}, NEW t \in Tables, Filled(t)'
  PROVE  t = table \/ Filled(t)
<1>1. t \in {1, 2} /\ table \in {1, 2}
  BY DEF Tables, HTreeInv, PcInv
<1> QED
  BY <1>1 DEF EndTable, Filled

(* moveData of a join cut at the same keys.                                *)
LEMMA UniContentInv ==
  ASSUME HTreeInv, ContentInv, MoveUni
  PROVE  ContentInv'
<1>1. UNCHANGED contentVars /\ EndTable /\ pc = "move" /\ mode = "uni"
      /\ content' = [content EXCEPT ![table] = UniContent(table)]
  BY DEF MoveUni, contentVars, treeVars, cutVars, UniContent
<1>2. table \in Tables /\ table \in {1, 2} /\ DOMAIN content = {1, 2}
  BY DomainFacts DEF HTreeInv, PcInv, ContentInv
<1>3. content'[table] = UniContent(table) /\ DOMAIN content' = {1, 2}
      /\ \A t \in {1, 2} : t # table => content'[t] = content[t]
  BY <1>1, <1>2
<1>4. ASSUME NEW t \in Tables', Filled(t)', buckets'[t] # <<>>
      PROVE  OnceEach(t)'
  <2>1. t \in Tables /\ t \in {1, 2} /\ buckets[t] # <<>>
    BY <1>1, <1>4, TotalsStay DEF Tables, contentVars
  <2>2. CASE t = table
    <3>1. DOMAIN UniContent(t) = DOMAIN buckets[t]
          /\ \A row \in 1 .. Total(t) : InOne(UniContent(t), DOMAIN buckets[t], row)
      BY <1>1, <2>1, UniOnce
    <3>2. content'[t] = UniContent(t) /\ buckets' = buckets /\ Total(t)' = Total(t)
      BY <1>1, <1>3, <2>2, TotalsStay DEF contentVars
    <3> QED
      BY <3>1, <3>2 DEF OnceEach
  <2>3. CASE t # table
    <3>1. Filled(t)
      BY <1>1, <1>4, <2>1, <2>3, FilledNext
    <3> QED
      BY <1>1, <1>3, <2>1, <2>3, <3>1, OnceStays DEF ContentInv
  <2> QED
    BY <2>2, <2>3
<1>5. pc' # "slice"
  BY <1>1 DEF EndTable
<1> QED
  BY <1>3, <1>4, <1>5 DEF ContentInv

(* The dummies of a table that is cut for itself.                          *)
LEMMA FillerCount ==
  ASSUME HTreeInv, NEW t \in Tables, SumNoise(t) \in Nat
  PROVE  Len(Expand(NoiseArray(t), None)) = SumNoise(t)
<1> DEFINE n == SumNoise(t)
           a == NoiseArray(t)
           E == {a[k] : k \in 1 .. n}
<1>1. a \in [1 .. n -> E]
  BY DEF NoiseArray, Resize
<1> HIDE DEF a, n, E
<1>2. Len(Expand(a, None)) = n
  <2>1. Len(a) = n
    BY <1>1 DEF n
  <2> QED
    BY <1>1, <2>1 DEF Expand, n
<1> QED
  BY <1>2 DEF a, n

(* The array to be sorted.                                                 *)
LEMMA FillContentInv ==
  ASSUME HTreeInv, ContentInv, FillInd
  PROVE  ContentInv'
<1>1. UNCHANGED contentVars /\ pc = "move" /\ mode = "ind" /\ pc' = "slice" /\ table' = table
      /\ fillers' = Expand(NoiseArray(table), None) /\ rest' = 1 .. Len(rows[table]) + Len(fillers')
      /\ content' = [content EXCEPT ![table] = <<>>]
  BY DEF FillInd, contentVars, treeVars, cutVars
<1>2. table \in Tables /\ table \in {1, 2} /\ DOMAIN content = {1, 2}
  BY DomainFacts DEF HTreeInv, PcInv, ContentInv
<1>3. content'[table] = <<>> /\ DOMAIN content' = {1, 2}
      /\ \A t \in {1, 2} : t # table => content'[t] = content[t]
  BY <1>1, <1>2
<1>4. ASSUME NEW t \in Tables', Filled(t)', buckets'[t] # <<>>
      PROVE  OnceEach(t)'
  <2>1. t \in Tables /\ t \in {1, 2} /\ buckets[t] # <<>>
    BY <1>1, <1>4, TotalsStay DEF Tables, contentVars
  <2>2. Filled(t) /\ t # table
    BY <1>1, <1>2, <1>4, <2>1 DEF Filled
  <2> QED
    BY <1>1, <1>3, <2>1, <2>2, OnceStays DEF ContentInv
<1>5. RowsInv /\ PcInv /\ CutType /\ Partitioned(table) /\ Scanned(table) = domainSize
  BY <1>1, <1>2 DEF HTreeInv, Scanned
<1>6. SumNoise(table) \in Nat /\ Total(table) \in Nat /\ Total(table) = Len(rows[table]) + SumNoise(table)
  BY <1>2, <1>5, AllRowsCounted DEF Total
<1>7. Len(fillers') = SumNoise(table)
  BY <1>1, <1>2, <1>6, FillerCount
<1>8. rest' = 1 .. Total(table)
  BY <1>1, <1>6, <1>7
<1>9. NoisySums(table)[0] = 0 /\ Len(boundaries[table]) \in Nat
  <2>1. SumsTied(table)
    BY <1>2, <1>5, SumsAreTied
  <2>2. Len(boundaries[table]) \in Nat
    BY <1>2, <1>5, TableFacts
  <2> QED
    BY <2>1, <2>2 DEF SumsTied, SumsUp
<1>10. Cardinality(1 .. Total(table)) = Total(table)
  <2>1. \A x \in Nat : Cardinality(1 .. x) = x
    <3> TAKE x \in Nat
    <3>1. Cardinality(1 .. x) = IF 1 > x THEN 0 ELSE x - 1 + 1
      BY FS_Interval
    <3> QED
      BY <3>1
  <2> QED
    BY <1>6, <2>1
<1>11. SliceInv'
  <2>1. Sliced' = 0 /\ content'[table'] = <<>>
    BY <1>1, <1>3 DEF Sliced
  <2>2. <<>> \in Seq(SUBSET (1 .. Total(table))) /\ 0 <= Len(boundaries[table]) /\ 1 .. 0 = {}
    BY <1>9
  <2>3. Cardinality(rest') = Total(table) - NoisySums(table)[0]
    BY <1>6, <1>8, <1>9, <1>10
  <2> QED
    BY <1>1, <1>7, <1>8, <2>1, <2>2, <2>3, TotalsStay DEF SliceInv, contentVars
<1> QED
  BY <1>1, <1>3, <1>4, <1>11 DEF ContentInv

(* The next slice.                                                         *)
LEMMA SliceContentInv ==
  ASSUME HTreeInv, ContentInv, SliceInd
  PROVE  ContentInv'
<1> DEFINE m == Sliced
           S == 1 .. Total(table)
<1>1. UNCHANGED contentVars /\ pc = "slice" /\ pc' = pc /\ table' = table /\ fillers' = fillers
      /\ m < Len(buckets[table])
  BY DEF SliceInd, contentVars, treeVars, cutVars, Sliced
<1>2. PICK slice \in kSubset(buckets[table][m + 1].numData, rest) :
        /\ content' = [content EXCEPT ![table] = Append(@, slice)]
        /\ rest' = rest \ slice
  BY DEF SliceInd, Sliced
<1>3. table \in Tables /\ table \in {1, 2} /\ DOMAIN content = {1, 2} /\ SliceInv
  BY <1>1, DomainFacts DEF HTreeInv, PcInv, ContentInv
<1>4. content'[table] = Append(content[table], slice) /\ DOMAIN content' = {1, 2}
      /\ \A t \in {1, 2} : t # table => content'[t] = content[t]
  BY <1>2, <1>3
<1>5. ASSUME NEW t \in Tables', Filled(t)', buckets'[t] # <<>>
      PROVE  OnceEach(t)'
  <2>1. t \in Tables /\ t \in {1, 2} /\ buckets[t] # <<>>
    BY <1>1, <1>5, TotalsStay DEF Tables, contentVars
  <2>2. Filled(t) /\ t # table
    BY <1>1, <1>3, <1>5, <2>1 DEF Filled
  <2> QED
    BY <1>1, <1>4, <2>1, <2>2, OnceStays DEF ContentInv
<1>6. RowsInv /\ PcInv /\ CutType /\ Partitioned(table) /\ Scanned(table) = domainSize
  BY <1>1, <1>3 DEF HTreeInv, Scanned
<1>7. /\ buckets[table] = BucketList(keyMin, boundaries[table], partitionSizes[table])
      /\ DOMAIN buckets[table] = 1 .. Len(boundaries[table]) /\ Len(boundaries[table]) \in Nat
  BY <1>1, <1>3, BucketsBuilt
<1>8. m \in Nat /\ m + 1 \in 1 .. Len(boundaries[table])
  <2>1. content[table] \in Seq(SUBSET S)
    BY <1>3 DEF SliceInv
  <2>2. m \in Nat
    BY <2>1 DEF Sliced
  <2>3. Len(buckets[table]) = Len(boundaries[table])
    BY <1>7 DEF BucketList
  <2> QED
    BY <1>1, <1>7, <2>2, <2>3
<1>9. SumsTied(table)
  BY <1>3, <1>6, SumsAreTied
<1>10. PICK size \in Nat : /\ buckets[table][m + 1].numData = size
                           /\ NoisySums(table)[m + 1] = NoisySums(table)[m] + size
                           /\ NoisySums(table)[m] \in Nat
  <2>1. buckets[table][m + 1].numData = partitionSizes[table][m + 1].noisy
    BY <1>7, <1>8 DEF BucketList, Bucket
  <2>2. (m + 1) - 1 = m /\ m \in 0 .. Len(boundaries[table])
    BY <1>7, <1>8
  <2> QED
    BY <1>8, <1>9, <2>1, <2>2 DEF SumsTied, SumsUp
<1>11. Total(table) \in Nat /\ IsFiniteSet(S)
  <2>1. Total(table) \in Nat
    BY <1>3, <1>6, AllRowsCounted
  <2> QED
    BY <2>1, FS_Interval
<1>12. /\ slice \in SUBSET rest /\ Cardinality(rest') = Cardinality(rest) - size /\ Cardinality(rest) \in Nat
       /\ rest \in SUBSET S
  <2>1. rest \in SUBSET S
    BY <1>3 DEF SliceInv
  <2> HIDE DEF S
  <2> QED
    BY <1>2, <1>10, <1>11, <2>1, SliceSize
<1>13. Sliced' = m + 1 /\ content'[table] \in Seq(SUBSET S)
       /\ (\A row \in rest' : \A k \in 1 .. m + 1 : row \notin content'[table][k])
       /\ (\A row \in S : row \notin rest' => InOne(content'[table], 1 .. m + 1, row))
  <2>1. LeftOrIn(content[table], m, rest, S)
    BY <1>3 DEF SliceInv, Sliced, LeftOrIn
  <2>2. LeftOrIn(Append(content[table], slice), m + 1, rest \ slice, S)
    <3> HIDE DEF S, m
    <3> QED
      BY <1>8, <1>12, <2>1, SliceTaken
  <2> QED
    BY <1>1, <1>2, <1>4, <2>2 DEF Sliced, LeftOrIn
<1>14. Cardinality(rest') = Total(table) - NoisySums(table)[m + 1]
  <2>1. Cardinality(rest) = Total(table) - NoisySums(table)[m]
    BY <1>3 DEF SliceInv, Sliced
  <2> QED
    BY <1>10, <1>11, <1>12, <2>1
<1>15. SliceInv'
  <2>1. rest' \in SUBSET S
    BY <1>2, <1>12
  <2>2. Len(fillers) = SumNoise(table)
    BY <1>3 DEF SliceInv
  <2>3. m + 1 <= Len(boundaries[table])
    BY <1>7, <1>8
  <2> QED
    BY <1>1, <1>13, <1>14, <2>1, <2>2, <2>3, TotalsStay DEF SliceInv, contentVars
<1> QED
  BY <1>1, <1>4, <1>5, <1>15 DEF ContentInv

(* The last slice.                                                         *)
LEMMA EndContentInv ==
  ASSUME HTreeInv, ContentInv, EndInd
  PROVE  ContentInv'
<1>1. UNCHANGED contentVars /\ EndTable /\ pc = "slice" /\ content' = content
      /\ Len(content[table]) = Len(buckets[table])
  BY DEF EndInd, contentVars, treeVars, cutVars, moveVars
<1>2. table \in Tables /\ table \in {1, 2} /\ DOMAIN content = {1, 2} /\ SliceInv
  BY <1>1, DomainFacts DEF HTreeInv, PcInv, ContentInv
<1>3. ASSUME buckets[table] # <<>> PROVE OnceEach(table)
  <2> DEFINE n == Len(boundaries[table])
  <2>1. RowsInv /\ PcInv /\ CutType /\ Partitioned(table) /\ Scanned(table) = domainSize
    BY <1>1, <1>2 DEF HTreeInv, Scanned
  <2>2. /\ buckets[table] = BucketList(keyMin, boundaries[table], partitionSizes[table])
        /\ DOMAIN buckets[table] = 1 .. n /\ n \in Nat
    BY <1>1, <1>2, BucketsBuilt
  <2>3. Len(buckets[table]) = n /\ boundaries[table] # <<>>
    <3>1. Len(buckets[table]) = n
      BY <2>2 DEF BucketList
    <3>2. ASSUME boundaries[table] = <<>> PROVE FALSE
      <4>1. n = 0
        BY <3>2
      <4>2. buckets[table] = <<>>
        BY <2>2, <4>1 DEF BucketList
      <4> QED
        BY <1>3, <4>2
    <3> QED
      BY <3>1, <3>2
  <2>4. Total(table) \in Nat /\ NoisySums(table)[n] = Total(table)
    BY <1>2, <2>1, <2>3, AllRowsCounted
  <2>5. Sliced = n /\ content[table] \in Seq(SUBSET (1 .. Total(table)))
    BY <1>1, <1>2, <2>3 DEF Sliced, SliceInv
  <2>6. DOMAIN content[table] = 1 .. n
    BY <2>5 DEF Sliced
  <2>7. rest = {}
    <3>1. Cardinality(rest) = 0
      BY <1>2, <2>4, <2>5 DEF SliceInv
    <3>2. rest \in SUBSET (1 .. Total(table))
      BY <1>2 DEF SliceInv
    <3>3. IsFiniteSet(rest)
      <4>1. IsFiniteSet(1 .. Total(table))
        BY <2>4, FS_Interval
      <4> QED
        BY <3>2, <4>1, FS_Subset
    <3> QED
      BY <3>1, <3>3, FS_EmptySet
  <2>8. ASSUME NEW row \in 1 .. Total(table) PROVE InOne(content[table], 1 .. n, row)
    BY <1>2, <2>5, <2>7 DEF SliceInv
  <2> QED
    BY <2>2, <2>6, <2>8 DEF OnceEach
<1>4. ASSUME NEW t \in Tables', Filled(t)', buckets'[t] # <<>>
      PROVE  OnceEach(t)'
  <2>1. t \in Tables /\ buckets[t] # <<>>
    BY <1>1, <1>4, TotalsStay DEF contentVars
  <2>2. t = table \/ Filled(t)
    BY <1>1, <1>4, <2>1, FilledNext
  <2>3. OnceEach(t)
    BY <1>3, <2>1, <2>2 DEF ContentInv
  <2> QED
    BY <1>1, <2>3, OnceStays
<1>5. pc' # "slice"
  BY <1>1 DEF EndTable
<1> QED
  BY <1>1, <1>2, <1>4, <1>5 DEF ContentInv

(* Every step keeps the rows of a finished table in one bucket each.       *)
LEMMA ContentNext == HTreeInv /\ ContentInv /\ [Next]_vars => ContentInv'
<1> SUFFICES ASSUME HTreeInv, ContentInv, [Next]_vars PROVE ContentInv'
  OBVIOUS
<1>1. CASE Build
  BY <1>1, NotFilledYet, UniContentInv, FillContentInv, SliceContentInv, EndContentInv DEF Build
<1>2. CASE Query
  <2>1. UNCHANGED contentVars /\ UNCHANGED <<moveVars, table, pc>>
    BY <1>2 DEF Query, StartWalk, contentVars, treeVars, cutVars
  <2> QED
    BY <2>1, ContentStays
<1>3. CASE Walk
  <2>1. UNCHANGED buckets
    BY <1>3 DEF Walk, CrossProduct, Skip, MeasurePair, JoinPair, EndPass
  <2>2. UNCHANGED contentVars /\ UNCHANGED <<moveVars, table, pc>>
    BY <1>3, <2>1 DEF Walk, contentVars, treeVars, cutVars
  <2> QED
    BY <2>2, ContentStays
<1>4. CASE UNCHANGED vars
  <2>1. UNCHANGED contentVars /\ UNCHANGED <<moveVars, table, pc>>
    BY <1>4 DEF vars, contentVars, treeVars, cutVars
  <2> QED
    BY <2>1, ContentStays
<1> QED
  BY <1>1, <1>2, <1>3, <1>4 DEF Next

(* A table that is done has filled its buckets and no other: none, when    *)
(* none was cut.                                                           *)
SameBuckets == \A t \in Tables : Filled(t) => DOMAIN content[t] = DOMAIN buckets[t]

(* A step after which the tables that are done were done before.           *)
LEMMA SameStays ==
  ASSUME SameBuckets, UNCHANGED <<rows, buckets>>,
         \A t \in Tables : Filled(t)' => Filled(t) /\ content'[t] = content[t]
  PROVE  SameBuckets'
BY DEF SameBuckets, Tables

(* A step that ends with a table filled.                                   *)
LEMMA SameEnds ==
  ASSUME HTreeInv, SameBuckets, UNCHANGED contentVars, EndTable, pc \in {"move", "slice"},
         DOMAIN content'[table] = DOMAIN buckets[table],
         \A t \in Tables : t # table => content'[t] = content[t]
  PROVE  SameBuckets'
<1>1. Tables' = Tables /\ buckets' = buckets
  BY TotalsStay DEF contentVars
<1>2. ASSUME NEW t \in Tables, Filled(t)' PROVE DOMAIN content'[t] = DOMAIN buckets[t]
  <2>1. t = table \/ Filled(t)
    BY <1>2, FilledNext
  <2> QED
    BY <2>1 DEF SameBuckets
<1> QED
  BY <1>1, <1>2 DEF SameBuckets

(* Every step.                                                             *)
LEMMA SameNext == HTreeInv /\ ContentInv /\ SameBuckets /\ [Next]_vars => SameBuckets'
<1> SUFFICES ASSUME HTreeInv, ContentInv, SameBuckets, [Next]_vars PROVE SameBuckets'
  OBVIOUS
<1>0. Tables \in SUBSET {1, 2} /\ table \in {1, 2} /\ DOMAIN content = {1, 2}
  BY DEF Tables, HTreeInv, PcInv, ContentInv
<1>1. CASE GetHistBins \/ ScanKey \/ BackOfEmpty \/ MakeBuckets
  <2>1. rows' = rows
    BY <1>1 DEF GetHistBins, ScanKey, BackOfEmpty, MakeBuckets, treeVars
  <2>2. pc' \in {"hist", "partition", "crashed"} \/ (pc' = "move" /\ table' = 1)
    <3>1. CASE GetHistBins
      BY <3>1 DEF GetHistBins
    <3>2. CASE ScanKey
      BY <3>2 DEF ScanKey
    <3>3. CASE BackOfEmpty
      BY <3>3 DEF BackOfEmpty
    <3>4. CASE MakeBuckets
      BY <3>4 DEF MakeBuckets
    <3> QED
      BY <1>1, <3>1, <3>2, <3>3, <3>4
  <2>3. Tables' \in SUBSET {1, 2}
    BY DEF Tables
  <2>4. ASSUME NEW t \in Tables' PROVE ~ Filled(t)'
    BY <2>2, <2>3 DEF Filled
  <2> QED
    BY <2>4 DEF SameBuckets
<1>2. CASE MoveUni
  <2>1. UNCHANGED contentVars /\ EndTable /\ pc = "move"
        /\ content' = [content EXCEPT ![table] = UniContent(table)]
    BY <1>2 DEF MoveUni, contentVars, treeVars, cutVars, UniContent
  <2>2. content'[table] = UniContent(table) /\ \A t \in {1, 2} : t # table => content'[t] = content[t]
    BY <1>0, <2>1
  <2>3. DOMAIN UniContent(table) = DOMAIN buckets[table]
    BY DEF UniContent
  <2> QED
    BY <1>0, <2>1, <2>2, <2>3, SameEnds
<1>3. CASE FillInd
  <2>1. UNCHANGED <<rows, buckets, table>> /\ pc = "move" /\ pc' = "slice"
        /\ content' = [content EXCEPT ![table] = <<>>]
    BY <1>3 DEF FillInd, treeVars
  <2>2. ASSUME NEW t \in Tables, Filled(t)' PROVE Filled(t) /\ content'[t] = content[t]
    <3>1. t < table
      BY <2>1, <2>2 DEF Filled
    <3>2. Filled(t) /\ t # table
      BY <1>0, <2>1, <3>1 DEF Filled
    <3> QED
      BY <1>0, <2>1, <3>2
  <2> QED
    BY <2>1, <2>2, SameStays
<1>4. CASE SliceInd
  <2>1. UNCHANGED <<rows, buckets, table, pc>> /\ pc = "slice"
        /\ \A t \in {1, 2} : t # table => content'[t] = content[t]
    BY <1>0, <1>4 DEF SliceInd, treeVars
  <2>2. ASSUME NEW t \in Tables, Filled(t)' PROVE Filled(t) /\ content'[t] = content[t]
    <3>1. t < table
      BY <2>1, <2>2 DEF Filled
    <3>2. Filled(t) /\ t # table
      BY <1>0, <2>1, <3>1 DEF Filled
    <3> QED
      BY <1>0, <2>1, <3>2
  <2> QED
    BY <2>1, <2>2, SameStays
<1>5. CASE EndInd
  <2>1. UNCHANGED contentVars /\ EndTable /\ pc = "slice" /\ content' = content
        /\ Len(content[table]) = Len(buckets[table])
    BY <1>5 DEF EndInd, contentVars, treeVars, cutVars, moveVars
  <2>2. DOMAIN content[table] = 1 .. Len(content[table])
    BY <2>1 DEF ContentInv, SliceInv
  <2>3. DOMAIN buckets[table] = 1 .. Len(buckets[table])
    <3>1. table \in Tables
      BY <2>1, DomainFacts DEF HTreeInv, PcInv
    <3>2. buckets[table] = BucketList(keyMin, boundaries[table], partitionSizes[table])
          /\ Len(boundaries[table]) \in Nat
      BY <2>1, <3>1, BucketsBuilt
    <3> QED
      BY <3>2 DEF BucketList
  <2> QED
    BY <2>1, <2>2, <2>3, SameEnds
<1>6. CASE Query \/ Walk \/ UNCHANGED vars
  <2>1. UNCHANGED <<rows, buckets, content, table, pc>>
    <3>1. CASE Query
      BY <3>1 DEF Query, StartWalk, treeVars, moveVars
    <3>2. CASE Walk
      BY <3>2 DEF Walk, CrossProduct, Skip, MeasurePair, JoinPair, EndPass, treeVars, moveVars
    <3>3. CASE UNCHANGED vars
      BY <3>3 DEF vars, treeVars, moveVars
    <3> QED
      BY <1>6, <3>1, <3>2, <3>3
  <2>2. \A t \in Tables : Filled(t)' => Filled(t)
    BY <2>1 DEF Filled
  <2> QED
    BY <2>1, <2>2, SameStays
<1> QED
  BY <1>1, <1>2, <1>3, <1>4, <1>5, <1>6 DEF Next, Build

(* A table that is done has buckets, but for the one case.                 *)
LEMMA HasBuckets ==
  ASSUME HTreeInv, NEW t \in Tables, Filled(t)
  PROVE  WithoutBucket(t) <=> buckets[t] = <<>>
<1>1. t \in {1, 2} /\ pc \in {"move", "slice", "query"}
  BY DEF Tables, Filled
<1>2. /\ buckets[t] = BucketList(keyMin, boundaries[t], partitionSizes[t])
      /\ Partition(rows[t], keyMin, boundaries[t], partitionSizes[t], domainSize)
      /\ (t = 1 \/ mode = "uni" => boundaries[t] # <<>>)
      /\ boundaries[t] \in Seq(Nat) /\ partitionSizes[t] \in Seq(Sizes)
      /\ DOMAIN buckets[t] = 1 .. Len(boundaries[t]) /\ Len(boundaries[t]) \in Nat
  BY <1>1, BucketsBuilt
<1>3. Len(partitionSizes[t]) = Len(boundaries[t])
  BY <1>2 DEF Partition
<1>4. partitionSizes[t] = <<>> <=> boundaries[t] = <<>>
  BY <1>2, <1>3
<1>5. buckets[t] = <<>> <=> boundaries[t] = <<>>
  <2>1. ASSUME boundaries[t] = <<>> PROVE buckets[t] = <<>>
    <3>1. Len(boundaries[t]) = 0
      BY <2>1
    <3> QED
      BY <1>2, <3>1 DEF BucketList
  <2>2. ASSUME buckets[t] = <<>> PROVE boundaries[t] = <<>>
    <3>1. DOMAIN buckets[t] = {}
      BY <2>2
    <3>2. Len(boundaries[t]) = 0
      BY <1>2, <3>1
    <3> QED
      BY <1>2, <3>2
  <2> QED
    BY <2>1, <2>2
<1>6. mode \in {"uni", "ind"}
  BY DEF HTreeInv, RowsInv
<1> QED
  BY <1>1, <1>2, <1>4, <1>5, <1>6 DEF WithoutBucket

(* Every row of a table that is done, record or dummy, is in one bucket,   *)
(* and in no other, after every way of moving them and whatever the noise  *)
(* was; except that the rows of a second table that is cut for itself are  *)
(* all lost when no key closed a partition of it.                          *)
THEOREM EveryRowIsOnce == Spec => []EveryRowOnce
<1>1. Init => ContentInv /\ SameBuckets
  <2> SUFFICES ASSUME Init PROVE ContentInv /\ SameBuckets
    OBVIOUS
  <2>1. pc = "hist" /\ DOMAIN content = {1, 2}
    BY DEF Init
  <2> QED
    BY <2>1 DEF ContentInv, SameBuckets, Filled
<1>2. HTreeInv /\ ContentInv /\ SameBuckets => EveryRowOnce
  <2> SUFFICES ASSUME HTreeInv, ContentInv, SameBuckets, NEW t \in Tables, Filled(t),
                      NEW row \in 1 .. Len(rows[t]) + SumNoise(t)
               PROVE  Cardinality({k \in DOMAIN content[t] : row \in content[t][k]}) =
                        IF WithoutBucket(t) THEN 0 ELSE 1
    BY DEF EveryRowOnce
  <2>1. CASE WithoutBucket(t)
    <3>1. DOMAIN content[t] = DOMAIN buckets[t] /\ buckets[t] = <<>>
      BY <2>1, HasBuckets DEF SameBuckets
    <3>2. {k \in DOMAIN content[t] : row \in content[t][k]} = {}
      BY <3>1
    <3> QED
      BY <2>1, <3>2, FS_EmptySet
  <2>2. CASE ~WithoutBucket(t)
    <3>1. buckets[t] # <<>>
      BY <2>2, HasBuckets
    <3>2. InOne(content[t], DOMAIN content[t], row)
      BY <3>1 DEF ContentInv, OnceEach, Total
    <3>3. Cardinality({k \in DOMAIN content[t] : row \in content[t][k]}) = 1
      BY <3>2, OneSet
    <3> QED
      BY <2>2, <3>3
  <2> QED
    BY <2>1, <2>2
<1> QED
  BY <1>1, <1>2, ContentNext, SameNext, TreeInvariant, PTL DEF Spec

-----------------------------------------------------------------------------
(* Records in their buckets.                                                *)

(* What expand starts its fill pass with is an entry.                      *)
LEMMA NoneIsEntry == None.first \in Int
BY DEF None, Entry

(* The rows of a sorted table up to a key are the first ones.              *)
LEMMA SortedPrefix ==
  ASSUME NEW s, InDomain(s), NEW hi \in Int, NEW r \in 1 .. Len(s)
  PROVE  Slot(s, r) <= hi <=> r <= Held(s, keyMin, 0, hi)
<1> DEFINE K == InKeys(s, 0, hi)
           n == Len(s)
<1>1. Held(s, keyMin, 0, hi) = Cardinality(K)
  BY DEF Held, InKeys, Slot
<1>2. s \in Seq(Int) /\ n \in Nat /\ keyMin \in Int /\ Ascends(s) /\ (\A k \in 1 .. n : s[k] \in Int)
      /\ \A k \in 1 .. n : Slot(s, k) \in 0 .. domainSize - 1
  BY SeqFacts DEF InDomain
<1>3. ASSUME NEW k \in 1 .. n
      PROVE  Slot(s, k) \in Nat /\ (k \in K <=> Slot(s, k) <= hi)
  <2>1. Slot(s, k) \in Nat
    BY <1>2
  <2>2. Slot(s, k) \in 0 .. hi <=> Slot(s, k) <= hi
    BY <2>1
  <2> QED
    BY <2>1, <2>2, Zenon DEF InKeys
<1>4. ASSUME NEW k \in 1 .. n, NEW l \in 1 .. n, k <= l
      PROVE  Slot(s, k) <= Slot(s, l)
  <2>1. s[k] <= s[l]
    <3>1. CASE k = l
      BY <1>2, <3>1
    <3>2. CASE k # l
      <4>1. k < l
        BY <1>2, <1>4, <3>2
      <4> QED
        BY <1>2, <4>1 DEF Ascends
    <3> QED
      BY <3>1, <3>2
  <2>2. PICK x \in Int, y \in Int : x = s[k] /\ y = s[l]
    BY <1>2
  <2> QED
    BY <1>2, <2>1, <2>2, SMTT(30) DEF Slot
<1>5. K \in SUBSET (1 .. n)
  BY DEF InKeys
<1>6. \A x \in Nat : IsFiniteSet(1 .. x) /\ Cardinality(1 .. x) = x
  <2> TAKE x \in Nat
  <2>1. IsFiniteSet(1 .. x) /\ Cardinality(1 .. x) = IF 1 > x THEN 0 ELSE x - 1 + 1
    BY FS_Interval
  <2> QED
    BY <2>1
<1> HIDE DEF K, n
<1>7. IsFiniteSet(K) /\ r \in 1 .. n
  BY <1>2, <1>5, <1>6, FS_Subset DEF n
<1>8. ASSUME Slot(s, r) <= hi PROVE r <= Cardinality(K)
  <2>1. \A k \in 1 .. r : k \in 1 .. n /\ k <= r
    BY <1>2, <1>7
  <2>2. \A k \in 1 .. r : k \in K
    <3> TAKE k \in 1 .. r
    <3>1. Slot(s, k) <= Slot(s, r) /\ Slot(s, k) \in Nat /\ Slot(s, r) \in Nat
      BY <1>3, <1>4, <1>7, <2>1
    <3>2. Slot(s, k) <= hi
      BY <1>8, <3>1
    <3> QED
      BY <1>3, <2>1, <3>2
  <2>3. 1 .. r \in SUBSET K
    BY <2>2
  <2>4. Cardinality(1 .. r) <= Cardinality(K)
    BY <1>7, <2>3, FS_Subset
  <2> QED
    BY <1>2, <1>6, <1>7, <2>4
<1>9. ASSUME ~ (Slot(s, r) <= hi) PROVE ~ (r <= Cardinality(K))
  <2>1. ASSUME NEW k \in K PROVE k \in 1 .. r - 1
    <3>1. k \in 1 .. n /\ Slot(s, k) <= hi /\ Slot(s, k) \in Nat /\ Slot(s, r) \in Nat
      BY <1>3, <1>5, <1>7
    <3>2. ~ (r <= k)
      <4> SUFFICES ASSUME r <= k PROVE FALSE
        OBVIOUS
      <4>1. Slot(s, r) <= Slot(s, k)
        BY <1>4, <1>7, <3>1
      <4> QED
        BY <1>9, <3>1, <4>1
    <3> QED
      BY <1>2, <1>7, <3>1, <3>2
  <2>2. K \in SUBSET (1 .. r - 1) /\ r - 1 \in Nat
    BY <1>2, <1>7, <2>1
  <2>3. Cardinality(K) <= Cardinality(1 .. r - 1)
    BY <1>6, <2>2, FS_Subset
  <2>4. Cardinality(K) <= r - 1 /\ Cardinality(K) \in Nat
    BY <1>6, <1>7, <2>2, <2>3, FS_CardinalityType
  <2> QED
    BY <1>2, <1>7, <2>4
<1> QED
  BY <1>1, <1>8, <1>9

\* Every partition of the table drew a dummy.
NoiseEverywhere(t) == \A k \in DOMAIN partitionSizes[t] : partitionSizes[t][k].noisy > partitionSizes[t][k].real

\* The key of a row when the dummies have those of f.
KeyOf(s, f, row) == IF row <= Len(s) THEN s[row] ELSE f[row - Len(s)].second

InBucketOf(t, f, k) ==
  {row \in 1 .. Total(t) : KeyOf(rows[t], f, row) \in buckets[t][k].keyMin .. buckets[t][k].keyMax}

\* Every bucket has its dummies, with the key it begins with.
FillersRight(t, f) ==
  \A k \in 1 .. Len(boundaries[t]) :
    \A p \in NoiseSums(t)[k - 1] + 1 .. NoiseSums(t)[k] : f[p].second = buckets[t][k].keyMin

(* The buckets of a table that has some.                                   *)
LEMMA BucketFacts ==
  ASSUME HTreeInv, pc \in {"move", "slice", "query"}, NEW t \in Tables
  PROVE  /\ Len(boundaries[t]) \in Nat /\ DOMAIN buckets[t] = 1 .. Len(boundaries[t])
         /\ Len(buckets[t]) = Len(boundaries[t]) /\ InOrder(buckets[t])
         /\ SumsTied(t) /\ RowsCounted(t) /\ InDomain(rows[t])
         /\ DOMAIN partitionSizes[t] = 1 .. Len(boundaries[t])
         /\ Total(t) \in Nat /\ SumNoise(t) \in Nat /\ Len(rows[t]) \in Nat
         /\ SumNoise(t) = NoiseSums(t)[Len(boundaries[t])]
         /\ \A k \in 1 .. Len(boundaries[t]) :
              /\ buckets[t][k].keyMin = keyMin + FirstKey(boundaries[t], k)
              /\ buckets[t][k].keyMax = keyMin + boundaries[t][k]
              /\ buckets[t][k].numData = partitionSizes[t][k].noisy
              /\ buckets[t][k].keyMin \in Int /\ buckets[t][k].keyMax \in Int
              /\ buckets[t][k].keyMin <= buckets[t][k].keyMax
<1>1. /\ buckets[t] = BucketList(keyMin, boundaries[t], partitionSizes[t])
      /\ Partition(rows[t], keyMin, boundaries[t], partitionSizes[t], domainSize)
      /\ boundaries[t] \in Seq(Nat) /\ partitionSizes[t] \in Seq(Sizes)
      /\ DOMAIN buckets[t] = 1 .. Len(boundaries[t]) /\ Len(boundaries[t]) \in Nat
  BY BucketsBuilt
<1>2. RowsInv /\ PcInv /\ CutType /\ Partitioned(t) /\ Scanned(t) = domainSize /\ t \in {1, 2}
  BY DEF HTreeInv, Scanned, Tables
<1>3. keyMin \in Int /\ domainSize \in Nat \ {0} /\ InDomain(rows[t])
  BY <1>2, DomainFacts
<1>4. buckets[t] \in Seq(Ranged) /\ InOrder(buckets[t]) /\ Len(buckets[t]) = Len(boundaries[t])
  BY <1>1, <1>3, BucketsInOrder
<1>5. SumsTied(t) /\ RowsCounted(t)
  BY <1>2, SumsAreTied, RowsAreCounted
<1>6. DOMAIN partitionSizes[t] = 1 .. Len(boundaries[t])
  BY <1>2, SizeSums
<1>7. /\ Total(t) \in Nat /\ SumNoise(t) \in Nat /\ Len(rows[t]) \in Nat
      /\ SumNoise(t) = NoiseSums(t)[Len(boundaries[t])]
  BY <1>2, AllRowsCounted
<1>8. ASSUME NEW k \in 1 .. Len(boundaries[t])
      PROVE  /\ buckets[t][k].keyMin = keyMin + FirstKey(boundaries[t], k)
             /\ buckets[t][k].keyMax = keyMin + boundaries[t][k]
             /\ buckets[t][k].numData = partitionSizes[t][k].noisy
             /\ buckets[t][k].keyMin \in Int /\ buckets[t][k].keyMax \in Int
             /\ buckets[t][k].keyMin <= buckets[t][k].keyMax
  <2>1. /\ buckets[t][k].keyMin = keyMin + FirstKey(boundaries[t], k)
        /\ buckets[t][k].keyMax = keyMin + boundaries[t][k]
        /\ buckets[t][k].numData = partitionSizes[t][k].noisy
    BY <1>1 DEF BucketList, Bucket
  <2>2. buckets[t][k] \in Ranged
    BY <1>1, <1>4
  <2>3. buckets[t][k].keyMin \in Int /\ buckets[t][k].keyMax \in Int
    BY <2>2 DEF Ranged
  <2>4. buckets[t][k].keyMin <= buckets[t][k].keyMax
    BY <1>1, <1>4 DEF InOrder
  <2> QED
    BY <2>1, <2>3, <2>4
<1> QED
  BY <1>1, <1>3, <1>4, <1>5, <1>6, <1>7, <1>8

(* The dummies that expand makes of the first one of every bucket.         *)
LEMMA FillersAreRight ==
  ASSUME HTreeInv, pc \in {"move", "slice", "query"}, NEW t \in Tables, NoiseEverywhere(t)
  PROVE  FillersRight(t, Expand(NoiseArray(t), None))
<1> DEFINE n == Len(boundaries[t])
           S == NoiseSums(t)
           N == SumNoise(t)
           a == NoiseArray(t)
           E == {a[k] : k \in 1 .. N}
<1>1. /\ n \in Nat /\ DOMAIN buckets[t] = 1 .. n /\ Len(buckets[t]) = n
      /\ SumsTied(t) /\ DOMAIN partitionSizes[t] = 1 .. n /\ N \in Nat /\ N = S[n]
  BY BucketFacts
<1>2. a \in [1 .. N -> E]
  BY DEF NoiseArray, Resize
<1>3. SumsClimb(S, n)
  <2>1. SumsUp(S, n)
    BY <1>1 DEF SumsTied
  <2>2. ASSUME NEW k \in 1 .. n PROVE S[k - 1] < S[k]
    <3>1. /\ S[k] = S[k - 1] + (partitionSizes[t][k].noisy - partitionSizes[t][k].real)
          /\ partitionSizes[t][k].noisy \in Nat /\ partitionSizes[t][k].real \in Nat
      BY <1>1 DEF SumsTied
    <3>2. partitionSizes[t][k].noisy > partitionSizes[t][k].real
      BY <1>1 DEF NoiseEverywhere
    <3>3. S[k - 1] \in Nat
      <4>1. k - 1 \in 0 .. n
        BY <1>1
      <4> QED
        BY <2>1, <4>1 DEF SumsUp
    <3> QED
      BY <3>1, <3>2, <3>3
  <2> QED
    BY <2>1, <2>2 DEF SumsClimb
<1>4. n <= N
  <2>1. 0 \in 0 .. n /\ n \in 0 .. n /\ 0 <= n /\ S[0] = 0
    BY <1>1, <1>3 DEF SumsClimb, SumsUp
  <2>2. S[0] + (n - 0) <= S[n]
    BY <1>3, <2>1, ClimbFast
  <2> QED
    BY <1>1, <2>1, <2>2
<1> DEFINE F == [k \in DOMAIN buckets[t] |-> Entry(NoiseBefore(t, k), buckets[t][k].keyMin)]
<1>10. a = Resize(F, N, None)
  BY DEF NoiseArray
<1>11. Len(F) = n /\ \A k \in 1 .. n : F[k] = Entry(NoiseBefore(t, k), buckets[t][k].keyMin)
  <2>1. F = [k \in 1 .. n |-> Entry(NoiseBefore(t, k), buckets[t][k].keyMin)]
    BY <1>1
  <2>2. Len(F) = n
    <3> HIDE DEF n
    <3> QED
      BY <1>1, <2>1
  <2> QED
    BY <2>1, <2>2
<1>12. \A k \in 1 .. N : a[k] = IF k <= n THEN F[k] ELSE None
  <2> HIDE DEF F, n, N
  <2> QED
    BY <1>10, <1>11 DEF Resize
<1> HIDE DEF F
<1>5. ASSUME NEW k \in 1 .. n PROVE a[k].first = S[k - 1] /\ a[k].second = buckets[t][k].keyMin
  <2>1. k \in 1 .. N /\ k <= n
    BY <1>1, <1>4
  <2>2. a[k] = Entry(NoiseBefore(t, k), buckets[t][k].keyMin)
    BY <1>11, <1>12, <2>1
  <2> QED
    BY <2>2 DEF Entry, NoiseBefore
<1>6. ASSUME NEW k \in n + 1 .. N PROVE a[k].first \in Int /\ a[k].first <= 0
  <2>1. k \in 1 .. N /\ ~ (k <= n)
    BY <1>1
  <2>2. a[k] = None
    BY <1>12, <2>1
  <2> QED
    BY <2>2 DEF None, Entry
<1>7. AtStarts(a, S, n, N)
  BY <1>5, <1>6 DEF AtStarts
<1>8. PartsFilled(Expand(a, None), a, S, n)
  <2> HIDE DEF a, S, N, n, E
  <2> QED
    BY <1>1, <1>2, <1>3, <1>7, NoneIsEntry, SpreadFilled
<1>9. ASSUME NEW k \in 1 .. n, NEW p \in S[k - 1] + 1 .. S[k]
      PROVE  Expand(a, None)[p].second = buckets[t][k].keyMin
  BY <1>5, <1>8 DEF PartsFilled
<1> QED
  BY <1>9 DEF FillersRight

(* The keys of two buckets: those of the first one are smaller.            *)
LEMMA BucketKeys ==
  ASSUME HTreeInv, pc \in {"move", "slice", "query"}, NEW t \in Tables,
         NEW k \in 1 .. Len(boundaries[t]), NEW l \in 1 .. Len(boundaries[t]),
         NEW v \in buckets[t][k].keyMin .. buckets[t][k].keyMax,
         NEW w \in buckets[t][l].keyMin .. buckets[t][l].keyMax
  PROVE  (k < l => v < w) /\ (v = w => k = l)
<1>0. /\ Len(boundaries[t]) \in Nat /\ Len(buckets[t]) = Len(boundaries[t]) /\ InOrder(buckets[t])
      /\ buckets[t][k].keyMin \in Int /\ buckets[t][k].keyMax \in Int
      /\ buckets[t][l].keyMin \in Int /\ buckets[t][l].keyMax \in Int
  BY BucketFacts
<1>1. PICK kmin \in Int, kmax \in Int, lmin \in Int, lmax \in Int :
        /\ kmin = buckets[t][k].keyMin /\ kmax = buckets[t][k].keyMax
        /\ lmin = buckets[t][l].keyMin /\ lmax = buckets[t][l].keyMax
  BY <1>0
<1>2. v \in kmin .. kmax /\ w \in lmin .. lmax
  BY <1>1
<1>3. (k < l => kmax < lmin) /\ (l < k => lmax < kmin)
  BY <1>0, <1>1 DEF InOrder
<1>4. k \in Nat /\ l \in Nat
  BY <1>0
<1> QED
  BY <1>2, <1>3, <1>4

(* Every row is in a bucket by its key.                                    *)
LEMMA InSomeBucket ==
  ASSUME HTreeInv, pc \in {"move", "slice", "query"}, NEW t \in Tables, boundaries[t] # <<>>,
         NEW f, FillersRight(t, f), NEW row \in 1 .. Total(t)
  PROVE  \E k \in 1 .. Len(boundaries[t]) : row \in InBucketOf(t, f, k)
<1> DEFINE n == Len(boundaries[t])
           s == rows[t]
<1>1. /\ n \in Nat /\ SumsTied(t) /\ InDomain(s) /\ Len(s) \in Nat /\ Total(t) \in Nat
      /\ SumNoise(t) \in Nat /\ SumNoise(t) = NoiseSums(t)[n]
      /\ \A k \in 1 .. n : /\ buckets[t][k].keyMin \in Int /\ buckets[t][k].keyMax \in Int
                           /\ buckets[t][k].keyMin <= buckets[t][k].keyMax
  BY BucketFacts
<1>2. CASE row <= Len(s)
  <2>1. row \in 1 .. Len(s) /\ KeyOf(s, f, row) = s[row]
    BY <1>1, <1>2 DEF KeyOf
  <2>2. s[row] \in Int /\ s[row] - keyMin \in 0 .. domainSize - 1 /\ keyMin \in Int /\ domainSize \in Nat \ {0}
    BY <1>1, <2>1, SeqFacts DEF InDomain, Slot
  <2>3. s[row] \in keyMin .. keyMin + domainSize - 1
    BY <2>2
  <2>4. InOneOf(buckets[t], n, s[row])
    <3>1. /\ buckets[t] = BucketList(keyMin, boundaries[t], partitionSizes[t])
          /\ Partition(rows[t], keyMin, boundaries[t], partitionSizes[t], domainSize)
          /\ Complete(boundaries[t], domainSize)
          /\ boundaries[t] \in Seq(Nat) /\ partitionSizes[t] \in Seq(Sizes)
      BY BucketsBuilt
    <3>2. Len(boundaries[t]) # 0
      BY <3>1
    <3> QED
      BY <2>2, <2>3, <3>1, <3>2, OneBucket
  <2>5. \E k \in 1 .. n : s[row] \in buckets[t][k].keyMin .. buckets[t][k].keyMax
    <3> DEFINE K == {k \in 1 .. n : s[row] \in buckets[t][k].keyMin .. buckets[t][k].keyMax}
    <3>1. Cardinality(K) = 1
      BY <2>4 DEF InOneOf
    <3>2. K # {}
      <4>1. Cardinality({}) = 0
        BY FS_EmptySet
      <4>2. 1 # 0
        OBVIOUS
      <4> HIDE DEF K
      <4> QED
        BY <3>1, <4>1, <4>2, Zenon
    <3> QED
      BY <3>2, Zenon
  <2> QED
    BY <2>1, <2>5, Zenon DEF InBucketOf
<1>3. CASE ~ (row <= Len(s))
  <2>1. row - Len(s) \in 1 .. SumNoise(t) /\ KeyOf(s, f, row) = f[row - Len(s)].second
    BY <1>1, <1>3 DEF KeyOf, Total
  <2>2. PICK k \in 1 .. n : row - Len(s) \in NoiseSums(t)[k - 1] + 1 .. NoiseSums(t)[k]
    <3>1. SumsUp(NoiseSums(t), n)
      BY <1>1 DEF SumsTied
    <3>2. row - Len(s) \in 1 .. NoiseSums(t)[n]
      BY <1>1, <2>1
    <3> DEFINE S == NoiseSums(t)
               q == row - Len(s)
    <3> HIDE DEF S, q, n
    <3> QED
      BY <3>1, <3>2, SumsCut DEF S, q
  <2>3. f[row - Len(s)].second = buckets[t][k].keyMin
    BY <2>2 DEF FillersRight
  <2>4. KeyOf(s, f, row) \in buckets[t][k].keyMin .. buckets[t][k].keyMax
    BY <1>1, <2>1, <2>3
  <2> QED
    BY <2>4, Zenon DEF InBucketOf
<1> QED
  BY <1>2, <1>3

(* The records of a bucket by their keys are as many as its real size.     *)
LEMMA RecordsOfBucket ==
  ASSUME HTreeInv, pc \in {"move", "slice", "query"}, NEW t \in Tables, NEW k \in 1 .. Len(boundaries[t])
  PROVE  partitionSizes[t][k].real =
           Cardinality({r \in 1 .. Len(rows[t]) : rows[t][r] \in buckets[t][k].keyMin .. buckets[t][k].keyMax})
<1> DEFINE s == rows[t]
           b == boundaries[t]
<1>1. /\ InDomain(s) /\ Len(b) \in Nat /\ buckets[t][k].keyMin \in Int /\ buckets[t][k].keyMax \in Int
      /\ buckets[t][k].keyMin = keyMin + FirstKey(b, k) /\ buckets[t][k].keyMax = keyMin + b[k]
  BY BucketFacts
<1>2. Partition(s, keyMin, b, partitionSizes[t], domainSize) /\ b \in Seq(Nat)
  BY BucketsBuilt
<1>3. partitionSizes[t][k].real = Held(s, keyMin, FirstKey(b, k), b[k])
  BY <1>2 DEF Partition
<1>4. PICK lo \in Int, hi \in Int : lo = FirstKey(b, k) /\ hi = b[k]
  <2>1. \A x \in Seq(Nat) : \A l \in 1 .. Len(x) : x[l] \in Nat
    OBVIOUS
  <2>2. b[k] \in Nat
    BY <1>2, <2>1
  <2>3. CASE k = 1
    BY <2>2, <2>3 DEF FirstKey
  <2>4. CASE k # 1
    <3>1. k - 1 \in 1 .. Len(b)
      BY <1>1, <2>4
    <3>2. b[k - 1] \in Nat
      BY <1>2, <2>1, <3>1
    <3> HIDE DEF b
    <3> QED
      BY <2>2, <2>4, <3>2 DEF FirstKey
  <2> QED
    BY <2>3, <2>4
<1>5. \A r \in 1 .. Len(s) : s[r] \in Int /\ keyMin \in Int
  BY <1>1 DEF InDomain
<1>6. \A x \in Int, m \in Int : x - m \in lo .. hi <=> x \in m + lo .. m + hi
  OBVIOUS
<1>7. {r \in 1 .. Len(s) : s[r] - keyMin \in lo .. hi}
        = {r \in 1 .. Len(s) : s[r] \in keyMin + lo .. keyMin + hi}
  BY <1>5, <1>6, Zenon
<1> QED
  BY <1>1, <1>3, <1>4, <1>7 DEF Held

(* And with the dummies as many as all of it.                              *)
LEMMA BucketSize ==
  ASSUME HTreeInv, pc \in {"move", "slice", "query"}, NEW t \in Tables,
         NEW f, FillersRight(t, f), NEW k \in 1 .. Len(boundaries[t])
  PROVE  Cardinality(InBucketOf(t, f, k)) = partitionSizes[t][k].noisy
<1> DEFINE n == Len(boundaries[t])
           s == rows[t]
           L == Len(s)
           S == NoiseSums(t)
           lo == buckets[t][k].keyMin
           hi == buckets[t][k].keyMax
           A == {r \in 1 .. L : s[r] \in lo .. hi}
           B == L + S[k - 1] + 1 .. L + S[k]
<1>1. /\ n \in Nat /\ SumsTied(t) /\ L \in Nat /\ Total(t) \in Nat
      /\ SumNoise(t) \in Nat /\ SumNoise(t) = S[n]
      /\ \A l \in 1 .. n : /\ buckets[t][l].keyMin \in Int /\ buckets[t][l].keyMax \in Int
                           /\ buckets[t][l].keyMin <= buckets[t][l].keyMax
  BY BucketFacts
<1>2. Cardinality(A) = partitionSizes[t][k].real
  BY RecordsOfBucket
<1>3. SumsUp(S, n) /\ k - 1 \in 0 .. n /\ k \in 0 .. n /\ n \in 0 .. n
  BY <1>1 DEF SumsTied
<1>4. PICK x \in Nat, y \in Nat, rl \in Nat, ny \in Nat :
        /\ x = S[k - 1] /\ y = S[k] /\ rl = partitionSizes[t][k].real /\ ny = partitionSizes[t][k].noisy
        /\ ny >= rl /\ y = x + (ny - rl) /\ y <= SumNoise(t)
  <2>1. S[k - 1] \in Nat /\ S[k] \in Nat
    BY <1>3 DEF SumsUp
  <2>2. S[k] <= S[n]
    <3>1. k <= n
      BY <1>1
    <3> HIDE DEF S, n
    <3> QED
      BY <1>3, <3>1, SumsRise
  <2> QED
    BY <1>1, <2>1, <2>2 DEF SumsTied
<1>12. L \in Nat /\ SumNoise(t) \in Nat
  BY <1>1
<1>13. ny >= rl /\ y = x + (ny - rl) /\ y <= SumNoise(t)
  BY <1>4
<1>5. B = L + x + 1 .. L + y /\ A \in SUBSET (1 .. L)
  BY <1>4
<1>6. \A row \in 1 .. Total(t) : row \in InBucketOf(t, f, k) <=> row \in A \cup B
  <2> TAKE row \in 1 .. Total(t)
  <2>1. CASE row <= L
    <3>1. row \in 1 .. L /\ KeyOf(s, f, row) = s[row] /\ row \notin L + x + 1 .. L + y
      BY <1>1, <2>1 DEF KeyOf
    <3> QED
      BY <1>5, <3>1, Zenon DEF InBucketOf
  <2>2. CASE ~ (row <= L)
    <3>1. row - L \in 1 .. SumNoise(t) /\ row \notin 1 .. L
          /\ KeyOf(s, f, row) = f[row - L].second
          /\ (row \in L + x + 1 .. L + y <=> row - L \in x + 1 .. y)
      BY <1>1, <2>2, SMTT(30) DEF KeyOf, Total
    <3>2. PICK l \in 1 .. n : row - L \in S[l - 1] + 1 .. S[l] /\ \A m \in 1 .. n : row - L \in S[m - 1] + 1 .. S[m] => m = l
      <4> DEFINE q == row - L
      <4>1. q \in 1 .. S[n]
        BY <1>1, <3>1
      <4>2. \E l \in 1 .. n : q \in S[l - 1] + 1 .. S[l] /\ \A m \in 1 .. n : q \in S[m - 1] + 1 .. S[m] => m = l
        <5> HIDE DEF S, q, n
        <5> QED
          BY <1>3, <4>1, SumsCut
      <4> QED
        BY <4>2
    <3>3. f[row - L].second = buckets[t][l].keyMin
      BY <3>2 DEF FillersRight
    <3>4. KeyOf(s, f, row) \in lo .. hi <=> l = k
      <4>1. buckets[t][l].keyMin \in buckets[t][l].keyMin .. buckets[t][l].keyMax
        BY <1>1
      <4>2. ASSUME buckets[t][l].keyMin \in lo .. hi PROVE l = k
        BY <4>1, <4>2, BucketKeys
      <4> QED
        BY <3>1, <3>3, <4>1, <4>2
    <3>5. row - L \in x + 1 .. y <=> l = k
      BY <1>4, <3>2
    <3>6. row \in A \cup B <=> l = k
      BY <1>5, <3>1, <3>5
    <3> QED
      BY <3>4, <3>6, Zenon DEF InBucketOf
  <2> QED
    BY <2>1, <2>2
<1>7. A \cup B \in SUBSET (1 .. Total(t))
  <2>1. Total(t) = L + SumNoise(t)
    BY DEF Total
  <2>2. \A z : (z \in 1 .. L => z \in 1 .. L + SumNoise(t))
               /\ (z \in L + x + 1 .. L + y => z \in 1 .. L + SumNoise(t))
    <3> HIDE DEF L
    <3> QED
      BY <1>12, <1>13
  <2> HIDE DEF A, B, L
  <2> QED
    BY <1>5, <2>1, <2>2
<1>8. InBucketOf(t, f, k) = A \cup B
  <2>1. InBucketOf(t, f, k) \in SUBSET (1 .. Total(t))
    BY DEF InBucketOf
  <2> HIDE DEF A, B
  <2> QED
    BY <1>6, <1>7, <2>1
<1>9. IsFiniteSet(A) /\ IsFiniteSet(B) /\ Cardinality(B) = ny - rl /\ A \cap B = {}
  <2>1. IsFiniteSet(1 .. L)
    <3> HIDE DEF L
    <3>1. 1 \in Int /\ L \in Int
      BY <1>12
    <3> QED
      BY <3>1, FS_Interval
  <2>2. IsFiniteSet(A)
    BY <1>5, <2>1, FS_Subset
  <2>3. \A u \in Nat, v \in Nat : u <= v => IsFiniteSet(u + 1 .. v) /\ Cardinality(u + 1 .. v) = v - u
    <3> TAKE u \in Nat, v \in Nat
    <3> HAVE u <= v
    <3>1. IsFiniteSet(u + 1 .. v) /\ Cardinality(u + 1 .. v) = IF u + 1 > v THEN 0 ELSE v - (u + 1) + 1
      BY FS_Interval
    <3> QED
      BY <3>1
  <2>4. IsFiniteSet(L + x + 1 .. L + y) /\ Cardinality(L + x + 1 .. L + y) = ny - rl
    <3>1. L + x \in Nat /\ L + y \in Nat /\ L + x <= L + y /\ (L + y) - (L + x) = ny - rl
      <4> HIDE DEF L
      <4> QED
        BY <1>12, <1>13
    <3> QED
      BY <2>3, <3>1
  <2>5. A \cap (L + x + 1 .. L + y) = {}
    <3>1. \A z \in 1 .. L : z \notin L + x + 1 .. L + y
      BY <1>1
    <3> HIDE DEF A
    <3> QED
      BY <1>5, <3>1
  <2> QED
    BY <1>5, <2>2, <2>4, <2>5
<1>10. Cardinality(A \cup B) = Cardinality(A) + Cardinality(B)
  <2> HIDE DEF A, B
  <2>1. Cardinality(A \cup B) = Cardinality(A) + Cardinality(B) - Cardinality(A \cap B)
    BY <1>9, FS_Union
  <2>2. Cardinality(A \cap B) = 0 /\ Cardinality(A) \in Nat /\ Cardinality(B) \in Nat
    BY <1>9, FS_EmptySet, FS_CardinalityType
  <2> QED
    BY <2>1, <2>2
<1>11. Cardinality(A \cup B) = ny
  <2> HIDE DEF A, B
  <2> QED
    BY <1>2, <1>4, <1>9, <1>10
<1> QED
  BY <1>4, <1>8, <1>11

(* Two sets of the same size: if they are not the same, each has an        *)
(* element that the other one has not.                                     *)
LEMMA SameSize ==
  ASSUME NEW A, NEW B, IsFiniteSet(A), IsFiniteSet(B), Cardinality(A) = Cardinality(B), A # B
  PROVE  (\E x \in A : x \notin B) /\ (\E y \in B : y \notin A)
<1>1. ASSUME NEW X, NEW Y, IsFiniteSet(Y), Cardinality(X) = Cardinality(Y), X # Y
      PROVE  \E x \in X : x \notin Y
  <2> SUFFICES ASSUME ~ \E x \in X : x \notin Y PROVE FALSE
    OBVIOUS
  <2>1. X \in SUBSET Y
    OBVIOUS
  <2>2. Cardinality(Y) = Cardinality(X) => X = Y
    BY <1>1, <2>1, FS_Subset
  <2> QED
    BY <1>1, <2>2
<1> QED
  BY <1>1

\* The rows of the table that are in none of its first m buckets by their keys.
LeftBy(t, f, m) == {row \in 1 .. Total(t) : \A k \in 1 .. m : row \notin InBucketOf(t, f, k)}

\* The slices are the buckets, when all of them have a dummy.
SlicesRight ==
  NoiseEverywhere(table) =>
    /\ FillersRight(table, fillers)
    /\ \A k \in 1 .. Sliced : content[table][k] = InBucketOf(table, fillers, k)
    /\ rest = LeftBy(table, fillers, Sliced)

RecordsEverywhere(t) == \A k \in DOMAIN partitionSizes[t] : partitionSizes[t][k].real > 0

InPlaceIf(t) ==
  (mode = "uni" => RecordsEverywhere(t)) /\ (mode = "ind" => NoiseEverywhere(t)) => InPlace(t)

PlaceInv ==
  /\ \A t \in Tables : Filled(t) => InPlaceIf(t)
  /\ pc = "slice" => SlicesRight

\* The rows of A come before those of B.
KeysBefore(s, f, A, B) == \A x \in A, y \in B : KeyOf(s, f, x) <= KeyOf(s, f, y)

(* The next slice is the next bucket.                                      *)
LEMMA SliceIsBucket ==
  ASSUME HTreeInv, pc \in {"move", "slice", "query"}, NEW t \in Tables, NEW f, FillersRight(t, f),
         NEW m \in Nat, m + 1 \in 1 .. Len(boundaries[t]),
         NEW slice \in kSubset(buckets[t][m + 1].numData, LeftBy(t, f, m)),
         KeysBefore(rows[t], f, slice, LeftBy(t, f, m) \ slice)
  PROVE  slice = InBucketOf(t, f, m + 1) /\ LeftBy(t, f, m) \ slice = LeftBy(t, f, m + 1)
<1> DEFINE n == Len(boundaries[t])
           B == InBucketOf(t, f, m + 1)
           left == LeftBy(t, f, m)
           key(row) == KeyOf(rows[t], f, row)
<1>1. /\ n \in Nat /\ Total(t) \in Nat /\ buckets[t][m + 1].numData = partitionSizes[t][m + 1].noisy
      /\ \A k \in 1 .. n : buckets[t][k].keyMin \in Int /\ buckets[t][k].keyMax \in Int
  BY BucketFacts
<1>2. Cardinality(B) = partitionSizes[t][m + 1].noisy
  BY BucketSize
<1>3. slice \in SUBSET left /\ Cardinality(slice) = Cardinality(B)
  BY <1>1, <1>2 DEF kSubset
<1>4. IsFiniteSet(left) /\ IsFiniteSet(B) /\ IsFiniteSet(slice)
  <2>1. IsFiniteSet(1 .. Total(t))
    BY <1>1, FS_Interval
  <2>2. left \in SUBSET (1 .. Total(t)) /\ B \in SUBSET (1 .. Total(t))
    BY DEF LeftBy, InBucketOf
  <2>3. IsFiniteSet(left) /\ IsFiniteSet(B)
    BY <2>1, <2>2, FS_Subset
  <2> HIDE DEF left, B
  <2> QED
    BY <1>3, <2>3, FS_Subset
<1>5. ASSUME NEW row, NEW k \in 1 .. n, row \in InBucketOf(t, f, k)
      PROVE  row \in 1 .. Total(t) /\ key(row) \in buckets[t][k].keyMin .. buckets[t][k].keyMax
             /\ key(row) \in Int
  <2>1. row \in 1 .. Total(t) /\ key(row) \in buckets[t][k].keyMin .. buckets[t][k].keyMax
    BY <1>5 DEF InBucketOf
  <2> HIDE DEF key
  <2> QED
    BY <1>1, <2>1
<1>6. ASSUME NEW row, NEW k \in 1 .. n, NEW l \in 1 .. n,
             row \in InBucketOf(t, f, k), row \in InBucketOf(t, f, l)
      PROVE  k = l
  <2>1. key(row) \in buckets[t][k].keyMin .. buckets[t][k].keyMax
        /\ key(row) \in buckets[t][l].keyMin .. buckets[t][l].keyMax
    BY <1>5, <1>6
  <2> QED
    BY <2>1, BucketKeys
<1>7. B \in SUBSET left
  <2> SUFFICES ASSUME NEW row \in B PROVE row \in left
    OBVIOUS
  <2>1. row \in 1 .. Total(t)
    BY DEF InBucketOf
  <2>2. ASSUME NEW k \in 1 .. m, row \in InBucketOf(t, f, k) PROVE FALSE
    <3>1. k \in 1 .. n /\ k # m + 1
      BY <1>1
    <3> QED
      BY <1>6, <2>2, <3>1
  <2> QED
    BY <2>1, <2>2 DEF LeftBy
<1>8. boundaries[t] # <<>>
  BY <1>1
<1>9. slice = B
  <2> SUFFICES ASSUME slice # B PROVE FALSE
    OBVIOUS
  <2>1. PICK x \in slice, y \in B : x \notin B /\ y \notin slice
    <3> HIDE DEF B, left
    <3>1. (\E x \in slice : x \notin B) /\ (\E y \in B : y \notin slice)
      BY <1>3, <1>4, SameSize
    <3> QED
      BY <3>1
  <2>2. x \in left /\ y \in left \ slice
    BY <1>3, <1>7, <2>1
  <2>3. key(x) <= key(y)
    BY <2>2 DEF KeysBefore
  <2>4. PICK k \in 1 .. n : x \in InBucketOf(t, f, k)
    <3>1. x \in 1 .. Total(t)
      BY <2>2 DEF LeftBy
    <3> QED
      BY <1>8, <3>1, InSomeBucket
  <2>5. m + 1 < k
    <3>1. k \notin 1 .. m
      BY <2>2, <2>4 DEF LeftBy
    <3>2. k # m + 1
      BY <2>1, <2>4
    <3> QED
      BY <1>1, <3>1, <3>2
  <2>6. key(y) \in buckets[t][m + 1].keyMin .. buckets[t][m + 1].keyMax /\ key(y) \in Int
        /\ key(x) \in buckets[t][k].keyMin .. buckets[t][k].keyMax /\ key(x) \in Int
    BY <1>5, <2>4
  <2>7. key(y) < key(x)
    <3> HIDE DEF key
    <3> QED
      BY <2>5, <2>6, BucketKeys
  <2> HIDE DEF key
  <2> QED
    BY <2>3, <2>6, <2>7
<1>10. \A row \in 1 .. Total(t) : row \in left \ slice <=> row \in LeftBy(t, f, m + 1)
  <2> TAKE row \in 1 .. Total(t)
  <2>1. \A k : k \in 1 .. m + 1 <=> k \in 1 .. m \/ k = m + 1
    OBVIOUS
  <2>2. row \in left <=> \A k \in 1 .. m : row \notin InBucketOf(t, f, k)
    BY DEF LeftBy
  <2>3. row \in LeftBy(t, f, m + 1) <=> \A k \in 1 .. m + 1 : row \notin InBucketOf(t, f, k)
    BY DEF LeftBy
  <2> HIDE DEF left
  <2> QED
    BY <1>9, <2>1, <2>2, <2>3
<1>11. left \ slice = LeftBy(t, f, m + 1)
  <2>1. left \in SUBSET (1 .. Total(t)) /\ LeftBy(t, f, m + 1) \in SUBSET (1 .. Total(t))
    BY DEF LeftBy
  <2> HIDE DEF left
  <2> QED
    BY <1>10, <2>1
<1> QED
  BY <1>9, <1>11

(* What is said of a table stays when its buckets and its contents do.     *)
LEMMA PlaceFrame ==
  ASSUME UNCHANGED contentVars
  PROVE  /\ \A t : content'[t] = content[t] => (InPlaceIf(t)' <=> InPlaceIf(t))
         /\ \A t : NoiseEverywhere(t)' <=> NoiseEverywhere(t)
         /\ \A t, f : FillersRight(t, f)' <=> FillersRight(t, f)
         /\ \A t, f, k : InBucketOf(t, f, k)' = InBucketOf(t, f, k)
         /\ \A t, f, m : LeftBy(t, f, m)' = LeftBy(t, f, m)
<1>1. mode' = mode /\ rows' = rows /\ boundaries' = boundaries /\ partitionSizes' = partitionSizes
      /\ buckets' = buckets
  BY DEF contentVars
<1>2. \A t : Total(t)' = Total(t)
  BY TotalsStay
<1>3. \A t : NoiseEverywhere(t)' <=> NoiseEverywhere(t)
  BY <1>1 DEF NoiseEverywhere
<1>4. \A t : RecordsEverywhere(t)' <=> RecordsEverywhere(t)
  BY <1>1 DEF RecordsEverywhere
<1>5. ASSUME NEW t, content'[t] = content[t] PROVE InPlace(t)' <=> InPlace(t)
  BY <1>1, <1>5 DEF InPlace
<1>6. \A t : content'[t] = content[t] => (InPlaceIf(t)' <=> InPlaceIf(t))
  BY <1>1, <1>3, <1>4, <1>5 DEF InPlaceIf
<1>7. \A t, f : FillersRight(t, f)' <=> FillersRight(t, f)
  BY <1>1 DEF FillersRight, NoiseSums
<1>8. \A t, f, k : InBucketOf(t, f, k)' = InBucketOf(t, f, k)
  BY <1>1, <1>2 DEF InBucketOf
<1>9. \A t, f, m : LeftBy(t, f, m)' = LeftBy(t, f, m)
  BY <1>2, <1>8 DEF LeftBy
<1> QED
  BY <1>3, <1>6, <1>7, <1>8, <1>9

(* Steps that do not touch the contents.                                   *)
LEMMA PlaceStays ==
  ASSUME PlaceInv, UNCHANGED contentVars, UNCHANGED <<moveVars, table, pc>>
  PROVE  PlaceInv'
<1>1. content' = content /\ rest' = rest /\ fillers' = fillers /\ table' = table /\ pc' = pc
  BY DEF moveVars
<1>2. ASSUME NEW t \in Tables', Filled(t)' PROVE InPlaceIf(t)'
  <2>1. t \in Tables /\ Filled(t)
    BY <1>1, <1>2, TotalsStay DEF Filled
  <2> QED
    BY <1>1, <2>1, PlaceFrame DEF PlaceInv
<1>3. ASSUME pc' = "slice" PROVE SlicesRight'
  <2>1. SlicesRight
    BY <1>1, <1>3 DEF PlaceInv
  <2> QED
    BY <1>1, <2>1, PlaceFrame DEF SlicesRight, Sliced
<1> QED
  BY <1>2, <1>3 DEF PlaceInv

(* Before a table is moved.                                                *)
LEMMA NotPlacedYet ==
  ASSUME GetHistBins \/ ScanKey \/ BackOfEmpty \/ MakeBuckets
  PROVE  PlaceInv'
<1>1. pc' \in {"hist", "partition", "crashed"} \/ (pc' = "move" /\ table' = 1)
  <2>1. CASE GetHistBins
    BY <2>1 DEF GetHistBins
  <2>2. CASE ScanKey
    BY <2>2 DEF ScanKey
  <2>3. CASE BackOfEmpty
    BY <2>3 DEF BackOfEmpty
  <2>4. CASE MakeBuckets
    BY <2>4 DEF MakeBuckets
  <2> QED
    BY <2>1, <2>2, <2>3, <2>4
<1>2. Tables' \in SUBSET {1, 2}
  BY DEF Tables
<1>3. ASSUME NEW t \in Tables' PROVE ~ Filled(t)'
  BY <1>1, <1>2 DEF Filled
<1> QED
  BY <1>1, <1>3 DEF PlaceInv

(* The array to be sorted.                                                 *)
LEMMA FillPlaceInv ==
  ASSUME HTreeInv, ContentInv, PlaceInv, FillInd
  PROVE  PlaceInv'
<1>1. UNCHANGED contentVars /\ pc = "move" /\ mode = "ind" /\ pc' = "slice" /\ table' = table
      /\ fillers' = Expand(NoiseArray(table), None) /\ rest' = 1 .. Len(rows[table]) + Len(fillers')
      /\ content' = [content EXCEPT ![table] = <<>>]
  BY DEF FillInd, contentVars, treeVars, cutVars
<1>2. table \in Tables /\ table \in {1, 2} /\ DOMAIN content = {1, 2}
  BY DomainFacts DEF HTreeInv, PcInv, ContentInv
<1>3. content'[table] = <<>> /\ \A t \in {1, 2} : t # table => content'[t] = content[t]
  BY <1>1, <1>2
<1>4. ASSUME NEW t \in Tables', Filled(t)' PROVE InPlaceIf(t)'
  <2>1. t \in Tables /\ t \in {1, 2}
    BY <1>1, <1>4, TotalsStay DEF Tables, contentVars
  <2>2. Filled(t) /\ t # table
    BY <1>1, <1>2, <1>4, <2>1 DEF Filled
  <2> QED
    BY <1>1, <1>3, <2>1, <2>2, PlaceFrame DEF PlaceInv
<1>5. ASSUME NoiseEverywhere(table)
      PROVE  /\ FillersRight(table, fillers')
             /\ rest' = LeftBy(table, fillers', 0)
  <2>1. FillersRight(table, fillers')
    BY <1>1, <1>2, <1>5, FillersAreRight
  <2>2. SumNoise(table) \in Nat
    BY <1>1, <1>2, BucketFacts
  <2>3. Len(fillers') = SumNoise(table)
    BY <1>1, <1>2, <2>2, FillerCount
  <2>4. rest' = 1 .. Total(table)
    BY <1>1, <2>3 DEF Total
  <2>5. 1 .. 0 = {}
    OBVIOUS
  <2> QED
    BY <2>1, <2>4, <2>5 DEF LeftBy
<1>6. SlicesRight'
  <2>1. Sliced' = 0 /\ 1 .. 0 = {}
    BY <1>1, <1>3 DEF Sliced
  <2>2. ASSUME NoiseEverywhere(table)' PROVE NoiseEverywhere(table)
    BY <1>1, <2>2, PlaceFrame
  <2> QED
    BY <1>1, <1>5, <2>1, PlaceFrame DEF SlicesRight
<1> QED
  BY <1>4, <1>6 DEF PlaceInv

(* A slice.                                                                *)
LEMMA SlicePlaceInv ==
  ASSUME HTreeInv, ContentInv, PlaceInv, SliceInd
  PROVE  PlaceInv'
<1> DEFINE m == Sliced
<1>1. UNCHANGED contentVars /\ pc = "slice" /\ pc' = pc /\ table' = table /\ fillers' = fillers
      /\ m < Len(buckets[table])
  BY DEF SliceInd, contentVars, treeVars, cutVars, Sliced
<1>2. PICK slice \in kSubset(buckets[table][m + 1].numData, rest) :
        /\ \A row \in slice, other \in rest \ slice : Key(row) <= Key(other)
        /\ content' = [content EXCEPT ![table] = Append(@, slice)]
        /\ rest' = rest \ slice
  BY DEF SliceInd, Sliced
<1>3. table \in Tables /\ table \in {1, 2} /\ DOMAIN content = {1, 2} /\ SliceInv /\ SlicesRight
  BY <1>1, DomainFacts DEF HTreeInv, PcInv, ContentInv, PlaceInv
<1>4. content'[table] = Append(content[table], slice)
      /\ \A t \in {1, 2} : t # table => content'[t] = content[t]
  BY <1>2, <1>3
<1>5. ASSUME NEW t \in Tables', Filled(t)' PROVE InPlaceIf(t)'
  <2>1. t \in Tables /\ t \in {1, 2}
    BY <1>1, <1>5, TotalsStay DEF Tables, contentVars
  <2>2. Filled(t) /\ t # table
    BY <1>1, <1>3, <1>5, <2>1 DEF Filled
  <2> QED
    BY <1>1, <1>4, <2>1, <2>2, PlaceFrame DEF PlaceInv
<1>6. /\ content[table] \in Seq(SUBSET (1 .. Total(table))) /\ m \in Nat /\ Len(content[table]) = m
      /\ m + 1 \in 1 .. Len(boundaries[table]) /\ slice \in SUBSET (1 .. Total(table))
  <2>1. content[table] \in Seq(SUBSET (1 .. Total(table))) /\ rest \in SUBSET (1 .. Total(table))
    BY <1>3 DEF SliceInv
  <2>2. m \in Nat /\ Len(content[table]) = m
    BY <2>1 DEF Sliced
  <2>3. Len(buckets[table]) = Len(boundaries[table]) /\ Len(boundaries[table]) \in Nat
    BY <1>1, <1>3, BucketFacts
  <2>4. slice \in SUBSET rest
    BY DEF kSubset
  <2>5. m + 1 \in 1 .. Len(boundaries[table])
    <3>1. m < Len(boundaries[table])
      BY <1>1, <2>3
    <3> HIDE DEF m
    <3> QED
      BY <2>2, <2>3, <3>1
  <2> QED
    BY <2>1, <2>2, <2>4, <2>5
<1>7. Sliced' = m + 1 /\ content'[table][m + 1] = slice
      /\ \A k \in 1 .. m : content'[table][k] = content[table][k]
  <2>1. /\ Len(Append(content[table], slice)) = m + 1 /\ Append(content[table], slice)[m + 1] = slice
        /\ \A k \in 1 .. m : Append(content[table], slice)[k] = content[table][k]
    <3> HIDE DEF m
    <3> QED
      BY <1>6
  <2> QED
    BY <1>1, <1>4, <2>1 DEF Sliced
<1>8. ASSUME NoiseEverywhere(table)
      PROVE  /\ FillersRight(table, fillers)
             /\ \A k \in 1 .. m + 1 : content'[table][k] = InBucketOf(table, fillers, k)
             /\ rest' = LeftBy(table, fillers, m + 1)
  <2>1. /\ FillersRight(table, fillers)
        /\ \A k \in 1 .. m : content[table][k] = InBucketOf(table, fillers, k)
        /\ rest = LeftBy(table, fillers, m)
    BY <1>3, <1>8 DEF SlicesRight
  <2>2. KeysBefore(rows[table], fillers, slice, LeftBy(table, fillers, m) \ slice)
    BY <1>2, <2>1 DEF Key, KeyOf, KeysBefore
  <2>3. slice \in kSubset(buckets[table][m + 1].numData, LeftBy(table, fillers, m))
    BY <1>2, <2>1
  <2>4. slice = InBucketOf(table, fillers, m + 1)
        /\ LeftBy(table, fillers, m) \ slice = LeftBy(table, fillers, m + 1)
    <3>1. pc \in {"move", "slice", "query"} /\ FillersRight(table, fillers)
      BY <1>1, <2>1
    <3>2. table \in Tables /\ m \in Nat /\ m + 1 \in 1 .. Len(boundaries[table])
      BY <1>3, <1>6
    <3> HIDE DEF m
    <3> QED
      BY <2>2, <2>3, <3>1, <3>2, SliceIsBucket, Zenon
  <2>5. \A k \in 1 .. m + 1 : k \in 1 .. m \/ k = m + 1
    BY <1>6
  <2> QED
    BY <1>2, <1>7, <2>1, <2>4, <2>5
<1>9. SlicesRight'
  <2>1. ASSUME NoiseEverywhere(table)' PROVE NoiseEverywhere(table)
    BY <1>1, <2>1, PlaceFrame
  <2> QED
    BY <1>1, <1>7, <1>8, <2>1, PlaceFrame DEF SlicesRight
<1> QED
  BY <1>1, <1>5, <1>9 DEF PlaceInv

(* The last slice.                                                         *)
LEMMA EndPlaceInv ==
  ASSUME HTreeInv, ContentInv, PlaceInv, EndInd
  PROVE  PlaceInv'
<1>1. UNCHANGED contentVars /\ EndTable /\ pc = "slice" /\ content' = content
  BY DEF EndInd, contentVars, treeVars, cutVars, moveVars
<1>2. table \in Tables /\ SliceInv /\ SlicesRight /\ mode = "ind"
  BY <1>1, DomainFacts DEF HTreeInv, PcInv, RowsInv, ContentInv, PlaceInv
<1>3. InPlaceIf(table)
  <2> SUFFICES ASSUME NoiseEverywhere(table),
                      NEW k \in DOMAIN content[table], NEW r \in content[table][k] \cap DOMAIN rows[table]
               PROVE  rows[table][r] \in buckets[table][k].keyMin .. buckets[table][k].keyMax
    BY <1>2 DEF InPlaceIf, InPlace
  <2>1. k \in 1 .. Sliced
    BY <1>2 DEF SliceInv, Sliced
  <2>2. r \in InBucketOf(table, fillers, k)
    BY <1>2, <2>1 DEF SlicesRight
  <2>3. DOMAIN rows[table] = 1 .. Len(rows[table]) /\ Len(rows[table]) \in Nat
    <3>1. InDomain(rows[table])
      BY <1>1, <1>2, BucketFacts
    <3> QED
      BY <3>1, SeqFacts DEF InDomain
  <2>4. KeyOf(rows[table], fillers, r) = rows[table][r]
    BY <2>3 DEF KeyOf
  <2> QED
    BY <2>2, <2>4 DEF InBucketOf
<1>4. ASSUME NEW t \in Tables', Filled(t)' PROVE InPlaceIf(t)'
  <2>1. t \in Tables
    BY <1>1, <1>4, TotalsStay
  <2>2. t = table \/ Filled(t)
    BY <1>1, <1>4, <2>1, FilledNext
  <2>3. InPlaceIf(t)
    BY <1>3, <2>1, <2>2 DEF PlaceInv
  <2> QED
    BY <1>1, <2>3, PlaceFrame
<1>5. pc' # "slice"
  BY <1>1 DEF EndTable
<1> QED
  BY <1>4, <1>5 DEF PlaceInv

-----------------------------------------------------------------------------
(* "uni": a table without empty partitions.  The sums of a list and those  *)
(* of a longer one that begins like it.                                    *)
LEMMA SumsPrefix ==
  ASSUME NEW n \in Nat, NEW list \in [1 .. n -> Nat], NEW m \in 0 .. n, NEW part \in [1 .. m -> Nat],
         \A k \in 1 .. m : part[k] = list[k], NEW k \in 0 .. m
  PROVE  Sums(list)[k] = Sums(part)[k]
<1> DEFINE S == Sums(list)
           P == Sums(part)
           T == {x \in Nat : x <= m /\ S[x] # P[x]}
<1>1. SumsRun(list, n) /\ SumsRun(part, m)
  <2>1. SumsRun(list, n)
    BY SumsFacts
  <2>2. m \in Nat
    OBVIOUS
  <2>3. SumsRun(part, m)
    BY <2>2, SumsFacts
  <2> QED
    BY <2>1, <2>3
<1>2. /\ S[0] = 0 /\ P[0] = 0
      /\ \A x \in 1 .. m : S[x] = S[x - 1] + list[x] /\ P[x] = P[x - 1] + part[x]
  <2>1. \A x \in 1 .. m : x \in 1 .. n
    OBVIOUS
  <2> QED
    BY <1>1, <2>1 DEF SumsRun
<1> HIDE DEF S, P
<1>3. T = {}
  <2> SUFFICES ASSUME T # {} PROVE FALSE
    OBVIOUS
  <2>1. PICK x \in T : \A y \in 0 .. x - 1 : y \notin T
    BY LeastNumber
  <2>2. x \in Nat /\ x <= m /\ S[x] # P[x]
    BY <2>1
  <2>3. x # 0
    BY <1>2, <2>2
  <2>4. x - 1 \in 0 .. x - 1 /\ x - 1 \in Nat /\ x - 1 <= m /\ x \in 1 .. m
    BY <2>2, <2>3
  <2>5. S[x - 1] = P[x - 1]
    BY <2>1, <2>4
  <2> QED
    BY <1>2, <2>2, <2>4, <2>5
<1>4. k \in Nat /\ k <= m
  OBVIOUS
<1> QED
  BY <1>3, <1>4 DEF S, P

(* The sums of the sizes of a table that is cut once more, up to the cut.  *)
LEMMA CutSums ==
  ASSUME HTreeInv, HTreeInv', NEW t \in {1, 2}, NEW p,
         partitionSizes'[t] = Append(partitionSizes[t], p), NEW k \in 0 .. Len(boundaries[t])
  PROVE  RealSums(t)'[k] = RealSums(t)[k] /\ NoiseSums(t)'[k] = NoiseSums(t)[k]
<1> DEFINE n == Len(boundaries[t])
           o == partitionSizes[t]
           w == partitionSizes'[t]
           lr == [x \in 1 .. n |-> o[x].real]
           le == [x \in 1 .. n |-> o[x].noisy - o[x].real]
           ar == [x \in 1 .. n + 1 |-> w[x].real]
           ae == [x \in 1 .. n + 1 |-> w[x].noisy - w[x].real]
<1>1. o \in Seq(Sizes) /\ Len(o) = n /\ n \in Nat /\ w \in Seq(Sizes)
      /\ \A x \in 1 .. n : o[x].noisy >= o[x].real
  <2>1. o \in Seq(Sizes) /\ Len(o) = n /\ n \in Nat
    BY TableFacts DEF HTreeInv
  <2>2. w \in Seq(Sizes)
    BY DEF HTreeInv, CutType
  <2> QED
    BY <2>1, <2>2 DEF HTreeInv, Partitioned, Partition
<1>2. Len(w) = n + 1 /\ \A x \in 1 .. n : w[x] = o[x]
  BY <1>1
<1>3. \A x \in 1 .. n + 1 : w[x].noisy >= w[x].real
  BY <1>1, <1>2, SMTT(30) DEF HTreeInv, Partitioned, Partition
<1>4. /\ \A x \in 1 .. n : o[x].real \in Nat /\ o[x].noisy \in Nat
      /\ \A x \in 1 .. n + 1 : w[x].real \in Nat /\ w[x].noisy \in Nat
  <2>1. \A c \in Seq(Sizes) : \A x \in 1 .. Len(c) : c[x] \in Sizes
    OBVIOUS
  <2>2. \A z \in Sizes : z.real \in Nat /\ z.noisy \in Nat
    BY DEF Sizes
  <2> QED
    BY <1>1, <1>2, <2>1, <2>2
<1>5. /\ RealSums(t) = Sums(lr) /\ NoiseSums(t) = Sums(le)
      /\ RealSums(t)' = Sums(ar) /\ NoiseSums(t)' = Sums(ae)
  <2>1. DOMAIN o = 1 .. n /\ DOMAIN w = 1 .. n + 1
    BY <1>1, <1>2
  <2> QED
    BY <2>1 DEF RealSums, NoiseSums
<1>6. \A x, y \in Nat : x >= y => x - y \in Nat
  OBVIOUS
<1>7. lr \in [1 .. n -> Nat] /\ le \in [1 .. n -> Nat]
  BY <1>1, <1>4, <1>6
<1>8. ar \in [1 .. n + 1 -> Nat] /\ ae \in [1 .. n + 1 -> Nat]
  BY <1>3, <1>4, <1>6
<1>9. \A x \in 1 .. n : x \in 1 .. n + 1
  BY <1>1
<1>10. \A x \in 1 .. n : lr[x] = ar[x] /\ le[x] = ae[x]
  BY <1>2, <1>9
<1>11. n + 1 \in Nat /\ n \in 0 .. n + 1 /\ k \in 0 .. n
  BY <1>1
<1> HIDE DEF n, lr, le, ar, ae
<1>12. Sums(ar)[k] = Sums(lr)[k] /\ Sums(ae)[k] = Sums(le)[k]
  BY <1>7, <1>8, <1>10, <1>11, SumsPrefix
<1> QED
  BY <1>5, <1>12

(* The real sizes of a table without empty partitions.                     *)
LEMMA RealClimb ==
  ASSUME HTreeInv, NEW t \in {1, 2}, RecordsEverywhere(t)
  PROVE  SumsClimb(RealSums(t), Len(boundaries[t]))
<1> DEFINE n == Len(boundaries[t])
           R == RealSums(t)
<1>1. SumsTied(t) /\ DOMAIN partitionSizes[t] = 1 .. n /\ n \in Nat
  BY SumsAreTied, SizeSums, TableFacts DEF HTreeInv
<1>2. SumsUp(R, n)
  BY <1>1 DEF SumsTied
<1>3. ASSUME NEW k \in 1 .. n PROVE R[k - 1] < R[k]
  <2>1. R[k] = R[k - 1] + partitionSizes[t][k].real /\ partitionSizes[t][k].real \in Nat
    BY <1>1 DEF SumsTied
  <2>2. partitionSizes[t][k].real > 0
    BY <1>1 DEF RecordsEverywhere
  <2>3. R[k - 1] \in Nat
    <3>1. k - 1 \in 0 .. n
      BY <1>1
    <3> QED
      BY <1>2, <3>1 DEF SumsUp
  <2> QED
    BY <2>1, <2>2, <2>3
<1> QED
  BY <1>2, <1>3 DEF SumsClimb

\* The entries of accumulateSizes: the first row of a partition and the noise before it.
StartsOf(acc, R, E, n) == \A k \in 1 .. n : acc[k] = Entry(R[k - 1], E[k - 1])

AccRight(t) ==
  /\ Len(accumulateSizes[t]) = Len(boundaries[t])
  /\ mode = "uni" /\ RecordsEverywhere(t) =>
       StartsOf(accumulateSizes[t], RealSums(t), NoiseSums(t), Len(boundaries[t]))

AccInv == \A t \in {1, 2} : AccRight(t)

(* No partition gets the destination -1 then.                              *)
LEMMA CutEntry ==
  ASSUME HTreeInv, AccInv, mode = "uni", NEW t \in {1, 2}, RecordsEverywhere(t)
  PROVE  Accumulate(t) = Entry(RealSums(t)[Len(boundaries[t])], NoiseSums(t)[Len(boundaries[t])])
<1> DEFINE n == Len(boundaries[t])
           R == RealSums(t)
           acc == accumulateSizes[t]
           S == {-1} \cup {acc[k].first : k \in DOMAIN acc}
           last == IF n = 0 THEN -1 ELSE R[n - 1]
<1>1. n \in Nat /\ Len(partitionSizes[t]) = n /\ acc \in Seq(Cells)
  BY TableFacts DEF HTreeInv
<1>2. SumsClimb(R, n)
  BY RealClimb
<1>3. Len(acc) = n /\ StartsOf(acc, R, NoiseSums(t), n)
  BY DEF AccInv, AccRight
<1>4. DOMAIN acc = 1 .. n
  BY <1>1, <1>3
<1>5. SumReal(t) = R[n] /\ SumNoise(t) = NoiseSums(t)[n]
  BY <1>1 DEF SumReal, SumNoise
<1>6. PrevReal(t) = Max(S)
  BY DEF PrevReal
<1> HIDE DEF n, R, acc
<1>7. (\A x \in 0 .. n : R[x] \in Nat) /\ \A x \in 1 .. n : R[x - 1] < R[x]
  BY <1>2 DEF SumsClimb, SumsUp
<1>8. \A k \in 1 .. n : acc[k].first = R[k - 1]
  BY <1>3 DEF StartsOf, Entry
<1>9. \A k \in 1 .. n : k - 1 \in 0 .. n /\ R[k - 1] \in Nat
  <2>1. \A k \in 1 .. n : k - 1 \in 0 .. n
    BY <1>1
  <2> QED
    BY <1>7, <2>1
<1>10. S \in SUBSET Int /\ -1 \in S
  <2>1. \A k \in 1 .. n : acc[k].first \in Int
    BY <1>8, <1>9
  <2> QED
    BY <1>4, <2>1
<1>11. last \in S /\ last \in Int
  <2>1. CASE n = 0
    BY <2>1
  <2>2. CASE n # 0
    <3>1. n \in 1 .. n
      BY <1>1, <2>2
    <3>2. acc[n].first = last /\ last \in Int
      BY <1>8, <1>9, <2>2, <3>1
    <3> QED
      BY <1>4, <3>1, <3>2
  <2> QED
    BY <2>1, <2>2
<1>12. ASSUME NEW z \in S PROVE z <= -1 \/ z <= last
  <2>1. CASE z = -1
    BY <2>1
  <2>2. CASE z # -1
    <3>1. PICK k \in 1 .. n : z = acc[k].first
      BY <1>4, <2>2
    <3>2. z = R[k - 1]
      BY <1>8, <3>1
    <3>3. n # 0 /\ k - 1 \in 0 .. n /\ n - 1 \in 0 .. n /\ k - 1 <= n - 1
      BY <1>1
    <3>4. R[k - 1] <= R[n - 1]
      BY <1>2, <3>3, SumsRise DEF SumsClimb
    <3> QED
      BY <3>2, <3>3, <3>4
  <2> QED
    BY <2>1, <2>2
<1>13. last < R[n] /\ -1 < R[n] /\ R[n] \in Nat
  <2>1. n \in 0 .. n
    BY <1>1
  <2>2. R[n] \in Nat
    BY <1>7, <2>1
  <2>3. n # 0 => n \in 1 .. n
    BY <1>1
  <2>4. n # 0 => R[n - 1] < R[n]
    BY <1>7, <2>3
  <2>5. CASE n = 0
    BY <2>2, <2>5
  <2>6. CASE n # 0
    BY <2>2, <2>4, <2>6
  <2> QED
    BY <2>5, <2>6
<1>14. \A z \in S : z < R[n]
  <2> TAKE z \in S
  <2>1. z \in Int
    BY <1>10
  <2>2. z <= -1 \/ z <= last
    BY <1>12
  <2> HIDE DEF last, S
  <2> QED
    BY <1>11, <1>13, <2>1, <2>2
<1>15. Max(S) \in S
  <2> HIDE DEF last, S
  <2> QED
    BY <1>10, <1>11, <1>12, GreatestOf
<1>16. ~ (SumReal(t) <= PrevReal(t))
  <2>1. Max(S) < R[n] /\ Max(S) \in Int
    <3> HIDE DEF S
    <3> QED
      BY <1>10, <1>14, <1>15
  <2> HIDE DEF S
  <2> QED
    BY <1>5, <1>6, <1>13, <2>1
<1> QED
  BY <1>5, <1>16 DEF Accumulate, R, n

(* One key of the scan.                                                    *)
LEMMA AccScan ==
  ASSUME HTreeInv, HTreeInv', AccInv, ScanKey
  PROVE  AccInv'
<1>1. PICK cut \in BOOLEAN : Scanning(cut) /\ EndsInTime(cut)
  BY ScanSteps DEF HTreeInv
<1>2. mode' = mode
  BY <1>1 DEF Scanning, treeVars
<1>3. ASSUME NEW t \in {1, 2}, boundaries'[t] = boundaries[t], partitionSizes'[t] = partitionSizes[t],
             accumulateSizes'[t] = accumulateSizes[t]
      PROVE  AccRight(t)'
  <2>1. RealSums(t)' = RealSums(t) /\ NoiseSums(t)' = NoiseSums(t)
        /\ (RecordsEverywhere(t)' <=> RecordsEverywhere(t))
    BY <1>3 DEF RealSums, NoiseSums, RecordsEverywhere
  <2>2. AccRight(t)
    BY DEF AccInv
  <2> QED
    BY <1>2, <1>3, <2>1, <2>2 DEF AccRight
<1>4. ASSUME NEW t \in {1, 2}, t \in Cutting, cut
      PROVE  AccRight(t)'
  <2> DEFINE n == Len(boundaries[t])
             acc == accumulateSizes[t]
             R == RealSums(t)
             N == NoiseSums(t)
  <2>1. Extended(t, cut)
    BY <1>1, <1>4 DEF Scanning
  <2>2. PICK p \in Sizes : partitionSizes'[t] = Append(partitionSizes[t], p)
    BY <1>4, <2>1 DEF Extended
  <2>3. boundaries'[t] = Append(boundaries[t], at) /\ accumulateSizes'[t] = Append(acc, Accumulate(t))
    BY <1>4, <2>1 DEF Extended
  <2>4. n \in Nat /\ acc \in Seq(Cells) /\ boundaries[t] \in Seq(Nat) /\ partitionSizes[t] \in Seq(Sizes)
        /\ Len(partitionSizes[t]) = n
    BY TableFacts DEF HTreeInv
  <2>5. Len(acc) = n /\ Accumulate(t) \in Cells
    BY AccumulateType DEF AccInv, AccRight, HTreeInv
  <2>6. at \in Nat
    BY DomainFacts DEF HTreeInv, PcInv
  <2>7. /\ Len(accumulateSizes'[t]) = n + 1 /\ Len(boundaries'[t]) = n + 1
        /\ \A k \in 1 .. n : accumulateSizes'[t][k] = acc[k]
        /\ accumulateSizes'[t][n + 1] = Accumulate(t)
    <3>1. PICK c \in Seq(Cells) : c = acc
      BY <2>4
    <3>2. Len(boundaries'[t]) = n + 1
      BY <2>3, <2>4, <2>6
    <3> HIDE DEF n
    <3> QED
      BY <2>3, <2>4, <2>5, <3>1, <3>2
  <2>8. ASSUME mode = "uni", RecordsEverywhere(t)'
        PROVE  StartsOf(accumulateSizes'[t], RealSums(t)', NoiseSums(t)', n + 1)
    <3>1. RecordsEverywhere(t)
      <4>1. \A k \in 1 .. n : k \in 1 .. n + 1 /\ partitionSizes'[t][k] = partitionSizes[t][k]
        BY <2>2, <2>4
      <4>2. DOMAIN partitionSizes[t] = 1 .. n /\ DOMAIN partitionSizes'[t] = 1 .. n + 1
        BY <2>2, <2>4
      <4> HIDE DEF n
      <4> QED
        BY <2>8, <4>1, <4>2 DEF RecordsEverywhere
    <3>2. Accumulate(t) = Entry(R[n], N[n])
      BY <2>8, <3>1, CutEntry
    <3>3. StartsOf(acc, R, N, n)
      BY <2>8, <3>1 DEF AccInv, AccRight
    <3>4. \A k \in 0 .. n : RealSums(t)'[k] = R[k] /\ NoiseSums(t)'[k] = N[k]
      BY <2>2, CutSums
    <3>5. \A k \in 1 .. n + 1 : k - 1 \in 0 .. n /\ (k \in 1 .. n \/ k = n + 1) /\ (k = n + 1 => k - 1 = n)
      BY <2>4
    <3> HIDE DEF n, R, N, acc
    <3> QED
      BY <2>7, <3>2, <3>3, <3>4, <3>5 DEF StartsOf
  <2> QED
    BY <1>2, <2>7, <2>8 DEF AccRight
<1>5. ASSUME NEW t \in {1, 2} PROVE AccRight(t)'
  <2>1. CASE t \in Cutting /\ cut
    BY <1>4, <2>1
  <2>2. CASE t \in Cutting /\ ~cut
    <3>1. Extended(t, cut)
      BY <1>1, <2>2 DEF Scanning
    <3> QED
      BY <1>3, <2>2, <3>1 DEF Extended
  <2>3. CASE t \notin Cutting
    <3>1. Untouched(t)
      BY <1>1, <2>3 DEF Scanning
    <3> QED
      BY <1>3, <3>1 DEF Untouched
  <2> QED
    BY <2>1, <2>2, <2>3
<1> QED
  BY <1>5 DEF AccInv

(* The entries are those of the partitions, whatever step is taken.        *)
LEMMA AccNext == HTreeInv /\ HTreeInv' /\ AccInv /\ [Next]_vars => AccInv'
<1> SUFFICES ASSUME HTreeInv, HTreeInv', AccInv, [Next]_vars PROVE AccInv'
  OBVIOUS
<1>1. CASE ScanKey
  BY <1>1, AccScan
<1>2. ASSUME UNCHANGED <<mode, boundaries, partitionSizes, accumulateSizes>> PROVE AccInv'
  <2>1. \A t \in {1, 2} : /\ RealSums(t)' = RealSums(t) /\ NoiseSums(t)' = NoiseSums(t)
                          /\ (RecordsEverywhere(t)' <=> RecordsEverywhere(t))
    BY <1>2 DEF RealSums, NoiseSums, RecordsEverywhere
  <2> QED
    BY <1>2, <2>1 DEF AccInv, AccRight
<1>3. CASE GetHistBins \/ BackOfEmpty \/ MakeBuckets \/ MoveUni \/ FillInd \/ SliceInd \/ EndInd
  BY <1>2, <1>3 DEF GetHistBins, BackOfEmpty, MakeBuckets, MoveUni, FillInd, SliceInd, EndInd, treeVars, cutVars
<1>4. CASE Query \/ Walk \/ UNCHANGED vars
  BY <1>2, <1>4 DEF Query, Walk, vars, treeVars, cutVars
<1> QED
  BY <1>1, <1>3, <1>4 DEF Next, Build

\* Every row of a part has the offset of the part.
OffsetsOf(off, R, E, n) == \A k \in 1 .. n : \A q \in R[k - 1] + 1 .. R[k] : off[q].second = E[k - 1]

(* The offsets, filled in between the first rows of the partitions.        *)
LEMMA OffsetsFilled ==
  ASSUME HTreeInv, AccInv, pc = "move", mode = "uni", NEW t \in Tables, RecordsEverywhere(t)
  PROVE  /\ OffsetsOf(Offsets(t), RealSums(t), NoiseSums(t), Len(boundaries[t]))
         /\ RealSums(t)[Len(boundaries[t])] = Len(rows[t])
<1> DEFINE n == Len(boundaries[t])
           R == RealSums(t)
           N == NoiseSums(t)
           L == Len(rows[t])
           acc == accumulateSizes[t]
           a == Resize(acc, L, Entry(0, 0))
           E == {a[k] : k \in 1 .. L}
<1>1. t \in {1, 2} /\ Scanned(t) = domainSize
  BY DEF Tables, Scanned
<1>2. SumsTied(t) /\ n \in Nat /\ L \in Nat /\ SumNoise(t) \in Nat /\ SumNoise(t) = N[n]
  BY BucketFacts
<1>3. boundaries[t] # <<>>
  BY BucketsBuilt
<1>4. R[n] = L
  <2>1. NoisySums(t)[n] = Total(t)
    BY <1>1, <1>3, AllRowsCounted DEF HTreeInv
  <2>2. n \in 0 .. n
    BY <1>2
  <2>3. NoisySums(t)[n] = R[n] + N[n] /\ R[n] \in Nat
    BY <1>2, <2>2 DEF SumsTied, SumsUp
  <2>4. Total(t) = L + N[n]
    BY <1>2 DEF Total
  <2>5. PICK x \in Nat, y \in Nat, z \in Nat : x = R[n] /\ y = N[n] /\ z = L
    BY <1>2, <2>3
  <2>6. x + y = z + y
    BY <2>1, <2>3, <2>4, <2>5
  <2> QED
    BY <2>5, <2>6
<1>5. SumsClimb(R, n)
  BY <1>1, RealClimb
<1>6. Len(acc) = n /\ StartsOf(acc, R, N, n)
  BY <1>1 DEF AccInv, AccRight
<1>7. n <= L
  <2>1. 0 \in 0 .. n /\ n \in 0 .. n /\ 0 <= n /\ R[0] = 0
    BY <1>2, <1>5 DEF SumsClimb, SumsUp
  <2>2. R[0] + (n - 0) <= R[n]
    BY <1>5, <2>1, ClimbFast
  <2> QED
    BY <1>2, <1>4, <2>1, <2>2
<1>8. Offsets(t) = Expand(a, None)
  BY DEF Offsets
<1>9. a \in [1 .. L -> E]
  BY DEF Resize
<1>10. \A k \in 1 .. L : a[k] = IF k <= n THEN acc[k] ELSE Entry(0, 0)
  BY <1>6 DEF Resize
<1> HIDE DEF n, R, N, L, acc, a, E
<1>11. ASSUME NEW k \in 1 .. n PROVE a[k].first = R[k - 1] /\ a[k].second = N[k - 1]
  <2>1. k \in 1 .. L /\ k <= n
    BY <1>2, <1>7
  <2>2. a[k] = Entry(R[k - 1], N[k - 1])
    BY <1>6, <1>10, <2>1 DEF StartsOf
  <2> QED
    BY <2>2 DEF Entry
<1>12. ASSUME NEW k \in n + 1 .. L PROVE a[k].first \in Int /\ a[k].first <= 0
  <2>1. k \in 1 .. L /\ ~ (k <= n)
    BY <1>2
  <2>2. a[k].first = 0
    BY <1>10, <2>1 DEF Entry
  <2> QED
    BY <2>2
<1>13. AtStarts(a, R, n, L)
  BY <1>11, <1>12 DEF AtStarts
<1>14. PartsFilled(Expand(a, None), a, R, n)
  BY <1>4, <1>5, <1>9, <1>13, NoneIsEntry, SpreadFilled
<1>15. ASSUME NEW k \in 1 .. n, NEW q \in R[k - 1] + 1 .. R[k]
       PROVE  Offsets(t)[q].second = N[k - 1]
  BY <1>8, <1>11, <1>14 DEF PartsFilled
<1>16. OffsetsOf(Offsets(t), R, N, n)
  BY <1>15 DEF OffsetsOf
<1> QED
  BY <1>4, <1>16 DEF n, R, N, L

(* Rows that move by the sums before their part keep their order, and      *)
(* expand can place them.                                                  *)
LEMMA RowsSpread ==
  ASSUME NEW n, NEW R, SumsUp(R, n), NEW E, SumsUp(E, n), NEW off, OffsetsOf(off, R, E, n)
  PROVE  Spread(Spaced(off, R[n], E[n]), R[n], R[n] + E[n])
<1> DEFINE a == Spaced(off, R[n], E[n])
<1>0. /\ n \in Nat /\ (\A k \in 0 .. n : R[k] \in Nat /\ E[k] \in Nat)
      /\ \A k \in 1 .. n : k - 1 \in 0 .. n /\ k \in 0 .. n /\ k - 1 <= n
  <2>1. n \in Nat /\ \A k \in 0 .. n : R[k] \in Nat /\ E[k] \in Nat
    BY DEF SumsUp
  <2> QED
    BY <2>1
<1>1. PICK L \in Nat, M \in Nat : L = R[n] /\ M = E[n]
  <2>1. n \in 0 .. n
    BY <1>0
  <2> QED
    BY <1>0, <2>1
<1>2. /\ \A q \in 1 .. L : a[q].first = (q - 1) + off[q].second
      /\ \A q \in L + 1 .. L + M : a[q].first = -1
  <2>1. a = Spaced(off, L, M)
    BY <1>1
  <2>2. MovedBy(Spaced(off, L, M), off, L, M)
    BY SpacedNumbers, Zenon
  <2> HIDE DEF a
  <2> QED
    BY <2>1, <2>2 DEF MovedBy
<1> HIDE DEF a
<1>3. ASSUME NEW q \in 1 .. L
      PROVE  \E k \in 1 .. n : q \in R[k - 1] + 1 .. R[k] /\ a[q].first = (q - 1) + E[k - 1]
  <2>1. PICK k \in 1 .. n : q \in R[k - 1] + 1 .. R[k]
    BY <1>1, <1>3, SumsCut
  <2>2. off[q].second = E[k - 1]
    BY <2>1 DEF OffsetsOf
  <2> QED
    BY <1>2, <2>1, <2>2
<1>4. ASSUME NEW q \in 1 .. L PROVE a[q].first \in q - 1 .. (L + M) - 1
  <2>1. PICK k \in 1 .. n : a[q].first = (q - 1) + E[k - 1]
    BY <1>3
  <2>2. E[k - 1] <= E[n] /\ E[k - 1] \in Nat
    <3>1. n \in 0 .. n
      BY <1>0
    <3> QED
      BY <1>0, <3>1, SumsRise
  <2>3. PICK e \in Nat : e = E[k - 1] /\ e <= M
    BY <1>1, <2>2
  <2> QED
    BY <1>1, <2>1, <2>3
<1>5. ASSUME NEW p \in 1 .. L, NEW q \in 1 .. L, p < q PROVE Way(a, p) <= Way(a, q)
  <2>1. PICK k \in 1 .. n : p \in R[k - 1] + 1 .. R[k] /\ a[p].first = (p - 1) + E[k - 1]
    BY <1>3
  <2>2. PICK l \in 1 .. n : q \in R[l - 1] + 1 .. R[l] /\ a[q].first = (q - 1) + E[l - 1]
    BY <1>3
  <2>3. ~ (l < k)
    <3> SUFFICES ASSUME l < k PROVE FALSE
      OBVIOUS
    <3>1. l \in 0 .. n /\ k - 1 \in 0 .. n /\ l <= k - 1
      BY <1>0
    <3>2. R[l] <= R[k - 1]
      BY <3>1, SumsRise
    <3>3. PICK x \in Nat, y \in Nat : x = R[l] /\ y = R[k - 1] /\ x <= y
      BY <1>0, <3>1, <3>2
    <3>4. q <= x /\ p >= y + 1
      BY <2>1, <2>2, <3>3
    <3> QED
      BY <1>5, <3>3, <3>4
  <2>4. k - 1 \in 0 .. n /\ l - 1 \in 0 .. n /\ k - 1 <= l - 1
    BY <1>0, <2>3
  <2>5. E[k - 1] <= E[l - 1]
    BY <2>4, SumsRise
  <2>6. PICK x \in Nat, y \in Nat : x = E[k - 1] /\ y = E[l - 1] /\ x <= y
    BY <1>0, <2>4, <2>5
  <2>7. Way(a, p) = x /\ Way(a, q) = y
    BY <2>1, <2>2, <2>6 DEF Way
  <2> QED
    BY <2>6, <2>7
<1>6. \A q \in L + 1 .. L + M : a[q].first \in Int /\ a[q].first <= 0
  <2>1. -1 \in Int /\ -1 <= 0
    OBVIOUS
  <2> QED
    BY <1>2, <2>1
<1>7. L \in 0 .. L + M
  OBVIOUS
<1> QED
  BY <1>1, <1>4, <1>5, <1>6, <1>7 DEF Spread, a

\* Sums of the records, of the noise and of both.
Together(Y, R, E, n) ==
  /\ SumsUp(Y, n) /\ SumsUp(R, n) /\ SumsUp(E, n)
  /\ \A k \in 0 .. n : Y[k] = R[k] + E[k]

(* A record among the entries of a part is a record of the part.           *)
LEMMA RecordsOfPart ==
  ASSUME NEW n, NEW Y, NEW R, NEW E, Together(Y, R, E, n), NEW off, OffsetsOf(off, R, E, n),
         NEW k \in 1 .. n, NEW r \in 1 .. R[n],
         r \in Part(Place(Spaced(off, R[n], E[n])), Y[k - 1], Y[k] - Y[k - 1])
  PROVE  r \in R[k - 1] + 1 .. R[k]
<1> DEFINE a == Spaced(off, R[n], E[n])
           b == Place(a)
<1>0. SumsUp(Y, n) /\ SumsUp(R, n) /\ SumsUp(E, n) /\ \A l \in 0 .. n : Y[l] = R[l] + E[l]
  BY DEF Together
<1>1. /\ n \in Nat /\ (\A l \in 0 .. n : R[l] \in Nat /\ E[l] \in Nat /\ Y[l] \in Nat)
      /\ \A l \in 1 .. n : l - 1 \in 0 .. n /\ l \in 0 .. n /\ l - 1 <= l /\ l <= n
  <2>1. n \in Nat /\ \A l \in 0 .. n : R[l] \in Nat /\ E[l] \in Nat /\ Y[l] \in Nat
    BY <1>0 DEF SumsUp
  <2> QED
    BY <2>1
<1>2. PICK L \in Nat, M \in Nat, T \in Nat : L = R[n] /\ M = E[n] /\ T = L + M /\ T = Y[n]
  <2>1. n \in 0 .. n
    BY <1>1
  <2> QED
    BY <1>0, <1>1, <2>1
<1>3. Spread(a, L, T)
  BY <1>0, <1>2, RowsSpread
<1>4. /\ \E F : a \in [1 .. T -> F]
      /\ Numbered(a, T) /\ MovedBy(a, off, L, M)
  <2>1. a = Spaced(off, L, M)
    BY <1>2
  <2>2. /\ \E F : Spaced(off, L, M) \in [1 .. L + M -> F]
        /\ Numbered(Spaced(off, L, M), L + M) /\ MovedBy(Spaced(off, L, M), off, L, M)
    BY SpacedNumbers, Zenon
  <2> HIDE DEF a
  <2> QED
    BY <1>2, <2>1, <2>2
<1> HIDE DEF a
<1>5. PICK from : Shuffled(b, a, from, T) /\ Home(a, from, L, T)
  <2>1. PICK F : a \in [1 .. T -> F]
    BY <1>4
  <2> QED
    BY <1>3, <2>1, ItemsPlaced DEF Placed
<1>6. /\ from \in [1 .. T -> 1 .. T] /\ \A p \in 1 .. T : b[p] = a[from[p]]
      /\ \A p \in 1 .. T : from[p] \in 1 .. L => a[from[p]].first = p - 1
  BY <1>5 DEF Shuffled, Home
<1> HIDE DEF b
<1>7. \A p \in 1 .. T : b[p].second = from[p]
  BY <1>4, <1>6 DEF Numbered
<1>8. PICK x \in Nat, y \in Nat : x = Y[k - 1] /\ y = Y[k] /\ y <= T
  <2>1. n \in 0 .. n
    BY <1>1
  <2>2. Y[k] <= Y[n]
    BY <1>0, <1>1, <2>1, SumsRise
  <2> QED
    BY <1>1, <1>2, <2>2
<1>9. PICK d \in 1 .. y - x : r = b[x + d].second
  BY <1>8 DEF Part, b, a
<1>10. PICK q \in 1 .. T : q = x + d /\ q \in x + 1 .. y
  BY <1>8
<1>11. from[q] = r /\ r \in 1 .. L
  BY <1>2, <1>7, <1>9, <1>10
<1>12. a[r].first = q - 1
  BY <1>6, <1>10, <1>11
<1>13. PICK l \in 1 .. n : r \in R[l - 1] + 1 .. R[l]
  BY <1>0, SumsCut
<1>14. a[r].first = (r - 1) + E[l - 1]
  <2>1. a[r].first = (r - 1) + off[r].second
    BY <1>4, <1>11 DEF MovedBy
  <2>2. off[r].second = E[l - 1]
    BY <1>13 DEF OffsetsOf
  <2> QED
    BY <2>1, <2>2
<1>15. q \in Y[l - 1] + 1 .. Y[l]
  <2>1. E[l - 1] <= E[l]
    BY <1>0, <1>1, SumsRise
  <2>2. Y[l - 1] = R[l - 1] + E[l - 1] /\ Y[l] = R[l] + E[l]
    BY <1>0, <1>1
  <2>3. PICK u \in Nat, v \in Nat, e \in Nat, f \in Nat :
          u = R[l - 1] /\ v = R[l] /\ e = E[l - 1] /\ f = E[l] /\ e <= f
    BY <1>1, <2>1
  <2>4. r >= u + 1 /\ r <= v /\ r \in Nat
    BY <1>2, <1>11, <1>13, <2>3
  <2>5. q = r + e
    BY <1>10, <1>12, <1>14, <2>3, <2>4
  <2>6. q \in (u + e) + 1 .. v + f
    BY <2>3, <2>4, <2>5
  <2> QED
    BY <2>2, <2>3, <2>6
<1>16. q \in Y[k - 1] + 1 .. Y[k]
  BY <1>8, <1>10
<1>17. q \in 1 .. Y[n]
  BY <1>2, <1>10
<1>18. PICK m \in 1 .. n : \A o \in 1 .. n : q \in Y[o - 1] + 1 .. Y[o] => o = m
  BY <1>0, <1>17, SumsCut
<1>19. k = m /\ l = m
  BY <1>15, <1>16, <1>18
<1> QED
  BY <1>13, <1>19

(* The rows that the sizes before and up to a partition count have its     *)
(* keys.                                                                   *)
LEMMA RowsOfBucket ==
  ASSUME HTreeInv, pc \in {"move", "slice", "query"}, NEW t \in Tables, NEW k \in 1 .. Len(boundaries[t]),
         NEW r \in 1 .. Len(rows[t]), r \in RealSums(t)[k - 1] + 1 .. RealSums(t)[k]
  PROVE  rows[t][r] \in buckets[t][k].keyMin .. buckets[t][k].keyMax
<1> DEFINE n == Len(boundaries[t])
           s == rows[t]
           b == boundaries[t]
           R == RealSums(t)
<1>1. /\ InDomain(s) /\ n \in Nat /\ RowsCounted(t) /\ SumsTied(t) /\ Len(s) \in Nat
      /\ buckets[t][k].keyMin = keyMin + FirstKey(b, k) /\ buckets[t][k].keyMax = keyMin + b[k]
      /\ buckets[t][k].keyMin \in Int /\ buckets[t][k].keyMax \in Int
  BY BucketFacts
<1>2. b \in Seq(Nat)
  BY BucketsBuilt
<1>3. \A x \in Seq(Nat) : \A l \in 1 .. Len(x) : x[l] \in Nat
  OBVIOUS
<1>4. PICK hi \in Int : hi = b[k]
  BY <1>2, <1>3
<1>5. PICK lo \in Int : lo = FirstKey(b, k)
  <2>1. CASE k = 1
    BY <2>1 DEF FirstKey
  <2>2. CASE k # 1
    <3>1. k - 1 \in 1 .. Len(b)
      BY <1>1, <2>2
    <3>2. b[k - 1] \in Nat
      BY <1>2, <1>3, <3>1
    <3> HIDE DEF b
    <3> QED
      BY <2>2, <3>2 DEF FirstKey
  <2> QED
    BY <2>1, <2>2
<1>6. R[k] = Held(s, keyMin, 0, hi)
  <2>1. k \in 0 .. n /\ k + 1 # 1 /\ (k + 1) - 1 = k
    BY <1>1
  <2>2. R[k] = Held(s, keyMin, 0, FirstKey(b, k + 1) - 1)
    BY <1>1, <2>1 DEF RowsCounted
  <2>3. FirstKey(b, k + 1) = hi + 1
    BY <1>4, <2>1 DEF FirstKey
  <2>4. (hi + 1) - 1 = hi
    OBVIOUS
  <2> QED
    BY <2>2, <2>3, <2>4
<1>7. R[k - 1] = Held(s, keyMin, 0, lo - 1)
  <2>1. k - 1 \in 0 .. n /\ (k - 1) + 1 = k
    BY <1>1
  <2>2. R[k - 1] = Held(s, keyMin, 0, FirstKey(b, (k - 1) + 1) - 1)
    BY <1>1, <2>1 DEF RowsCounted
  <2> QED
    BY <1>5, <2>1, <2>2
<1>8. PICK u \in Nat, v \in Nat : u = R[k - 1] /\ v = R[k] /\ r \in u + 1 .. v
  <2>1. k - 1 \in 0 .. n /\ k \in 0 .. n
    BY <1>1
  <2> QED
    BY <1>1, <2>1 DEF SumsTied, SumsUp
<1>9. Slot(s, r) \in Int /\ Slot(s, r) = s[r] - keyMin /\ s[r] \in Int /\ keyMin \in Int
  BY <1>1, SeqFacts DEF InDomain, Slot
<1>10. Slot(s, r) <= hi
  <2>1. r <= v
    BY <1>8
  <2> QED
    BY <1>1, <1>4, <1>6, <1>8, <2>1, SortedPrefix
<1>11. ~ (Slot(s, r) <= lo - 1)
  <2>1. ~ (r <= u)
    BY <1>8
  <2>2. lo - 1 \in Int
    BY <1>5
  <2> QED
    BY <1>1, <1>7, <1>8, <2>1, <2>2, SortedPrefix
<1>12. s[r] \in keyMin + lo .. keyMin + hi
  BY <1>4, <1>5, <1>9, <1>10, <1>11, SMTT(30)
<1> QED
  BY <1>1, <1>4, <1>5, <1>12

(* moveData of a join cut at the same keys.                                *)
LEMMA UniInPlace ==
  ASSUME HTreeInv, AccInv, pc = "move", mode = "uni", NEW t \in Tables, RecordsEverywhere(t),
         NEW k \in DOMAIN UniContent(t), NEW r \in UniContent(t)[k] \cap DOMAIN rows[t]
  PROVE  rows[t][r] \in buckets[t][k].keyMin .. buckets[t][k].keyMax
<1> DEFINE n == Len(boundaries[t])
           R == RealSums(t)
           E == NoiseSums(t)
           Y == NoisySums(t)
<1>1. /\ DOMAIN buckets[t] = 1 .. n /\ n \in Nat /\ SumsTied(t) /\ InDomain(rows[t])
      /\ Len(rows[t]) \in Nat /\ SumNoise(t) = E[n]
  BY BucketFacts
<1>2. k \in 1 .. n
  BY <1>1 DEF UniContent
<1>3. OffsetsOf(Offsets(t), R, E, n) /\ R[n] = Len(rows[t])
  BY OffsetsFilled
<1>4. r \in 1 .. Len(rows[t])
  BY <1>1, SeqFacts DEF InDomain
<1>5. PartsOf(UniContent(t), Place(Spaced(Offsets(t), R[n], E[n])), Y, n)
  BY <1>1, <1>3, UniParts
<1>6. Together(Y, R, E, n)
  BY <1>1 DEF SumsTied, Together
<1>7. r \in R[k - 1] + 1 .. R[k]
  <2>1. r \in Part(Place(Spaced(Offsets(t), R[n], E[n])), Y[k - 1], Y[k] - Y[k - 1])
    BY <1>2, <1>5 DEF PartsOf
  <2>2. r \in 1 .. R[n]
    BY <1>3, <1>4
  <2> HIDE DEF n, R, E, Y
  <2> QED
    BY <1>2, <1>3, <1>6, <2>1, <2>2, RecordsOfPart
<1> QED
  BY <1>2, <1>4, <1>7, RowsOfBucket

(* The step that fills the buckets of a table.                             *)
LEMMA UniPlaceInv ==
  ASSUME HTreeInv, ContentInv, AccInv, PlaceInv, MoveUni
  PROVE  PlaceInv'
<1>1. UNCHANGED contentVars /\ EndTable /\ pc = "move" /\ mode = "uni"
      /\ content' = [content EXCEPT ![table] = UniContent(table)]
  BY DEF MoveUni, contentVars, treeVars, cutVars, UniContent
<1>2. table \in Tables /\ table \in {1, 2} /\ DOMAIN content = {1, 2}
  BY DomainFacts DEF HTreeInv, PcInv, ContentInv
<1>3. content'[table] = UniContent(table) /\ \A t \in {1, 2} : t # table => content'[t] = content[t]
  BY <1>1, <1>2
<1>4. mode' = mode /\ rows' = rows /\ buckets' = buckets /\ partitionSizes' = partitionSizes
  BY <1>1 DEF contentVars
<1>5. ASSUME NEW t \in Tables, t = table PROVE InPlaceIf(t)'
  <2>1. ASSUME RecordsEverywhere(t), NEW k \in DOMAIN content'[t],
               NEW r \in content'[t][k] \cap DOMAIN rows[t]
        PROVE  rows[t][r] \in buckets[t][k].keyMin .. buckets[t][k].keyMax
    <3>1. k \in DOMAIN UniContent(t) /\ r \in UniContent(t)[k] \cap DOMAIN rows[t]
      BY <1>3, <1>5, <2>1
    <3> QED
      BY <1>1, <2>1, <3>1, UniInPlace
  <2>2. RecordsEverywhere(t)' <=> RecordsEverywhere(t)
    BY <1>4 DEF RecordsEverywhere
  <2> QED
    BY <1>1, <1>4, <2>1, <2>2 DEF InPlaceIf, InPlace
<1>6. ASSUME NEW t \in Tables', Filled(t)' PROVE InPlaceIf(t)'
  <2>1. t \in Tables /\ t \in {1, 2}
    BY <1>1, <1>6, TotalsStay DEF Tables, contentVars
  <2>2. CASE t = table
    BY <1>5, <2>1, <2>2
  <2>3. CASE t # table
    <3>1. Filled(t)
      BY <1>1, <1>6, <2>1, <2>3, FilledNext
    <3>2. InPlaceIf(t) /\ content'[t] = content[t]
      BY <1>3, <2>1, <2>3, <3>1 DEF PlaceInv
    <3> QED
      BY <1>1, <3>2, PlaceFrame
  <2> QED
    BY <2>2, <2>3
<1>7. pc' # "slice"
  BY <1>1 DEF EndTable
<1> QED
  BY <1>6, <1>7 DEF PlaceInv

(* Every step leaves the records of a finished table in their buckets.     *)
LEMMA PlaceNext == HTreeInv /\ ContentInv /\ AccInv /\ PlaceInv /\ [Next]_vars => PlaceInv'
<1> SUFFICES ASSUME HTreeInv, ContentInv, AccInv, PlaceInv, [Next]_vars PROVE PlaceInv'
  OBVIOUS
<1>1. CASE Build
  BY <1>1, NotPlacedYet, UniPlaceInv, FillPlaceInv, SlicePlaceInv, EndPlaceInv DEF Build
<1>2. CASE Query
  <2>1. UNCHANGED contentVars /\ UNCHANGED <<moveVars, table, pc>>
    BY <1>2 DEF Query, StartWalk, contentVars, treeVars, cutVars
  <2> QED
    BY <2>1, PlaceStays
<1>3. CASE Walk
  <2>1. UNCHANGED buckets
    BY <1>3 DEF Walk, CrossProduct, Skip, MeasurePair, JoinPair, EndPass
  <2>2. UNCHANGED contentVars /\ UNCHANGED <<moveVars, table, pc>>
    BY <1>3, <2>1 DEF Walk, contentVars, treeVars, cutVars
  <2> QED
    BY <2>2, PlaceStays
<1>4. CASE UNCHANGED vars
  <2>1. UNCHANGED contentVars /\ UNCHANGED <<moveVars, table, pc>>
    BY <1>4 DEF vars, contentVars, treeVars, cutVars
  <2> QED
    BY <2>1, PlaceStays
<1> QED
  BY <1>1, <1>2, <1>3, <1>4 DEF Next

(* A record is in the bucket whose keys include its own: where no          *)
(* partition of the table is empty, when both tables are cut at the same   *)
(* keys; where every bucket has a dummy, when each is cut for itself.      *)
THEOREM RecordsAreInPlace == Spec => []RecordsInTheirBucket
<1>1. Init => ContentInv /\ AccInv /\ PlaceInv
  <2> SUFFICES ASSUME Init PROVE ContentInv /\ AccInv /\ PlaceInv
    OBVIOUS
  <2>1. pc = "hist" /\ DOMAIN content = {1, 2}
    BY DEF Init
  <2>2. ContentInv /\ PlaceInv
    BY <2>1 DEF ContentInv, PlaceInv, Filled
  <2>3. ASSUME NEW t \in {1, 2} PROVE AccRight(t)
    <3>1. boundaries[t] = <<>> /\ accumulateSizes[t] = <<>>
      BY DEF Init
    <3>2. Len(boundaries[t]) = 0 /\ 1 .. 0 = {}
      BY <3>1
    <3> QED
      BY <3>1, <3>2 DEF AccRight, StartsOf
  <2> QED
    BY <2>2, <2>3 DEF AccInv
<1>2. PlaceInv => RecordsInTheirBucket
  BY DEF PlaceInv, InPlaceIf, RecordsInTheirBucket, RecordsEverywhere, NoiseEverywhere
<1> QED
  BY <1>1, <1>2, ContentNext, AccNext, PlaceNext, TreeInvariant, PTL DEF Spec
=============================================================================
