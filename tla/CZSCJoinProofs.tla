--------------------------- MODULE CZSCJoinProofs ---------------------------
(***************************************************************************)
(* The join by bins of keys is correct for tables, noise and bins of every *)
(* number and size.  Every key has one entry and one bin, the same for     *)
(* both tables; bins hold no more records than they are padded to; the     *)
(* dummies of every bin are spread to a place of their own; and the rows,  *)
(* sorted by bin, are taken off bin by bin.                                *)
(***************************************************************************)
EXTENDS CZSCJoin, BlockProofs, FiniteSetTheorems

-----------------------------------------------------------------------------
(* Sorting by a comparison.  The orders in which n rows may be.            *)
Orders(n) ==
  {f \in [1 .. n -> 1 .. n] :
     /\ \A p, q \in 1 .. n : f[p] = f[q] => p = q
     /\ \A a \in 1 .. n : \E p \in 1 .. n : f[p] = a}

\* A comparison follows the ranks of the rows.
Follows(before, rank, n) ==
  \A a, b \in 1 .. n : IF before[a][b] THEN rank[a] <= rank[b] ELSE rank[b] <= rank[a]

\* The ranks in an order.
RanksIn(order, rank, n) == [p \in 1 .. n |-> rank[order[p]]]

(* An exchange of two places is an order again.                            *)
LEMMA ExchangeOrders ==
  ASSUME NEW n \in Nat, NEW order \in Orders(n), NEW a \in 1 .. n, NEW b \in 1 .. n, a # b
  PROVE  LET y == Exchange(order, a, b)
         IN  /\ y \in Orders(n)
             /\ y[a] = order[b] /\ y[b] = order[a]
             /\ \A p \in 1 .. n : p # a /\ p # b => y[p] = order[p]
<1> DEFINE y == Exchange(order, a, b)
           D == 1 .. n
<1>1. /\ order \in [D -> D] /\ a \in D /\ b \in D
      /\ \A p, q \in D : p # q => order[p] # order[q]
      /\ \A z \in D : \E p \in D : order[p] = z
  BY DEF Orders
<1> SUFFICES /\ y \in [D -> D]
             /\ \A p, q \in D : y[p] = y[q] => p = q
             /\ \A z \in D : \E p \in D : y[p] = z
             /\ y[a] = order[b] /\ y[b] = order[a]
             /\ \A p \in D : p # a /\ p # b => y[p] = order[p]
  BY DEF Orders
<1> HIDE DEF D
<1>2. /\ y \in [D -> D] /\ y[a] = order[b] /\ y[b] = order[a]
      /\ \A p \in D : p # a /\ p # b => y[p] = order[p]
  BY <1>1 DEF Exchange
<1> HIDE DEF y
<1>3. ASSUME NEW p \in D, NEW q \in D, y[p] = y[q]
      PROVE  p = q
  <2> DEFINE from == [x \in D |-> IF x = a THEN b ELSE IF x = b THEN a ELSE x]
  <2>1. \A x \in D : from[x] \in D /\ y[x] = order[from[x]]
    BY <1>1, <1>2
  <2>2. from[p] = from[q]
    <3> HIDE DEF from
    <3>1. from[p] \in D /\ from[q] \in D /\ order[from[p]] = order[from[q]]
      BY <1>3, <2>1
    <3>2. \A u, v \in D : u # v => order[u] # order[v]
      BY <1>1
    <3> QED
      BY <3>1, <3>2
  <2> QED
    BY <2>2
<1>4. ASSUME NEW z \in D PROVE \E p \in D : y[p] = z
  <2>1. PICK p \in D : order[p] = z
    BY <1>1
  <2>2. CASE p = a
    BY <1>1, <1>2, <2>1, <2>2
  <2>3. CASE p = b
    BY <1>1, <1>2, <2>1, <2>3
  <2>4. CASE p # a /\ p # b
    BY <1>2, <2>1, <2>4
  <2> QED
    BY <2>2, <2>3, <2>4
<1> QED
  BY <1>2, <1>3, <1>4

(* An exchange puts the row of the smaller rank first.                     *)
LEMMA ExchangedOrder ==
  ASSUME NEW n \in Nat, NEW order \in Orders(n), NEW c \in Nat \X Nat, c[1] < c[2],
         NEW rank \in [1 .. n -> Int], NEW before, Follows(before, rank, n),
         NEW y, y = CompareAndSwap(order, c, before)
  PROVE  /\ y \in Orders(n)
         /\ ExchangedRanks(RanksIn(order, rank, n), c, RanksIn(y, rank, n), n)
<1> DEFINE u == RanksIn(order, rank, n)
           w == RanksIn(y, rank, n)
<1>1. /\ order \in [1 .. n -> 1 .. n]
      /\ \A p, q \in 1 .. n : order[p] = order[q] => p = q
      /\ \A a \in 1 .. n : \E p \in 1 .. n : order[p] = a
  BY DEF Orders
<1>2. Len(order) = n
  BY <1>1
<1>3. PICK a \in Nat, b \in Nat : a = c[1] + 1 /\ b = c[2] + 1 /\ a < b /\ a >= 1
  OBVIOUS
<1>4. CASE c[2] >= n
  <2>1. y = order
    BY <1>2, <1>4 DEF CompareAndSwap
  <2> QED
    BY <1>4, <2>1 DEF ExchangedRanks, RanksIn
<1>5. CASE c[2] < n
  <2>1. a \in 1 .. n /\ b \in 1 .. n /\ order[a] \in 1 .. n /\ order[b] \in 1 .. n
    BY <1>1, <1>3, <1>5
  <2>2. u[a] = rank[order[a]] /\ u[b] = rank[order[b]] /\ u[a] \in Int /\ u[b] \in Int
    BY <2>1 DEF RanksIn
  <2>3. CASE before[order[a]][order[b]]
    <3>1. y = order
      BY <1>3, <2>3 DEF CompareAndSwap
    <3>2. rank[order[a]] <= rank[order[b]]
      BY <2>1, <2>3 DEF Follows
    <3>3. SmallerFirst(u, w, a, b)
      BY <2>2, <3>1, <3>2 DEF SmallerFirst
    <3>4. ExchangedRanks(u, c, w, n)
      BY <1>3, <3>1, <3>3 DEF ExchangedRanks
    <3> QED
      BY <3>1, <3>4
  <2>4. CASE ~before[order[a]][order[b]]
    <3>1. y = Exchange(order, a, b)
      BY <1>2, <1>3, <1>5, <2>4 DEF CompareAndSwap
    <3>2. /\ y \in Orders(n) /\ y[a] = order[b] /\ y[b] = order[a]
          /\ \A p \in 1 .. n : p # a /\ p # b => y[p] = order[p]
      <4>1. a # b /\ n \in Nat /\ order \in Orders(n)
        BY <1>3
      <4>2. LET z == Exchange(order, a, b)
            IN  /\ z \in Orders(n) /\ z[a] = order[b] /\ z[b] = order[a]
                /\ \A p \in 1 .. n : p # a /\ p # b => z[p] = order[p]
        BY <2>1, <4>1, ExchangeOrders
      <4> QED
        BY <3>1, <4>2
    <3>6. rank[order[b]] <= rank[order[a]]
      BY <2>1, <2>4 DEF Follows
    <3>7. w[a] = u[b] /\ w[b] = u[a] /\ \A p \in 1 .. n : p # a /\ p # b => w[p] = u[p]
      BY <2>1, <3>2 DEF RanksIn
    <3>8. SmallerFirst(u, w, a, b)
      <4> HIDE DEF u, w
      <4>1. u[b] <= u[a]
        BY <2>2, <3>6
      <4> QED
        BY <2>2, <3>7, <4>1 DEF SmallerFirst
    <3>9. ExchangedRanks(u, c, w, n)
      <4> HIDE DEF u, w
      <4> QED
        BY <1>3, <1>5, <3>7, <3>8 DEF ExchangedRanks
    <3> QED
      BY <3>2, <3>9
  <2> QED
    BY <2>3, <2>4
<1> QED
  BY <1>4, <1>5

(* The orders after each of the exchanges exist.                           *)
LEMMA ExchangesAre ==
  ASSUME NEW n \in Nat, NEW before, NEW net, Ascending(net)
  PROVE  /\ \A k \in 0 .. Len(net) : Exchanges(n, before, net)[k] \in Orders(n)
         /\ \A k \in 1 .. Len(net) :
              Exchanges(n, before, net)[k] = CompareAndSwap(Exchanges(n, before, net)[k - 1], net[k], before)
<1> DEFINE X == Orders(n)
           C == [p \in 1 .. n |-> p]
           S == [k \in 1 .. Len(net) |-> [x \in X |-> CompareAndSwap(x, net[k], before)]]
           After(g) == g = [k \in 0 .. Len(net) |->
                              IF k = 0 THEN [p \in 1 .. n |-> p] ELSE CompareAndSwap(g[k - 1], net[k], before)]
<1>1. Len(net) \in Nat /\ \A k \in 1 .. Len(net) : net[k] \in Nat \X Nat /\ net[k][1] < net[k][2]
  BY DEF Ascending, Nets
<1>2. ASSUME NEW x \in X, NEW k \in 1 .. Len(net) PROVE CompareAndSwap(x, net[k], before) \in X
  <2> DEFINE a == net[k][1] + 1
             b == net[k][2] + 1
  <2>1. x \in [1 .. n -> 1 .. n] /\ Len(x) = n
    BY DEF Orders
  <2>2. CASE CompareAndSwap(x, net[k], before) = x
    BY <2>2
  <2>3. CASE CompareAndSwap(x, net[k], before) # x
    <3>1. ~ (net[k][2] >= n) /\ CompareAndSwap(x, net[k], before) = Exchange(x, a, b)
      BY <2>1, <2>3 DEF CompareAndSwap
    <3>2. a \in 1 .. n /\ b \in 1 .. n /\ a # b
      BY <1>1, <3>1
    <3> HIDE DEF a, b
    <3>3. Exchange(x, a, b) \in Orders(n)
      BY <3>2, ExchangeOrders
    <3> QED
      BY <3>1, <3>3
  <2> QED
    BY <2>2, <2>3
<1>3. S \in [1 .. Len(net) -> [X -> X]]
  <2> HIDE DEF X
  <2> QED
    BY <1>2
<1>4. C \in X
  BY DEF Orders
<1>5. PICK f \in [0 .. Len(net) -> X] :
        \A k \in 0 .. Len(net) : f[k] = IF k = 0 THEN C ELSE S[k][f[k - 1]]
  <2> HIDE DEF X, C, S
  <2>1. HasFirstValues(X, C, S, Len(net))
    BY <1>1, <1>3, <1>4, BoundedRecursion
  <2> QED
    BY <2>1 DEF HasFirstValues
<1>6. ASSUME NEW k \in 1 .. Len(net) PROVE f[k] = CompareAndSwap(f[k - 1], net[k], before)
  <2>1. k \in 0 .. Len(net) /\ k # 0 /\ k - 1 \in 0 .. Len(net)
    BY <1>1
  <2>2. f[k] = S[k][f[k - 1]] /\ f[k - 1] \in X
    BY <1>5, <2>1
  <2> HIDE DEF X
  <2> QED
    BY <2>2
<1>7. After(f)
  <2>1. ASSUME NEW k \in 0 .. Len(net)
        PROVE  f[k] = IF k = 0 THEN [p \in 1 .. n |-> p] ELSE CompareAndSwap(f[k - 1], net[k], before)
    <3>1. CASE k = 0
      BY <1>5, <3>1
    <3>2. CASE k # 0
      <4>1. k \in 1 .. Len(net)
        BY <1>1, <3>2
      <4> QED
        BY <1>6, <3>2, <4>1
    <3> QED
      BY <3>1, <3>2
  <2>2. f = [k \in 0 .. Len(net) |-> f[k]]
    OBVIOUS
  <2> QED
    BY <2>1, <2>2
<1> DEFINE after == Exchanges(n, before, net)
<1>8. After(after)
  <2>1. after = CHOOSE h : After(h)
    BY DEF Exchanges
  <2> HIDE DEF After, after
  <2> QED
    BY <1>7, <2>1
<1> HIDE DEF after
<1>9. /\ after[0] = C
      /\ \A k \in 1 .. Len(net) : after[k] = CompareAndSwap(after[k - 1], net[k], before)
  <2>1. 0 \in 0 .. Len(net) /\ \A k \in 1 .. Len(net) : k \in 0 .. Len(net) /\ k # 0
    BY <1>1
  <2> QED
    BY <1>8, <2>1
<1>10. \A k \in 0 .. Len(net) : after[k] \in X
  <2> DEFINE W == {k \in Nat : k <= Len(net) /\ after[k] \notin X}
  <2> SUFFICES ASSUME W # {} PROVE FALSE
    BY <1>1
  <2> HIDE DEF X, C
  <2>1. PICK k \in W : \A m \in 0 .. k - 1 : m \notin W
    BY LeastNumber
  <2>2. CASE k = 0
    BY <1>4, <1>9, <2>2
  <2>3. CASE k # 0
    <3>1. k \in 1 .. Len(net) /\ k - 1 \in 0 .. k - 1 /\ k - 1 \in Nat /\ k - 1 <= Len(net)
      BY <1>1, <2>3
    <3>2. after[k - 1] \in X
      BY <2>1, <3>1
    <3> QED
      BY <1>2, <1>9, <3>1, <3>2
  <2> QED
    BY <2>2, <2>3
<1> QED
  BY <1>9, <1>10 DEF after

\* list in an order of its places.
InOrder(sorted, list, order) ==
  /\ order \in Orders(Len(list))
  /\ sorted = [p \in 1 .. Len(list) |-> list[order[p]]]

(* Whatever the comparison, the network leaves a rearrangement.            *)
LEMMA SortedOrder ==
  ASSUME NEW list, Len(list) \in Nat, NEW before
  PROVE  \E order : InOrder(Sorted(list, before), list, order)
<1> DEFINE n == Len(list)
           net == ObliSort(n)
<1>1. Ascending(net)
  BY UpperFacts, SortAscending DEF ObliSort
<1>2. Len(net) \in 0 .. Len(net)
  BY <1>1 DEF Ascending, Nets
<1>3. Exchanges(n, before, net)[Len(net)] \in Orders(n)
  BY <1>1, <1>2, ExchangesAre
<1> QED
  BY <1>3 DEF Sorted, InOrder

(* A comparison that follows the ranks leaves them in ascending order.     *)
LEMMA SortedRanks ==
  ASSUME NEW list, Len(list) \in Nat, NEW before, NEW rank \in [1 .. Len(list) -> Int],
         Follows(before, rank, Len(list))
  PROVE  \E order : /\ InOrder(Sorted(list, before), list, order)
                    /\ \A p, q \in 1 .. Len(list) : p < q => rank[order[p]] <= rank[order[q]]
<1> DEFINE n == Len(list)
           net == ObliSort(n)
           L == Len(ObliSort(n))
           after == Exchanges(n, before, ObliSort(n))
           h == [k \in 0 .. L |-> RanksIn(after[k], rank, n)]
<1>1. Ascending(net)
  BY UpperFacts, SortAscending DEF ObliSort
<1>2. /\ \A k \in 0 .. L : after[k] \in Orders(n)
      /\ \A k \in 1 .. L : after[k] = CompareAndSwap(after[k - 1], net[k], before)
  BY <1>1, ExchangesAre
<1>3. L \in Nat /\ \A k \in 1 .. L : net[k] \in Nat \X Nat /\ net[k][1] < net[k][2]
  BY <1>1 DEF Ascending, Nets
<1>4. L \in 0 .. L
  BY <1>3
<1>5. InOrder(Sorted(list, before), list, after[L])
  BY <1>2, <1>4 DEF Sorted, InOrder
<1> HIDE DEF after
<1>6. ASSUME NEW k \in 0 .. L PROVE RanksIn(after[k], rank, n) \in [1 .. n -> Int]
  <2>1. after[k] \in [1 .. n -> 1 .. n]
    BY <1>2 DEF Orders
  <2>2. \A p \in 1 .. n : rank[after[k][p]] \in Int
    BY <2>1
  <2> QED
    BY <2>2 DEF RanksIn
<1>7. h \in [0 .. L -> [1 .. n -> Int]]
  BY <1>6
<1>8. ASSUME NEW k \in 1 .. L PROVE ExchangedRanks(h[k - 1], net[k], h[k], n)
  <2>1. k \in 0 .. L /\ k - 1 \in 0 .. L
    BY <1>3
  <2>2. ExchangedRanks(RanksIn(after[k - 1], rank, n), net[k], RanksIn(after[k], rank, n), n)
    <3>1. after[k - 1] \in Orders(n) /\ after[k] = CompareAndSwap(after[k - 1], net[k], before)
      BY <1>2, <2>1
    <3>2. net[k] \in Nat \X Nat /\ net[k][1] < net[k][2]
      BY <1>3
    <3> HIDE DEF net, L
    <3> QED
      BY <3>1, <3>2, ExchangedOrder
  <2> QED
    BY <2>1, <2>2
<1>9. ASSUME NEW p \in 1 .. n, NEW q \in 1 .. n, p < q PROVE h[L][p] <= h[L][q]
  <2> HIDE DEF h
  <2> QED
    BY <1>7, <1>8, <1>9, NetworkSorts
<1>10. \A p \in 1 .. n : h[L][p] = rank[after[L][p]]
  BY <1>4 DEF RanksIn
<1> QED
  BY <1>5, <1>9, <1>10

-----------------------------------------------------------------------------
(* The tables and their keys.                                              *)
TablesOK == tables \in Inputs

LEMMA TableFacts ==
  ASSUME TablesOK
  PROVE  /\ \A t \in {1, 2} : /\ tables[t] \in Seq(KeyValue \X KeyValue)
                              /\ Len(tables[t]) \in Nat /\ DOMAIN tables[t] = 1 .. Len(tables[t])
                              /\ \A r \in 1 .. Len(tables[t]) :
                                   tables[t][r] \in KeyValue \X KeyValue /\ tables[t][r] \in AllKeys
         /\ NumRows(tables) = Len(tables[1]) + Len(tables[2])
         /\ NumRows(tables) \in Nat \ {0}
         /\ \A key \in AllKeys : \E t \in {1, 2} : \E r \in 1 .. Len(tables[t]) : tables[t][r] = key
         /\ AllKeys \subseteq KeyValue \X KeyValue
         /\ DummyKey \notin AllKeys
         /\ AllKeys \cup {DummyKey} \subseteq Int \X Int
<1>1. tables \in Seq(KeyValue \X KeyValue) \X Seq(KeyValue \X KeyValue) /\ NumRows(tables) > 0
  BY CZSCAssumption DEF TablesOK
<1>2. ASSUME NEW t \in {1, 2}
      PROVE  /\ tables[t] \in Seq(KeyValue \X KeyValue)
             /\ Len(tables[t]) \in Nat /\ DOMAIN tables[t] = 1 .. Len(tables[t])
             /\ \A r \in 1 .. Len(tables[t]) : tables[t][r] \in KeyValue \X KeyValue
  <2> DEFINE D == KeyValue \X KeyValue
  <2>1. tables[t] \in Seq(D)
    BY <1>1
  <2> HIDE DEF D
  <2> QED
    BY <2>1 DEF D
<1>3. AllKeys = {tables[1][r] : r \in 1 .. Len(tables[1])} \cup {tables[2][r] : r \in 1 .. Len(tables[2])}
  BY <1>2 DEF AllKeys, Range
<1>4. NumRows(tables) = Len(tables[1]) + Len(tables[2]) /\ NumRows(tables) \in Nat \ {0}
  BY <1>1, <1>2 DEF NumRows
<1>5. AllKeys \subseteq KeyValue \X KeyValue
  BY <1>2, <1>3
<1>6. DummyKey \notin KeyValue \X KeyValue /\ DummyKey \in Int \X Int
  BY DEF DummyKey, KeyValue, IntMin
<1>7. KeyValue \X KeyValue \subseteq Int \X Int
  BY DEF KeyValue
<1>8. \A key \in AllKeys : \E t \in {1, 2} : \E r \in 1 .. Len(tables[t]) : tables[t][r] = key
  BY <1>3
<1>9. \A t \in {1, 2} : \A r \in 1 .. Len(tables[t]) : tables[t][r] \in AllKeys
  BY <1>3
<1> QED
  BY <1>2, <1>4, <1>5, <1>6, <1>7, <1>8, <1>9

(* The keys are in a total order.                                          *)
LEMMA KeyOrderTotal ==
  ASSUME NEW k1 \in KeyValue \X KeyValue, NEW k2 \in KeyValue \X KeyValue
  PROVE  /\ k1 # k2 => KeyOrder(k1, k2) \/ KeyOrder(k2, k1)
         /\ ~ KeyOrder(k1, k1)
         /\ \A k \in KeyValue \X KeyValue : KeyOrder(k1, k2) /\ ~ KeyOrder(k1, k) => ~ KeyOrder(k2, k)
BY DEF KeyOrder, KeyValue

\* The rows of a table that are sorted before the end of a key.
Upto(t, key) == {r \in DOMAIN tables[t] : ~KeyOrder(key, tables[t][r])}

(* They are finitely many.                                                 *)
LEMMA UptoFinite ==
  ASSUME TablesOK, NEW t \in {1, 2}, NEW T \in SUBSET (DOMAIN tables[t])
  PROVE  IsFiniteSet(T) /\ Cardinality(T) \in 0 .. Len(tables[t])
<1>1. Len(tables[t]) \in Nat /\ DOMAIN tables[t] = 1 .. Len(tables[t])
  BY TableFacts
<1>2. IsFiniteSet(1 .. Len(tables[t])) /\ Cardinality(1 .. Len(tables[t])) = Len(tables[t])
  BY <1>1, FS_Interval
<1>3. IsFiniteSet(T) /\ Cardinality(T) <= Len(tables[t])
  BY <1>1, <1>2, FS_Subset
<1> QED
  BY <1>1, <1>3, FS_CardinalityType

(* The place of the last row of a key, different for different keys.       *)
LEMMA RowsUptoFacts ==
  ASSUME TablesOK
  PROVE  /\ \A key \in AllKeys : RowsUpto(key) \in 1 .. NumRows(tables)
         /\ \A k1, k2 \in AllKeys : RowsUpto(k1) = RowsUpto(k2) => k1 = k2
<1>1. \A key : RowsUpto(key) = Cardinality(Upto(1, key)) + Cardinality(Upto(2, key))
  BY DEF RowsUpto, Upto
<1>2. \A t \in {1, 2} : \A key : /\ IsFiniteSet(Upto(t, key))
                                 /\ Cardinality(Upto(t, key)) \in 0 .. Len(tables[t])
  BY UptoFinite DEF Upto
<1>3. /\ Len(tables[1]) \in Nat /\ Len(tables[2]) \in Nat
      /\ NumRows(tables) = Len(tables[1]) + Len(tables[2])
  BY TableFacts
<1>4. ASSUME NEW key \in AllKeys PROVE RowsUpto(key) \in 1 .. NumRows(tables)
  <2>1. PICK t \in {1, 2} : \E r \in 1 .. Len(tables[t]) : tables[t][r] = key
    BY TableFacts
  <2>2. key \in KeyValue \X KeyValue /\ DOMAIN tables[t] = 1 .. Len(tables[t])
    BY TableFacts
  <2>3. Upto(t, key) # {}
    BY <2>1, <2>2, KeyOrderTotal DEF Upto
  <2>4. Cardinality(Upto(t, key)) # 0
    BY <1>2, <2>3, FS_EmptySet
  <2>5. PICK x \in Nat, y \in Nat : x = Cardinality(Upto(1, key)) /\ y = Cardinality(Upto(2, key))
    BY <1>2, <1>3
  <2>6. x <= Len(tables[1]) /\ y <= Len(tables[2]) /\ (x # 0 \/ y # 0)
    BY <1>2, <1>3, <2>4, <2>5
  <2>7. RowsUpto(key) = x + y
    BY <1>1, <2>5
  <2>8. PICK p \in Nat, q \in Nat : p = Len(tables[1]) /\ q = Len(tables[2]) /\ x <= p /\ y <= q /\ (x # 0 \/ y # 0)
    BY <1>3, <2>6
  <2>9. x + y \in 1 .. p + q
    <3>1. x <= p /\ y <= q /\ x + y >= 1
      BY <2>8
    <3> QED
      BY <3>1
  <2> QED
    BY <1>3, <2>7, <2>8, <2>9
<1>5. ASSUME NEW k1 \in AllKeys, NEW k2 \in AllKeys, KeyOrder(k1, k2)
      PROVE  RowsUpto(k1) < RowsUpto(k2)
  <2>1. k1 \in KeyValue \X KeyValue /\ k2 \in KeyValue \X KeyValue
    BY TableFacts
  <2>2. ASSUME NEW t \in {1, 2}
        PROVE  Upto(t, k1) \subseteq Upto(t, k2) /\ Cardinality(Upto(t, k1)) <= Cardinality(Upto(t, k2))
    <3>1. \A r \in DOMAIN tables[t] : tables[t][r] \in KeyValue \X KeyValue
      BY TableFacts
    <3>2. \A r \in DOMAIN tables[t] : ~KeyOrder(k1, tables[t][r]) => ~KeyOrder(k2, tables[t][r])
      BY <1>5, <2>1, <3>1, KeyOrderTotal
    <3>3. Upto(t, k1) \subseteq Upto(t, k2)
      BY <3>2 DEF Upto
    <3> QED
      BY <1>2, <3>3, FS_Subset
  <2>3. PICK t \in {1, 2} : \E r \in 1 .. Len(tables[t]) : tables[t][r] = k2
    BY TableFacts
  <2>4. PICK r \in DOMAIN tables[t] : tables[t][r] = k2
    BY <2>3, TableFacts
  <2>5. r \in Upto(t, k2) /\ r \notin Upto(t, k1)
    BY <1>5, <2>1, <2>4, KeyOrderTotal DEF Upto
  <2>6. Cardinality(Upto(t, k1)) # Cardinality(Upto(t, k2))
    BY <1>2, <2>2, <2>5, FS_Subset
  <2>7. /\ Cardinality(Upto(1, k1)) <= Cardinality(Upto(1, k2))
        /\ Cardinality(Upto(2, k1)) <= Cardinality(Upto(2, k2))
        /\ \/ Cardinality(Upto(1, k1)) # Cardinality(Upto(1, k2))
           \/ Cardinality(Upto(2, k1)) # Cardinality(Upto(2, k2))
    BY <2>2, <2>6
  <2>8. /\ Cardinality(Upto(1, k1)) \in Nat /\ Cardinality(Upto(1, k2)) \in Nat
        /\ Cardinality(Upto(2, k1)) \in Nat /\ Cardinality(Upto(2, k2)) \in Nat
    BY <1>2, <1>3
  <2>9. PICK x1 \in Nat, x2 \in Nat, y1 \in Nat, y2 \in Nat :
          /\ x1 = Cardinality(Upto(1, k1)) /\ x2 = Cardinality(Upto(1, k2))
          /\ y1 = Cardinality(Upto(2, k1)) /\ y2 = Cardinality(Upto(2, k2))
    BY <2>8
  <2>10. x1 <= x2 /\ y1 <= y2 /\ (x1 # x2 \/ y1 # y2)
    BY <2>7, <2>9
  <2>11. RowsUpto(k1) = x1 + y1 /\ RowsUpto(k2) = x2 + y2
    BY <1>1, <2>9
  <2> QED
    BY <2>10, <2>11
<1>6. ASSUME NEW k1 \in AllKeys, NEW k2 \in AllKeys, RowsUpto(k1) = RowsUpto(k2)
      PROVE  k1 = k2
  <2>1. k1 \in KeyValue \X KeyValue /\ k2 \in KeyValue \X KeyValue
    BY TableFacts
  <2>2. RowsUpto(k1) \in Int /\ RowsUpto(k2) \in Int
    BY <1>4
  <2>3. ~ KeyOrder(k1, k2) /\ ~ KeyOrder(k2, k1)
    BY <1>5, <1>6, <2>2
  <2> QED
    BY <2>1, <2>3, KeyOrderTotal
<1> QED
  BY <1>4, <1>6

-----------------------------------------------------------------------------
Counts == [t \in {1, 2} |-> [key \in AllKeys |-> Count(t, key)]]

(* The list of keys: every key has one entry, with its counts, and the     *)
(* others are of no key and count nothing.                                 *)
Listed(list, n) ==
  /\ \A k \in 1 .. n : IF list[k].key \in AllKeys
                       THEN \A t \in {1, 2} : list[k].count[t] = Counts[t][list[k].key]
                       ELSE list[k].key = DummyKey /\ list[k].count = Both(0)
  /\ \A key \in AllKeys : \E k \in 1 .. n : list[k].key = key
  /\ \A k, l \in 1 .. n : list[k].key \in AllKeys /\ list[k].key = list[l].key => k = l

KeyEntry == [key : Int \X Int, count : [{1, 2} -> Nat], noise : NoisePairs, bin : Int]

(* So it is before it is sorted.                                           *)
LEMMA UnsortedListed ==
  ASSUME TablesOK
  PROVE  /\ Unsorted \in [1 .. NumRows(tables) -> [key : Int \X Int, count : [{1, 2} -> Nat]]]
         /\ Listed(Unsorted, NumRows(tables))
<1> DEFINE n == NumRows(tables)
           EndsAt(k) == \E key \in AllKeys : RowsUpto(key) = k
           LastKey(k) == CHOOSE key \in AllKeys : RowsUpto(key) = k
<1>1. /\ \A key \in AllKeys : RowsUpto(key) \in 1 .. n
      /\ \A k1, k2 \in AllKeys : RowsUpto(k1) = RowsUpto(k2) => k1 = k2
  BY RowsUptoFacts
<1>2. AllKeys \cup {DummyKey} \subseteq Int \X Int /\ DummyKey \notin AllKeys
  BY TableFacts
<1>3. \A k \in 1 .. n : EndsAt(k) => LastKey(k) \in AllKeys /\ RowsUpto(LastKey(k)) = k
  OBVIOUS
<1>4. \A key : [t \in {1, 2} |-> Count(t, key)] \in [{1, 2} -> Nat]
  <2> SUFFICES ASSUME NEW key, NEW t \in {1, 2} PROVE Count(t, key) \in Nat
    OBVIOUS
  <2>1. {r \in DOMAIN tables[t] : tables[t][r] = key} \in SUBSET DOMAIN tables[t]
    OBVIOUS
  <2>2. Count(t, key) \in 0 .. Len(tables[t]) /\ Len(tables[t]) \in Nat
    BY <2>1, UptoFinite, TableFacts DEF Count
  <2> QED
    BY <2>2
<1>5. Both(0) \in [{1, 2} -> Nat]
  BY DEF Both
<1>6. ASSUME NEW k \in 1 .. n
      PROVE  Unsorted[k] = IF EndsAt(k)
                           THEN [key |-> LastKey(k), count |-> [t \in {1, 2} |-> Count(t, LastKey(k))]]
                           ELSE [key |-> DummyKey, count |-> Both(0)]
  BY DEF Unsorted
<1> HIDE DEF EndsAt, LastKey
<1>7. Unsorted = [k \in 1 .. n |-> Unsorted[k]]
  BY DEF Unsorted
<1>8. ASSUME NEW k \in 1 .. n
      PROVE  /\ Unsorted[k] \in [key : Int \X Int, count : [{1, 2} -> Nat]]
             /\ EndsAt(k) => /\ Unsorted[k].key = LastKey(k)
                           /\ \A t \in {1, 2} : Unsorted[k].count[t] = Count(t, LastKey(k))
             /\ ~EndsAt(k) => Unsorted[k].key = DummyKey /\ Unsorted[k].count = Both(0)
  <2>1. CASE EndsAt(k)
    <3>1. Unsorted[k] = [key |-> LastKey(k), count |-> [t \in {1, 2} |-> Count(t, LastKey(k))]]
      BY <1>6, <2>1
    <3>2. LastKey(k) \in Int \X Int
      BY <1>2, <1>3, <2>1
    <3>3. [t \in {1, 2} |-> Count(t, LastKey(k))] \in [{1, 2} -> Nat]
      BY <1>4
    <3> QED
      BY <2>1, <3>1, <3>2, <3>3
  <2>2. CASE ~EndsAt(k)
    <3>1. Unsorted[k] = [key |-> DummyKey, count |-> Both(0)]
      BY <1>6, <2>2
    <3>2. DummyKey \in Int \X Int
      BY <1>2
    <3> QED
      BY <1>5, <2>2, <3>1, <3>2
  <2> QED
    BY <2>1, <2>2
<1>9. \A k \in 1 .. n : /\ EndsAt(k) => Unsorted[k].key = LastKey(k)
                        /\ ~EndsAt(k) => Unsorted[k].key = DummyKey
  BY <1>8
<1>10. \A k \in 1 .. n : Unsorted[k].key \in AllKeys <=> EndsAt(k)
  BY <1>2, <1>3, <1>9
<1>11. ASSUME NEW k \in 1 .. n
       PROVE  IF Unsorted[k].key \in AllKeys
              THEN \A t \in {1, 2} : Unsorted[k].count[t] = Counts[t][Unsorted[k].key]
              ELSE Unsorted[k].key = DummyKey /\ Unsorted[k].count = Both(0)
  <2>1. \A t \in {1, 2} : \A key \in AllKeys : Counts[t][key] = Count(t, key)
    BY DEF Counts
  <2> QED
    BY <1>8, <1>9, <1>10, <2>1
<1>12. ASSUME NEW key \in AllKeys PROVE \E k \in 1 .. n : Unsorted[k].key = key
  <2>1. RowsUpto(key) \in 1 .. n /\ EndsAt(RowsUpto(key))
    BY <1>1 DEF EndsAt
  <2>2. LastKey(RowsUpto(key)) = key
    BY <1>1, <1>3, <2>1
  <2> QED
    BY <1>9, <2>1, <2>2
<1>13. ASSUME NEW k \in 1 .. n, NEW l \in 1 .. n, Unsorted[k].key \in AllKeys, Unsorted[k].key = Unsorted[l].key
       PROVE  k = l
  <2>1. EndsAt(k) /\ EndsAt(l) /\ LastKey(k) = LastKey(l)
    BY <1>9, <1>10, <1>13
  <2> QED
    BY <1>3, <2>1
<1> HIDE DEF n
<1>14. Listed(Unsorted, n)
  BY <1>11, <1>12, <1>13 DEF Listed
<1> QED
  BY <1>7, <1>8, <1>14 DEF n

-----------------------------------------------------------------------------
(* Keys and their bins.                                                    *)
Entries == 1 .. NumRows(tables)

KeyListOK == keyBinList \in [Entries -> KeyEntry] /\ Listed(keyBinList, NumRows(tables))

KeyRows(t, key) == {r \in DOMAIN tables[t] : tables[t][r] = key}

\* Every dense bin is that of one entry.
DenseBins ==
  /\ \A b \in 0 .. ndense - 1 : \E k \in Entries : keyBinList[k].bin = b
  /\ \A k, l \in Entries : keyBinList[k].bin \in 0 .. ndense - 1 /\ keyBinList[k].bin = keyBinList[l].bin => k = l

Held(t, b) == Cardinality(RecordsOf(t, b))
Free(t, b) == Size(t, b) - Held(t, b)

(* What an entry has.                                                      *)
LEMMA EntryFacts ==
  ASSUME TablesOK, KeyListOK, NEW k \in Entries
  PROVE  /\ keyBinList[k].key \in Int \X Int /\ keyBinList[k].noise \in NoisePairs /\ keyBinList[k].bin \in Int
         /\ \A t \in {1, 2} : /\ keyBinList[k].count[t] \in Nat /\ keyBinList[k].noise[t] \in Nat
                              /\ Noisy(keyBinList[k], t) = keyBinList[k].count[t] + keyBinList[k].noise[t]
                              /\ Noisy(keyBinList[k], t) \in Nat
                              /\ Cardinality(KeyRows(t, keyBinList[k].key)) = keyBinList[k].count[t]
         /\ keyBinList[k].count = [t \in {1, 2} |-> keyBinList[k].count[t]]
         /\ DOMAIN keyBinList = Entries /\ Len(keyBinList) = NumRows(tables)
<1>1. keyBinList[k] \in KeyEntry /\ keyBinList \in [Entries -> KeyEntry]
  BY DEF KeyListOK
<1>2. /\ keyBinList[k].key \in Int \X Int /\ keyBinList[k].noise \in NoisePairs /\ keyBinList[k].bin \in Int
      /\ keyBinList[k].count \in [{1, 2} -> Nat]
  BY <1>1 DEF KeyEntry
<1>3. DOMAIN keyBinList = Entries /\ Len(keyBinList) = NumRows(tables)
  <2>1. NumRows(tables) \in Nat
    BY TableFacts
  <2>2. keyBinList \in [1 .. NumRows(tables) -> KeyEntry]
    BY <1>1 DEF Entries
  <2> QED
    BY <2>1, <2>2, ArrayIsSeq DEF Entries
<1>4. ASSUME NEW t \in {1, 2}
      PROVE  /\ keyBinList[k].count[t] \in Nat /\ keyBinList[k].noise[t] \in Nat
             /\ Noisy(keyBinList[k], t) = keyBinList[k].count[t] + keyBinList[k].noise[t]
             /\ Noisy(keyBinList[k], t) \in Nat
  <2>1. keyBinList[k].count[t] \in Nat /\ keyBinList[k].noise[t] \in Nat
    BY <1>2, CZSCAssumption
  <2> QED
    BY <2>1 DEF Noisy
<1>5. ASSUME NEW t \in {1, 2}
      PROVE  Cardinality(KeyRows(t, keyBinList[k].key)) = keyBinList[k].count[t]
  <2>1. CASE keyBinList[k].key \in AllKeys
    <3>1. keyBinList[k].count[t] = Counts[t][keyBinList[k].key]
      BY <2>1 DEF KeyListOK, Listed, Entries
    <3> QED
      BY <2>1, <3>1 DEF Counts, Count, KeyRows
  <2>2. CASE keyBinList[k].key \notin AllKeys
    <3>1. keyBinList[k].count = Both(0)
      BY <2>2 DEF KeyListOK, Listed, Entries
    <3>2. KeyRows(t, keyBinList[k].key) = {}
      BY <2>2, TableFacts DEF KeyRows
    <3> QED
      BY <3>1, <3>2, FS_EmptySet DEF Both
  <2> QED
    BY <2>1, <2>2
<1> QED
  BY <1>2, <1>3, <1>4, <1>5

(* The bin of a record is that of the one entry that has its key.          *)
LEMMA BinOfEntry ==
  ASSUME TablesOK, KeyListOK, NEW k \in Entries, keyBinList[k].key \in AllKeys
  PROVE  BinOf(keyBinList[k].key) = keyBinList[k].bin
<1> DEFINE key == keyBinList[k].key
           l == CHOOSE l \in DOMAIN keyBinList : keyBinList[l].key = key
<1>1. DOMAIN keyBinList = Entries
  BY EntryFacts
<1>2. l \in Entries /\ keyBinList[l].key = key
  BY <1>1
<1>3. l = k
  BY <1>2 DEF KeyListOK, Listed, Entries
<1> QED
  BY <1>3 DEF BinOf

LEMMA RecordEntry ==
  ASSUME TablesOK, KeyListOK, NEW t \in {1, 2}, NEW r \in DOMAIN tables[t]
  PROVE  \E k \in Entries : keyBinList[k].key = tables[t][r] /\ BinOf(tables[t][r]) = keyBinList[k].bin
<1>1. tables[t][r] \in AllKeys
  BY TableFacts
<1>2. PICK k \in Entries : keyBinList[k].key = tables[t][r]
  BY <1>1 DEF KeyListOK, Listed, Entries
<1>3. BinOf(keyBinList[k].key) = keyBinList[k].bin
  BY <1>1, <1>2, BinOfEntry
<1> QED
  BY <1>2, <1>3

(* Records are finitely many.                                              *)
LEMMA HeldFacts ==
  ASSUME TablesOK, NEW t \in {1, 2}, NEW b
  PROVE  IsFiniteSet(RecordsOf(t, b)) /\ Held(t, b) \in Nat
<1>1. RecordsOf(t, b) \in SUBSET DOMAIN tables[t]
  BY DEF RecordsOf
<1> QED
  BY <1>1, UptoFinite, FS_CardinalityType DEF Held

(* A dense bin has the size and the records of its entry.                  *)
LEMMA DenseFacts ==
  ASSUME TablesOK, KeyListOK, DenseBins, NEW k \in Entries, keyBinList[k].bin \in 0 .. ndense - 1,
         NEW t \in {1, 2}, ndense \in Nat
  PROVE  /\ Size(t, keyBinList[k].bin) = Noisy(keyBinList[k], t)
         /\ RecordsOf(t, keyBinList[k].bin) = KeyRows(t, keyBinList[k].key)
         /\ Held(t, keyBinList[k].bin) = keyBinList[k].count[t]
         /\ Free(t, keyBinList[k].bin) = keyBinList[k].noise[t]
<1> DEFINE b == keyBinList[k].bin
           l == CHOOSE l \in DOMAIN keyBinList : keyBinList[l].bin = b
<1>1. DOMAIN keyBinList = Entries /\ b \in Int
  BY EntryFacts
<1>2. l \in Entries /\ keyBinList[l].bin = b
  BY <1>1
<1>3. l = k
  BY <1>2 DEF DenseBins
<1>4. ~ (b >= ndense)
  OBVIOUS
<1>5. Size(t, b) = Noisy(keyBinList[k], t)
  BY <1>3, <1>4 DEF Size
<1>6. RecordsOf(t, b) = KeyRows(t, keyBinList[k].key)
  <2>1. ASSUME NEW r \in DOMAIN tables[t]
        PROVE  BinOf(tables[t][r]) = b <=> tables[t][r] = keyBinList[k].key
    <3>1. PICK m \in Entries : keyBinList[m].key = tables[t][r] /\ BinOf(tables[t][r]) = keyBinList[m].bin
      BY RecordEntry
    <3>2. ASSUME BinOf(tables[t][r]) = b PROVE tables[t][r] = keyBinList[k].key
      BY <3>1, <3>2 DEF DenseBins
    <3>3. ASSUME tables[t][r] = keyBinList[k].key PROVE BinOf(tables[t][r]) = b
      <4>1. keyBinList[k].key \in AllKeys
        BY <3>3, TableFacts
      <4> QED
        BY <3>3, <4>1, BinOfEntry
    <3> QED
      BY <3>2, <3>3
  <2> QED
    BY <2>1 DEF RecordsOf, KeyRows
<1>7. Held(t, b) = keyBinList[k].count[t]
  BY <1>6, EntryFacts DEF Held
<1>8. Free(t, b) = keyBinList[k].noise[t]
  <2>1. PICK x \in Nat, y \in Nat : x = keyBinList[k].count[t] /\ y = keyBinList[k].noise[t] /\ Size(t, b) = x + y
    <3>1. /\ keyBinList[k].count[t] \in Nat /\ keyBinList[k].noise[t] \in Nat
          /\ Noisy(keyBinList[k], t) = keyBinList[k].count[t] + keyBinList[k].noise[t]
      BY EntryFacts
    <3> HIDE DEF b
    <3> QED
      BY <1>5, <3>1
  <2>2. Held(t, b) = x
    BY <1>7, <2>1
  <2> QED
    BY <2>1, <2>2 DEF Free
<1> QED
  BY <1>5, <1>6, <1>7, <1>8

(* A bin beyond the dense ones has 4U places.                              *)
LEMMA SparseSize ==
  ASSUME NEW t \in {1, 2}, NEW b \in Int, ndense \in Nat, b >= ndense
  PROVE  Size(t, b) = 4 * U
BY DEF Size

-----------------------------------------------------------------------------
(* What the noise of a key and the room of a sparse bin may come to.       *)
Bound == (IntMax - 1) \div (NumRows(tables) + 1)

LEMMA NoiseBound ==
  ASSUME TablesOK, NEW noise \in NoisePairs
  PROVE  /\ Bound \in Nat \ {0} /\ (NumRows(tables) + 1) * Bound <= IntMax - 1
         /\ \A t \in {1, 2} : noise[t] \in Nat /\ noise[t] <= Bound
         /\ 4 * U <= Bound /\ U \in Nat \ {0}
         /\ NumRows(tables) + 1 <= IntMax - 1
<1>1. PICK d \in Nat \ {0} : d = NumRows(tables) + 1
  <2>1. NumRows(tables) \in Nat
    BY TableFacts
  <2> QED
    BY <2>1
<1>2. PICK a \in Nat : a = IntMax - 1
  BY DEF IntMax
<1>3. Bound = a \div d
  BY <1>1, <1>2 DEF Bound
<1>4. a \div d \in Nat /\ d * (a \div d) <= a
  <2>1. a = d * (a \div d) + (a % d) /\ a % d >= 0 /\ a \div d \in Nat
    OBVIOUS
  <2>2. d * (a \div d) \in Nat /\ a % d \in Nat
    OBVIOUS
  <2>3. PICK q \in Nat, m \in Nat : q = d * (a \div d) /\ m = a % d
    BY <2>2
  <2> QED
    BY <2>1, <2>3
<1>5. \A t \in {1, 2} : noise[t] + 4 * U <= a \div d
  BY <1>3, NoOverflow DEF TablesOK, Bound
<1>6. U \in Nat \ {0} /\ \A t \in {1, 2} : noise[t] \in Nat
  BY CZSCAssumption
<1>7. PICK q \in Nat : q = a \div d
  BY <1>4
<1>8. \A t \in {1, 2} : noise[t] <= q /\ 4 * U <= q
  BY <1>5, <1>6, <1>7
<1>9. q # 0
  BY <1>6, <1>8
<1>10. d <= a
  <2>1. d * q <= a /\ d * (q - 1) >= 0 /\ d * (q - 1) = d * q - d
    BY <1>4, <1>7, <1>9
  <2>2. PICK z \in Nat : z = d * q
    BY <1>7
  <2> QED
    BY <2>1, <2>2
<1> QED
  BY <1>1, <1>2, <1>3, <1>4, <1>6, <1>7, <1>8, <1>9, <1>10

-----------------------------------------------------------------------------
(* Sorting keeps the list of keys one.                                     *)
LEMMA ListedInOrder ==
  ASSUME NEW n \in Nat, NEW list, Listed(list, n), Len(list) = n,
         NEW sorted, NEW order, InOrder(sorted, list, order)
  PROVE  Listed(sorted, n)
<1> DEFINE D == 1 .. n
<1>1. /\ order \in [D -> D]
      /\ \A p, q \in D : order[p] = order[q] => p = q
      /\ \A a \in D : \E p \in D : order[p] = a
      /\ \A p \in D : sorted[p] = list[order[p]]
  BY DEF InOrder, Orders
<1>2. /\ \A k \in D : IF list[k].key \in AllKeys
                      THEN \A t \in {1, 2} : list[k].count[t] = Counts[t][list[k].key]
                      ELSE list[k].key = DummyKey /\ list[k].count = Both(0)
      /\ \A key \in AllKeys : \E k \in D : list[k].key = key
      /\ \A k, l \in D : list[k].key \in AllKeys /\ list[k].key = list[l].key => k = l
  BY DEF Listed
<1> HIDE DEF D
<1>3. ASSUME NEW key \in AllKeys PROVE \E p \in D : sorted[p].key = key
  <2>1. PICK k \in D : list[k].key = key
    BY <1>2
  <2>2. PICK p \in D : order[p] = k
    BY <1>1
  <2> QED
    BY <1>1, <2>1, <2>2
<1>4. ASSUME NEW p \in D, NEW q \in D, sorted[p].key \in AllKeys, sorted[p].key = sorted[q].key
      PROVE  p = q
  <2>1. order[p] \in D /\ order[q] \in D /\ sorted[p] = list[order[p]] /\ sorted[q] = list[order[q]]
    BY <1>1
  <2>2. order[p] = order[q]
    BY <1>2, <1>4, <2>1
  <2> QED
    BY <1>1, <2>2
<1>5. ASSUME NEW p \in D
      PROVE  IF sorted[p].key \in AllKeys
             THEN \A t \in {1, 2} : sorted[p].count[t] = Counts[t][sorted[p].key]
             ELSE sorted[p].key = DummyKey /\ sorted[p].count = Both(0)
  <2>1. order[p] \in D /\ sorted[p] = list[order[p]]
    BY <1>1
  <2> QED
    BY <1>2, <2>1
<1> QED
  BY <1>3, <1>4, <1>5 DEF Listed, D

(* The greatest of finitely many counts is one.                            *)
LEMMA MaxOfCounts ==
  ASSUME NEW n \in Nat, NEW T \in SUBSET Nat, \A x \in T : x <= n, 0 \in T
  PROVE  Max(T) \in Nat
<1>1. T \in SUBSET (0 .. n) /\ T # {}
  OBVIOUS
<1> QED
  BY <1>1, MaxOfNumbers

LEMMA PopulateFacts ==
  ASSUME TablesOK, PopulateKeyBinList
  PROVE  /\ KeyListOK' /\ TablesOK'
         /\ \A k \in Entries : keyBinList'[k].bin = -1
         /\ keyNoisyMax' \in Nat
<1> DEFINE n == NumRows(tables)
<1>1. /\ Unsorted \in [1 .. n -> [key : Int \X Int, count : [{1, 2} -> Nat]]]
      /\ Listed(Unsorted, n)
  BY UnsortedListed
<1>2. n \in Nat /\ tables' = tables
  BY TableFacts DEF PopulateKeyBinList
<1>3. DOMAIN Unsorted = 1 .. n
  BY <1>1
<1>4. PICK noise \in [DOMAIN Unsorted -> NoisePairs] :
        LET list == WithNoise(Unsorted, noise)
        IN  /\ keyBinList' = Sorted(list, LargerIn(list))
            /\ keyNoisyMax' = Max({0} \cup NoisyCounts(list))
  BY DEF PopulateKeyBinList
<1> DEFINE list == WithNoise(Unsorted, noise)
<1>5. list = [k \in 1 .. n |-> [key |-> Unsorted[k].key, count |-> Unsorted[k].count,
                               noise |-> noise[k], bin |-> -1]]
  BY <1>3 DEF WithNoise
<1> HIDE DEF list
<1>6. \A k \in 1 .. n : /\ list[k].key = Unsorted[k].key /\ list[k].count = Unsorted[k].count
                        /\ list[k].noise = noise[k] /\ list[k].bin = -1
  BY <1>5
<1>7. list \in [1 .. n -> KeyEntry]
  <2>1. ASSUME NEW k \in 1 .. n
        PROVE  [key |-> Unsorted[k].key, count |-> Unsorted[k].count, noise |-> noise[k], bin |-> -1] \in KeyEntry
    <3>1. Unsorted[k].key \in Int \X Int /\ Unsorted[k].count \in [{1, 2} -> Nat] /\ noise[k] \in NoisePairs
      BY <1>1, <1>3
    <3> QED
      BY <3>1 DEF KeyEntry
  <2> QED
    BY <1>5, <2>1
<1>8. Len(list) = n
  BY <1>2, <1>7
<1>9. Listed(list, n)
  BY <1>1, <1>6 DEF Listed
<1>10. PICK order : InOrder(keyBinList', list, order)
  BY <1>2, <1>4, <1>8, SortedOrder DEF list
<1>11. Listed(keyBinList', n)
  BY <1>2, <1>8, <1>9, <1>10, ListedInOrder
<1>12. keyBinList' \in [1 .. n -> KeyEntry] /\ \A k \in 1 .. n : keyBinList'[k].bin = -1
  <2>1. order \in [1 .. n -> 1 .. n] /\ keyBinList' = [p \in 1 .. n |-> list[order[p]]]
    BY <1>8, <1>10 DEF InOrder, Orders
  <2>2. \A p \in 1 .. n : list[order[p]] \in KeyEntry /\ list[order[p]].bin = -1
    BY <1>6, <1>7, <2>1
  <2> QED
    BY <2>1, <2>2
<1>13. Listed(keyBinList, NumRows(tables))' /\ n' = n
  <2>1. n' = n /\ AllKeys' = AllKeys /\ Counts' = Counts
    BY <1>2 DEF AllKeys, Counts, Count
  <2> QED
    BY <1>11, <2>1 DEF Listed
<1>14. KeyListOK' /\ TablesOK'
  BY <1>2, <1>12, <1>13 DEF KeyListOK, Entries, TablesOK
<1>15. keyNoisyMax' \in Nat
  <2> DEFINE T == {0} \cup NoisyCounts(list)
  <2>1. PICK m \in Nat : m = n + Bound
    <3>1. n # 0
      BY TableFacts
    <3>2. 1 \in 1 .. n
      BY <1>2, <3>1
    <3>3. noise[1] \in NoisePairs
      BY <1>3, <3>2
    <3>4. Bound \in Nat
      BY <3>3, NoiseBound
    <3> QED
      BY <1>2, <3>4
  <2>2. ASSUME NEW k \in 1 .. n, NEW t \in {1, 2}
        PROVE  Noisy(list[k], t) \in Nat /\ Noisy(list[k], t) <= m
    <3>1. Noisy(list[k], t) = Unsorted[k].count[t] + noise[k][t]
      BY <1>6 DEF Noisy
    <3>2. noise[k][t] \in Nat /\ noise[k][t] <= Bound /\ Bound \in Nat
      BY <1>3, NoiseBound
    <3>3. Unsorted[k].count[t] \in Nat /\ Unsorted[k].count[t] <= n
      <4>1. CASE Unsorted[k].key \in AllKeys
        <5>1. Unsorted[k].count[t] = Count(t, Unsorted[k].key)
          BY <1>1, <4>1 DEF Listed, Counts
        <5>2. {r \in DOMAIN tables[t] : tables[t][r] = Unsorted[k].key} \in SUBSET DOMAIN tables[t]
          OBVIOUS
        <5>3. Count(t, Unsorted[k].key) \in 0 .. Len(tables[t])
          BY <5>2, UptoFinite DEF Count
        <5>4. Len(tables[1]) \in Nat /\ Len(tables[2]) \in Nat /\ n = Len(tables[1]) + Len(tables[2])
          BY TableFacts
        <5>5. PICK y \in Nat, z \in Nat : y = Len(tables[1]) /\ z = Len(tables[2]) /\ n = y + z
          BY <5>4
        <5>6. PICK x \in Nat : x = Count(t, Unsorted[k].key) /\ (x <= y \/ x <= z)
          BY <5>3, <5>5
        <5>7. x <= n
          <6>1. n = y + z /\ (x <= y \/ x <= z)
            BY <5>5, <5>6
          <6> HIDE DEF n
          <6> QED
            BY <6>1
        <5> QED
          BY <5>1, <5>6, <5>7
      <4>2. CASE Unsorted[k].key \notin AllKeys
        <5>1. Unsorted[k].count = Both(0)
          BY <1>1, <4>2 DEF Listed
        <5> QED
          BY <1>2, <5>1 DEF Both
      <4> QED
        BY <4>1, <4>2
    <3>4. PICK x \in Nat, y \in Nat : x = Unsorted[k].count[t] /\ y = noise[k][t]
      BY <3>2, <3>3
    <3> QED
      BY <1>2, <2>1, <3>1, <3>2, <3>3, <3>4
  <2>3. T \in SUBSET Nat /\ (\A x \in T : x <= m) /\ 0 \in T
    <3>1. DOMAIN list = 1 .. n
      BY <1>5
    <3> QED
      BY <2>1, <2>2, <3>1 DEF NoisyCounts
  <2>4. Max(T) \in Nat
    <3> HIDE DEF T
    <3> QED
      BY <2>1, <2>3, MaxOfCounts
  <2> QED
    BY <1>4, <2>4 DEF list
<1> QED
  BY <1>12, <1>14, <1>15 DEF Entries

-----------------------------------------------------------------------------
(* Bins as functions of the state, for both tables.                        *)
RowBin == [t \in {1, 2} |-> [r \in DOMAIN tables[t] |-> BinOf(tables[t][r])]]
HeldBy == [t \in {1, 2} |-> [b \in Int |-> Held(t, b)]]
SizeOf == [t \in {1, 2} |-> [b \in Int |-> Size(t, b)]]
FreeOf == [t \in {1, 2} |-> [b \in Int |-> Free(t, b)]]

RowBinsOK ==
  \A t \in {1, 2} : \A r \in 1 .. Len(tables[t]) :
    /\ \E k \in Entries : keyBinList[k].key = tables[t][r]
    /\ \A k \in Entries : keyBinList[k].key = tables[t][r] => RowBin[t][r] = keyBinList[k].bin

HeldOK ==
  \A t \in {1, 2} : \A b \in Int :
    /\ HeldBy[t][b] \in Nat
    /\ HeldBy[t][b] = Cardinality({r \in 1 .. Len(tables[t]) : RowBin[t][r] = b})
    /\ FreeOf[t][b] = SizeOf[t][b] - HeldBy[t][b]

DenseOK ==
  \A k \in Entries : keyBinList[k].bin \in 0 .. ndense - 1 =>
    \A t \in {1, 2} : /\ SizeOf[t][keyBinList[k].bin] = keyBinList[k].count[t] + keyBinList[k].noise[t]
                      /\ HeldBy[t][keyBinList[k].bin] = keyBinList[k].count[t]
                      /\ FreeOf[t][keyBinList[k].bin] = keyBinList[k].noise[t]

SparseOK == \A t \in {1, 2} : \A b \in Int : b >= ndense => SizeOf[t][b] = 4 * U

EntriesOK ==
  /\ DOMAIN keyBinList = Entries /\ Len(keyBinList) = NumRows(tables)
  /\ \A k \in Entries :
       /\ keyBinList[k].key \in Int \X Int /\ keyBinList[k].noise \in NoisePairs /\ keyBinList[k].bin \in Int
       /\ \A t \in {1, 2} : /\ keyBinList[k].count[t] \in Nat /\ keyBinList[k].noise[t] \in Nat
                            /\ Noisy(keyBinList[k], t) = keyBinList[k].count[t] + keyBinList[k].noise[t]
                            /\ Noisy(keyBinList[k], t) \in Nat
                            /\ Cardinality(KeyRows(t, keyBinList[k].key)) = keyBinList[k].count[t]
       /\ keyBinList[k].count = [t \in {1, 2} |-> keyBinList[k].count[t]]

BinsOK == RowBinsOK /\ HeldOK /\ DenseOK /\ SparseOK /\ EntriesOK

(* What a list of keys with dense bins determines.                         *)
LEMMA BinsAreOK ==
  TablesOK /\ KeyListOK /\ DenseBins /\ ndense \in Nat => BinsOK
<1> SUFFICES ASSUME TablesOK, KeyListOK, DenseBins, ndense \in Nat PROVE BinsOK
  OBVIOUS
<1>1. \A t \in {1, 2} : DOMAIN tables[t] = 1 .. Len(tables[t])
  BY TableFacts
<1>2. RowBinsOK
  <2> SUFFICES ASSUME NEW t \in {1, 2}, NEW r \in 1 .. Len(tables[t])
               PROVE  /\ \E k \in Entries : keyBinList[k].key = tables[t][r]
                      /\ \A k \in Entries : keyBinList[k].key = tables[t][r] => RowBin[t][r] = keyBinList[k].bin
    BY DEF RowBinsOK
  <2>1. r \in DOMAIN tables[t] /\ tables[t][r] \in AllKeys
    BY <1>1, TableFacts
  <2>2. RowBin[t][r] = BinOf(tables[t][r])
    BY <2>1 DEF RowBin
  <2>3. \E k \in Entries : keyBinList[k].key = tables[t][r]
    BY <2>1, RecordEntry
  <2>4. ASSUME NEW k \in Entries, keyBinList[k].key = tables[t][r] PROVE RowBin[t][r] = keyBinList[k].bin
    <3>1. keyBinList[k].key \in AllKeys
      BY <2>1, <2>4
    <3>2. BinOf(keyBinList[k].key) = keyBinList[k].bin
      BY <3>1, BinOfEntry
    <3> QED
      BY <2>2, <2>4, <3>2
  <2> QED
    BY <2>3, <2>4
<1>3. HeldOK
  <2> SUFFICES ASSUME NEW t \in {1, 2}, NEW b \in Int
               PROVE  /\ HeldBy[t][b] \in Nat
                      /\ HeldBy[t][b] = Cardinality({r \in 1 .. Len(tables[t]) : RowBin[t][r] = b})
                      /\ FreeOf[t][b] = SizeOf[t][b] - HeldBy[t][b]
    BY DEF HeldOK
  <2>1. HeldBy[t][b] = Held(t, b) /\ SizeOf[t][b] = Size(t, b) /\ FreeOf[t][b] = Free(t, b)
    BY DEF HeldBy, SizeOf, FreeOf
  <2>2. RecordsOf(t, b) = {r \in 1 .. Len(tables[t]) : RowBin[t][r] = b}
    BY <1>1 DEF RecordsOf, RowBin
  <2> QED
    BY <2>1, <2>2, HeldFacts DEF Held, Free
<1>4. DenseOK
  <2> SUFFICES ASSUME NEW k \in Entries, keyBinList[k].bin \in 0 .. ndense - 1, NEW t \in {1, 2}
               PROVE  /\ SizeOf[t][keyBinList[k].bin] = keyBinList[k].count[t] + keyBinList[k].noise[t]
                      /\ HeldBy[t][keyBinList[k].bin] = keyBinList[k].count[t]
                      /\ FreeOf[t][keyBinList[k].bin] = keyBinList[k].noise[t]
    BY DEF DenseOK
  <2>1. keyBinList[k].bin \in Int
    OBVIOUS
  <2>2. /\ Size(t, keyBinList[k].bin) = Noisy(keyBinList[k], t)
        /\ Held(t, keyBinList[k].bin) = keyBinList[k].count[t]
        /\ Free(t, keyBinList[k].bin) = keyBinList[k].noise[t]
    BY DenseFacts
  <2>3. Noisy(keyBinList[k], t) = keyBinList[k].count[t] + keyBinList[k].noise[t]
    BY EntryFacts
  <2> QED
    BY <2>1, <2>2, <2>3 DEF SizeOf, HeldBy, FreeOf
<1>5. SparseOK
  BY SparseSize DEF SparseOK, SizeOf
<1>6. EntriesOK
  <2>1. \E k \in Entries : TRUE
    <3>1. NumRows(tables) \in Nat \ {0}
      BY TableFacts
    <3> QED
      BY <3>1 DEF Entries
  <2> QED
    BY <2>1, EntryFacts DEF EntriesOK
<1> QED
  BY <1>2, <1>3, <1>4, <1>5, <1>6 DEF BinsOK

(* So it does after a step.                                                *)
LEMMA NextBinsAreOK ==
  TablesOK' /\ KeyListOK' /\ DenseBins' /\ (ndense \in Nat)' => BinsOK'
BY BinsAreOK, PTL

-----------------------------------------------------------------------------
(* The entries of dummies.  The one of a bin is where the free places of   *)
(* the bins before it end; entries of no bin are not marked.               *)
NoiseEntry == [first : Int, second : [key : Int \X Int, bin : Int]]

\* Partial sums.
Adds(S, n, step) ==
  /\ n \in Nat /\ S \in [0 .. n -> Nat] /\ S[0] = 0
  /\ \A b \in 0 .. n - 1 : S[b + 1] = S[b] + step[b]

\* The entries a mark the starts S of n bins.
Marks(a, S, n) ==
  /\ \A p \in 1 .. Len(a) : a[p].first < IntMax =>
       a[p].second.bin \in 0 .. n - 1 /\ a[p].first = S[a[p].second.bin]
  /\ \A p, q \in 1 .. Len(a) : a[p].first < IntMax /\ a[q].first < IntMax /\ p < q
                               => a[p].second.bin < a[q].second.bin
  /\ \A b \in 0 .. n - 1 : \E p \in 1 .. Len(a) : a[p].first < IntMax /\ a[p].second.bin = b

NoiseOK(a, sum, free, n) ==
  /\ a \in Seq(NoiseEntry)
  /\ \E S : Adds(S, n, free) /\ sum = S[n] /\ Marks(a, S, n)

(* One more summand.                                                       *)
LEMMA AddsOne ==
  ASSUME NEW n, NEW S, NEW step, Adds(S, n, step), NEW step2, \A b \in 0 .. n - 1 : step2[b] = step[b],
         step2[n] \in Nat
  PROVE  \E T : Adds(T, n + 1, step2) /\ T[n + 1] = S[n] + step2[n] /\ \A b \in 0 .. n : T[b] = S[b]
<1> DEFINE T == [b \in 0 .. n + 1 |-> IF b = n + 1 THEN S[n] + step2[n] ELSE S[b]]
<1>1. n \in Nat /\ S \in [0 .. n -> Nat] /\ S[0] = 0 /\ \A b \in 0 .. n - 1 : S[b + 1] = S[b] + step[b]
  BY DEF Adds
<1>2. T[n + 1] = S[n] + step2[n] /\ \A b \in 0 .. n : T[b] = S[b] /\ S[b] \in Nat
  BY <1>1
<1>3. S[n] + step2[n] \in Nat
  <2>1. S[n] \in Nat
    BY <1>1
  <2> QED
    BY <2>1
<1>4. T \in [0 .. n + 1 -> Nat]
  BY <1>1, <1>3
<1>5. ASSUME NEW b \in 0 .. n PROVE T[b + 1] = T[b] + step2[b]
  <2>1. CASE b = n
    BY <1>1, <1>2, <2>1
  <2>2. CASE b # n
    <3>1. b \in 0 .. n - 1 /\ b + 1 \in 0 .. n
      BY <1>1, <2>2
    <3>2. T[b + 1] = S[b + 1] /\ T[b] = S[b]
      BY <1>2, <3>1
    <3> QED
      BY <1>1, <3>1, <3>2
  <2> QED
    BY <2>1, <2>2
<1>6. n + 1 \in Nat /\ (n + 1) - 1 = n /\ T[0] = 0
  BY <1>1, <1>2
<1> HIDE DEF T
<1>7. Adds(T, n + 1, step2)
  BY <1>4, <1>5, <1>6 DEF Adds
<1> QED
  BY <1>2, <1>7

(* Equal summands are added at once.                                       *)
Extended(S, n, step, x, w) ==
  \E T : /\ Adds(T, n + x, step)
         /\ \A b \in 0 .. n : T[b] = S[b]
         /\ \A z \in 0 .. x : T[n + z] = S[n] + z * w

LEMMA AddsMore ==
  ASSUME NEW n, NEW S, NEW step, Adds(S, n, step), NEW x \in Nat, NEW w \in Nat,
         \A b \in Nat : b >= n => step[b] = w
  PROVE  Extended(S, n, step, x, w)
<1>3. n \in Nat
  BY DEF Adds
<1>4. \A b \in Nat : b >= n => step[b] = w
  OBVIOUS
<1>5. S \in [0 .. n -> Nat] /\ S[0] = 0 /\ \A b \in 0 .. n - 1 : S[b + 1] = S[b] + step[b]
  BY DEF Adds
<1>7. \A z \in Nat : z * w \in Nat /\ (z + 1) * w = z * w + w
  OBVIOUS
<1> DEFINE over == [z \in 0 .. x |-> z * w]
           T == [b \in 0 .. n + x |-> IF b <= n THEN S[b] ELSE S[n] + over[b - n]]
<1>9. /\ over \in [0 .. x -> Nat] /\ over[0] = 0
      /\ \A z \in 0 .. x - 1 : over[z + 1] = over[z] + w
      /\ \A z \in 0 .. x : over[z] = z * w
  <2>1. \A z \in 0 .. x : z \in Nat /\ over[z] = z * w
    BY <1>3
  <2>2. \A z \in 0 .. x - 1 : z \in 0 .. x /\ z + 1 \in 0 .. x /\ z \in Nat
    BY <1>3
  <2>3. 0 \in 0 .. x /\ 0 * w = 0
    BY <1>3
  <2>4. \A z \in 0 .. x : over[z] \in Nat
    BY <1>7, <2>1
  <2>5. \A z \in 0 .. x - 1 : over[z + 1] = (z + 1) * w
    BY <2>1, <2>2
  <2>6. over \in [0 .. x -> Nat]
    BY <2>4
  <2>7. over[0] = 0
    BY <2>1, <2>3
  <2> HIDE DEF over
  <2> QED
    BY <1>7, <2>1, <2>2, <2>5, <2>6, <2>7
<1> HIDE DEF over
<1>10. /\ \A b \in 0 .. n : T[b] = S[b]
       /\ \A z \in 0 .. x : T[n + z] = S[n] + over[z]
  <2>1. \A b \in 0 .. n : b \in 0 .. n + x /\ b <= n
    BY <1>3
  <2>2. \A z \in 0 .. x : n + z \in 0 .. n + x /\ (n + z) - n = z /\ (n + z <= n => z = 0)
    BY <1>3
  <2>3. S[n] \in Nat /\ n \in 0 .. n
    BY <1>3, <1>5
  <2>4. S[n] = S[n] + over[0]
    BY <1>9, <2>3
  <2>5. ASSUME NEW z \in 0 .. x PROVE T[n + z] = S[n] + over[z]
    <3>1. CASE z = 0
      BY <2>1, <2>3, <2>4, <3>1
    <3>2. CASE z # 0
      BY <2>2, <3>2
    <3> QED
      BY <3>1, <3>2
  <2> QED
    BY <2>1, <2>5
<1>11. T \in [0 .. n + x -> Nat]
  <2> SUFFICES ASSUME NEW b \in 0 .. n + x PROVE (IF b <= n THEN S[b] ELSE S[n] + over[b - n]) \in Nat
    OBVIOUS
  <2>1. CASE b <= n
    BY <1>5, <2>1
  <2>2. CASE ~ (b <= n)
    <3>1. b - n \in 0 .. x /\ S[n] \in Nat
      BY <1>3, <1>5, <2>2
    <3>2. over[b - n] \in Nat
      BY <1>9, <3>1
    <3> QED
      BY <2>2, <3>1, <3>2
  <2> QED
    BY <2>1, <2>2
<1> HIDE DEF T
<1>12. ASSUME NEW b \in 0 .. n + x - 1 PROVE T[b + 1] = T[b] + step[b]
  <2>1. CASE b < n
    <3>1. b \in 0 .. n - 1 /\ b \in 0 .. n /\ b + 1 \in 0 .. n
      BY <1>3, <2>1
    <3> QED
      BY <1>5, <1>10, <3>1
  <2>2. CASE ~ (b < n)
    <3>1. PICK z \in 0 .. x - 1 : b = n + z
      <4>1. b - n \in 0 .. x - 1 /\ b = n + (b - n)
        BY <1>3, <2>2
      <4> QED
        BY <4>1
    <3>2. T[b] = S[n] + over[z] /\ T[b + 1] = S[n] + over[z + 1] /\ over[z + 1] = over[z] + w
      <4>1. z \in 0 .. x /\ z + 1 \in 0 .. x /\ b + 1 = n + (z + 1)
        BY <1>3, <3>1
      <4> QED
        BY <1>9, <1>10, <3>1, <4>1
    <3>3. step[b] = w
      BY <1>3, <1>4, <2>2
    <3>4. S[n] \in Nat /\ over[z] \in Nat
      <4>1. n \in 0 .. n /\ z \in 0 .. x
        BY <1>3, <3>1
      <4> QED
        BY <1>5, <1>9, <4>1
    <3> QED
      BY <3>2, <3>3, <3>4
  <2> QED
    BY <2>1, <2>2
<1>13. Adds(T, n + x, step)
  <2>1. T[0] = 0 /\ n + x \in Nat
    BY <1>3, <1>5, <1>10
  <2> QED
    BY <1>11, <1>12, <2>1 DEF Adds
<1>14. \A z \in 0 .. x : T[n + z] = S[n] + z * w
  BY <1>9, <1>10
<1> QED
  BY <1>10, <1>13, <1>14 DEF Extended

(* The entry of a bin that is closed.                                      *)
LEMMA NoiseAppended ==
  ASSUME NEW n, NEW a, NEW sum, NEW free, NoiseOK(a, sum, free, n), sum < IntMax,
         NEW key \in Int \X Int, NEW free2, \A b \in 0 .. n - 1 : free2[b] = free[b], free2[n] \in Nat
  PROVE  NoiseOK(Append(a, Entry(sum, [key |-> key, bin |-> n])), sum + free2[n], free2, n + 1)
<1>1. PICK S : Adds(S, n, free) /\ sum = S[n] /\ Marks(a, S, n)
  BY DEF NoiseOK
<1> DEFINE E == Entry(sum, [key |-> key, bin |-> n])
           c == Append(a, E)
           L == Len(a)
<1>2. PICK T : Adds(T, n + 1, free2) /\ T[n + 1] = S[n] + free2[n] /\ \A b \in 0 .. n : T[b] = S[b]
  BY <1>1, AddsOne
<1>3. n \in Nat /\ S \in [0 .. n -> Nat] /\ sum \in Nat
  BY <1>1 DEF Adds
<1>4. E \in NoiseEntry /\ E.first = sum /\ E.second.bin = n
  BY <1>3 DEF NoiseEntry, Entry
<1>5. a \in Seq(NoiseEntry)
  BY DEF NoiseOK
<1> HIDE DEF E
<1>6. /\ L \in Nat /\ c \in Seq(NoiseEntry) /\ Len(c) = L + 1 /\ c[L + 1] = E
      /\ \A p \in 1 .. L : c[p] = a[p]
  BY <1>4, <1>5
<1> HIDE DEF c, L
<1>7. \A p \in 1 .. L : c[p].first < IntMax => c[p].second.bin \in 0 .. n - 1 /\ c[p].first = S[c[p].second.bin]
  BY <1>1, <1>6 DEF Marks, L
<1>8. \A p \in 1 .. L + 1 : p \in 1 .. L \/ p = L + 1
  BY <1>6
<1>9. ASSUME NEW p \in 1 .. L + 1, c[p].first < IntMax
      PROVE  c[p].second.bin \in 0 .. n /\ c[p].first = T[c[p].second.bin]
  <2>1. CASE p \in 1 .. L
    <3>1. c[p].second.bin \in 0 .. n - 1 /\ c[p].first = S[c[p].second.bin]
      BY <1>7, <1>9, <2>1
    <3>2. c[p].second.bin \in 0 .. n
      BY <1>3, <3>1
    <3> QED
      BY <1>2, <3>1, <3>2
  <2>2. CASE p = L + 1
    BY <1>1, <1>2, <1>3, <1>4, <1>6, <2>2
  <2> QED
    BY <1>8, <2>1, <2>2
<1>10. ASSUME NEW p \in 1 .. L + 1, NEW q \in 1 .. L + 1, c[p].first < IntMax, c[q].first < IntMax, p < q
       PROVE  c[p].second.bin < c[q].second.bin
  <2>1. p \in 1 .. L
    BY <1>6, <1>10
  <2>2. CASE q \in 1 .. L
    BY <1>1, <1>6, <1>10, <2>1, <2>2 DEF Marks, L
  <2>3. CASE q = L + 1
    <3>1. c[p].second.bin \in 0 .. n - 1 /\ c[q].second.bin = n
      BY <1>4, <1>6, <1>7, <1>10, <2>1, <2>3
    <3> QED
      BY <1>3, <3>1
  <2> QED
    BY <1>8, <2>2, <2>3
<1>11. ASSUME NEW b \in 0 .. n
       PROVE  \E p \in 1 .. L + 1 : c[p].first < IntMax /\ c[p].second.bin = b
  <2>1. CASE b = n
    <3>1. L + 1 \in 1 .. L + 1
      BY <1>6
    <3> QED
      BY <1>4, <1>6, <2>1, <3>1
  <2>2. CASE b # n
    <3>1. b \in 0 .. n - 1
      BY <1>3, <2>2
    <3>2. PICK p \in 1 .. L : a[p].first < IntMax /\ a[p].second.bin = b
      BY <1>1, <3>1 DEF Marks, L
    <3>3. p \in 1 .. L + 1
      BY <1>6
    <3> QED
      BY <1>6, <3>2, <3>3
  <2> QED
    BY <2>1, <2>2
<1>12. (n + 1) - 1 = n
  BY <1>3
<1>13. Marks(c, T, n + 1)
  BY <1>6, <1>9, <1>10, <1>11, <1>12 DEF Marks
<1>14. sum + free2[n] = T[n + 1]
  BY <1>1, <1>2
<1> QED
  BY <1>2, <1>6, <1>13, <1>14 DEF NoiseOK, c, E

(* An entry of no bin.                                                     *)
LEMMA NoiseSkipped ==
  ASSUME NEW n, NEW a, NEW sum, NEW free, NoiseOK(a, sum, free, n),
         NEW bin \in Int, NEW key \in Int \X Int,
         NEW free2, \A b \in 0 .. n - 1 : free2[b] = free[b]
  PROVE  NoiseOK(Append(a, Entry(IntMax, [key |-> key, bin |-> bin])), sum, free2, n)
<1>1. PICK S : Adds(S, n, free) /\ sum = S[n] /\ Marks(a, S, n)
  BY DEF NoiseOK
<1> DEFINE E == Entry(IntMax, [key |-> key, bin |-> bin])
           c == Append(a, E)
           L == Len(a)
<1>2. Adds(S, n, free2)
  BY <1>1 DEF Adds
<1>4. E \in NoiseEntry /\ ~ (E.first < IntMax)
  BY DEF NoiseEntry, Entry, IntMax
<1>5. a \in Seq(NoiseEntry)
  BY DEF NoiseOK
<1> HIDE DEF E
<1>6. /\ L \in Nat /\ c \in Seq(NoiseEntry) /\ Len(c) = L + 1 /\ c[L + 1] = E
      /\ \A p \in 1 .. L : c[p] = a[p]
  BY <1>4, <1>5
<1> HIDE DEF c, L
<1>7. \A p \in 1 .. L + 1 : c[p].first < IntMax => p \in 1 .. L /\ c[p] = a[p]
  <2>1. \A p \in 1 .. L + 1 : p \in 1 .. L \/ p = L + 1
    BY <1>6
  <2> QED
    BY <1>4, <1>6, <2>1
<1>8. \A p \in 1 .. L : p \in 1 .. L + 1 /\ c[p] = a[p]
  BY <1>6
<1>9. /\ \A p \in 1 .. L : a[p].first < IntMax => a[p].second.bin \in 0 .. n - 1 /\ a[p].first = S[a[p].second.bin]
      /\ \A p, q \in 1 .. L : a[p].first < IntMax /\ a[q].first < IntMax /\ p < q => a[p].second.bin < a[q].second.bin
      /\ \A b \in 0 .. n - 1 : \E p \in 1 .. L : a[p].first < IntMax /\ a[p].second.bin = b
  BY <1>1 DEF Marks, L
<1>10. ASSUME NEW b \in 0 .. n - 1 PROVE \E p \in 1 .. L + 1 : c[p].first < IntMax /\ c[p].second.bin = b
  <2>1. PICK p \in 1 .. L : a[p].first < IntMax /\ a[p].second.bin = b
    BY <1>9
  <2> QED
    BY <1>8, <2>1
<1>11. ASSUME NEW p \in 1 .. L + 1, NEW q \in 1 .. L + 1, c[p].first < IntMax, c[q].first < IntMax, p < q
       PROVE  c[p].second.bin < c[q].second.bin
  <2>1. p \in 1 .. L /\ q \in 1 .. L /\ c[p] = a[p] /\ c[q] = a[q]
    BY <1>7, <1>11
  <2>2. a[p].first < IntMax /\ a[q].first < IntMax
    BY <1>11, <2>1
  <2> QED
    BY <1>9, <1>11, <2>1, <2>2
<1>12. ASSUME NEW p \in 1 .. L + 1, c[p].first < IntMax
       PROVE  c[p].second.bin \in 0 .. n - 1 /\ c[p].first = S[c[p].second.bin]
  <2>1. p \in 1 .. L /\ c[p] = a[p]
    BY <1>7, <1>12
  <2> QED
    BY <1>9, <1>12, <2>1
<1>13. Marks(c, S, n)
  BY <1>6, <1>10, <1>11, <1>12 DEF Marks
<1> QED
  BY <1>1, <1>2, <1>6, <1>13 DEF NoiseOK, c, E

(* There are no more bins than entries when every bin is that of one.      *)
LEMMA BinsFewer ==
  ASSUME NEW n \in Nat, NEW m \in Nat, NEW bin, \A b \in 0 .. m - 1 : \E k \in 1 .. n : bin[k] = b
  PROVE  m <= n
<1> DEFINE f == [b \in 0 .. m - 1 |-> CHOOSE k \in 1 .. n : bin[k] = b]
<1>1. \A b \in 0 .. m - 1 : f[b] \in 1 .. n /\ bin[f[b]] = b
  OBVIOUS
<1>2. f \in Injection(0 .. m - 1, 1 .. n)
  <2>1. f \in [0 .. m - 1 -> 1 .. n]
    BY <1>1
  <2> HIDE DEF f
  <2>2. \A a, b \in 0 .. m - 1 : f[a] = f[b] => a = b
    BY <1>1
  <2> QED
    BY <2>1, <2>2 DEF Injection, IsInjective
<1>3. IsFiniteSet(0 .. m - 1) /\ Cardinality(0 .. m - 1) = m
  <2>1. 0 \in Int /\ m - 1 \in Int
    OBVIOUS
  <2>2. /\ IsFiniteSet(0 .. m - 1)
        /\ Cardinality(0 .. m - 1) = IF 0 > m - 1 THEN 0 ELSE (m - 1) - 0 + 1
    BY <2>1, FS_Interval
  <2> QED
    BY <2>2
<1>4. IsFiniteSet(1 .. n) /\ Cardinality(1 .. n) = n
  BY FS_Interval
<1>5. Cardinality(0 .. m - 1) <= Cardinality(1 .. n)
  BY <1>2, <1>4, FS_Injection
<1> QED
  BY <1>3, <1>4, <1>5

-----------------------------------------------------------------------------
(* An entry gets its bin.                                                  *)
Assigned(B) ==
  /\ tables' = tables /\ e \in Entries /\ B \in Nat
  /\ keyBinList[e].bin = -1 /\ keyBinList' = [keyBinList EXCEPT ![e].bin = B]

LEMMA AssignedBin ==
  ASSUME TablesOK, KeyListOK, NEW B, Assigned(B)
  PROVE  /\ TablesOK' /\ KeyListOK' /\ Entries' = Entries
         /\ \A k \in Entries : /\ keyBinList'[k].key = keyBinList[k].key
                               /\ keyBinList'[k].count = keyBinList[k].count
                               /\ keyBinList'[k].noise = keyBinList[k].noise
                               /\ keyBinList'[k].bin = IF k = e THEN B ELSE keyBinList[k].bin
<1>0. /\ tables' = tables /\ e \in Entries /\ B \in Nat
      /\ keyBinList[e].bin = -1 /\ keyBinList' = [keyBinList EXCEPT ![e].bin = B]
  BY DEF Assigned
<1>1. keyBinList \in [Entries -> KeyEntry] /\ Listed(keyBinList, NumRows(tables))
  BY DEF KeyListOK
<1>2. TablesOK' /\ Entries' = Entries /\ NumRows(tables)' = NumRows(tables)
  BY <1>0 DEF TablesOK, Entries
<1>3. ASSUME NEW k \in Entries
      PROVE  /\ keyBinList'[k].key = keyBinList[k].key
             /\ keyBinList'[k].count = keyBinList[k].count
             /\ keyBinList'[k].noise = keyBinList[k].noise
             /\ keyBinList'[k].bin = IF k = e THEN B ELSE keyBinList[k].bin
             /\ keyBinList'[k] \in KeyEntry
  <2>1. keyBinList[k] \in KeyEntry /\ keyBinList'[k] = IF k = e THEN [keyBinList[k] EXCEPT !.bin = B] ELSE keyBinList[k]
    BY <1>0, <1>1
  <2>2. CASE k = e
    BY <1>0, <2>1, <2>2 DEF KeyEntry
  <2>3. CASE k # e
    BY <2>1, <2>3
  <2> QED
    BY <2>2, <2>3
<1>4. keyBinList' \in [Entries -> KeyEntry]
  <2>1. keyBinList' = [k \in Entries |-> keyBinList'[k]]
    BY <1>0, <1>1
  <2> QED
    BY <1>3, <2>1
<1>5. Listed(keyBinList, NumRows(tables))'
  <2>1. AllKeys' = AllKeys /\ Counts' = Counts
    BY <1>0 DEF AllKeys, Counts, Count
  <2> QED
    BY <1>1, <1>2, <1>3, <2>1 DEF Listed, Entries
<1> QED
  BY <1>2, <1>3, <1>4, <1>5 DEF KeyListOK

(* The bin then has its records, and the other bins have theirs.           *)
LEMMA AssignedRecords ==
  ASSUME TablesOK, KeyListOK, BinsOK, BinsOK', NEW B, Assigned(B)
  PROVE  \A t \in {1, 2} : \A b \in Nat :
           HeldBy'[t][b] = IF b = B THEN HeldBy[t][b] + keyBinList[e].count[t] ELSE HeldBy[t][b]
<1>0. /\ tables' = tables /\ e \in Entries /\ B \in Nat
      /\ keyBinList[e].bin = -1 /\ keyBinList' = [keyBinList EXCEPT ![e].bin = B]
  BY DEF Assigned
<1>1. /\ Entries' = Entries
      /\ \A k \in Entries : /\ keyBinList'[k].key = keyBinList[k].key
                            /\ keyBinList'[k].bin = IF k = e THEN B ELSE keyBinList[k].bin
  BY AssignedBin
<1>2. ASSUME NEW t \in {1, 2}, NEW b \in Nat
      PROVE  HeldBy'[t][b] = IF b = B THEN HeldBy[t][b] + keyBinList[e].count[t] ELSE HeldBy[t][b]
  <2> DEFINE R == 1 .. Len(tables[t])
             old == {r \in R : RowBin[t][r] = b}
             new == {r \in R : RowBin'[t][r] = b}
             its == KeyRows(t, keyBinList[e].key)
  <2>1. HeldBy[t][b] = Cardinality(old) /\ b \in Int
    BY DEF BinsOK, HeldOK
  <2>2. HeldBy'[t][b] = Cardinality(new)
    <3>1. HeldBy'[t][b] = Cardinality({r \in 1 .. Len(tables'[t]) : RowBin'[t][r] = b})
      BY <2>1 DEF BinsOK, HeldOK
    <3>2. {r \in 1 .. Len(tables'[t]) : RowBin'[t][r] = b} = new
      BY <1>0
    <3> QED
      BY <3>1, <3>2
  <2>3. its = {r \in R : tables[t][r] = keyBinList[e].key}
    BY TableFacts DEF KeyRows
  <2>4. ASSUME NEW r \in R
        PROVE  /\ tables[t][r] = keyBinList[e].key => RowBin[t][r] = -1 /\ RowBin'[t][r] = B
               /\ tables[t][r] # keyBinList[e].key => RowBin'[t][r] = RowBin[t][r]
    <3>1. PICK k \in Entries : keyBinList[k].key = tables[t][r]
      BY DEF BinsOK, RowBinsOK
    <3>2. \A l \in Entries : keyBinList[l].key = tables[t][r] => RowBin[t][r] = keyBinList[l].bin
      BY DEF BinsOK, RowBinsOK
    <3>3. \A l \in Entries : keyBinList[l].key = tables[t][r] => RowBin'[t][r] = keyBinList'[l].bin
      BY <1>0, <1>1 DEF BinsOK, RowBinsOK
    <3> HIDE DEF R
    <3> QED
      BY <1>0, <1>1, <3>1, <3>2, <3>3
  <2>5. /\ IsFiniteSet(old) /\ IsFiniteSet(its) /\ Cardinality(old) \in Nat
        /\ Cardinality(its) = keyBinList[e].count[t] /\ keyBinList[e].count[t] \in Nat
    <3>1. old \in SUBSET DOMAIN tables[t] /\ its \in SUBSET DOMAIN tables[t]
      BY TableFacts DEF KeyRows
    <3>2. Cardinality(its) = keyBinList[e].count[t] /\ keyBinList[e].count[t] \in Nat
      BY <1>0 DEF BinsOK, EntriesOK
    <3> QED
      BY <3>1, <3>2, UptoFinite, FS_CardinalityType
  <2> HIDE DEF R, its
  <2>6. CASE b = B
    <3>1. new = old \cup its /\ old \cap its = {}
      BY <1>0, <2>3, <2>4, <2>6
    <3>2. Cardinality(new) = Cardinality(old) + Cardinality(its) - Cardinality(old \cap its)
      BY <2>5, <3>1, FS_Union
    <3>3. Cardinality(old \cap its) = 0
      BY <3>1, FS_EmptySet
    <3> HIDE DEF old, new
    <3> QED
      BY <2>1, <2>2, <2>5, <2>6, <3>2, <3>3
  <2>7. CASE b # B
    <3>1. new = old
      BY <1>0, <2>3, <2>4, <2>7
    <3> QED
      BY <2>1, <2>2, <2>7, <3>1
  <2> QED
    BY <2>6, <2>7
<1> QED
  BY <1>2

-----------------------------------------------------------------------------
(* The grouping.  Invariants of its phases.                                *)
Products == [b \in Int |-> SizeOf[1][b] * SizeOf[2][b]]

CrossInv(n) == \E Q : Adds(Q, n, Products) /\ crossProductSize = Q[n]

NoiseInv ==
  \A t \in {1, 2} : /\ NoiseOK(noiseArray[t], noiseSum[t], FreeOf[t], NumBins)
                    /\ noiseSum[t] <= NumBins * Bound

GroupInv ==
  /\ TablesOK /\ KeyListOK /\ DenseBins /\ ndense \in Nat /\ n_sparsebins \in Nat
  /\ e \in 1 .. NumRows(tables) + 1
  /\ NoiseInv /\ CrossInv(ndense)

\* An entry left to the sparse bins fits into one, twice.
Small(entry) == \A t \in {1, 2} : entry.count[t] + entry.noise[t] <= 2 * U

DenseInv ==
  /\ n_sparsebins = 0 /\ sbinCount = Both(0) /\ preKey = DummyKey
  /\ \A k \in Entries : /\ keyBinList[k].bin \in -1 .. ndense - 1
                        /\ k >= e => keyBinList[k].bin = -1
                        /\ k < e /\ keyBinList[k].bin = -1 => Small(keyBinList[k])

SparseInv ==
  /\ preKey \in Int \X Int
  /\ \A k \in Entries : /\ keyBinList[k].bin \in -1 .. NumBins
                        /\ k < e => keyBinList[k].bin # -1
                        /\ k >= e => keyBinList[k].bin < ndense
                        /\ keyBinList[k].bin = -1 => Small(keyBinList[k])
  /\ \A t \in {1, 2} : sbinCount[t] = HeldBy[t][NumBins] /\ sbinCount[t] <= 4 * U
  /\ \A b \in ndense .. NumBins - 1 : /\ \E k \in Entries : keyBinList[k].bin = b
                                      /\ \A t \in {1, 2} : HeldBy[t][b] <= 4 * U

BoundOK == Bound \in Nat \ {0} /\ (NumRows(tables) + 1) * Bound <= IntMax - 1 /\ 4 * U <= Bound /\ U \in Nat \ {0}

(* The sums of noise are ints.                                             *)
LEMMA SumBelow ==
  ASSUME TablesOK, BoundOK, NEW m \in Nat, m <= NumRows(tables), NEW s \in Nat, s <= m * Bound
  PROVE  s < IntMax /\ \A f \in Nat : f <= Bound => s + f <= (m + 1) * Bound
<1>1. PICK n \in Nat : n = NumRows(tables)
  BY TableFacts
<1>2. PICK c \in Nat : c = Bound
  BY DEF BoundOK
<1>3. m <= n /\ s <= m * c /\ (n + 1) * c <= IntMax - 1
  BY <1>1, <1>2 DEF BoundOK
<1>4. (m + 1) * c = m * c + c /\ (n + 1) * c = m * c + (n - m) * c + c /\ (n - m) * c >= 0
  BY <1>3
<1>5. PICK x \in Nat, y \in Nat : x = m * c /\ y = (n - m) * c
  BY <1>3, <1>4
<1>6. s <= x /\ x + y + c <= IntMax - 1 /\ (m + 1) * c = x + c
  BY <1>3, <1>4, <1>5
<1>7. s < IntMax
  BY <1>6 DEF IntMax
<1>8. ASSUME NEW f \in Nat, f <= Bound PROVE s + f <= (m + 1) * Bound
  <2>1. f <= c
    BY <1>2, <1>8
  <2>2. s + f <= x + c
    BY <1>6, <2>1
  <2> QED
    BY <1>2, <1>6, <2>2
<1> QED
  BY <1>7, <1>8

LEMMA BoundFacts ==
  ASSUME TablesOK, KeyListOK
  PROVE  BoundOK /\ \A k \in Entries : \A t \in {1, 2} : keyBinList[k].noise[t] <= Bound
<1>1. \A k \in Entries : keyBinList[k].noise \in NoisePairs
  BY DEF KeyListOK, KeyEntry
<1>2. 1 \in Entries
  <2>1. NumRows(tables) \in Nat \ {0}
    BY TableFacts
  <2> QED
    BY <2>1 DEF Entries
<1>3. keyBinList[1].noise \in NoisePairs
  BY <1>1, <1>2
<1>4. BoundOK
  BY <1>3, NoiseBound DEF BoundOK
<1> QED
  BY <1>1, <1>4, NoiseBound

(* A bin that is closed with f free places gets its entry.                 *)
LEMMA BinClosed ==
  ASSUME TablesOK, BoundOK, NEW n \in Nat, n <= NumRows(tables), NEW t \in {1, 2},
         NoiseOK(noiseArray[t], noiseSum[t], FreeOf[t], n), noiseSum[t] <= n * Bound,
         NEW key \in Int \X Int, NEW free, \A b \in 0 .. n - 1 : free[b] = FreeOf[t][b],
         free[n] \in Nat, free[n] <= Bound
  PROVE  /\ NoiseOK(Append(noiseArray[t], Entry(noiseSum[t], [key |-> key, bin |-> n])),
                    noiseSum[t] + free[n], free, n + 1)
         /\ noiseSum[t] + free[n] <= (n + 1) * Bound
<1>1. noiseSum[t] \in Nat
  BY DEF NoiseOK, Adds
<1>2. noiseSum[t] < IntMax /\ noiseSum[t] + free[n] <= (n + 1) * Bound
  BY <1>1, SumBelow
<1> QED
  BY <1>2, NoiseAppended

(* What a step of the loops finds.                                         *)
LEMMA GroupFacts ==
  ASSUME GroupInv
  PROVE  /\ BinsOK /\ BoundOK /\ NumRows(tables) \in Nat /\ Len(keyBinList) = NumRows(tables)
         /\ e <= Len(keyBinList) => e \in Entries
         /\ \A k \in Entries : \A t \in {1, 2} : keyBinList[k].noise[t] \in Nat /\ keyBinList[k].noise[t] <= Bound
         /\ NumBins \in Nat /\ NumBins = ndense + n_sparsebins
<1>1. BinsOK
  BY BinsAreOK DEF GroupInv
<1>2. BoundOK /\ \A k \in Entries : \A t \in {1, 2} : keyBinList[k].noise[t] <= Bound
  BY BoundFacts DEF GroupInv
<1>3. NumRows(tables) \in Nat
  BY TableFacts DEF GroupInv
<1>4. Len(keyBinList) = NumRows(tables) /\ \A k \in Entries : \A t \in {1, 2} : keyBinList[k].noise[t] \in Nat
  BY <1>1 DEF BinsOK, EntriesOK
<1>5. NumBins \in Nat /\ NumBins = ndense + n_sparsebins
  BY DEF GroupInv, NumBins
<1>6. e <= Len(keyBinList) => e \in Entries
  BY <1>3, <1>4 DEF GroupInv, Entries
<1> QED
  BY <1>1, <1>2, <1>3, <1>4, <1>5, <1>6

(* An entry that becomes a dense bin.                                      *)
LEMMA DenseAssigned ==
  ASSUME GroupInv, DenseInv, GroupDense, IsDense
  PROVE  GroupInv' /\ DenseInv'
<1>1. /\ e \in Entries /\ BinsOK /\ BoundOK /\ NumRows(tables) \in Nat
      /\ NumBins = ndense /\ ndense \in Nat /\ n_sparsebins = 0
  <2>1. e \in Entries
    BY GroupFacts DEF GroupDense
  <2>2. n_sparsebins = 0 /\ ndense \in Nat
    BY DEF DenseInv, GroupInv
  <2> QED
    BY <2>1, <2>2, GroupFacts
<1>2. /\ tables' = tables /\ keyBinList' = [keyBinList EXCEPT ![e].bin = ndense] /\ ndense' = ndense + 1
      /\ n_sparsebins' = n_sparsebins /\ sbinCount' = sbinCount /\ preKey' = preKey /\ e' = e + 1
      /\ noiseArray' = [t \in {1, 2} |-> Append(noiseArray[t], Entry(noiseSum[t], [key |-> This.key, bin |-> ndense]))]
      /\ noiseSum' = [t \in {1, 2} |-> noiseSum[t] + This.noise[t]]
      /\ crossProductSize' = crossProductSize + Noisy(This, 1) * Noisy(This, 2)
  BY DEF GroupDense, AppendNoise
<1>3. TablesOK /\ KeyListOK /\ DenseBins
  BY DEF GroupInv
<1>4. \A k \in Entries : /\ keyBinList[k].bin \in -1 .. ndense - 1
                         /\ k >= e => keyBinList[k].bin = -1
                         /\ k < e /\ keyBinList[k].bin = -1 => Small(keyBinList[k])
  BY DEF DenseInv
<1>5. keyBinList[e].bin = -1
  <2>1. e \in Int
    BY <1>1 DEF Entries
  <2> QED
    BY <1>1, <1>4, <2>1
<1>6. Assigned(ndense)
  BY <1>1, <1>2, <1>5 DEF Assigned
<1>7. /\ TablesOK' /\ KeyListOK' /\ Entries' = Entries
      /\ \A k \in Entries : /\ keyBinList'[k].key = keyBinList[k].key
                            /\ keyBinList'[k].count = keyBinList[k].count
                            /\ keyBinList'[k].noise = keyBinList[k].noise
                            /\ keyBinList'[k].bin = IF k = e THEN ndense ELSE keyBinList[k].bin
  BY <1>3, <1>6, AssignedBin
<1>8. DenseBins'
  <2>1. ASSUME NEW b \in 0 .. ndense PROVE \E k \in Entries : keyBinList'[k].bin = b
    <3>1. CASE b = ndense
      BY <1>1, <1>7, <3>1
    <3>2. CASE b # ndense
      <4>1. b \in 0 .. ndense - 1 /\ b # -1
        BY <1>1, <3>2
      <4>2. PICK k \in Entries : keyBinList[k].bin = b
        BY <1>3, <4>1 DEF DenseBins
      <4>3. k # e
        BY <1>5, <4>1, <4>2
      <4> QED
        BY <1>7, <4>2, <4>3
    <3> QED
      BY <3>1, <3>2
  <2>2. ASSUME NEW k \in Entries, NEW l \in Entries, keyBinList'[k].bin \in 0 .. ndense,
               keyBinList'[k].bin = keyBinList'[l].bin
        PROVE  k = l
    <3>1. /\ keyBinList'[k].bin = ndense <=> k = e
          /\ keyBinList'[l].bin = ndense <=> l = e
      BY <1>1, <1>4, <1>7
    <3>2. ASSUME k # e, l # e PROVE k = l
      <4>1. keyBinList[k].bin = keyBinList[l].bin /\ keyBinList[k].bin \in 0 .. ndense /\ keyBinList[k].bin # ndense
        BY <1>7, <2>2, <3>1, <3>2
      <4>2. keyBinList[k].bin \in 0 .. ndense - 1
        BY <1>1, <4>1
      <4> QED
        BY <1>3, <4>1, <4>2 DEF DenseBins
    <3> QED
      BY <2>2, <3>1, <3>2
  <2>3. ndense' - 1 = ndense
    BY <1>1, <1>2
  <2> QED
    BY <1>7, <2>1, <2>2, <2>3 DEF DenseBins
<1>9. BinsOK'
  BY <1>1, <1>2, <1>7, <1>8, NextBinsAreOK
<1>10. ASSUME NEW t \in {1, 2}, NEW b \in 0 .. ndense - 1
       PROVE  SizeOf'[t][b] = SizeOf[t][b] /\ FreeOf'[t][b] = FreeOf[t][b]
  <2>1. PICK k \in Entries : keyBinList[k].bin = b
    BY <1>3 DEF DenseBins
  <2>2. SizeOf[t][b] = keyBinList[k].count[t] + keyBinList[k].noise[t] /\ FreeOf[t][b] = keyBinList[k].noise[t]
    BY <1>1, <2>1 DEF BinsOK, DenseOK
  <2>3. keyBinList'[k].bin = b /\ b \in 0 .. ndense' - 1
    <3>1. b # -1 /\ b \in 0 .. ndense
      BY <1>1
    <3> QED
      BY <1>1, <1>2, <1>5, <1>7, <2>1, <3>1
  <2>4. SizeOf'[t][b] = keyBinList'[k].count[t] + keyBinList'[k].noise[t] /\ FreeOf'[t][b] = keyBinList'[k].noise[t]
    BY <1>7, <1>9, <2>3 DEF BinsOK, DenseOK
  <2> QED
    BY <1>7, <2>2, <2>4
<1>11. ASSUME NEW t \in {1, 2}
       PROVE  SizeOf'[t][ndense] = keyBinList[e].count[t] + keyBinList[e].noise[t] /\ FreeOf'[t][ndense] = keyBinList[e].noise[t]
  <2>1. keyBinList'[e].bin = ndense /\ ndense \in 0 .. ndense' - 1
    BY <1>1, <1>2, <1>7
  <2>2. SizeOf'[t][ndense] = keyBinList'[e].count[t] + keyBinList'[e].noise[t] /\ FreeOf'[t][ndense] = keyBinList'[e].noise[t]
    BY <1>1, <1>7, <1>9, <2>1 DEF BinsOK, DenseOK
  <2> QED
    BY <1>1, <1>7, <2>2
<1>12. \A t \in {1, 2} : keyBinList[e].noise[t] \in Nat /\ keyBinList[e].noise[t] <= Bound
  BY <1>1, GroupFacts
<1>13. ndense <= NumRows(tables)
  <2> DEFINE bin == [k \in Entries |-> keyBinList[k].bin]
  <2>1. \A b \in 0 .. ndense - 1 : \E k \in 1 .. NumRows(tables) : bin[k] = b
    BY <1>3 DEF DenseBins, Entries
  <2> HIDE DEF bin
  <2> QED
    BY <1>1, <2>1, BinsFewer
<1>14. This = keyBinList[e] /\ This.key \in Int \X Int
  BY <1>1 DEF This, BinsOK, EntriesOK
<1>15. NumBins' = ndense + 1
  BY <1>1, <1>2 DEF NumBins
<1>16. Bound' = Bound
  BY <1>2 DEF Bound
<1>17. NoiseInv'
  <2> SUFFICES ASSUME NEW t \in {1, 2}
               PROVE  /\ NoiseOK(noiseArray'[t], noiseSum'[t], FreeOf'[t], ndense + 1)
                      /\ noiseSum'[t] <= (ndense + 1) * Bound
    BY <1>15, <1>16 DEF NoiseInv
  <2>1. NoiseOK(noiseArray[t], noiseSum[t], FreeOf[t], ndense) /\ noiseSum[t] <= ndense * Bound
    BY <1>1 DEF GroupInv, NoiseInv
  <2> DEFINE free == FreeOf'[t]
  <2>2. (\A b \in 0 .. ndense - 1 : free[b] = FreeOf[t][b]) /\ free[ndense] \in Nat /\ free[ndense] <= Bound
    BY <1>10, <1>11, <1>12
  <2>3. noiseArray'[t] = Append(noiseArray[t], Entry(noiseSum[t], [key |-> This.key, bin |-> ndense]))
    BY <1>2
  <2>4. noiseSum'[t] = noiseSum[t] + free[ndense]
    BY <1>2, <1>11, <1>14
  <2> HIDE DEF free
  <2>5. /\ NoiseOK(Append(noiseArray[t], Entry(noiseSum[t], [key |-> This.key, bin |-> ndense])),
                   noiseSum[t] + free[ndense], free, ndense + 1)
        /\ noiseSum[t] + free[ndense] <= (ndense + 1) * Bound
    BY <1>1, <1>3, <1>13, <1>14, <2>1, <2>2, BinClosed
  <2> QED
    BY <2>3, <2>4, <2>5 DEF free
<1>18. CrossInv(ndense)'
  <2>1. PICK Q : Adds(Q, ndense, Products) /\ crossProductSize = Q[ndense]
    BY DEF GroupInv, CrossInv
  <2> DEFINE step == Products'
  <2>2. \A b \in 0 .. ndense - 1 : step[b] = Products[b]
    BY <1>10 DEF Products
  <2>3. step[ndense] = Noisy(This, 1) * Noisy(This, 2) /\ step[ndense] \in Nat
    <3>1. ndense \in Int /\ step[ndense] = SizeOf'[1][ndense] * SizeOf'[2][ndense]
      BY <1>1 DEF Products
    <3>2. \A t \in {1, 2} : SizeOf'[t][ndense] = Noisy(This, t) /\ Noisy(This, t) \in Nat
      BY <1>1, <1>11, <1>14 DEF BinsOK, EntriesOK
    <3>3. PICK x \in Nat, y \in Nat : x = Noisy(This, 1) /\ y = Noisy(This, 2)
      BY <3>2
    <3>4. SizeOf'[1][ndense] = x /\ SizeOf'[2][ndense] = y
      BY <3>2, <3>3
    <3> QED
      BY <3>1, <3>3, <3>4
  <2> HIDE DEF step
  <2>4. PICK T : Adds(T, ndense + 1, step) /\ T[ndense + 1] = Q[ndense] + step[ndense]
    BY <2>1, <2>2, <2>3, AddsOne
  <2>5. crossProductSize' = T[ndense + 1]
    BY <1>2, <2>1, <2>3, <2>4
  <2> QED
    BY <1>2, <2>4, <2>5 DEF CrossInv, step
<1>19. e' \in 1 .. NumRows(tables) + 1 /\ (ndense' \in Nat /\ n_sparsebins' \in Nat)
  BY <1>1, <1>2 DEF Entries
<1>20. GroupInv'
  BY <1>2, <1>7, <1>8, <1>17, <1>18, <1>19 DEF GroupInv
<1>21. DenseInv'
  <2>1. ASSUME NEW k \in Entries
        PROVE  /\ keyBinList'[k].bin \in -1 .. ndense' - 1
               /\ k >= e' => keyBinList'[k].bin = -1
               /\ k < e' /\ keyBinList'[k].bin = -1 => Small(keyBinList'[k])
    <3>1. e \in Nat /\ k \in Nat /\ e' = e + 1 /\ ndense' = ndense + 1 /\ ndense \in Nat
      BY <1>1, <1>2 DEF Entries
    <3>2. CASE k = e
      BY <1>7, <3>1, <3>2
    <3>3. CASE k # e
      <4>1. keyBinList'[k].bin = keyBinList[k].bin
        BY <1>7, <3>3
      <4>2. keyBinList[k].bin \in -1 .. ndense
        BY <1>4, <3>1
      <4>3. k >= e' => keyBinList[k].bin = -1
        BY <1>4, <3>1
      <4>4. k < e' /\ keyBinList[k].bin = -1 => Small(keyBinList'[k])
        BY <1>4, <1>7, <3>1, <3>3 DEF Small
      <4> QED
        BY <3>1, <4>1, <4>2, <4>3, <4>4
    <3> QED
      BY <3>2, <3>3
  <2>2. n_sparsebins' = 0 /\ sbinCount' = Both(0) /\ preKey' = DummyKey
    BY <1>2 DEF DenseInv
  <2> QED
    BY <1>7, <2>1, <2>2 DEF DenseInv, Small, Both, DummyKey, IntMin
<1> QED
  BY <1>20, <1>21

SameBins == tables' = tables /\ keyBinList' = keyBinList /\ ndense' = ndense

LEMMA BinsUnchanged ==
  ASSUME SameBins
  PROVE  /\ RowBin' = RowBin /\ HeldBy' = HeldBy /\ SizeOf' = SizeOf /\ FreeOf' = FreeOf /\ Products' = Products
         /\ Entries' = Entries /\ Bound' = Bound /\ NumRows(tables)' = NumRows(tables)
         /\ TablesOK' = TablesOK /\ KeyListOK' = KeyListOK /\ DenseBins' = DenseBins
<1>1. tables' = tables /\ keyBinList' = keyBinList /\ ndense' = ndense
  BY DEF SameBins
<1>2. RowBin' = RowBin
  BY <1>1 DEF RowBin, BinOf
<1>3. HeldBy' = HeldBy
  BY <1>1 DEF HeldBy, Held, RecordsOf, BinOf
<1>4. SizeOf' = SizeOf
  BY <1>1 DEF SizeOf, Size, Noisy
<1>5. FreeOf' = FreeOf
  BY <1>1 DEF FreeOf, Free, Size, Noisy, Held, RecordsOf, BinOf
<1>6. Products' = Products
  BY <1>4 DEF Products
<1>7. Entries' = Entries /\ NumRows(tables)' = NumRows(tables) /\ Bound' = Bound /\ (TablesOK' <=> TablesOK)
  BY <1>1 DEF Entries, Bound, TablesOK
<1>8. AllKeys' = AllKeys /\ Counts' = Counts
  BY <1>1 DEF AllKeys, Counts, Count
<1>9. Listed(keyBinList, NumRows(tables))' <=> Listed(keyBinList, NumRows(tables))
  BY <1>1, <1>7, <1>8 DEF Listed, Both, DummyKey, IntMin
<1>10. KeyListOK' <=> KeyListOK
  BY <1>1, <1>7, <1>9 DEF KeyListOK
<1>11. DenseBins' <=> DenseBins
  BY <1>1, <1>7 DEF DenseBins
<1> QED
  BY <1>2, <1>3, <1>4, <1>5, <1>6, <1>7, <1>10, <1>11

(* A step of the loops that leaves the entries and their bins alone.       *)
LEMMA GroupUnchanged ==
  ASSUME GroupInv, SameBins, n_sparsebins' = n_sparsebins, e' \in 1 .. NumRows(tables) + 1,
         noiseArray' = noiseArray, noiseSum' = noiseSum, crossProductSize' = crossProductSize
  PROVE  GroupInv'
<1>1. /\ FreeOf' = FreeOf /\ Products' = Products /\ Bound' = Bound /\ NumRows(tables)' = NumRows(tables)
      /\ TablesOK' = TablesOK /\ KeyListOK' = KeyListOK /\ DenseBins' = DenseBins
  BY BinsUnchanged
<1>2. NumBins' = NumBins /\ ndense' = ndense
  BY DEF NumBins, SameBins
<1>3. NoiseInv'
  BY <1>1, <1>2 DEF GroupInv, NoiseInv
<1>4. CrossInv(ndense)'
  BY <1>1, <1>2 DEF GroupInv, CrossInv
<1> QED
  BY <1>1, <1>2, <1>3, <1>4 DEF GroupInv

LEMMA DenseLoop ==
  ASSUME GroupInv, DenseInv, GroupDense
  PROVE  GroupInv' /\ DenseInv'
<1>1. CASE IsDense
  BY <1>1, DenseAssigned
<1>2. CASE ~IsDense
  <2>1. /\ SameBins /\ n_sparsebins' = n_sparsebins /\ e' = e + 1 /\ e \in Entries
        /\ noiseArray' = noiseArray /\ noiseSum' = noiseSum /\ crossProductSize' = crossProductSize
        /\ sbinCount' = sbinCount /\ preKey' = preKey
    BY <1>2, GroupFacts DEF GroupDense, SameBins, fillVars
  <2>2. e' \in 1 .. NumRows(tables) + 1
    BY <2>1, GroupFacts DEF Entries
  <2>3. GroupInv'
    BY <2>1, <2>2, GroupUnchanged
  <2>4. Entries' = Entries /\ keyBinList' = keyBinList /\ ndense' = ndense
    BY <2>1, BinsUnchanged DEF SameBins
  <2>5. Small(keyBinList[e])
    <3>1. \A t \in {1, 2} : ~ (Noisy(This, t) > 2 * U)
      BY <1>2 DEF IsDense
    <3>2. \A t \in {1, 2} : Noisy(This, t) \in Nat /\ Noisy(This, t) = keyBinList[e].count[t] + keyBinList[e].noise[t]
      BY <2>1, GroupFacts DEF This, BinsOK, EntriesOK
    <3>3. 2 * U \in Nat
      BY CZSCAssumption
    <3> QED
      BY <3>1, <3>2, <3>3 DEF Small
  <2>6. ASSUME NEW k \in Entries
        PROVE  /\ keyBinList[k].bin \in -1 .. ndense - 1
               /\ k >= e + 1 => keyBinList[k].bin = -1
               /\ k < e + 1 /\ keyBinList[k].bin = -1 => Small(keyBinList[k])
    <3>1. k \in Nat /\ e \in Nat
      BY <2>1, GroupFacts DEF Entries
    <3>2. /\ keyBinList[k].bin \in -1 .. ndense - 1
          /\ k >= e => keyBinList[k].bin = -1
          /\ k < e /\ keyBinList[k].bin = -1 => Small(keyBinList[k])
      BY DEF DenseInv
    <3> QED
      BY <2>5, <3>1, <3>2
  <2>7. n_sparsebins' = 0 /\ sbinCount' = Both(0) /\ preKey' = DummyKey
    BY <2>1 DEF DenseInv
  <2>8. DenseInv'
    BY <2>1, <2>4, <2>6, <2>7 DEF DenseInv, Small, Both, DummyKey, IntMin
  <2> QED
    BY <2>3, <2>8
<1> QED
  BY <1>1, <1>2

(* No record is in a bin that no entry has.                                *)
LEMMA NoneHeld ==
  ASSUME TablesOK, BinsOK, NEW b \in Int, \A k \in Entries : keyBinList[k].bin # b, NEW t \in {1, 2}
  PROVE  HeldBy[t][b] = 0
<1>1. {r \in 1 .. Len(tables[t]) : RowBin[t][r] = b} = {}
  <2> SUFFICES ASSUME NEW r \in 1 .. Len(tables[t]) PROVE RowBin[t][r] # b
    OBVIOUS
  <2>1. PICK k \in Entries : keyBinList[k].key = tables[t][r] /\ RowBin[t][r] = keyBinList[k].bin
    BY DEF BinsOK, RowBinsOK
  <2> QED
    BY <2>1
<1>2. HeldBy[t][b] = Cardinality({r \in 1 .. Len(tables[t]) : RowBin[t][r] = b})
  BY DEF BinsOK, HeldOK
<1> QED
  BY <1>1, <1>2, FS_EmptySet

LEMMA DenseLoopEnds ==
  ASSUME GroupInv, DenseInv, EndDense
  PROVE  GroupInv' /\ SparseInv'
<1>1. /\ SameBins /\ n_sparsebins' = n_sparsebins /\ e' = 1 /\ e > Len(keyBinList)
      /\ noiseArray' = noiseArray /\ noiseSum' = noiseSum /\ crossProductSize' = crossProductSize
      /\ sbinCount' = sbinCount /\ preKey' = preKey
  BY DEF EndDense, SameBins, keyVars, groupVars, fillVars
<1>2. BinsOK /\ NumRows(tables) \in Nat /\ Len(keyBinList) = NumRows(tables) /\ NumBins = ndense + n_sparsebins
  BY GroupFacts
<1>3. e' \in 1 .. NumRows(tables) + 1
  BY <1>1, <1>2
<1>4. GroupInv'
  BY <1>1, <1>3, GroupUnchanged
<1>5. Entries' = Entries /\ HeldBy' = HeldBy /\ keyBinList' = keyBinList /\ ndense' = ndense
  BY <1>1, BinsUnchanged DEF SameBins
<1>6. NumBins = ndense /\ NumBins' = ndense /\ ndense \in Nat
  BY <1>1, <1>2, <1>5 DEF DenseInv, GroupInv, NumBins
<1>7. ASSUME NEW k \in Entries
      PROVE  /\ keyBinList[k].bin \in -1 .. ndense
             /\ ~ (k < 1) /\ keyBinList[k].bin < ndense
             /\ keyBinList[k].bin = -1 => Small(keyBinList[k])
  <2>1. k \in Nat /\ k >= 1 /\ k < e
    BY <1>1, <1>2 DEF GroupInv, Entries
  <2>2. keyBinList[k].bin \in -1 .. ndense - 1 /\ (keyBinList[k].bin = -1 => Small(keyBinList[k]))
    BY <2>1 DEF DenseInv
  <2> QED
    BY <1>6, <2>1, <2>2
<1>8. ASSUME NEW t \in {1, 2} PROVE sbinCount[t] = 0 /\ HeldBy[t][ndense] = 0
  <2>1. \A k \in Entries : keyBinList[k].bin # ndense
    BY <1>6, <1>7
  <2> QED
    BY <1>2, <1>6, <2>1, NoneHeld DEF DenseInv, GroupInv, Both
<1>9. 0 <= 4 * U /\ DummyKey \in Int \X Int
  BY CZSCAssumption DEF DummyKey, IntMin
<1>10. \A b \in ndense .. ndense - 1 : FALSE
  BY <1>6
<1>11. preKey' \in Int \X Int
  BY <1>1, <1>9 DEF DenseInv
<1>12. SparseInv'
  BY <1>1, <1>5, <1>6, <1>7, <1>8, <1>9, <1>10, <1>11 DEF SparseInv, Small
<1> QED
  BY <1>4, <1>12

(* An entry that goes into a sparse bin leaves the sizes of bins alone.    *)
LEMMA SparseAssigned ==
  ASSUME GroupInv, NEW B, Assigned(B), B >= ndense, ndense' = ndense
  PROVE  /\ TablesOK' /\ KeyListOK' /\ DenseBins' /\ BinsOK' /\ Entries' = Entries
         /\ \A k \in Entries : /\ keyBinList'[k].key = keyBinList[k].key
                               /\ keyBinList'[k].count = keyBinList[k].count
                               /\ keyBinList'[k].noise = keyBinList[k].noise
                               /\ keyBinList'[k].bin = IF k = e THEN B ELSE keyBinList[k].bin
         /\ \A t \in {1, 2} : \A b \in Nat :
              /\ SizeOf'[t][b] = SizeOf[t][b]
              /\ HeldBy'[t][b] = IF b = B THEN HeldBy[t][b] + keyBinList[e].count[t] ELSE HeldBy[t][b]
              /\ b # B => FreeOf'[t][b] = FreeOf[t][b]
              /\ b >= ndense => FreeOf'[t][b] = 4 * U - HeldBy'[t][b] /\ HeldBy'[t][b] \in Nat
         /\ \A Q : Adds(Q, ndense, Products) => Adds(Q, ndense, Products')
<1>1. TablesOK /\ KeyListOK /\ DenseBins /\ BinsOK /\ ndense \in Nat /\ B \in Nat /\ e \in Entries
  BY GroupFacts DEF GroupInv, Assigned
<1>2. keyBinList[e].bin = -1
  BY DEF Assigned
<1>3. /\ TablesOK' /\ KeyListOK' /\ Entries' = Entries
      /\ \A k \in Entries : /\ keyBinList'[k].key = keyBinList[k].key
                            /\ keyBinList'[k].count = keyBinList[k].count
                            /\ keyBinList'[k].noise = keyBinList[k].noise
                            /\ keyBinList'[k].bin = IF k = e THEN B ELSE keyBinList[k].bin
  BY <1>1, AssignedBin
<1>4. DenseBins'
  <2>1. ASSUME NEW b \in 0 .. ndense - 1 PROVE \E k \in Entries : keyBinList'[k].bin = b
    <3>1. PICK k \in Entries : keyBinList[k].bin = b
      BY <1>1 DEF DenseBins
    <3>2. b # -1
      BY <1>1
    <3> QED
      BY <1>2, <1>3, <3>1, <3>2
  <2>2. ASSUME NEW k \in Entries, NEW l \in Entries, keyBinList'[k].bin \in 0 .. ndense - 1,
               keyBinList'[k].bin = keyBinList'[l].bin
        PROVE  k = l
    <3>1. B \notin 0 .. ndense - 1
      BY <1>1
    <3>2. k # e /\ l # e
      BY <1>3, <2>2, <3>1
    <3> QED
      BY <1>1, <1>3, <2>2, <3>2 DEF DenseBins
  <2> QED
    BY <1>3, <2>1, <2>2 DEF DenseBins
<1>5. BinsOK'
  BY <1>1, <1>3, <1>4, NextBinsAreOK
<1>6. ASSUME NEW t \in {1, 2}, NEW b \in Nat PROVE SizeOf'[t][b] = SizeOf[t][b]
  <2>1. CASE b >= ndense
    <3>1. b \in Int
      OBVIOUS
    <3>2. SizeOf[t][b] = 4 * U
      BY <1>1, <2>1, <3>1 DEF BinsOK, SparseOK
    <3>3. SizeOf'[t][b] = 4 * U
      BY <1>5, <2>1, <3>1 DEF BinsOK, SparseOK
    <3> QED
      BY <3>2, <3>3
  <2>2. CASE ~ (b >= ndense)
    <3>1. b \in 0 .. ndense - 1 /\ b # -1
      BY <1>1, <2>2
    <3>2. PICK k \in Entries : keyBinList[k].bin = b
      BY <1>1, <3>1 DEF DenseBins
    <3>3. SizeOf[t][b] = keyBinList[k].count[t] + keyBinList[k].noise[t]
      BY <1>1, <3>1, <3>2 DEF BinsOK, DenseOK
    <3>4. keyBinList'[k].bin = b
      BY <1>2, <1>3, <3>1, <3>2
    <3>5. SizeOf'[t][b] = keyBinList'[k].count[t] + keyBinList'[k].noise[t]
      BY <1>3, <1>5, <3>1, <3>4 DEF BinsOK, DenseOK
    <3> QED
      BY <1>3, <3>3, <3>5
  <2> QED
    BY <2>1, <2>2
<1>7. \A t \in {1, 2} : \A b \in Nat :
        HeldBy'[t][b] = IF b = B THEN HeldBy[t][b] + keyBinList[e].count[t] ELSE HeldBy[t][b]
  BY <1>1, <1>5, AssignedRecords
<1>8. ASSUME NEW t \in {1, 2}, NEW b \in Nat
      PROVE  /\ b # B => FreeOf'[t][b] = FreeOf[t][b]
             /\ b >= ndense => FreeOf'[t][b] = 4 * U - HeldBy'[t][b] /\ HeldBy'[t][b] \in Nat
  <2>1. b \in Int
    OBVIOUS
  <2>2. FreeOf[t][b] = SizeOf[t][b] - HeldBy[t][b]
    BY <1>1, <2>1 DEF BinsOK, HeldOK
  <2>3. FreeOf'[t][b] = SizeOf'[t][b] - HeldBy'[t][b] /\ HeldBy'[t][b] \in Nat
    BY <1>5, <2>1 DEF BinsOK, HeldOK
  <2>4. b # B => FreeOf'[t][b] = FreeOf[t][b]
    BY <1>6, <1>7, <2>2, <2>3
  <2>5. b >= ndense => SizeOf'[t][b] = 4 * U
    BY <1>5, <2>1 DEF BinsOK, SparseOK
  <2> QED
    BY <2>3, <2>4, <2>5
<1>9. ASSUME NEW Q, Adds(Q, ndense, Products) PROVE Adds(Q, ndense, Products')
  <2>1. \A b \in 0 .. ndense - 1 : Products'[b] = Products[b]
    <3>1. \A b \in 0 .. ndense - 1 : b \in Nat /\ b \in Int
      BY <1>1
    <3> QED
      BY <1>6, <3>1 DEF Products
  <2> QED
    BY <1>9, <2>1 DEF Adds
<1> QED
  BY <1>3, <1>4, <1>5, <1>6, <1>7, <1>8, <1>9

(* What the second loop finds.                                             *)
LEMMA SparseFacts ==
  ASSUME GroupInv, SparseInv
  PROVE  /\ \A k \in Entries : keyBinList[k].bin \in -1 .. NumBins
         /\ \A k \in Entries : k >= e => keyBinList[k].bin < ndense
         /\ \A t \in {1, 2} : /\ sbinCount[t] \in Nat /\ sbinCount[t] <= 4 * U
                              /\ sbinCount[t] = HeldBy[t][NumBins]
                              /\ FreeOf[t][NumBins] = 4 * U - sbinCount[t]
                              /\ HeldBy[t][NumBins + 1] = 0
         /\ NumBins >= ndense /\ NumBins <= NumRows(tables) /\ 4 * U \in Nat /\ 4 * U <= Bound
<1>1. BinsOK /\ NumRows(tables) \in Nat /\ NumBins \in Nat /\ NumBins = ndense + n_sparsebins /\ BoundOK
  BY GroupFacts
<1>2. NumBins >= ndense /\ ndense \in Nat
  BY <1>1 DEF GroupInv
<1>3. NumBins <= NumRows(tables)
  <2> DEFINE bin == [k \in Entries |-> keyBinList[k].bin]
  <2>1. ASSUME NEW b \in 0 .. NumBins - 1 PROVE \E k \in 1 .. NumRows(tables) : bin[k] = b
    <3>1. b \in 0 .. ndense - 1 \/ b \in ndense .. NumBins - 1
      BY <1>1, <1>2
    <3>2. \E k \in Entries : keyBinList[k].bin = b
      BY <3>1 DEF SparseInv, GroupInv, DenseBins
    <3> QED
      BY <3>2 DEF Entries
  <2> HIDE DEF bin
  <2> QED
    BY <1>1, <2>1, BinsFewer
<1>4. ASSUME NEW t \in {1, 2}
      PROVE  /\ sbinCount[t] \in Nat /\ sbinCount[t] <= 4 * U
             /\ sbinCount[t] = HeldBy[t][NumBins]
             /\ FreeOf[t][NumBins] = 4 * U - sbinCount[t]
             /\ HeldBy[t][NumBins + 1] = 0
  <2>1. sbinCount[t] = HeldBy[t][NumBins] /\ sbinCount[t] <= 4 * U
    BY DEF SparseInv
  <2>2. NumBins \in Int /\ NumBins + 1 \in Int
    BY <1>1
  <2>3. HeldBy[t][NumBins] \in Nat /\ FreeOf[t][NumBins] = SizeOf[t][NumBins] - HeldBy[t][NumBins]
    BY <1>1, <2>2 DEF BinsOK, HeldOK
  <2>4. SizeOf[t][NumBins] = 4 * U
    BY <1>1, <1>2, <2>2 DEF BinsOK, SparseOK
  <2>5. \A k \in Entries : keyBinList[k].bin # NumBins + 1
    BY <1>1 DEF SparseInv
  <2>6. HeldBy[t][NumBins + 1] = 0
    BY <1>1, <2>2, <2>5, NoneHeld DEF GroupInv
  <2> QED
    BY <2>1, <2>3, <2>4, <2>6
<1>5. 4 * U \in Nat /\ 4 * U <= Bound
  BY <1>1, CZSCAssumption DEF BoundOK
<1> QED
  BY <1>2, <1>3, <1>4, <1>5 DEF SparseInv

(* An entry is small when the second loop packs it.                        *)
LEMMA PackedFacts ==
  ASSUME GroupInv, SparseInv, GroupSparse, This.bin = -1
  PROVE  /\ e \in Entries /\ keyBinList[e].bin = -1 /\ This = keyBinList[e]
         /\ \A t \in {1, 2} : keyBinList[e].count[t] \in Nat /\ keyBinList[e].count[t] <= 2 * U
         /\ keyBinList[e].key \in Int \X Int /\ preKey' \in Int \X Int /\ preKey \in Int \X Int
         /\ tables' = tables /\ ndense' = ndense /\ e' = e + 1 /\ crossProductSize' = crossProductSize
         /\ keyBinList' = [keyBinList EXCEPT ![e].bin = ndense + n_sparsebins']
         /\ e' \in 1 .. NumRows(tables) + 1
<1>1. e \in Entries /\ This = keyBinList[e] /\ BinsOK /\ NumRows(tables) \in Nat
  BY GroupFacts DEF GroupSparse, This
<1>2. /\ tables' = tables /\ ndense' = ndense /\ e' = e + 1 /\ crossProductSize' = crossProductSize
      /\ keyBinList' = [keyBinList EXCEPT ![e].bin = ndense + n_sparsebins']
      /\ preKey' = IF This.key # DummyKey THEN This.key ELSE preKey
  BY DEF GroupSparse
<1>3. /\ keyBinList[e].key \in Int \X Int
      /\ \A t \in {1, 2} : keyBinList[e].count[t] \in Nat /\ keyBinList[e].noise[t] \in Nat
  BY <1>1 DEF BinsOK, EntriesOK
<1>4. preKey \in Int \X Int /\ Small(keyBinList[e])
  BY <1>1 DEF SparseInv
<1>5. ASSUME NEW t \in {1, 2} PROVE keyBinList[e].count[t] <= 2 * U
  <2>1. keyBinList[e].count[t] + keyBinList[e].noise[t] <= 2 * U
    BY <1>4 DEF Small
  <2>2. PICK x \in Nat, y \in Nat : x = keyBinList[e].count[t] /\ y = keyBinList[e].noise[t]
    BY <1>3
  <2>3. PICK u \in Nat : u = 2 * U
    BY CZSCAssumption
  <2>4. x + y <= u
    BY <2>1, <2>2, <2>3
  <2> QED
    BY <2>2, <2>3, <2>4
<1>6. e' \in 1 .. NumRows(tables) + 1
  BY <1>1, <1>2 DEF Entries
<1> QED
  BY <1>1, <1>2, <1>3, <1>4, <1>5, <1>6

\* What the entries of the sparse loop become.
LEMMA SparseEntries ==
  ASSUME GroupInv, SparseInv, e \in Entries, e' = e + 1, Entries' = Entries, NEW B \in Nat, B >= ndense,
         ndense' = ndense, NumBins' = B,
         \A k \in Entries : /\ keyBinList'[k].count = keyBinList[k].count
                            /\ keyBinList'[k].noise = keyBinList[k].noise
                            /\ keyBinList'[k].bin = IF k = e THEN B ELSE keyBinList[k].bin,
         B >= NumBins
  PROVE  \A k \in Entries : /\ keyBinList'[k].bin \in -1 .. NumBins'
                            /\ k < e' => keyBinList'[k].bin # -1
                            /\ k >= e' => keyBinList'[k].bin < ndense'
                            /\ keyBinList'[k].bin = -1 => Small(keyBinList'[k])
<1> SUFFICES ASSUME NEW k \in Entries
             PROVE  /\ keyBinList'[k].bin \in -1 .. B
                    /\ k < e + 1 => keyBinList'[k].bin # -1
                    /\ k >= e + 1 => keyBinList'[k].bin < ndense
                    /\ keyBinList'[k].bin = -1 => Small(keyBinList'[k])
  OBVIOUS
<1>1. k \in Nat /\ e \in Nat /\ NumBins \in Nat
  BY GroupFacts DEF Entries
<1>2. CASE k = e
  BY <1>1, <1>2
<1>3. CASE k # e
  <2>1. /\ keyBinList[k].bin \in -1 .. NumBins
        /\ k < e => keyBinList[k].bin # -1
        /\ k >= e => keyBinList[k].bin < ndense
        /\ keyBinList[k].bin = -1 => Small(keyBinList[k])
    BY DEF SparseInv
  <2>2. keyBinList'[k].bin = keyBinList[k].bin
    BY <1>3
  <2>3. keyBinList'[k].bin = -1 => Small(keyBinList'[k])
    BY <2>1, <2>2 DEF Small
  <2> QED
    BY <1>1, <1>3, <2>1, <2>2, <2>3
<1> QED
  BY <1>2, <1>3

LEMMA SparsePacked ==
  ASSUME GroupInv, SparseInv, GroupSparse, This.bin = -1, ~Overflows
  PROVE  GroupInv' /\ SparseInv'
<1>1. /\ e \in Entries /\ keyBinList[e].bin = -1 /\ This = keyBinList[e]
      /\ \A t \in {1, 2} : keyBinList[e].count[t] \in Nat
      /\ preKey' \in Int \X Int
      /\ tables' = tables /\ ndense' = ndense /\ e' = e + 1 /\ crossProductSize' = crossProductSize
      /\ keyBinList' = [keyBinList EXCEPT ![e].bin = ndense + n_sparsebins']
      /\ e' \in 1 .. NumRows(tables) + 1
  BY PackedFacts
<1>2. /\ n_sparsebins' = n_sparsebins /\ noiseSum' = noiseSum
      /\ noiseArray' = [t \in {1, 2} |-> Append(noiseArray[t], Entry(IntMax, [key |-> DummyKey, bin |-> NumBins]))]
      /\ sbinCount' = [t \in {1, 2} |-> sbinCount[t] + This.count[t]]
  <2>1. AppendNoise(Both(IntMax), DummyKey, ndense + n_sparsebins)
    BY DEF GroupSparse
  <2> QED
    BY <2>1 DEF GroupSparse, AppendNoise, Both, NumBins
<1>3. NumBins \in Nat /\ NumBins' = NumBins /\ NumBins >= ndense /\ NumBins = ndense + n_sparsebins /\ ndense \in Nat
  BY <1>1, <1>2, GroupFacts, SparseFacts DEF NumBins, GroupInv
<1>4. Assigned(NumBins)
  BY <1>1, <1>2, <1>3 DEF Assigned
<1>5. /\ TablesOK' /\ KeyListOK' /\ DenseBins' /\ BinsOK' /\ Entries' = Entries
      /\ \A k \in Entries : /\ keyBinList'[k].count = keyBinList[k].count
                            /\ keyBinList'[k].noise = keyBinList[k].noise
                            /\ keyBinList'[k].bin = IF k = e THEN NumBins ELSE keyBinList[k].bin
      /\ \A t \in {1, 2} : \A b \in Nat :
           /\ HeldBy'[t][b] = IF b = NumBins THEN HeldBy[t][b] + keyBinList[e].count[t] ELSE HeldBy[t][b]
           /\ b # NumBins => FreeOf'[t][b] = FreeOf[t][b]
      /\ \A Q : Adds(Q, ndense, Products) => Adds(Q, ndense, Products')
  BY <1>1, <1>3, <1>4, SparseAssigned
<1>6. Bound' = Bound /\ NumRows(tables)' = NumRows(tables)
  BY <1>1 DEF Bound
<1>7. NoiseInv'
  <2> SUFFICES ASSUME NEW t \in {1, 2}
               PROVE  /\ NoiseOK(noiseArray'[t], noiseSum'[t], FreeOf'[t], NumBins)
                      /\ noiseSum'[t] <= NumBins * Bound
    BY <1>3, <1>6 DEF NoiseInv
  <2>1. NoiseOK(noiseArray[t], noiseSum[t], FreeOf[t], NumBins) /\ noiseSum[t] <= NumBins * Bound
    BY DEF GroupInv, NoiseInv
  <2> DEFINE free == FreeOf'[t]
  <2>2. \A b \in 0 .. NumBins - 1 : free[b] = FreeOf[t][b]
    <3>1. \A b \in 0 .. NumBins - 1 : b \in Nat /\ b # NumBins
      BY <1>3
    <3> QED
      BY <1>5, <3>1
  <2>3. noiseArray'[t] = Append(noiseArray[t], Entry(IntMax, [key |-> DummyKey, bin |-> NumBins])) /\ noiseSum'[t] = noiseSum[t]
    BY <1>2
  <2>4. DummyKey \in Int \X Int /\ NumBins \in Int
    BY <1>3 DEF DummyKey, IntMin
  <2> HIDE DEF free
  <2>5. NoiseOK(Append(noiseArray[t], Entry(IntMax, [key |-> DummyKey, bin |-> NumBins])), noiseSum[t], free, NumBins)
    BY <2>1, <2>2, <2>4, NoiseSkipped
  <2> QED
    BY <2>1, <2>3, <2>5 DEF free
<1>8. CrossInv(ndense)'
  BY <1>1, <1>5 DEF GroupInv, CrossInv
<1>9. GroupInv'
  BY <1>1, <1>2, <1>5, <1>6, <1>7, <1>8 DEF GroupInv
<1>10. \A k \in Entries : /\ keyBinList'[k].bin \in -1 .. NumBins'
                          /\ k < e' => keyBinList'[k].bin # -1
                          /\ k >= e' => keyBinList'[k].bin < ndense'
                          /\ keyBinList'[k].bin = -1 => Small(keyBinList'[k])
  BY <1>1, <1>3, <1>5, SparseEntries
<1>11. ASSUME NEW t \in {1, 2} PROVE sbinCount'[t] = HeldBy'[t][NumBins] /\ sbinCount'[t] <= 4 * U
  <2>1. sbinCount'[t] = sbinCount[t] + keyBinList[e].count[t]
    BY <1>1, <1>2
  <2>2. HeldBy'[t][NumBins] = HeldBy[t][NumBins] + keyBinList[e].count[t] /\ sbinCount[t] = HeldBy[t][NumBins]
    BY <1>3, <1>5, SparseFacts
  <2>3. ~ (sbinCount[t] + This.count[t] > 4 * U) /\ sbinCount[t] \in Nat /\ 4 * U \in Nat
    BY SparseFacts DEF Overflows
  <2>4. PICK x \in Nat, y \in Nat, u \in Nat : x = sbinCount[t] /\ y = keyBinList[e].count[t] /\ u = 4 * U
    BY <1>1, <2>3
  <2>5. x + y <= u
    BY <1>1, <2>3, <2>4
  <2> QED
    BY <2>1, <2>2, <2>4, <2>5
<1>12. ASSUME NEW b \in ndense .. NumBins - 1
       PROVE  /\ \E k \in Entries : keyBinList'[k].bin = b
              /\ \A t \in {1, 2} : HeldBy'[t][b] <= 4 * U
  <2>1. b \in Nat /\ b # NumBins /\ b # -1
    BY <1>3
  <2>2. PICK k \in Entries : keyBinList[k].bin = b
    BY DEF SparseInv
  <2>3. keyBinList'[k].bin = b
    BY <1>1, <1>5, <2>1, <2>2
  <2>4. \A t \in {1, 2} : HeldBy[t][b] <= 4 * U
    BY DEF SparseInv
  <2> QED
    BY <1>5, <2>1, <2>3, <2>4
<1>13. SparseInv'
  BY <1>1, <1>3, <1>5, <1>10, <1>11, <1>12 DEF SparseInv, Small
<1> QED
  BY <1>9, <1>13

(* The bin that is closed: its entry and its free places.                  *)
LEMMA SparseClosed ==
  ASSUME GroupInv, SparseInv, CloseBin, preKey \in Int \X Int, tables' = tables,
         \A t \in {1, 2} : \A b \in 0 .. NumBins : FreeOf'[t][b] = FreeOf[t][b], ndense' = ndense
  PROVE  NoiseInv' /\ NumBins' = NumBins + 1 /\ n_sparsebins' = n_sparsebins + 1
<1>1. /\ noiseArray' = [t \in {1, 2} |-> Append(noiseArray[t], Entry(noiseSum[t], [key |-> preKey, bin |-> NumBins]))]
      /\ noiseSum' = [t \in {1, 2} |-> noiseSum[t] + 4 * U - sbinCount[t]]
      /\ n_sparsebins' = n_sparsebins + 1
  BY DEF CloseBin, AppendNoise, NumBins
<1>2. NumBins \in Nat /\ NumBins = ndense + n_sparsebins /\ NumBins <= NumRows(tables) /\ BoundOK
  BY GroupFacts, SparseFacts
<1>3. NumBins' = NumBins + 1
  BY <1>1, <1>2 DEF NumBins, GroupInv
<1>4. Bound' = Bound
  BY DEF Bound
<1>5. NoiseInv'
  <2> SUFFICES ASSUME NEW t \in {1, 2}
               PROVE  /\ NoiseOK(noiseArray'[t], noiseSum'[t], FreeOf'[t], NumBins + 1)
                      /\ noiseSum'[t] <= (NumBins + 1) * Bound
    BY <1>3, <1>4 DEF NoiseInv
  <2>1. NoiseOK(noiseArray[t], noiseSum[t], FreeOf[t], NumBins) /\ noiseSum[t] <= NumBins * Bound
    BY DEF GroupInv, NoiseInv
  <2> DEFINE free == FreeOf'[t]
  <2>2. (\A b \in 0 .. NumBins - 1 : free[b] = FreeOf[t][b]) /\ free[NumBins] = FreeOf[t][NumBins]
    BY <1>2
  <2>3. /\ sbinCount[t] \in Nat /\ sbinCount[t] <= 4 * U /\ 4 * U \in Nat /\ 4 * U <= Bound
        /\ FreeOf[t][NumBins] = 4 * U - sbinCount[t]
    BY SparseFacts
  <2>4. noiseSum[t] \in Nat
    BY <2>1 DEF NoiseOK, Adds
  <2>5. PICK x \in Nat, u \in Nat, s \in Nat, c \in Nat :
          x = sbinCount[t] /\ u = 4 * U /\ s = noiseSum[t] /\ c = Bound /\ x <= u /\ u <= c
    BY <1>2, <2>3, <2>4 DEF BoundOK
  <2>6. free[NumBins] = u - x /\ u - x \in Nat /\ u - x <= c
    BY <2>2, <2>3, <2>5
  <2>7. noiseSum'[t] = noiseSum[t] + free[NumBins]
    <3>1. noiseSum'[t] = s + u - x
      BY <1>1, <2>5
    <3>2. s + u - x = s + (u - x)
      BY <2>5
    <3> QED
      BY <2>5, <2>6, <3>1, <3>2
  <2>8. free[NumBins] \in Nat /\ free[NumBins] <= Bound
    BY <2>5, <2>6
  <2>9. noiseArray'[t] = Append(noiseArray[t], Entry(noiseSum[t], [key |-> preKey, bin |-> NumBins]))
    BY <1>1
  <2> HIDE DEF free
  <2>10. /\ NoiseOK(Append(noiseArray[t], Entry(noiseSum[t], [key |-> preKey, bin |-> NumBins])),
                    noiseSum[t] + free[NumBins], free, NumBins + 1)
         /\ noiseSum[t] + free[NumBins] <= (NumBins + 1) * Bound
    BY <1>2, <2>1, <2>2, <2>8, BinClosed DEF GroupInv
  <2> QED
    BY <2>7, <2>9, <2>10 DEF free
<1> QED
  BY <1>1, <1>3, <1>5

LEMMA SparseOverflows ==
  ASSUME GroupInv, SparseInv, GroupSparse, This.bin = -1, Overflows
  PROVE  GroupInv' /\ SparseInv'
<1> DEFINE B == NumBins + 1
<1>1. /\ e \in Entries /\ keyBinList[e].bin = -1 /\ This = keyBinList[e]
      /\ \A t \in {1, 2} : keyBinList[e].count[t] \in Nat /\ keyBinList[e].count[t] <= 2 * U
      /\ preKey \in Int \X Int /\ preKey' \in Int \X Int
      /\ tables' = tables /\ ndense' = ndense /\ e' = e + 1 /\ crossProductSize' = crossProductSize
      /\ keyBinList' = [keyBinList EXCEPT ![e].bin = ndense + n_sparsebins']
      /\ e' \in 1 .. NumRows(tables) + 1
  BY PackedFacts
<1>2. CloseBin /\ sbinCount' = This.count /\ n_sparsebins' = n_sparsebins + 1
  BY DEF GroupSparse, CloseBin
<1>3. /\ NumBins \in Nat /\ NumBins = ndense + n_sparsebins /\ NumBins >= ndense /\ ndense \in Nat /\ n_sparsebins \in Nat
      /\ BinsOK
  BY GroupFacts, SparseFacts DEF GroupInv
<1>4. ndense + n_sparsebins' = B /\ B \in Nat /\ B >= ndense /\ B >= NumBins
  BY <1>2, <1>3
<1>5. Assigned(B)
  BY <1>1, <1>4 DEF Assigned
<1> HIDE DEF B
<1>6. /\ TablesOK' /\ KeyListOK' /\ DenseBins' /\ BinsOK' /\ Entries' = Entries
      /\ \A k \in Entries : /\ keyBinList'[k].count = keyBinList[k].count
                            /\ keyBinList'[k].noise = keyBinList[k].noise
                            /\ keyBinList'[k].bin = IF k = e THEN B ELSE keyBinList[k].bin
      /\ \A t \in {1, 2} : \A b \in Nat :
           /\ HeldBy'[t][b] = IF b = B THEN HeldBy[t][b] + keyBinList[e].count[t] ELSE HeldBy[t][b]
           /\ b # B => FreeOf'[t][b] = FreeOf[t][b]
      /\ \A Q : Adds(Q, ndense, Products) => Adds(Q, ndense, Products')
  BY <1>1, <1>4, <1>5, SparseAssigned
<1>7. \A t \in {1, 2} : \A b \in 0 .. NumBins : FreeOf'[t][b] = FreeOf[t][b]
  <2>1. \A b \in 0 .. NumBins : b \in Nat /\ b # B
    BY <1>3 DEF B
  <2> QED
    BY <1>6, <2>1
<1>8. NoiseInv' /\ NumBins' = B
  BY <1>1, <1>2, <1>7, SparseClosed DEF B
<1>9. CrossInv(ndense)'
  BY <1>1, <1>6 DEF GroupInv, CrossInv
<1>10. n_sparsebins' \in Nat /\ NumRows(tables)' = NumRows(tables)
  BY <1>1, <1>2, <1>3
<1>11. GroupInv'
  BY <1>1, <1>3, <1>6, <1>8, <1>9, <1>10 DEF GroupInv
<1>12. \A k \in Entries : /\ keyBinList'[k].bin \in -1 .. NumBins'
                          /\ k < e' => keyBinList'[k].bin # -1
                          /\ k >= e' => keyBinList'[k].bin < ndense'
                          /\ keyBinList'[k].bin = -1 => Small(keyBinList'[k])
  BY <1>1, <1>4, <1>6, <1>8, SparseEntries
<1>13. ASSUME NEW t \in {1, 2} PROVE sbinCount'[t] = HeldBy'[t][B] /\ sbinCount'[t] <= 4 * U
  <2>1. sbinCount'[t] = keyBinList[e].count[t]
    BY <1>1, <1>2
  <2>2. HeldBy'[t][B] = 0 + keyBinList[e].count[t]
    BY <1>4, <1>6, SparseFacts DEF B
  <2>3. PICK x \in Nat : x = keyBinList[e].count[t]
    BY <1>1
  <2>4. U \in Nat /\ x <= 2 * U
    BY <1>1, <2>3, CZSCAssumption
  <2> QED
    BY <2>1, <2>2, <2>3, <2>4
<1>14. \E k \in Entries : keyBinList[k].bin = NumBins
  <2>1. PICK t \in {1, 2} : sbinCount[t] + This.count[t] > 4 * U
    BY DEF Overflows
  <2>2. HeldBy[t][NumBins] # 0
    <3>1. sbinCount[t] = HeldBy[t][NumBins] /\ U \in Nat \ {0}
      BY SparseFacts, CZSCAssumption
    <3>2. PICK x \in Nat : x = keyBinList[e].count[t] /\ x <= 2 * U
      BY <1>1
    <3>3. sbinCount[t] + x > 4 * U
      BY <1>1, <2>1, <3>2
    <3>4. sbinCount[t] # 0
      BY <3>1, <3>2, <3>3
    <3> QED
      BY <3>1, <3>4
  <2>3. NumBins \in Int
    BY <1>3
  <2> QED
    BY <1>3, <2>2, <2>3, NoneHeld DEF GroupInv
<1>15. ASSUME NEW b \in ndense .. B - 1
       PROVE  /\ \E k \in Entries : keyBinList'[k].bin = b
              /\ \A t \in {1, 2} : HeldBy'[t][b] <= 4 * U
  <2>1. b \in Nat /\ b # B /\ b # -1 /\ (b = NumBins \/ b \in ndense .. NumBins - 1)
    BY <1>3 DEF B
  <2>2. /\ \E k \in Entries : keyBinList[k].bin = b
        /\ \A t \in {1, 2} : HeldBy[t][b] <= 4 * U
    <3>1. CASE b = NumBins
      BY <1>14, <3>1, SparseFacts
    <3>2. CASE b \in ndense .. NumBins - 1
      BY <3>2 DEF SparseInv
    <3> QED
      BY <2>1, <3>1, <3>2
  <2>3. PICK k \in Entries : keyBinList[k].bin = b
    BY <2>2
  <2>4. keyBinList'[k].bin = b
    BY <1>1, <1>6, <2>1, <2>3
  <2> QED
    BY <1>6, <2>1, <2>2, <2>4
<1>16. SparseInv'
  BY <1>1, <1>6, <1>8, <1>12, <1>13, <1>15 DEF SparseInv, Small
<1> QED
  BY <1>11, <1>16

LEMMA SparseLoop ==
  ASSUME GroupInv, SparseInv, GroupSparse
  PROVE  GroupInv' /\ SparseInv'
<1>1. CASE This.bin = -1
  BY <1>1, SparsePacked, SparseOverflows
<1>2. CASE This.bin # -1
  <2>1. /\ keyBinList' = keyBinList /\ n_sparsebins' = n_sparsebins /\ sbinCount' = sbinCount /\ preKey' = preKey
        /\ noiseArray' = noiseArray /\ noiseSum' = noiseSum
    BY <1>2 DEF GroupSparse
  <2>2. /\ SameBins /\ e' = e + 1 /\ e \in Entries /\ crossProductSize' = crossProductSize
    BY <2>1, GroupFacts DEF GroupSparse, SameBins
  <2>3. e' \in 1 .. NumRows(tables) + 1
    BY <2>2, GroupFacts DEF Entries
  <2>4. GroupInv'
    BY <2>1, <2>2, <2>3, GroupUnchanged
  <2>5. Entries' = Entries /\ HeldBy' = HeldBy /\ ndense' = ndense /\ NumBins' = NumBins
    BY <2>1, <2>2, BinsUnchanged DEF SameBins, NumBins
  <2>6. ASSUME NEW k \in Entries
        PROVE  /\ keyBinList[k].bin \in -1 .. NumBins
               /\ k < e + 1 => keyBinList[k].bin # -1
               /\ k >= e + 1 => keyBinList[k].bin < ndense
               /\ keyBinList[k].bin = -1 => Small(keyBinList[k])
    <3>1. k \in Nat /\ e \in Nat
      BY <2>2, GroupFacts DEF Entries
    <3>2. /\ keyBinList[k].bin \in -1 .. NumBins
          /\ k < e => keyBinList[k].bin # -1
          /\ k >= e => keyBinList[k].bin < ndense
          /\ keyBinList[k].bin = -1 => Small(keyBinList[k])
      BY DEF SparseInv
    <3>3. keyBinList[e].bin # -1
      BY <1>2 DEF This
    <3> QED
      BY <3>1, <3>2, <3>3
  <2>7. SparseInv'
    BY <2>1, <2>2, <2>5, <2>6 DEF SparseInv, Small
  <2> QED
    BY <2>4, <2>7
<1> QED
  BY <1>1, <1>2

\* Every entry has its bin, and no bin is too full.
Grouped ==
  /\ NumBins \in Nat \ {0}
  /\ \A k \in Entries : keyBinList[k].bin \in 0 .. NumBins - 1
  /\ \A b \in Nat : b >= ndense => \A t \in {1, 2} : HeldBy[t][b] <= 4 * U

LEMMA SparseLoopEnds ==
  ASSUME GroupInv, SparseInv, EndSparse
  PROVE  GroupInv' /\ Grouped' /\ noisyBins' \in Nat
<1>1. /\ CloseBin /\ SameBins /\ e' = e /\ crossProductSize' = crossProductSize /\ noisyBins' \in BinNoise
      /\ e > Len(keyBinList)
  BY DEF EndSparse, SameBins, keyVars
<1>2. /\ RowBin' = RowBin /\ HeldBy' = HeldBy /\ FreeOf' = FreeOf /\ Products' = Products
      /\ Entries' = Entries /\ Bound' = Bound /\ NumRows(tables)' = NumRows(tables)
      /\ TablesOK' = TablesOK /\ KeyListOK' = KeyListOK /\ DenseBins' = DenseBins
      /\ tables' = tables /\ keyBinList' = keyBinList /\ ndense' = ndense
  BY <1>1, BinsUnchanged DEF SameBins
<1>3. preKey \in Int \X Int
  BY DEF SparseInv
<1>4. NoiseInv' /\ NumBins' = NumBins + 1 /\ n_sparsebins' = n_sparsebins + 1
  BY <1>1, <1>2, <1>3, SparseClosed
<1>5. CrossInv(ndense)'
  BY <1>1, <1>2 DEF GroupInv, CrossInv
<1>6. n_sparsebins' \in Nat /\ ndense \in Nat
  BY <1>4 DEF GroupInv
<1>7. GroupInv'
  BY <1>1, <1>2, <1>4, <1>5, <1>6 DEF GroupInv
<1>8. /\ NumBins \in Nat /\ BinsOK /\ NumRows(tables) \in Nat /\ Len(keyBinList) = NumRows(tables)
      /\ NumBins >= ndense /\ 4 * U \in Nat
  BY GroupFacts, SparseFacts
<1>9. ASSUME NEW k \in Entries PROVE keyBinList[k].bin \in 0 .. NumBins
  <2>1. k \in Nat /\ k < e
    BY <1>1, <1>8 DEF GroupInv, Entries
  <2>2. keyBinList[k].bin \in -1 .. NumBins /\ keyBinList[k].bin # -1
    BY <2>1 DEF SparseInv
  <2> QED
    BY <1>8, <2>2
<1>10. ASSUME NEW b \in Nat, b >= ndense, NEW t \in {1, 2} PROVE HeldBy[t][b] <= 4 * U
  <2>1. CASE b \in ndense .. NumBins - 1
    BY <2>1 DEF SparseInv
  <2>2. CASE b = NumBins
    BY <2>2, SparseFacts
  <2>3. CASE b > NumBins
    <3>1. \A k \in Entries : keyBinList[k].bin # b
      BY <1>8, <1>9, <2>3
    <3>2. HeldBy[t][b] = 0
      BY <1>8, <3>1, NoneHeld DEF GroupInv
    <3> QED
      BY <1>8, <3>2
  <2>4. b \in ndense .. NumBins - 1 \/ b = NumBins \/ b > NumBins
    BY <1>6, <1>8, <1>10
  <2> QED
    BY <2>1, <2>2, <2>3, <2>4
<1>11. NumBins' - 1 = NumBins /\ NumBins' \in Nat \ {0}
  BY <1>4, <1>8
<1>12. Grouped'
  BY <1>2, <1>9, <1>10, <1>11 DEF Grouped
<1>13. noisyBins' \in Nat
  BY <1>1, CZSCAssumption
<1> QED
  BY <1>7, <1>12, <1>13

-----------------------------------------------------------------------------
(* The dummies.  The entries before the one of bin b are those of the bins *)
(* before it.                                                              *)
LEMMA CountedBefore ==
  ASSUME NEW n \in Nat, NEW S, NEW a \in Seq(NoiseEntry), Marks(a, S, n),
         NEW p \in 1 .. Len(a), a[p].first < IntMax
  PROVE  Cardinality({q \in {r \in DOMAIN a : a[r].first < IntMax} : q < p}) = a[p].second.bin
<1> DEFINE D == 1 .. Len(a)
           B == {q \in {r \in DOMAIN a : a[r].first < IntMax} : q < p}
           b == a[p].second.bin
           T == 0 .. b - 1
           f == [q \in B |-> a[q].second.bin]
<1>1. Len(a) \in Nat /\ DOMAIN a = D
  OBVIOUS
<1>2. /\ \A q \in D : a[q].first < IntMax => a[q].second.bin \in 0 .. n - 1
      /\ \A q, r \in D : a[q].first < IntMax /\ a[r].first < IntMax /\ q < r => a[q].second.bin < a[r].second.bin
      /\ \A c \in 0 .. n - 1 : \E q \in D : a[q].first < IntMax /\ a[q].second.bin = c
  BY DEF Marks
<1>3. b \in 0 .. n - 1 /\ b \in Nat
  BY <1>2
<1>4. \A q \in B : q \in D /\ q < p /\ a[q].first < IntMax
  BY <1>1
<1>5. ASSUME NEW q \in B PROVE f[q] \in T
  <2>1. a[q].second.bin \in 0 .. n - 1 /\ a[q].second.bin < b
    BY <1>2, <1>4
  <2> QED
    BY <1>3, <2>1
<1>6. ASSUME NEW q \in B, NEW r \in B, f[q] = f[r] PROVE q = r
  <2>1. q \in Nat /\ r \in Nat /\ a[q].second.bin = a[r].second.bin /\ a[q].second.bin \in Int
    BY <1>2, <1>4, <1>6
  <2>2. ~ (q < r) /\ ~ (r < q)
    BY <1>2, <1>4, <2>1
  <2> QED
    BY <2>1, <2>2
<1>7. ASSUME NEW c \in T PROVE \E q \in B : f[q] = c
  <2>1. c \in 0 .. n - 1 /\ c < b
    BY <1>3
  <2>2. PICK q \in D : a[q].first < IntMax /\ a[q].second.bin = c
    BY <1>2, <2>1
  <2>3. q # p
    BY <1>3, <2>1, <2>2
  <2>4. q < p
    <3>1. p < q => b < a[q].second.bin
      BY <1>2, <2>2
    <3>2. ~ (b < c)
      BY <1>3, <2>1
    <3> HIDE DEF b
    <3> QED
      BY <1>1, <2>2, <2>3, <3>1, <3>2
  <2>5. q \in B
    BY <1>1, <2>2, <2>4
  <2> QED
    BY <2>2, <2>5
<1>8. f \in Injection(B, T) /\ f \in Surjection(B, T)
  <2>1. f \in [B -> T]
    BY <1>5
  <2> HIDE DEF f, B, T
  <2>2. IsInjective(f)
    BY <1>6, <2>1 DEF IsInjective
  <2> QED
    BY <1>7, <2>1, <2>2 DEF Injection, Surjection
<1>9. IsFiniteSet(T) /\ Cardinality(T) = b
  <2>1. /\ IsFiniteSet(0 .. b - 1)
        /\ Cardinality(0 .. b - 1) = IF 0 > b - 1 THEN 0 ELSE (b - 1) - 0 + 1
    <3>1. 0 \in Int /\ b - 1 \in Int
      BY <1>3
    <3> HIDE DEF b
    <3> QED
      BY <3>1, FS_Interval
  <2> QED
    BY <1>3, <2>1
<1> HIDE DEF f, B, T
<1>10. Cardinality(B) = Cardinality(T)
  BY <1>8, <1>9, FS_Injection
<1> QED
  BY <1>9, <1>10 DEF B

(* The entries that are kept are those of the bins, in order.              *)
LEMMA KeptEntries ==
  ASSUME NEW t \in {1, 2}, NumBins \in Nat, NEW S, noiseArray[t] \in Seq(NoiseEntry), Marks(noiseArray[t], S, NumBins)
  PROVE  \A k \in 1 .. NumBins : /\ Kept(t)[k] \in NoiseEntry
                                 /\ Kept(t)[k].second.bin = k - 1 /\ Kept(t)[k].first = S[k - 1]
<1> DEFINE a == noiseArray[t]
           marked == {p \in DOMAIN a : a[p].first < IntMax}
           before(p) == {q \in marked : q < p}
<1> SUFFICES ASSUME NEW k \in 1 .. NumBins
             PROVE  Kept(t)[k] \in NoiseEntry /\ Kept(t)[k].second.bin = k - 1 /\ Kept(t)[k].first = S[k - 1]
  OBVIOUS
<1>1. DOMAIN a = 1 .. Len(a) /\ Len(a) \in Nat
  OBVIOUS
<1>2. \A p \in marked : p \in 1 .. Len(a) /\ a[p].first < IntMax
  BY <1>1
<1>3. \A p \in marked : Cardinality(before(p)) = a[p].second.bin
  BY <1>2, CountedBefore
<1>4. k - 1 \in 0 .. NumBins - 1
  OBVIOUS
<1>5. PICK p \in 1 .. Len(a) : a[p].first < IntMax /\ a[p].second.bin = k - 1
  BY <1>4 DEF Marks
<1>6. p \in marked
  BY <1>1, <1>5
<1> DEFINE c == CHOOSE q \in marked : Cardinality(before(q)) = k - 1
<1>7. c \in marked /\ Cardinality(before(c)) = k - 1
  BY <1>3, <1>5, <1>6
<1>8. Kept(t)[k] = a[c]
  BY DEF Kept, NumBins
<1> HIDE DEF c, marked, before
<1>9. c \in 1 .. Len(a) /\ a[c].first < IntMax /\ a[c].second.bin = k - 1
  BY <1>2, <1>3, <1>7
<1>10. a[c].first = S[a[c].second.bin]
  BY <1>9 DEF Marks
<1>11. a[c] \in NoiseEntry
  BY <1>9
<1> QED
  BY <1>8, <1>9, <1>10, <1>11

Copied(c, a, none, n, E) ==
  /\ c \in Seq(E) /\ Len(c) = n
  /\ \A s \in 1 .. n : c[s] = none \/ \E k \in 1 .. n : c[s] = a[k]

(* Expansion only copies.                                                  *)
LEMMA ExpandCopies ==
  ASSUME NEW E, NEW n \in Nat, NEW a \in [1 .. n -> E], NEW none \in E, none.first \in Int
  PROVE  Copied(Expand(a, none), a, none, n, E)
<1> DEFINE c == Expand(a, none)
           b == Place(a)
<1>1. DOMAIN c = 1 .. n /\ FilledFrom(c, b, none, n)
  BY SlotsFilled
<1>2. PICK from : Shuffled(b, a, from, n)
  BY ItemsPlaced DEF Placed
<1>3. c = [k \in 1 .. n |-> c[k]]
  <2>1. Len(a) = n
    OBVIOUS
  <2> QED
    BY <2>1 DEF Expand
<1> HIDE DEF c, b
<1>4. \A l \in 1 .. n : b[l] = a[from[l]] /\ from[l] \in 1 .. n
  BY <1>2 DEF Shuffled
<1>5. ASSUME NEW s \in 1 .. n PROVE c[s] = none \/ \E k \in 1 .. n : c[s] = a[k]
  <2>1. c[s] = none \/ \E l \in 1 .. s : c[s] = b[l]
    BY <1>1 DEF FilledFrom
  <2>2. \A l \in 1 .. s : l \in 1 .. n
    OBVIOUS
  <2> QED
    BY <1>4, <2>1, <2>2
<1>6. c \in [1 .. n -> E]
  <2>1. \A s \in 1 .. n : c[s] \in E
    BY <1>5
  <2> QED
    BY <1>3, <2>1
<1> QED
  BY <1>5, <1>6, ArrayIsSeq DEF c, Copied

(* The entries of the bins of noise continue the starts.                   *)
LEMMA PaddedStarts ==
  ASSUME GroupInv, Grouped, noisyBins \in Nat, NEW t \in {1, 2}
  PROVE  \E S : /\ Adds(S, NumEntries, FreeOf[t]) /\ S[NumEntries] = noiseSum[t] + noisyBins * 4 * U
                /\ \A k \in 1 .. NumEntries : /\ Padded(t)[k] \in NoiseEntry
                                              /\ Padded(t)[k].second.bin = k - 1 /\ Padded(t)[k].first = S[k - 1]
<1>1. PICK S : Adds(S, NumBins, FreeOf[t]) /\ noiseSum[t] = S[NumBins] /\ Marks(noiseArray[t], S, NumBins)
  BY DEF GroupInv, NoiseInv, NoiseOK
<1>2. noiseArray[t] \in Seq(NoiseEntry)
  BY DEF GroupInv, NoiseInv, NoiseOK
<1>3. PICK n \in Nat, x \in Nat, w \in Nat : n = NumBins /\ x = noisyBins /\ w = 4 * U
  BY CZSCAssumption DEF Grouped
<1>4. NumEntries = n + x /\ ndense + n_sparsebins = n /\ ndense \in Nat /\ n_sparsebins \in Nat
  BY <1>3 DEF NumEntries, NumBins, GroupInv
<1>5. S \in [0 .. n -> Nat] /\ S[0] = 0 /\ \A b \in 0 .. n - 1 : S[b + 1] = S[b] + FreeOf[t][b]
  BY <1>1, <1>3 DEF Adds
<1>6. \A k \in 1 .. n : Kept(t)[k] \in NoiseEntry /\ Kept(t)[k].second.bin = k - 1 /\ Kept(t)[k].first = S[k - 1]
  BY <1>1, <1>2, <1>3, KeptEntries
<1>7. \A z \in Nat : z * 4 * U = z * w /\ z * w \in Nat /\ (z + 1) * w = z * w + w
  <2>1. U \in Nat
    BY CZSCAssumption
  <2> QED
    BY <1>3, <2>1
<1>8. ASSUME NEW b \in Nat, b >= n PROVE FreeOf[t][b] = w
  <2>1. BinsOK /\ b \in Int
    BY GroupFacts
  <2>2. \A k \in Entries : keyBinList[k].bin # b
    BY <1>3, <1>8 DEF Grouped
  <2>3. HeldBy[t][b] = 0
    BY <2>1, <2>2, NoneHeld DEF GroupInv
  <2>4. FreeOf[t][b] = SizeOf[t][b] - HeldBy[t][b]
    BY <2>1 DEF BinsOK, HeldOK
  <2>5. b >= ndense
    BY <1>4, <1>8
  <2>6. SizeOf[t][b] = w
    BY <1>3, <2>1, <2>5 DEF BinsOK, SparseOK
  <2> QED
    BY <1>3, <2>3, <2>4, <2>6
<1>9. PICK T : /\ Adds(T, n + x, FreeOf[t])
               /\ \A b \in 0 .. n : T[b] = S[b]
               /\ \A z \in 0 .. x : T[n + z] = S[n] + z * w
  <2>1. Adds(S, n, FreeOf[t]) /\ \A b \in Nat : b >= n => FreeOf[t][b] = w
    BY <1>1, <1>3, <1>8
  <2>2. Extended(S, n, FreeOf[t], x, w)
    BY <1>3, <2>1, AddsMore
  <2> QED
    BY <2>2 DEF Extended
<1>11. T \in [0 .. n + x -> Nat]
  BY <1>9 DEF Adds
<1>13. Adds(T, NumEntries, FreeOf[t])
  BY <1>4, <1>9
<1>14. T[NumEntries] = noiseSum[t] + noisyBins * 4 * U
  <2>1. x \in 0 .. x /\ x \in Nat
    OBVIOUS
  <2>2. T[n + x] = S[n] + x * w
    BY <1>9, <2>1
  <2>3. x * 4 * U = x * w
    BY <1>7
  <2>4. noisyBins * 4 * U = x * 4 * U
    BY <1>3
  <2> QED
    BY <1>1, <1>3, <1>4, <2>2, <2>3, <2>4
<1>15. ASSUME NEW k \in 1 .. NumEntries
       PROVE  /\ Padded(t)[k] \in NoiseEntry
              /\ Padded(t)[k].second.bin = k - 1 /\ Padded(t)[k].first = T[k - 1]
  <2>1. CASE k <= n
    <3>1. k \in 1 .. n /\ k - 1 \in 0 .. n
      BY <2>1
    <3>2. Padded(t)[k] = Kept(t)[k]
      BY <1>4, <2>1 DEF Padded
    <3> QED
      BY <1>6, <1>9, <3>1, <3>2
  <2>2. CASE ~ (k <= n)
    <3>1. PICK z \in Nat : z = k - n - 1 /\ z \in 0 .. x /\ k - 1 = n + z
      <4>1. k - n - 1 \in Nat /\ k - n - 1 \in 0 .. x /\ k - 1 = n + (k - n - 1)
        BY <1>4, <2>2
      <4> QED
        BY <4>1
    <3>2. Padded(t)[k] = LET extra == k - ndense - n_sparsebins
                         IN  Entry(noiseSum[t] + (extra - 1) * 4 * U, [key |-> <<IntMin + extra, IntMin>>, bin |-> k - 1])
      BY <1>4, <2>2 DEF Padded
    <3>3. k - ndense - n_sparsebins = z + 1 /\ (z + 1) - 1 = z
      BY <1>4, <3>1
    <3>4. Padded(t)[k] = Entry(noiseSum[t] + z * 4 * U, [key |-> <<IntMin + (z + 1), IntMin>>, bin |-> k - 1])
      BY <3>2, <3>3
    <3>5. noiseSum[t] + z * 4 * U = T[k - 1]
      <4>1. T[n + z] = S[n] + z * w /\ z * 4 * U = z * w
        BY <1>7, <1>9, <3>1
      <4> QED
        BY <1>1, <1>3, <3>1, <4>1
    <3>6. T[k - 1] \in Int /\ <<IntMin + (z + 1), IntMin>> \in Int \X Int /\ k - 1 \in Int
      <4>1. k - 1 \in 0 .. n + x
        BY <1>4
      <4>2. IntMin + (z + 1) \in Int /\ IntMin \in Int
        BY DEF IntMin
      <4> QED
        BY <1>11, <4>1, <4>2
    <3> QED
      BY <3>4, <3>5, <3>6 DEF Entry, NoiseEntry
  <2> QED
    BY <2>1, <2>2
<1> QED
  BY <1>13, <1>14, <1>15

\* Bins that are done: their records and what they add to the output.
DoneInv ==
  /\ TablesOK /\ KeyListOK /\ DenseBins /\ ndense \in Nat /\ n_sparsebins \in Nat
  /\ e \in 1 .. NumRows(tables) + 1
  /\ Grouped
  /\ \A t \in {1, 2} : noiseSum[t] \in Nat

\* Every bin has free places.
AllFree(t) == \A b \in 0 .. NumBins - 1 : FreeOf[t][b] > 0

DummiesOK ==
  \A t \in {1, 2} :
    /\ noiseArray[t] \in Seq(NoiseEntry)
    /\ \A p \in 1 .. Len(noiseArray[t]) : noiseArray[t][p].second.bin \in 0 .. NumBins - 1
    /\ AllFree(t) =>
         \E S : /\ Adds(S, NumBins, FreeOf[t]) /\ Len(noiseArray[t]) = S[NumBins]
                /\ \A b \in 0 .. NumBins - 1 : \A s \in S[b] + 1 .. S[b + 1] : noiseArray[t][s].second.bin = b

(* Sums of positive numbers climb.                                         *)
LEMMA AddsClimb ==
  ASSUME NEW n, NEW S, NEW step, Adds(S, n, step), \A b \in 0 .. n - 1 : step[b] \in Int /\ step[b] > 0
  PROVE  SumsClimb(S, n)
<1>1. n \in Nat /\ S \in [0 .. n -> Nat] /\ S[0] = 0 /\ \A b \in 0 .. n - 1 : S[b + 1] = S[b] + step[b]
  BY DEF Adds
<1>2. ASSUME NEW k \in 1 .. n PROVE S[k - 1] < S[k]
  <2>1. k - 1 \in 0 .. n - 1 /\ k - 1 \in 0 .. n /\ (k - 1) + 1 = k
    BY <1>1
  <2>2. S[k - 1] \in Nat /\ S[k] = S[k - 1] + step[k - 1]
    BY <1>1, <2>1
  <2>3. step[k - 1] \in Int /\ step[k - 1] > 0
    BY <2>1
  <2> QED
    BY <2>2, <2>3
<1>3. ASSUME NEW k \in 1 .. n PROVE S[k - 1] <= S[k]
  <2>1. S[k - 1] \in Nat /\ S[k] \in Nat
    BY <1>1
  <2> QED
    BY <1>2, <2>1
<1> QED
  BY <1>1, <1>2, <1>3 DEF SumsClimb, SumsUp

\* The dummies of a table after expandJoinTables, and how many there are.
PadSize(t) == noiseSum[t] + noisyBins * 4 * U
PadArray(t) == Expand(Resized(Padded(t), PadSize(t)), NoEntry)
DummiesMade(t, c, m) ==
  /\ c \in Seq(NoiseEntry) /\ m \in Nat
  /\ \A p \in 1 .. Len(c) : c[p].second.bin \in 0 .. NumEntries - 1
  /\ (\A b \in 0 .. NumEntries - 1 : FreeOf[t][b] > 0) =>
       \E S : /\ Adds(S, NumEntries, FreeOf[t]) /\ Len(c) = S[NumEntries]
              /\ \A b \in 0 .. NumEntries - 1 : \A s \in S[b] + 1 .. S[b + 1] : c[s].second.bin = b

LEMMA PadDummies ==
  ASSUME GroupInv, Grouped, noisyBins \in Nat, NEW t \in {1, 2}
  PROVE  DummiesMade(t, PadArray(t), PadSize(t))
<1> DEFINE n == NumEntries
           m == PadSize(t)
           c == PadArray(t)
           pad == Padded(t)
           a == Resized(pad, m)
<1>1. PICK S : /\ Adds(S, n, FreeOf[t]) /\ S[n] = m
               /\ \A k \in 1 .. n : pad[k] \in NoiseEntry /\ pad[k].second.bin = k - 1 /\ pad[k].first = S[k - 1]
  BY PaddedStarts DEF PadSize
<1>2. n \in Nat \ {0} /\ NumBins \in Nat \ {0} /\ n = NumBins + noisyBins
  BY DEF Grouped, NumEntries, NumBins
<1>3. m \in Nat /\ S \in [0 .. n -> Nat]
  BY <1>1 DEF Adds
<1>4. Len(pad) = n
  BY <1>2 DEF Padded
<1>5. NoEntry \in NoiseEntry /\ NoEntry.first = 0 /\ NoEntry.second.bin = 0
  BY DEF NoEntry, Entry, NoiseEntry, DummyKey, IntMin
<1>6. a = [k \in 1 .. m |-> IF k <= n THEN pad[k] ELSE NoEntry]
  BY <1>4 DEF Resized
<1>13. c = Expand(a, NoEntry)
  BY DEF PadArray
<1> HIDE DEF pad, a, n, m, c
<1>7. \A k \in 1 .. m : /\ k <= n => a[k] = pad[k] /\ k \in 1 .. n
                        /\ ~ (k <= n) => a[k] = NoEntry
  BY <1>3, <1>6
<1>8. a \in [1 .. m -> NoiseEntry]
  <2>1. \A k \in 1 .. m : (IF k <= n THEN pad[k] ELSE NoEntry) \in NoiseEntry
    BY <1>1, <1>5, <1>7
  <2> QED
    BY <1>6, <2>1
<1>9. NoEntry.first \in Int
  BY <1>5
<1>10. /\ c \in Seq(NoiseEntry) /\ Len(c) = m
       /\ \A s \in 1 .. m : c[s] = NoEntry \/ \E k \in 1 .. m : c[s] = a[k]
  <2>1. c = Expand(a, NoEntry)
    BY <1>13
  <2>2. Copied(Expand(a, NoEntry), a, NoEntry, m, NoiseEntry)
    <3>1. m \in Nat /\ NoEntry \in NoiseEntry /\ NoEntry.first \in Int
      BY <1>3, <1>5
    <3> QED
      BY <1>8, <3>1, ExpandCopies
  <2> QED
    BY <2>1, <2>2 DEF Copied
<1>11. ASSUME NEW s \in 1 .. m PROVE c[s].second.bin \in 0 .. n - 1
  <2>1. 0 \in 0 .. n - 1
    BY <1>2 DEF n
  <2>2. \A k \in 1 .. n : k - 1 \in 0 .. n - 1
    BY <1>2
  <2>3. \A k \in 1 .. m : a[k].second.bin \in 0 .. n - 1
    BY <1>1, <1>5, <1>7, <2>1, <2>2
  <2> QED
    BY <1>5, <1>10, <2>1, <2>3
<1>12. ASSUME \A b \in 0 .. n - 1 : FreeOf[t][b] > 0
       PROVE  \A b \in 0 .. n - 1 : \A s \in S[b] + 1 .. S[b + 1] : c[s].second.bin = b
  <2>1. \A b \in 0 .. n - 1 : FreeOf[t][b] \in Int
    <3>1. BinsOK /\ \A b \in 0 .. n - 1 : b \in Int
      BY GroupFacts
    <3>2. ASSUME NEW b \in 0 .. n - 1 PROVE FreeOf[t][b] \in Int
      <4>1. FreeOf[t][b] = SizeOf[t][b] - HeldBy[t][b] /\ HeldBy[t][b] \in Nat
        BY <3>1 DEF BinsOK, HeldOK
      <4>2. SizeOf[t][b] \in Int
        <5>1. CASE b >= ndense
          BY <3>1, <5>1, CZSCAssumption DEF BinsOK, SparseOK
        <5>2. CASE ~ (b >= ndense)
          <6>1. b \in 0 .. ndense - 1
            BY <5>2 DEF GroupInv
          <6>2. PICK k \in Entries : keyBinList[k].bin = b
            BY <6>1 DEF GroupInv, DenseBins
          <6>3. SizeOf[t][b] = keyBinList[k].count[t] + keyBinList[k].noise[t]
            BY <3>1, <6>1, <6>2 DEF BinsOK, DenseOK
          <6>4. keyBinList[k].count[t] \in Nat /\ keyBinList[k].noise[t] \in Nat
            BY <3>1 DEF BinsOK, EntriesOK
          <6> QED
            BY <6>3, <6>4
        <5> QED
          BY <5>1, <5>2
      <4> QED
        BY <4>1, <4>2
    <3> QED
      BY <3>2
  <2>2. SumsClimb(S, n)
    BY <1>1, <1>12, <2>1, AddsClimb
  <2>3. n <= m
    <3>1. 0 \in 0 .. n /\ n \in 0 .. n /\ 0 <= n /\ S[0] = 0
      BY <1>1, <1>2 DEF n, Adds
    <3>2. S[0] + (n - 0) <= S[n]
      BY <2>2, <3>1, ClimbFast
    <3> QED
      BY <1>1, <1>2, <1>3, <3>1, <3>2 DEF n
  <2>4. AtStarts(a, S, n, m)
    <3>1. ASSUME NEW k \in 1 .. n PROVE a[k].first = S[k - 1]
      <4>1. k \in 1 .. m /\ k <= n
        BY <1>2, <1>3, <2>3 DEF n
      <4> QED
        BY <1>1, <1>7, <4>1
    <3>2. ASSUME NEW k \in n + 1 .. m PROVE a[k].first \in Int /\ a[k].first <= 0
      <4>1. k \in 1 .. m /\ ~ (k <= n)
        BY <1>2, <1>3 DEF n
      <4> QED
        BY <1>5, <1>7, <4>1
    <3> QED
      BY <3>1, <3>2 DEF AtStarts
  <2>5. PartsFilled(Expand(a, NoEntry), a, S, n)
    BY <1>1, <1>8, <1>9, <2>2, <2>4, SpreadFilled
  <2>6. ASSUME NEW b \in 0 .. n - 1, NEW s \in S[b] + 1 .. S[b + 1] PROVE c[s].second.bin = b
    <3>1. b + 1 \in 1 .. n /\ (b + 1) - 1 = b
      BY <1>2 DEF n
    <3>2. c[s] = a[b + 1]
      BY <1>13, <2>5, <3>1 DEF PartsFilled
    <3>3. b + 1 \in 1 .. m /\ b + 1 <= n
      BY <1>2, <1>3, <2>3, <3>1 DEF n
    <3>4. a[b + 1] = pad[b + 1]
      BY <1>7, <3>3
    <3> QED
      BY <1>1, <3>1, <3>2, <3>4
  <2> QED
    BY <2>6
<1> QED
  BY <1>1, <1>3, <1>10, <1>11, <1>12 DEF DummiesMade, n, m, c

LEMMA PadStep ==
  ASSUME GroupInv, Grouped, noisyBins \in Nat, Pad
  PROVE  DoneInv' /\ CrossInv(NumBins)' /\ DummiesOK'
<1>1. /\ SameBins /\ e' = e /\ n_sparsebins' = n_sparsebins + noisyBins
      /\ noiseArray' = [t \in {1, 2} |-> Expand(Resized(Padded(t), noiseSum[t] + noisyBins * 4 * U), NoEntry)]
      /\ noiseSum' = [t \in {1, 2} |-> noiseSum[t] + noisyBins * 4 * U]
      /\ crossProductSize' = crossProductSize + n_sparsebins' * 16 * U * U
  BY DEF Pad, SameBins, keyVars
<1>2. /\ HeldBy' = HeldBy /\ FreeOf' = FreeOf /\ Products' = Products
      /\ Entries' = Entries /\ NumRows(tables)' = NumRows(tables)
      /\ TablesOK' = TablesOK /\ KeyListOK' = KeyListOK /\ DenseBins' = DenseBins
      /\ keyBinList' = keyBinList /\ ndense' = ndense
  BY <1>1, BinsUnchanged DEF SameBins
<1>3. /\ ndense \in Nat /\ n_sparsebins \in Nat /\ NumBins = ndense + n_sparsebins /\ NumBins \in Nat \ {0}
      /\ n_sparsebins' \in Nat /\ BinsOK
  BY <1>1, GroupFacts DEF GroupInv, Grouped
<1>4. NumBins' = NumEntries /\ NumEntries = ndense + n_sparsebins' /\ NumEntries = NumBins + noisyBins
  BY <1>1, <1>2, <1>3 DEF NumBins, NumEntries
<1>5. \A t \in {1, 2} : DummiesMade(t, noiseArray'[t], noiseSum'[t])
  <2> SUFFICES ASSUME NEW t \in {1, 2} PROVE DummiesMade(t, noiseArray'[t], noiseSum'[t])
    OBVIOUS
  <2>1. noiseArray'[t] = PadArray(t) /\ noiseSum'[t] = PadSize(t)
    BY <1>1 DEF PadArray, PadSize
  <2>2. DummiesMade(t, PadArray(t), PadSize(t))
    BY PadDummies
  <2> QED
    BY <2>1, <2>2
<1>6. \A t \in {1, 2} : noiseArray'[t] \in Seq(NoiseEntry) /\ noiseSum'[t] \in Nat
  BY <1>5 DEF DummiesMade
<1>7. DummiesOK'
  BY <1>2, <1>4, <1>5 DEF DummiesOK, AllFree, DummiesMade
<1>8. Grouped'
  <2>3. PICK x \in Nat \ {0}, y \in Nat : x = NumBins /\ y = noisyBins
    BY <1>3
  <2>4. NumEntries = x + y
    BY <1>4, <2>3
  <2>1. \A b \in 0 .. NumBins - 1 : b \in 0 .. NumEntries - 1
    BY <2>3, <2>4
  <2>2. NumEntries \in Nat \ {0}
    BY <2>3, <2>4
  <2> QED
    BY <1>2, <1>4, <2>1, <2>2 DEF Grouped
<1>9. DoneInv'
  BY <1>1, <1>2, <1>3, <1>6, <1>8 DEF GroupInv, DoneInv
<1>10. CrossInv(NumBins)'
  <2>1. PICK Q : Adds(Q, ndense, Products) /\ crossProductSize = Q[ndense]
    BY DEF GroupInv, CrossInv
  <2>2. PICK x \in Nat, w \in Nat : x = n_sparsebins' /\ w = 16 * U * U
    <3>1. U \in Nat
      BY CZSCAssumption
    <3> QED
      BY <1>3, <3>1
  <2>3. ASSUME NEW b \in Nat, b >= ndense PROVE Products[b] = w
    <3>1. b \in Int /\ U \in Nat
      BY CZSCAssumption
    <3>2. SizeOf[1][b] = 4 * U /\ SizeOf[2][b] = 4 * U
      BY <1>3, <2>3, <3>1 DEF BinsOK, SparseOK
    <3>3. Products[b] = (4 * U) * (4 * U)
      BY <3>1, <3>2 DEF Products
    <3> QED
      BY <2>2, <3>1, <3>3
  <2>4. Extended(Q, ndense, Products, x, w)
    BY <2>1, <2>2, <2>3, AddsMore
  <2>5. PICK T : Adds(T, ndense + x, Products) /\ T[ndense + x] = Q[ndense] + x * w
    <3>1. x \in 0 .. x
      BY <2>2
    <3> QED
      BY <2>4, <3>1 DEF Extended
  <2>6. n_sparsebins' * 16 * U * U = x * w
    <3>1. U \in Nat
      BY CZSCAssumption
    <3>2. x * 16 * U * U = x * (16 * U * U)
      BY <2>2, <3>1
    <3> QED
      BY <2>2, <3>2
  <2>7. crossProductSize' = T[ndense + x] /\ NumBins' = ndense + x
    BY <1>1, <1>4, <2>1, <2>2, <2>5, <2>6
  <2> QED
    BY <1>2, <2>5, <2>7 DEF CrossInv
<1> QED
  BY <1>7, <1>9, <1>10

-----------------------------------------------------------------------------
(* The rows of a table: its records and its dummies, in order of bins.     *)

\* Sizes of bins are integers, and a bin has the records it holds.
LEMMA FreeFacts ==
  ASSUME TablesOK, KeyListOK, DenseBins, ndense \in Nat, NEW t \in {1, 2}, NEW b \in Nat
  PROVE  /\ SizeOf[t][b] \in Nat /\ HeldBy[t][b] \in Nat /\ FreeOf[t][b] = SizeOf[t][b] - HeldBy[t][b]
         /\ Size(t, b) = SizeOf[t][b] /\ Cardinality(RecordsOf(t, b)) = HeldBy[t][b]
<1>1. BinsOK /\ b \in Int
  BY BinsAreOK
<1>2. FreeOf[t][b] = SizeOf[t][b] - HeldBy[t][b] /\ HeldBy[t][b] \in Nat
  BY <1>1 DEF BinsOK, HeldOK
<1>3. Size(t, b) = SizeOf[t][b] /\ Cardinality(RecordsOf(t, b)) = HeldBy[t][b]
  BY <1>1 DEF SizeOf, HeldBy, Held
<1>4. CASE b >= ndense
  <2>1. SizeOf[t][b] = 4 * U /\ U \in Nat
    BY <1>1, <1>4, CZSCAssumption DEF BinsOK, SparseOK
  <2> QED
    BY <1>2, <1>3, <2>1
<1>5. CASE ~ (b >= ndense)
  <2>1. b \in 0 .. ndense - 1
    BY <1>5
  <2>2. PICK k \in Entries : keyBinList[k].bin = b
    BY <2>1 DEF DenseBins
  <2>3. SizeOf[t][b] = keyBinList[k].count[t] + keyBinList[k].noise[t]
    BY <1>1, <2>1, <2>2 DEF BinsOK, DenseOK
  <2>4. keyBinList[k].count[t] \in Nat /\ keyBinList[k].noise[t] \in Nat
    BY <1>1 DEF BinsOK, EntriesOK
  <2> QED
    BY <1>2, <1>3, <2>3, <2>4
<1> QED
  BY <1>4, <1>5

LEMMA SequenceOf ==
  ASSUME NEW S, NEW n \in Nat, NEW f \in [1 .. n -> S]
  PROVE  f \in Seq(S) /\ Len(f) = n
OBVIOUS

RowList(t) == Records(t) \o Dummies(t)

RowsListed(t, rows) ==
  /\ Len(rows) = Len(tables[t]) + Len(noiseArray[t])
  /\ \A r \in 1 .. Len(tables[t]) : /\ rows[r].key = tables[t][r] /\ rows[r].bin = RowBin[t][r]
                                    /\ rows[r].rid = r
  /\ \A s \in 1 .. Len(noiseArray[t]) : /\ rows[Len(tables[t]) + s].bin = noiseArray[t][s].second.bin
                                        /\ rows[Len(tables[t]) + s].rid = IntMax

\* The places of two sequences in their concatenation.
IsJoined(s1, s2, s) ==
  /\ Len(s) = Len(s1) + Len(s2)
  /\ \A r \in 1 .. Len(s1) : s[r] = s1[r]
  /\ \A r \in 1 .. Len(s2) : s[Len(s1) + r] = s2[r]

LEMMA JoinedPlaces ==
  ASSUME NEW S, NEW s1 \in Seq(S), NEW s2 \in Seq(S)
  PROVE  IsJoined(s1, s2, s1 \o s2)
BY DEF IsJoined

LEMMA RowListListed ==
  ASSUME TablesOK, NEW t \in {1, 2}, noiseArray[t] \in Seq(NoiseEntry)
  PROVE  RowsListed(t, RowList(t))
<1> DEFINE recs == Records(t)
           dums == Dummies(t)
           keys == tables[t]
           dummies == noiseArray[t]
<1>1. /\ Len(keys) \in Nat /\ DOMAIN keys = 1 .. Len(keys) /\ Len(dummies) \in Nat
      /\ DOMAIN dummies = 1 .. Len(dummies)
  BY TableFacts
<1>2. /\ recs = [r \in 1 .. Len(keys) |-> [key |-> keys[r], bin |-> BinOf(keys[r]), rid |-> r]]
      /\ dums = [s \in 1 .. Len(dummies) |->
                   [key |-> dummies[s].second.key, bin |-> dummies[s].second.bin, rid |-> IntMax]]
  BY <1>1 DEF Records, Dummies
<1>3. \A r \in 1 .. Len(keys) : RowBin[t][r] = BinOf(keys[r])
  BY <1>1 DEF RowBin
<1> DEFINE any == {recs[r] : r \in 1 .. Len(keys)} \cup {dums[s] : s \in 1 .. Len(dummies)}
<1> HIDE DEF recs, dums, keys, dummies
<1>4. recs \in Seq(any) /\ dums \in Seq(any) /\ Len(recs) = Len(keys) /\ Len(dums) = Len(dummies)
  <2>1. recs \in [1 .. Len(keys) -> any] /\ dums \in [1 .. Len(dummies) -> any]
    BY <1>2
  <2> HIDE DEF any
  <2> QED
    BY <1>1, <2>1, SequenceOf
<1> HIDE DEF any
<1> DEFINE rows == recs \o dums
<1>5. IsJoined(recs, dums, rows)
  BY <1>4, JoinedPlaces
<1> HIDE DEF rows
<1>6. /\ Len(rows) = Len(keys) + Len(dummies)
      /\ \A r \in 1 .. Len(keys) : /\ rows[r].key = keys[r] /\ rows[r].bin = RowBin[t][r]
                                   /\ rows[r].rid = r
      /\ \A s \in 1 .. Len(dummies) : /\ rows[Len(keys) + s].bin = dummies[s].second.bin
                                      /\ rows[Len(keys) + s].rid = IntMax
  <2>1. \A r \in 1 .. Len(keys) : recs[r].key = keys[r] /\ recs[r].bin = RowBin[t][r] /\ recs[r].rid = r
    BY <1>2, <1>3
  <2>2. \A s \in 1 .. Len(dummies) : dums[s].bin = dummies[s].second.bin /\ dums[s].rid = IntMax
    BY <1>2
  <2>3. \A r \in 1 .. Len(keys) : /\ rows[r].key = keys[r] /\ rows[r].bin = RowBin[t][r]
                                  /\ rows[r].rid = r
    <3>1. TAKE r \in 1 .. Len(keys)
    <3>2. rows[r] = recs[r]
      BY <1>4, <1>5 DEF IsJoined
    <3> QED
      BY <2>1, <3>2
  <2>4. \A s \in 1 .. Len(dummies) : /\ rows[Len(keys) + s].bin = dummies[s].second.bin
                                     /\ rows[Len(keys) + s].rid = IntMax
    <3>1. TAKE s \in 1 .. Len(dummies)
    <3>2. rows[Len(keys) + s] = dums[s]
      BY <1>4, <1>5 DEF IsJoined
    <3> QED
      BY <2>2, <3>2
  <2>5. Len(rows) = Len(keys) + Len(dummies)
    BY <1>4, <1>5 DEF IsJoined
  <2> QED
    BY <2>3, <2>4, <2>5
<1> QED
  BY <1>6 DEF RowsListed, RowList, rows, recs, dums, keys, dummies

\* The rows are in order of their bins.
RowsSorted(rows) ==
  /\ Len(rows) \in Nat /\ DOMAIN rows = 1 .. Len(rows)
  /\ \A p \in 1 .. Len(rows) : rows[p].bin \in 0 .. NumBins - 1
  /\ \A p, q \in 1 .. Len(rows) : p < q => rows[p].bin <= rows[q].bin

\* The rows that are no dummies are the records of the table.
RowsRecorded(t, rows) ==
  /\ \A p \in 1 .. Len(rows) : rows[p].rid # IntMax =>
       /\ rows[p].rid \in 1 .. Len(tables[t]) /\ rows[p].key = tables[t][rows[p].rid]
       /\ rows[p].bin = RowBin[t][rows[p].rid]
  /\ \A p, q \in 1 .. Len(rows) : rows[p].rid # IntMax /\ rows[p].rid = rows[q].rid => p = q
  /\ \A r \in 1 .. Len(tables[t]) : r # IntMax /\ \E p \in 1 .. Len(rows) : rows[p].rid = r

BinRows(rows, b) == {p \in 1 .. Len(rows) : rows[p].bin = b}

\* Every bin has as many rows as its size says.
RowsFilled(t, rows) ==
  AllFree(t) => \A b \in 0 .. NumBins - 1 : Cardinality(BinRows(rows, b)) = SizeOf[t][b]

RowsOK == \A t \in {1, 2} : RowsSorted(rbin[t]) /\ RowsRecorded(t, rbin[t]) /\ RowsFilled(t, rbin[t])

LEMMA RowBinsIn ==
  ASSUME TablesOK, BinsOK, Grouped, DummiesOK, NEW t \in {1, 2}, NEW rows, RowsListed(t, rows)
  PROVE  \A a \in 1 .. Len(rows) : rows[a].bin \in 0 .. NumBins - 1
<1>1. PICK L \in Nat, D \in Nat : L = Len(tables[t]) /\ D = Len(noiseArray[t])
  BY TableFacts DEF DummiesOK
<1>2. ASSUME NEW a \in 1 .. L + D PROVE rows[a].bin \in 0 .. NumBins - 1
  <2>1. CASE a \in 1 .. L
    <3>1. rows[a].bin = RowBin[t][a]
      BY <1>1, <2>1 DEF RowsListed
    <3>2. PICK k \in Entries : keyBinList[k].key = tables[t][a]
      BY <1>1, <2>1 DEF BinsOK, RowBinsOK
    <3>3. RowBin[t][a] = keyBinList[k].bin
      BY <1>1, <2>1, <3>2 DEF BinsOK, RowBinsOK
    <3> QED
      BY <3>1, <3>3 DEF Grouped
  <2>2. CASE ~ (a \in 1 .. L)
    <3>1. a - L \in 1 .. D /\ L + (a - L) = a
      BY <2>2
    <3>2. rows[L + (a - L)].bin = noiseArray[t][a - L].second.bin
      BY <1>1, <3>1 DEF RowsListed
    <3>3. rows[a].bin = noiseArray[t][a - L].second.bin
      BY <3>1, <3>2
    <3> QED
      BY <1>1, <3>1, <3>3 DEF DummiesOK
  <2> QED
    BY <2>1, <2>2
<1> QED
  BY <1>1, <1>2 DEF RowsListed

\* The dummies of a bin are those between two sums.
LEMMA DummiesOf ==
  ASSUME TablesOK, KeyListOK, DenseBins, ndense \in Nat, Grouped, DummiesOK, NEW t \in {1, 2}, AllFree(t),
         NEW b \in 0 .. NumBins - 1
  PROVE  LET its == {s \in 1 .. Len(noiseArray[t]) : noiseArray[t][s].second.bin = b}
         IN  IsFiniteSet(its) /\ Cardinality(its) = FreeOf[t][b]
<1> DEFINE its == {s \in 1 .. Len(noiseArray[t]) : noiseArray[t][s].second.bin = b}
<1>1. PICK S : /\ Adds(S, NumBins, FreeOf[t]) /\ Len(noiseArray[t]) = S[NumBins]
               /\ \A c \in 0 .. NumBins - 1 : \A s \in S[c] + 1 .. S[c + 1] : noiseArray[t][s].second.bin = c
  BY DEF DummiesOK
<1>2. PICK n \in Nat \ {0} : n = NumBins
  BY DEF Grouped
<1>3. \A c \in 0 .. n - 1 : FreeOf[t][c] \in Int /\ FreeOf[t][c] > 0
  <2>1. ASSUME NEW c \in 0 .. n - 1 PROVE FreeOf[t][c] \in Int /\ FreeOf[t][c] > 0
    <3>1. c \in Nat
      BY <1>2
    <3>2. FreeOf[t][c] = SizeOf[t][c] - HeldBy[t][c] /\ SizeOf[t][c] \in Nat /\ HeldBy[t][c] \in Nat
      BY <3>1, FreeFacts
    <3>3. FreeOf[t][c] > 0
      BY <1>2 DEF AllFree
    <3> QED
      BY <3>2, <3>3
  <2> QED
    BY <2>1
<1>4. SumsUp(S, n)
  BY <1>1, <1>2, <1>3, AddsClimb DEF SumsClimb
<1>5. /\ S \in [0 .. n -> Nat] /\ S[0] = 0 /\ S[b + 1] = S[b] + FreeOf[t][b]
      /\ b \in 0 .. n /\ b + 1 \in 0 .. n /\ n \in 0 .. n /\ 0 <= b /\ b + 1 <= n
  BY <1>1, <1>2 DEF Adds
<1>6. S[b + 1] <= S[n] /\ S[b] \in Nat /\ S[b + 1] \in Nat /\ S[n] \in Nat
  BY <1>4, <1>5, SumsRise
<1>7. its = S[b] + 1 .. S[b + 1]
  <2>1. ASSUME NEW s \in S[b] + 1 .. S[b + 1] PROVE s \in its
    <3>1. s \in 1 .. Len(noiseArray[t])
      BY <1>1, <1>2, <1>6
    <3>2. noiseArray[t][s].second.bin = b
      BY <1>1
    <3> QED
      BY <3>1, <3>2
  <2>2. ASSUME NEW s \in its PROVE s \in S[b] + 1 .. S[b + 1]
    <3>1. s \in 1 .. S[n]
      BY <1>1, <1>2
    <3>2. PICK k \in 1 .. n : s \in S[k - 1] + 1 .. S[k]
      BY <1>4, <3>1, SumsCut
    <3>3. k - 1 \in 0 .. n - 1 /\ (k - 1) + 1 = k
      BY <1>2
    <3>4. noiseArray[t][s].second.bin = k - 1
      BY <1>1, <1>2, <3>2, <3>3
    <3>5. k - 1 = b
      BY <3>4
    <3> QED
      BY <3>2, <3>3, <3>5
  <2> HIDE DEF its
  <2> QED
    BY <2>1, <2>2
<1>8. IsFiniteSet(its) /\ Cardinality(its) = FreeOf[t][b]
  <2>1. PICK x \in Nat, y \in Nat : x = S[b] /\ y = S[b + 1]
    BY <1>6
  <2>2. y - x = FreeOf[t][b] /\ y > x
    <3>1. b \in 0 .. n - 1
      BY <1>2
    <3>2. PICK z \in Int : z = FreeOf[t][b] /\ z > 0
      BY <1>3, <3>1
    <3> QED
      BY <1>5, <2>1, <3>2
  <2>3. IsFiniteSet(x + 1 .. y) /\ Cardinality(x + 1 .. y) = IF x + 1 > y THEN 0 ELSE y - (x + 1) + 1
    BY FS_Interval
  <2>4. Cardinality(x + 1 .. y) = y - x
    BY <2>2, <2>3
  <2> QED
    BY <1>7, <2>1, <2>2, <2>3, <2>4
<1> QED
  BY <1>8

LEMMA FewRows ==
  ASSUME TablesOK, BinsOK, NEW t \in {1, 2}
  PROVE  Len(tables[t]) < IntMax
<1>1. NumRows(tables) \in Nat \ {0} /\ NumRows(tables) = Len(tables[1]) + Len(tables[2])
      /\ Len(tables[1]) \in Nat /\ Len(tables[2]) \in Nat
  BY TableFacts
<1>2. 1 \in Entries
  <2>1. PICK x \in Nat \ {0} : x = NumRows(tables)
    BY <1>1
  <2>2. 1 \in 1 .. x
    BY <2>1
  <2> QED
    BY <2>1, <2>2 DEF Entries
<1>3. keyBinList[1].noise \in NoisePairs
  BY <1>2 DEF BinsOK, EntriesOK
<1>4. NumRows(tables) + 1 <= IntMax - 1
  BY <1>3, NoiseBound
<1>5. PICK x \in Nat, y \in Nat : x = Len(tables[1]) /\ y = Len(tables[2])
  BY <1>1
<1>6. x + y + 1 <= IntMax - 1
  BY <1>1, <1>4, <1>5
<1>7. x < IntMax /\ y < IntMax
  BY <1>6 DEF IntMax
<1> QED
  BY <1>5, <1>7

\* Rows in another order are the same rows.
LEMMA RowsInOrder ==
  ASSUME TablesOK, BinsOK, Grouped, DummiesOK, NEW t \in {1, 2}, NEW rows, RowsListed(t, rows),
         NEW sorted, NEW order, InOrder(sorted, rows, order),
         \A p, q \in 1 .. Len(rows) : p < q => rows[order[p]].bin <= rows[order[q]].bin
  PROVE  RowsSorted(sorted) /\ RowsRecorded(t, sorted)
<1>1. PICK L \in Nat, D \in Nat : L = Len(tables[t]) /\ D = Len(noiseArray[t])
  BY TableFacts DEF DummiesOK
<1>2. PICK n \in Nat : n = L + D
  OBVIOUS
<1>3. /\ Len(rows) = n
      /\ \A r \in 1 .. L : rows[r].key = tables[t][r] /\ rows[r].bin = RowBin[t][r] /\ rows[r].rid = r
      /\ \A s \in 1 .. D : rows[L + s].rid = IntMax
  BY <1>1, <1>2 DEF RowsListed
<1>4. L < IntMax
  BY <1>1, FewRows
<1>5. /\ order \in [1 .. n -> 1 .. n] /\ sorted = [p \in 1 .. n |-> rows[order[p]]]
      /\ \A p, q \in 1 .. n : order[p] = order[q] => p = q
      /\ \A a \in 1 .. n : \E p \in 1 .. n : order[p] = a
  BY <1>3 DEF InOrder, Orders
<1>6. Len(sorted) = n /\ DOMAIN sorted = 1 .. n
  BY <1>2, <1>5
<1>7. \A p \in 1 .. n : order[p] \in 1 .. n /\ sorted[p] = rows[order[p]]
  BY <1>5
<1>8. RowsSorted(sorted)
  <2>1. \A a \in 1 .. n : rows[a].bin \in 0 .. NumBins - 1
    BY <1>3, RowBinsIn
  <2>2. \A p \in 1 .. n : sorted[p].bin \in 0 .. NumBins - 1
    BY <1>7, <2>1
  <2>3. \A p, q \in 1 .. n : p < q => sorted[p].bin <= sorted[q].bin
    BY <1>3, <1>7
  <2> QED
    BY <1>6, <2>2, <2>3 DEF RowsSorted
<1>9. ASSUME NEW a \in 1 .. n PROVE rows[a].rid # IntMax => a \in 1 .. L /\ rows[a].rid = a
  <2>1. CASE a \in 1 .. L
    BY <1>3, <2>1
  <2>2. CASE ~ (a \in 1 .. L)
    <3>1. a - L \in 1 .. D /\ L + (a - L) = a
      BY <1>2, <2>2
    <3>2. rows[L + (a - L)].rid = IntMax
      BY <1>3, <3>1
    <3> QED
      BY <3>1, <3>2
  <2> QED
    BY <2>1, <2>2
<1>10. ASSUME NEW p \in 1 .. n, sorted[p].rid # IntMax
       PROVE  /\ sorted[p].rid \in 1 .. L /\ sorted[p].rid = order[p]
              /\ sorted[p].key = tables[t][sorted[p].rid] /\ sorted[p].bin = RowBin[t][sorted[p].rid]
  BY <1>3, <1>7, <1>9, <1>10
<1>11. ASSUME NEW p \in 1 .. n, NEW q \in 1 .. n, sorted[p].rid # IntMax, sorted[p].rid = sorted[q].rid
       PROVE  p = q
  <2>1. sorted[p].rid = order[p] /\ sorted[q].rid = order[q]
    BY <1>10, <1>11
  <2> QED
    <3>1. order[p] = order[q]
      BY <1>11, <2>1
    <3> QED
      BY <1>5, <3>1
<1>12. ASSUME NEW r \in 1 .. L PROVE r # IntMax /\ \E p \in 1 .. n : sorted[p].rid = r
  <2>1. r \in 1 .. n /\ rows[r].rid = r
    BY <1>2, <1>3
  <2>2. PICK p \in 1 .. n : order[p] = r
    BY <1>5, <2>1
  <2>3. sorted[p].rid = r
    BY <1>7, <2>1, <2>2
  <2>4. r # IntMax
    BY <1>4 DEF IntMax
  <2> QED
    BY <2>3, <2>4
<1>13. RowsRecorded(t, sorted)
  BY <1>1, <1>6, <1>10, <1>11, <1>12 DEF RowsRecorded
<1> QED
  BY <1>8, <1>13

\* A bin has its records and the dummies that fill it up.
LEMMA RowsOfBin ==
  ASSUME TablesOK, KeyListOK, DenseBins, ndense \in Nat, Grouped, DummiesOK, NEW t \in {1, 2}, AllFree(t),
         NEW b \in 0 .. NumBins - 1, NEW rows, RowsListed(t, rows)
  PROVE  IsFiniteSet(BinRows(rows, b)) /\ Cardinality(BinRows(rows, b)) = SizeOf[t][b]
<1> DEFINE its == {a \in 1 .. Len(rows) : rows[a].bin = b}
           recs == {r \in 1 .. Len(tables[t]) : RowBin[t][r] = b}
           dums == {s \in 1 .. Len(noiseArray[t]) : noiseArray[t][s].second.bin = b}
<1>1. PICK L \in Nat, D \in Nat : L = Len(tables[t]) /\ D = Len(noiseArray[t])
  BY TableFacts DEF DummiesOK
<1>2. b \in Nat /\ b \in Int
  BY DEF Grouped
<1>3. /\ SizeOf[t][b] \in Nat /\ HeldBy[t][b] \in Nat /\ FreeOf[t][b] = SizeOf[t][b] - HeldBy[t][b]
      /\ HeldBy[t][b] = Cardinality(recs)
  BY <1>2, FreeFacts, BinsAreOK DEF BinsOK, HeldOK
<1>4. IsFiniteSet(dums) /\ Cardinality(dums) = FreeOf[t][b]
  BY DummiesOf
<1>5. IsFiniteSet(recs)
  <2>1. recs \in SUBSET DOMAIN tables[t]
    BY TableFacts
  <2> QED
    BY <2>1, UptoFinite
<1>6. /\ Len(rows) = L + D
      /\ \A r \in 1 .. L : rows[r].bin = RowBin[t][r]
      /\ \A s \in 1 .. D : rows[L + s].bin = noiseArray[t][s].second.bin
  BY <1>1 DEF RowsListed
<1> DEFINE shifted == {L + s : s \in dums}
<1>7. IsFiniteSet(shifted) /\ Cardinality(shifted) = Cardinality(dums)
  <2> DEFINE f == [s \in dums |-> L + s]
  <2>1. \A s \in dums : s \in Nat
    BY <1>1
  <2>2. f \in [dums -> shifted] /\ \A s1, s2 \in dums : f[s1] = f[s2] => s1 = s2
    BY <2>1
  <2>3. \A x \in shifted : \E s \in dums : f[s] = x
    OBVIOUS
  <2> HIDE DEF f, dums, shifted
  <2>4. f \in Bijection(dums, shifted)
    BY <2>2, <2>3 DEF Bijection, Injection, Surjection, IsInjective
  <2> QED
    BY <1>4, <2>4, FS_Bijection DEF ExistsBijection
<1>8. its = recs \cup shifted /\ recs \cap shifted = {}
  <2>1. \A r \in recs : r \in 1 .. L /\ rows[r].bin = b
    BY <1>1, <1>6
  <2>2. \A x \in shifted : \E s \in 1 .. D : x = L + s /\ rows[x].bin = b
    BY <1>1, <1>6
  <2>3. ASSUME NEW a \in its PROVE a \in recs \cup shifted
    <3>1. a \in 1 .. L + D /\ rows[a].bin = b
      BY <1>6
    <3>2. CASE a \in 1 .. L
      BY <1>1, <1>6, <3>1, <3>2
    <3>3. CASE ~ (a \in 1 .. L)
      <4>1. a - L \in 1 .. D /\ L + (a - L) = a
        BY <3>1, <3>3
      <4>2. rows[L + (a - L)].bin = noiseArray[t][a - L].second.bin
        BY <1>6, <4>1
      <4>3. a - L \in dums
        BY <1>1, <3>1, <4>1, <4>2
      <4> HIDE DEF dums
      <4>4. L + (a - L) \in shifted
        BY <4>3
      <4> QED
        BY <4>1, <4>4
    <3> QED
      BY <3>2, <3>3
  <2>4. ASSUME NEW a \in recs \cup shifted PROVE a \in its
    <3>1. a \in 1 .. L + D /\ rows[a].bin = b
      <4> HIDE DEF recs, shifted
      <4>1. a \in recs => a \in 1 .. L + D
        BY <2>1
      <4>2. a \in shifted => a \in 1 .. L + D
        BY <2>2
      <4> QED
        BY <2>1, <2>2, <4>1, <4>2
    <3> QED
      BY <1>6, <3>1
  <2>5. ASSUME NEW a \in recs, a \in shifted PROVE FALSE
    <3> HIDE DEF recs, shifted
    <3>1. a \in 1 .. L /\ \E s \in 1 .. D : a = L + s
      BY <2>1, <2>2, <2>5
    <3> QED
      BY <3>1
  <2> HIDE DEF its, recs, shifted
  <2> QED
    BY <2>3, <2>4, <2>5
<1> HIDE DEF its, recs, dums, shifted
<1>9. Cardinality(its) = Cardinality(recs) + Cardinality(shifted) - Cardinality(recs \cap shifted)
      /\ IsFiniteSet(its)
  BY <1>5, <1>7, <1>8, FS_Union
<1>10. Cardinality(recs \cap shifted) = 0
  BY <1>8, FS_EmptySet
<1>11. Cardinality(its) = SizeOf[t][b]
  BY <1>3, <1>4, <1>7, <1>9, <1>10
<1> QED
  BY <1>9, <1>11 DEF its, BinRows

LEMMA FillRows ==
  ASSUME DoneInv, DummiesOK, NEW t \in {1, 2}, NEW rows, RowsListed(t, rows),
         NEW before, \A a, b \in 1 .. Len(rows) : before[a][b] <=> RowBefore(rows[a], rows[b])
  PROVE  LET sorted == Sorted(rows, before)
         IN  RowsSorted(sorted) /\ RowsRecorded(t, sorted) /\ RowsFilled(t, sorted)
<1> DEFINE sorted == Sorted(rows, before)
<1>1. TablesOK /\ KeyListOK /\ DenseBins /\ ndense \in Nat /\ Grouped /\ BinsOK
  BY BinsAreOK DEF DoneInv
<1>2. PICK n \in Nat : n = Len(rows)
  <2>1. Len(tables[t]) \in Nat /\ Len(noiseArray[t]) \in Nat
    BY <1>1, TableFacts DEF DummiesOK
  <2>2. PICK x \in Nat, y \in Nat : x = Len(tables[t]) /\ y = Len(noiseArray[t])
    BY <2>1
  <2>3. Len(rows) = x + y
    BY <2>2 DEF RowsListed
  <2> QED
    BY <2>3
<1>3. \A a \in 1 .. n : rows[a].bin \in 0 .. NumBins - 1
  BY <1>1, <1>2, RowBinsIn
<1> DEFINE rank == [a \in 1 .. n |-> rows[a].bin]
<1>4. rank \in [1 .. n -> Int] /\ \A a \in 1 .. n : rank[a] = rows[a].bin /\ rows[a].bin \in Int
  BY <1>3
<1>5. Follows(before, rank, n)
  <2>1. ASSUME NEW a \in 1 .. n, NEW b \in 1 .. n
        PROVE  IF before[a][b] THEN rank[a] <= rank[b] ELSE rank[b] <= rank[a]
    <3>1. before[a][b] <=> rows[a].bin < rows[b].bin \/ (rows[a].bin = rows[b].bin /\ rows[a].rid < rows[b].rid)
      BY <1>2 DEF RowBefore
    <3>2. PICK x \in Int, y \in Int : x = rows[a].bin /\ y = rows[b].bin /\ x = rank[a] /\ y = rank[b]
      BY <1>4
    <3> HIDE DEF rank
    <3> QED
      BY <3>1, <3>2
  <2> HIDE DEF rank
  <2> QED
    BY <2>1 DEF Follows
<1> HIDE DEF rank, sorted
<1>6. PICK order : /\ InOrder(sorted, rows, order)
                   /\ \A p, q \in 1 .. n : p < q => rank[order[p]] <= rank[order[q]]
  BY <1>2, <1>4, <1>5, SortedRanks DEF sorted
<1>7. /\ order \in [1 .. n -> 1 .. n] /\ sorted = [p \in 1 .. n |-> rows[order[p]]]
      /\ \A p, q \in 1 .. n : order[p] = order[q] => p = q
      /\ \A a \in 1 .. n : \E p \in 1 .. n : order[p] = a
  BY <1>2, <1>6 DEF InOrder, Orders
<1>8. RowsSorted(sorted) /\ RowsRecorded(t, sorted)
  <2>1. \A p, q \in 1 .. Len(rows) : p < q => rows[order[p]].bin <= rows[order[q]].bin
    <3>1. ASSUME NEW p \in 1 .. n, NEW q \in 1 .. n, p < q PROVE rows[order[p]].bin <= rows[order[q]].bin
      <4>1. order[p] \in 1 .. n /\ order[q] \in 1 .. n
        BY <1>7
      <4>2. rank[order[p]] = rows[order[p]].bin /\ rank[order[q]] = rows[order[q]].bin
        BY <1>4, <4>1
      <4>3. rank[order[p]] <= rank[order[q]]
        BY <1>6, <3>1
      <4> QED
        BY <4>2, <4>3
    <3> QED
      BY <1>2, <3>1
  <2> QED
    BY <1>1, <1>6, <2>1, RowsInOrder
<1>9. RowsFilled(t, sorted)
  <2> SUFFICES ASSUME AllFree(t), NEW b \in 0 .. NumBins - 1
               PROVE  Cardinality(BinRows(sorted, b)) = SizeOf[t][b]
    BY DEF RowsFilled
  <2> DEFINE its == {a \in 1 .. n : rows[a].bin = b}
             placed == {p \in 1 .. n : sorted[p].bin = b}
             f == [p \in placed |-> order[p]]
  <2>1. IsFiniteSet(its) /\ Cardinality(its) = SizeOf[t][b]
    <3>1. IsFiniteSet(BinRows(rows, b)) /\ Cardinality(BinRows(rows, b)) = SizeOf[t][b]
      BY <1>1, RowsOfBin
    <3> QED
      BY <1>2, <3>1 DEF BinRows
  <2>2. \A p \in 1 .. n : order[p] \in 1 .. n /\ sorted[p] = rows[order[p]]
    BY <1>7
  <2>3. f \in [placed -> its] /\ \A p, q \in placed : f[p] = f[q] => p = q
    BY <1>7, <2>2
  <2>4. \A a \in its : \E p \in placed : f[p] = a
    BY <1>7, <2>2
  <2>5. Len(sorted) = n
    BY <1>7
  <2> HIDE DEF f, placed, its
  <2>6. f \in Injection(placed, its) /\ f \in Surjection(placed, its)
    BY <2>3, <2>4 DEF Injection, Surjection, IsInjective
  <2>7. Cardinality(placed) = Cardinality(its)
    BY <2>1, <2>6, FS_Injection
  <2> QED
    BY <2>1, <2>5, <2>7 DEF placed, BinRows
<1> QED
  BY <1>8, <1>9 DEF sorted

LEMMA FillStep ==
  ASSUME DoneInv, CrossInv(NumBins), DummiesOK, Fill
  PROVE  DoneInv' /\ CrossInv(NumBins)' /\ RowsOK'
<1>1. /\ SameBins /\ e' = e /\ n_sparsebins' = n_sparsebins /\ crossProductSize' = crossProductSize
      /\ noiseSum' = noiseSum /\ NumBins' = NumBins
      /\ \A t \in {1, 2} :
           rbin'[t] = Sorted(RowList(t), [a \in DOMAIN RowList(t) |->
                                            [b \in DOMAIN RowList(t) |-> RowBefore(RowList(t)[a], RowList(t)[b])]])
  BY DEF Fill, SameBins, keyVars, groupVars, fillVars, RowList, NumBins
<1>2. /\ RowBin' = RowBin /\ HeldBy' = HeldBy /\ FreeOf' = FreeOf /\ SizeOf' = SizeOf /\ Products' = Products
      /\ Entries' = Entries /\ NumRows(tables)' = NumRows(tables) /\ tables' = tables
      /\ TablesOK' = TablesOK /\ KeyListOK' = KeyListOK /\ DenseBins' = DenseBins
      /\ keyBinList' = keyBinList /\ ndense' = ndense
  BY <1>1, BinsUnchanged DEF SameBins
<1>3. \A t \in {1, 2} : RowsSorted(rbin'[t]) /\ RowsRecorded(t, rbin'[t]) /\ RowsFilled(t, rbin'[t])
  <2> SUFFICES ASSUME NEW t \in {1, 2}
               PROVE  RowsSorted(rbin'[t]) /\ RowsRecorded(t, rbin'[t]) /\ RowsFilled(t, rbin'[t])
    OBVIOUS
  <2> DEFINE rows == RowList(t)
             before == [a \in DOMAIN rows |-> [b \in DOMAIN rows |-> RowBefore(rows[a], rows[b])]]
  <2>1. RowsListed(t, rows)
    BY RowListListed DEF DoneInv, DummiesOK
  <2>2. DOMAIN rows = 1 .. Len(rows)
    BY DEF RowList
  <2>3. rbin'[t] = Sorted(rows, before)
    BY <1>1
  <2> HIDE DEF rows
  <2>4. \A a, b \in 1 .. Len(rows) : before[a][b] <=> RowBefore(rows[a], rows[b])
    BY <2>2
  <2> HIDE DEF before
  <2> QED
    BY <2>1, <2>3, <2>4, FillRows
<1>4. RowsOK'
  <2> SUFFICES ASSUME NEW t \in {1, 2}
               PROVE  RowsSorted(rbin[t])' /\ RowsRecorded(t, rbin[t])' /\ RowsFilled(t, rbin[t])'
    BY DEF RowsOK
  <2>1. RowsSorted(rbin[t])'
    BY <1>1, <1>3 DEF RowsSorted
  <2>2. RowsRecorded(t, rbin[t])'
    BY <1>2, <1>3 DEF RowsRecorded
  <2>3. RowsFilled(t, rbin[t])'
    BY <1>1, <1>2, <1>3 DEF RowsFilled, AllFree
  <2> QED
    BY <2>1, <2>2, <2>3
<1>5. Grouped'
  BY <1>1, <1>2 DEF DoneInv, Grouped
<1>6. DoneInv'
  BY <1>1, <1>2, <1>5 DEF DoneInv
<1>7. CrossInv(NumBins)'
  BY <1>1, <1>2 DEF CrossInv
<1> QED
  BY <1>4, <1>6, <1>7

-----------------------------------------------------------------------------
(* The join, bin after bin.                                                *)
LEMMA BlockSize ==
  ASSUME keyNoisyMax \in Nat
  PROVE  ReadBlockSize \in Nat
<1>1. PICK n \in Nat : n = keyNoisyMax
  OBVIOUS
<1>2. PICK u \in Nat : u = 4 * U
  BY CZSCAssumption
<1>3. PICK o \in Nat : o = OCALL_MAXSIZE
  BY CZSCAssumption
<1>4. Max({n, u}) \in {n, u}
  <2>1. PICK N \in Nat : n <= N /\ u <= N
    <3>1. n + u \in Nat /\ n <= n + u /\ u <= n + u
      OBVIOUS
    <3> QED
      BY <3>1
  <2>2. {n, u} \in SUBSET (0 .. N) /\ {n, u} # {}
    BY <2>1
  <2> QED
    BY <2>2, MaxOfNumbers
<1>5. PICK m \in Nat : m = Max({n, u})
  BY <1>4
<1>6. Min({m, o}) \in {m, o}
  <2>1. m \in Int /\ o \in Int
    OBVIOUS
  <2> QED
    BY <2>1, MinOfTwo
<1>7. Min({m, o}) \in Nat
  BY <1>6
<1> QED
  BY <1>1, <1>2, <1>3, <1>5, <1>7 DEF ReadBlockSize

\* A row of the next bin, or the end, is where the bin stops.
TakenRows(t, take) ==
  /\ take \in Nat /\ take <= ReadBlockSize /\ abs_pos[t] + take <= Len(rbin[t])
  /\ \/ take = ReadBlockSize
     \/ abs_pos[t] + take = Len(rbin[t])
     \/ abs_pos[t] + take < Len(rbin[t]) /\ rbin[t][abs_pos[t] + take + 1].bin = i + 1
  /\ \A p \in abs_pos[t] + 1 .. abs_pos[t] + take : rbin[t][p].bin # i + 1

LEMMA TakeFacts ==
  ASSUME keyNoisyMax \in Nat, NEW t \in {1, 2}, Len(rbin[t]) \in Nat, abs_pos[t] \in 0 .. Len(rbin[t])
  PROVE  TakenRows(t, Take(t))
<1>1. PICK n \in Nat, a \in Nat, R \in Nat : n = Len(rbin[t]) /\ a = abs_pos[t] /\ R = ReadBlockSize /\ a <= n
  BY BlockSize
<1> DEFINE Stop(j) == a + j >= n \/ (a + j < n /\ rbin[t][a + j + 1].bin = i + 1)
           T == {R} \cup {j \in 0 .. R : Stop(j)}
<1>2. Take(t) = Min(T)
  BY <1>1 DEF Take
<1>3. T \in SUBSET Nat /\ T # {} /\ \A j \in T : j <= R
  OBVIOUS
<1>4. \A j \in Nat : j \in T <=> j = R \/ (j <= R /\ Stop(j))
  OBVIOUS
<1> HIDE DEF T
<1>5. PICK k \in T : \A m \in 0 .. k - 1 : m \notin T
  BY <1>3, LeastNumber
<1>6. \A m \in T : k <= m
  <2>1. ASSUME NEW m \in T PROVE k <= m
    <3>1. k \in Nat /\ m \in Nat
      BY <1>3
    <3>2. ~ (m \in 0 .. k - 1)
      BY <1>5
    <3> QED
      BY <3>1, <3>2
  <2> QED
    BY <2>1
<1>7. Min(T) \in T /\ \A m \in T : Min(T) <= m
  BY <1>5, <1>6 DEF Min
<1>8. PICK take \in Nat : take = Min(T) /\ take = Take(t)
  BY <1>2, <1>3, <1>7
<1>9. take \in T /\ take <= R /\ \A m \in T : take <= m
  BY <1>3, <1>7, <1>8
<1>10. a + take <= n
  <2>1. CASE R <= n - a
    BY <1>1, <1>9, <2>1
  <2>2. CASE ~ (R <= n - a)
    <3>1. n - a \in Nat /\ n - a <= R /\ a + (n - a) >= n
      BY <1>1, <2>2
    <3>2. n - a \in T
      BY <1>4, <3>1
    <3>3. take <= n - a
      BY <1>9, <3>2
    <3> QED
      BY <1>1, <3>3
  <2> QED
    BY <2>1, <2>2
<1>11. take = R \/ a + take = n \/ (a + take < n /\ rbin[t][a + take + 1].bin = i + 1)
  <2>1. take = R \/ Stop(take)
    BY <1>4, <1>9
  <2>2. CASE take = R
    BY <2>2
  <2>3. CASE Stop(take)
    <3>1. a + take >= n => a + take = n
      BY <1>1, <1>10
    <3> QED
      BY <2>3, <3>1
  <2> QED
    BY <2>1, <2>2, <2>3
<1>12. ASSUME NEW p \in a + 1 .. a + take, rbin[t][p].bin = i + 1 PROVE FALSE
  <2>1. PICK j \in Nat : j = p - a - 1
    BY <1>1
  <2>2. p = a + j + 1 /\ j < take /\ j <= R /\ a + j < n
    <3>1. a + take <= n /\ take <= R
      BY <1>9, <1>10
    <3> QED
      BY <2>1, <3>1
  <2>3. Stop(j)
    BY <1>12, <2>2
  <2>4. j \in T
    BY <1>4, <2>2, <2>3
  <2> QED
    BY <1>9, <2>2, <2>4
<1> QED
  BY <1>1, <1>8, <1>9, <1>10, <1>11, <1>12 DEF TakenRows

\* The bins of a table that the join can take one by one.
CleanBins(t) == EveryBinFits(t) /\ \A b \in 0 .. NumBins - 1 : RowsOf(t, b) # {}

\* Where bin b starts.
StartsAt(t, b, pos) == \A p \in 1 .. Len(rbin[t]) : p <= pos <=> rbin[t][p].bin < b

LEMMA TakeBin ==
  ASSUME NEW t \in {1, 2}, RowsSorted(rbin[t]), CleanBins(t), Grouped, i \in 0 .. NumBins - 1,
         abs_pos[t] \in 0 .. Len(rbin[t]), StartsAt(t, i, abs_pos[t]),
         NEW take, TakenRows(t, take), keyNoisyMax \in Nat
  PROVE  /\ abs_pos[t] + 1 .. abs_pos[t] + take = BinRows(rbin[t], i)
         /\ take = Cardinality(BinRows(rbin[t], i))
         /\ StartsAt(t, i + 1, abs_pos[t] + take)
<1>1. PICK n \in Nat, a \in Nat, R \in Nat, b \in Nat, m \in Nat :
        n = Len(rbin[t]) /\ a = abs_pos[t] /\ a <= n /\ R = ReadBlockSize /\ b = i /\ m = NumBins /\ b < m
  <2>1. NumBins \in Nat /\ Len(rbin[t]) \in Nat
    BY DEF Grouped, RowsSorted
  <2>2. PICK R \in Nat : R = ReadBlockSize
    BY BlockSize
  <2>3. abs_pos[t] \in Nat /\ abs_pos[t] <= Len(rbin[t])
    BY <2>1
  <2>4. i \in Nat /\ i < NumBins
    BY <2>1
  <2> QED
    BY <2>1, <2>2, <2>3, <2>4
<1> DEFINE bin(p) == rbin[t][p].bin
<1>2. /\ DOMAIN rbin[t] = 1 .. n
      /\ \A p \in 1 .. n : bin(p) \in 0 .. m - 1
      /\ \A p, q \in 1 .. n : p < q => bin(p) <= bin(q)
      /\ \A p \in 1 .. n : p <= a <=> bin(p) < b
  BY <1>1 DEF RowsSorted, StartsAt
<1>3. /\ take \in Nat /\ take <= R /\ a + take <= n
      /\ take = R \/ a + take = n \/ (a + take < n /\ bin(a + take + 1) = b + 1)
      /\ \A p \in a + 1 .. a + take : bin(p) # b + 1
  BY <1>1 DEF TakenRows
<1>4. RowsOf(t, b) = BinRows(rbin[t], b) /\ BinRows(rbin[t], b) = {p \in 1 .. n : bin(p) = b}
  BY <1>1, <1>2 DEF RowsOf, BinRows
<1>5. b + 1 < m => \E q \in 1 .. n : bin(q) = b + 1
  <2>1. SUFFICES ASSUME b + 1 < m PROVE \E q \in 1 .. n : bin(q) = b + 1
    OBVIOUS
  <2>2. b + 1 \in 0 .. NumBins - 1
    BY <1>1, <2>1
  <2>3. RowsOf(t, b + 1) # {}
    BY <2>2 DEF CleanBins
  <2> QED
    BY <1>2, <2>3 DEF RowsOf
<1>6. Cardinality(BinRows(rbin[t], b)) <= R
  <2>1. b \in 0 .. NumBins - 1
    BY <1>1
  <2>2. Cardinality(RowsOf(t, b)) <= R
    BY <1>1, <2>1 DEF CleanBins, EveryBinFits
  <2> QED
    BY <1>4, <2>2
<1> HIDE DEF bin
<1>13. take \in Nat /\ a + take <= n /\ a <= n
  BY <1>1, <1>3
<1>7. ASSUME NEW p \in a + 1 .. a + take PROVE p \in 1 .. n /\ bin(p) = b
  <2>1. p \in 1 .. n /\ ~ (p <= a)
    BY <1>13
  <2>2. bin(p) \in 0 .. m - 1 /\ bin(p) >= b
    BY <1>1, <1>2, <2>1
  <2>3. bin(p) # b + 1
    BY <1>3
  <2>4. CASE bin(p) > b + 1
    <3>1. b + 1 < m
      BY <1>1, <2>2, <2>4
    <3>2. PICK q \in 1 .. n : bin(q) = b + 1
      BY <1>5, <3>1
    <3>3. q < p
      <4>1. SUFFICES ASSUME ~ (q < p) PROVE FALSE
        OBVIOUS
      <4>2. q # p
        BY <1>1, <2>2, <2>4, <3>2
      <4>3. p < q
        BY <2>1, <4>1, <4>2
      <4>4. bin(p) <= bin(q)
        BY <1>2, <2>1, <4>3
      <4> QED
        BY <1>1, <2>2, <2>4, <3>2, <4>4
    <3>4. ~ (q <= a)
      BY <1>1, <1>2, <3>2
    <3>5. q \in a + 1 .. a + take
      BY <1>1, <1>3, <3>3, <3>4
    <3> QED
      BY <1>3, <3>2, <3>5
  <2> QED
    BY <1>1, <2>1, <2>2, <2>3, <2>4
<1>8. ASSUME NEW p \in 1 .. n, bin(p) = b PROVE p \in a + 1 .. a + take
  <2>1. ~ (p <= a)
    BY <1>1, <1>2, <1>8
  <2>2. SUFFICES ASSUME p > a + take PROVE FALSE
    BY <1>1, <1>3, <2>1
  <2>3. ~ (a + take = n)
    BY <1>1, <1>3, <2>2
  <2>4. CASE take = R
    <3>1. ASSUME NEW q \in a + 1 .. p PROVE q \in 1 .. n /\ bin(q) = b
      <4>1. q \in 1 .. n /\ ~ (q <= a) /\ q <= p
        BY <1>1, <3>1
      <4>2. bin(q) \in Int /\ bin(q) >= b
        BY <1>1, <1>2, <4>1
      <4>3. bin(q) <= b
        BY <1>2, <1>8, <4>1, <4>2
      <4> QED
        BY <1>1, <4>1, <4>2, <4>3
    <3>2. (a + 1 .. p) \in SUBSET BinRows(rbin[t], b)
      BY <1>4, <3>1
    <3>3. IsFiniteSet(BinRows(rbin[t], b)) /\ Cardinality(BinRows(rbin[t], b)) \in Nat
      <4>1. BinRows(rbin[t], b) \in SUBSET (1 .. n) /\ IsFiniteSet(1 .. n)
        <5>1. BinRows(rbin[t], b) \in SUBSET (1 .. n)
          BY <1>4
        <5>2. 1 \in Int /\ n \in Int
          OBVIOUS
        <5> QED
          BY <5>1, <5>2, FS_Interval
      <4> QED
        BY <4>1, FS_Subset, FS_CardinalityType
    <3>4. Cardinality(a + 1 .. p) <= Cardinality(BinRows(rbin[t], b))
      BY <3>2, <3>3, FS_Subset
    <3>5. Cardinality(a + 1 .. p) = p - a
      <4>1. a + 1 \in Int /\ p \in Int /\ ~ (a + 1 > p) /\ p - (a + 1) + 1 = p - a
        BY <1>1, <2>1
      <4>2. Cardinality(a + 1 .. p) = p - (a + 1) + 1
        BY <4>1, FS_Interval
      <4> QED
        BY <4>1, <4>2
    <3>6. PICK c \in Nat : c = Cardinality(BinRows(rbin[t], b))
      BY <3>3
    <3>7. p - a <= c /\ c <= R
      BY <1>6, <3>4, <3>5, <3>6
    <3> QED
      BY <1>1, <2>2, <2>4, <3>7
  <2>5. CASE a + take < n /\ bin(a + take + 1) = b + 1
    <3>1. a + take + 1 \in 1 .. n /\ a + take + 1 <= p
      BY <1>1, <1>3, <2>2, <2>5
    <3>2. bin(a + take + 1) <= bin(p) \/ a + take + 1 = p
      BY <1>2, <3>1
    <3> QED
      BY <1>1, <1>8, <2>5, <3>2
  <2> QED
    BY <1>3, <2>3, <2>4, <2>5
<1>9. a + 1 .. a + take = BinRows(rbin[t], b)
  <2>1. \A p \in BinRows(rbin[t], b) : p \in a + 1 .. a + take
    BY <1>4, <1>8
  <2>2. \A p \in a + 1 .. a + take : p \in BinRows(rbin[t], b)
    BY <1>4, <1>7
  <2> QED
    BY <2>1, <2>2
<1>10. take = Cardinality(BinRows(rbin[t], b))
  <2>1. PICK x \in Int, y \in Int : x = a + 1 /\ y = a + take
    BY <1>13
  <2>2. Cardinality(x .. y) = IF x > y THEN 0 ELSE y - x + 1
    BY FS_Interval
  <2>3. (IF x > y THEN 0 ELSE y - x + 1) = take
    BY <1>13, <2>1
  <2>4. x .. y = BinRows(rbin[t], b)
    BY <1>9, <2>1
  <2> QED
    BY <2>2, <2>3, <2>4
<1>11. ASSUME NEW p \in 1 .. n PROVE p <= a + take <=> bin(p) < b + 1
  <2>1. bin(p) \in Int /\ (p <= a <=> bin(p) < b)
    BY <1>2
  <2>2. p \in a + 1 .. a + take <=> bin(p) = b
    BY <1>7, <1>8
  <2> QED
    BY <1>1, <1>3, <2>1, <2>2
<1>12. StartsAt(t, i + 1, abs_pos[t] + take)
  BY <1>1, <1>11 DEF StartsAt, bin
<1> QED
  BY <1>1, <1>9, <1>10, <1>12

\* Rows with the same join attribute have the same key.
KeysFollow == \A k1, k2 \in AllKeys : k1[1] = k2[1] => k1 = k2

\* The matches whose record of table 1 is in one of the first n bins.
MatchesBelow(n) ==
  {m \in (1 .. Len(tables[1])) \X (1 .. Len(tables[2])) :
     tables[1][m[1]][1] = tables[2][m[2]][1] /\ RowBin[1][m[1]] < n}

AllClean == \A t \in {1, 2} : CleanBins(t)

WrittenInv ==
  AllClean /\ (\A t \in {1, 2} : AllFree(t)) =>
    \E Q : Adds(Q, NumBins, Products) /\ crossProductSize = Q[NumBins] /\ written = Q[i]

MatchedInv == AllClean /\ KeysFollow => joined = MatchesBelow(i) /\ realMatches = Cardinality(joined)

JoinInv ==
  /\ i \in 0 .. NumBins
  /\ \A t \in {1, 2} : abs_pos[t] \in 0 .. Len(rbin[t]) /\ (CleanBins(t) => StartsAt(t, i, abs_pos[t]))
  /\ WrittenInv /\ MatchedInv

\* The pairs of rows of one bin that match.
Matching(rows1, rows2) ==
  {m \in rows1 \X rows2 : /\ rbin[1][m[1]].rid # IntMax /\ rbin[2][m[2]].rid # IntMax
                          /\ rbin[1][m[1]].key[1] = rbin[2][m[2]].key[1]}

MatchingRids(rows1, rows2) == {<<rbin[1][m[1]].rid, rbin[2][m[2]].rid>> : m \in Matching(rows1, rows2)}

LEMMA MatchingCounted ==
  ASSUME RowsOK, NEW rows1 \in SUBSET (1 .. Len(rbin[1])), NEW rows2 \in SUBSET (1 .. Len(rbin[2]))
  PROVE  /\ IsFiniteSet(MatchingRids(rows1, rows2))
         /\ Cardinality(MatchingRids(rows1, rows2)) = Cardinality(Matching(rows1, rows2))
<1> DEFINE its == Matching(rows1, rows2)
           pairs == MatchingRids(rows1, rows2)
           f == [m \in its |-> <<rbin[1][m[1]].rid, rbin[2][m[2]].rid>>]
<1>1. IsFiniteSet(its)
  <2>1. PICK n1 \in Nat, n2 \in Nat : n1 = Len(rbin[1]) /\ n2 = Len(rbin[2])
    BY DEF RowsOK, RowsSorted
  <2>2. IsFiniteSet(1 .. n1) /\ IsFiniteSet(1 .. n2)
    BY FS_Interval
  <2>3. IsFiniteSet(rows1) /\ IsFiniteSet(rows2)
    BY <2>1, <2>2, FS_Subset
  <2>4. IsFiniteSet(rows1 \X rows2)
    BY <2>3, FS_Product
  <2>5. its \in SUBSET (rows1 \X rows2)
    BY DEF Matching
  <2> QED
    BY <2>4, <2>5, FS_Subset
<1>2. f \in [its -> pairs] /\ \A x \in pairs : \E m \in its : f[m] = x
  BY DEF MatchingRids
<1>3. ASSUME NEW m \in its, NEW o \in its, f[m] = f[o] PROVE m = o
  <2>1. m \in rows1 \X rows2 /\ o \in rows1 \X rows2
        /\ rbin[1][m[1]].rid # IntMax /\ rbin[2][m[2]].rid # IntMax
    BY DEF Matching
  <2>2. rbin[1][m[1]].rid = rbin[1][o[1]].rid /\ rbin[2][m[2]].rid = rbin[2][o[2]].rid
    BY <1>3
  <2>3. m[1] = o[1]
    <3>1. m[1] \in 1 .. Len(rbin[1]) /\ o[1] \in 1 .. Len(rbin[1])
      BY <2>1
    <3> QED
      BY <2>1, <2>2, <3>1 DEF RowsOK, RowsRecorded
  <2>4. m[2] = o[2]
    <3>1. m[2] \in 1 .. Len(rbin[2]) /\ o[2] \in 1 .. Len(rbin[2])
      BY <2>1
    <3> QED
      BY <2>1, <2>2, <3>1 DEF RowsOK, RowsRecorded
  <2> QED
    BY <2>1, <2>3, <2>4
<1> HIDE DEF f, its, pairs
<1>4. f \in Bijection(its, pairs)
  BY <1>2, <1>3 DEF Bijection, Injection, Surjection, IsInjective
<1> QED
  BY <1>1, <1>4, FS_Bijection DEF ExistsBijection, its, pairs

\* What a bin of both tables adds to the matches.
LEMMA MatchesOfBin ==
  ASSUME TablesOK, BinsOK, RowsOK, KeysFollow, NEW b \in Nat
  PROVE  /\ MatchesBelow(b + 1) = MatchesBelow(b) \cup MatchingRids(BinRows(rbin[1], b), BinRows(rbin[2], b))
         /\ MatchesBelow(b) \cap MatchingRids(BinRows(rbin[1], b), BinRows(rbin[2], b)) = {}
<1> DEFINE new == MatchingRids(BinRows(rbin[1], b), BinRows(rbin[2], b))
           L(t) == Len(tables[t])
<1>1. ASSUME NEW m \in new
      PROVE  /\ m \in (1 .. L(1)) \X (1 .. L(2))
             /\ tables[1][m[1]][1] = tables[2][m[2]][1] /\ RowBin[1][m[1]] = b
  <2>1. PICK o \in Matching(BinRows(rbin[1], b), BinRows(rbin[2], b)) :
               m = <<rbin[1][o[1]].rid, rbin[2][o[2]].rid>>
    BY DEF MatchingRids
  <2>2. /\ o[1] \in BinRows(rbin[1], b) /\ o[2] \in BinRows(rbin[2], b)
        /\ rbin[1][o[1]].rid # IntMax /\ rbin[2][o[2]].rid # IntMax
        /\ rbin[1][o[1]].key[1] = rbin[2][o[2]].key[1]
    BY <2>1 DEF Matching
  <2>3. /\ o[1] \in 1 .. Len(rbin[1]) /\ rbin[1][o[1]].bin = b
        /\ o[2] \in 1 .. Len(rbin[2]) /\ rbin[2][o[2]].bin = b
    BY <2>2 DEF BinRows
  <2>4. /\ rbin[1][o[1]].rid \in 1 .. L(1) /\ rbin[1][o[1]].key = tables[1][rbin[1][o[1]].rid]
        /\ rbin[1][o[1]].bin = RowBin[1][rbin[1][o[1]].rid]
    BY <2>2, <2>3 DEF RowsOK, RowsRecorded
  <2>5. rbin[2][o[2]].rid \in 1 .. L(2) /\ rbin[2][o[2]].key = tables[2][rbin[2][o[2]].rid]
    BY <2>2, <2>3 DEF RowsOK, RowsRecorded
  <2>6. PICK r1 \in 1 .. L(1), r2 \in 1 .. L(2) : r1 = rbin[1][o[1]].rid /\ r2 = rbin[2][o[2]].rid
    BY <2>4, <2>5
  <2>7. m = <<r1, r2>> /\ tables[1][r1][1] = tables[2][r2][1] /\ RowBin[1][r1] = b
    BY <2>1, <2>2, <2>3, <2>4, <2>5, <2>6
  <2> QED
    BY <2>6, <2>7
<1>2. ASSUME NEW r1 \in 1 .. L(1), NEW r2 \in 1 .. L(2), tables[1][r1][1] = tables[2][r2][1], RowBin[1][r1] = b
      PROVE  <<r1, r2>> \in new
  <2>1. tables[1][r1] \in AllKeys /\ tables[2][r2] \in AllKeys
    BY TableFacts
  <2>2. tables[1][r1] = tables[2][r2]
    BY <1>2, <2>1 DEF KeysFollow
  <2>3. RowBin[2][r2] = b
    <3>1. PICK k \in Entries : keyBinList[k].key = tables[1][r1]
      BY DEF BinsOK, RowBinsOK
    <3>2. RowBin[1][r1] = keyBinList[k].bin
      BY <3>1 DEF BinsOK, RowBinsOK
    <3>3. RowBin[2][r2] = keyBinList[k].bin
      BY <2>2, <3>1 DEF BinsOK, RowBinsOK
    <3> QED
      BY <1>2, <3>2, <3>3
  <2>4. PICK p1 \in 1 .. Len(rbin[1]) : rbin[1][p1].rid = r1 /\ r1 # IntMax
    BY DEF RowsOK, RowsRecorded
  <2>5. PICK p2 \in 1 .. Len(rbin[2]) : rbin[2][p2].rid = r2 /\ r2 # IntMax
    BY DEF RowsOK, RowsRecorded
  <2>6. rbin[1][p1].key = tables[1][r1] /\ rbin[1][p1].bin = RowBin[1][r1]
    BY <2>4 DEF RowsOK, RowsRecorded
  <2>7. rbin[2][p2].key = tables[2][r2] /\ rbin[2][p2].bin = RowBin[2][r2]
    BY <2>5 DEF RowsOK, RowsRecorded
  <2>8. p1 \in BinRows(rbin[1], b) /\ p2 \in BinRows(rbin[2], b)
    BY <1>2, <2>3, <2>6, <2>7 DEF BinRows
  <2>9. <<p1, p2>> \in Matching(BinRows(rbin[1], b), BinRows(rbin[2], b))
    BY <1>2, <2>4, <2>5, <2>6, <2>7, <2>8 DEF Matching
  <2>10. <<rbin[1][<<p1, p2>>[1]].rid, rbin[2][<<p1, p2>>[2]].rid>> \in new
    BY <2>9 DEF MatchingRids
  <2> QED
    BY <2>4, <2>5, <2>10
<1>3. \A r \in 1 .. L(1) : RowBin[1][r] \in Int
  <2>1. ASSUME NEW r \in 1 .. L(1) PROVE RowBin[1][r] \in Int
    <3>1. PICK k \in Entries : keyBinList[k].key = tables[1][r]
      BY DEF BinsOK, RowBinsOK
    <3>2. RowBin[1][r] = keyBinList[k].bin
      BY <3>1 DEF BinsOK, RowBinsOK
    <3> QED
      BY <3>2 DEF BinsOK, EntriesOK
  <2> QED
    BY <2>1
<1> HIDE DEF new
<1>4. ASSUME NEW m \in MatchesBelow(b + 1) PROVE m \in MatchesBelow(b) \cup new
  <2>1. PICK r1 \in 1 .. L(1), r2 \in 1 .. L(2) :
          m = <<r1, r2>> /\ tables[1][r1][1] = tables[2][r2][1] /\ RowBin[1][r1] < b + 1
    BY DEF MatchesBelow
  <2>2. CASE RowBin[1][r1] < b
    BY <2>1, <2>2 DEF MatchesBelow
  <2>3. CASE ~ (RowBin[1][r1] < b)
    <3>1. RowBin[1][r1] = b
      <4>1. PICK x \in Int : x = RowBin[1][r1]
        BY <1>3
      <4> QED
        BY <2>1, <2>3, <4>1
    <3> QED
      BY <1>2, <2>1, <3>1
  <2> QED
    BY <2>2, <2>3
<1>5. ASSUME NEW m \in MatchesBelow(b) PROVE m \in MatchesBelow(b + 1) /\ RowBin[1][m[1]] # b
  <2>1. PICK r1 \in 1 .. L(1), r2 \in 1 .. L(2) :
          m = <<r1, r2>> /\ tables[1][r1][1] = tables[2][r2][1] /\ RowBin[1][r1] < b
    BY DEF MatchesBelow
  <2>2. RowBin[1][r1] < b + 1 /\ RowBin[1][r1] # b
    <3>1. PICK x \in Int : x = RowBin[1][r1]
      BY <1>3
    <3> QED
      BY <2>1, <3>1
  <2> QED
    BY <2>1, <2>2 DEF MatchesBelow
<1>6. ASSUME NEW m \in new PROVE m \in MatchesBelow(b + 1)
  <2>1. RowBin[1][m[1]] < b + 1
    BY <1>1
  <2> QED
    BY <1>1, <2>1 DEF MatchesBelow
<1>7. MatchesBelow(b + 1) = MatchesBelow(b) \cup new
  BY <1>4, <1>5, <1>6
<1>8. MatchesBelow(b) \cap new = {}
  BY <1>1, <1>5
<1> QED
  BY <1>7, <1>8 DEF new

\* The join changes neither the bins nor their rows.
SameRows == UNCHANGED <<keyVars, groupVars, fillVars, e, rbin>>

LEMMA RowsUnchanged ==
  ASSUME SameRows
  PROVE  /\ SameBins /\ NumBins' = NumBins /\ rbin' = rbin /\ tables' = tables /\ keyNoisyMax' = keyNoisyMax
         /\ crossProductSize' = crossProductSize
         /\ Products' = Products /\ RowBin' = RowBin
         /\ (DoneInv => DoneInv') /\ (RowsOK => RowsOK')
         /\ AllClean' = AllClean /\ KeysFollow' = KeysFollow
         /\ \A t \in {1, 2} : AllFree(t)' = AllFree(t) /\ CleanBins(t)' = CleanBins(t)
         /\ \A n : MatchesBelow(n)' = MatchesBelow(n)
         /\ \A n : CrossInv(n) => CrossInv(n)'
<1>1. /\ SameBins /\ NumBins' = NumBins /\ rbin' = rbin /\ tables' = tables /\ keyNoisyMax' = keyNoisyMax
      /\ crossProductSize' = crossProductSize /\ e' = e /\ n_sparsebins' = n_sparsebins
      /\ keyBinList' = keyBinList /\ ndense' = ndense /\ noiseSum' = noiseSum
  BY DEF SameRows, SameBins, keyVars, groupVars, fillVars, NumBins
<1>2. /\ RowBin' = RowBin /\ HeldBy' = HeldBy /\ FreeOf' = FreeOf /\ SizeOf' = SizeOf /\ Products' = Products
      /\ Entries' = Entries /\ NumRows(tables)' = NumRows(tables)
      /\ TablesOK' = TablesOK /\ KeyListOK' = KeyListOK /\ DenseBins' = DenseBins
  BY <1>1, BinsUnchanged
<1>3. DoneInv => DoneInv'
  <2>1. Grouped => Grouped'
    BY <1>1, <1>2 DEF Grouped
  <2> QED
    BY <1>1, <1>2, <2>1 DEF DoneInv
<1>4. \A t \in {1, 2} : AllFree(t)' = AllFree(t)
  BY <1>1, <1>2 DEF AllFree
<1>5. RowsOK => RowsOK'
  <2> SUFFICES ASSUME RowsOK, NEW t \in {1, 2}
               PROVE  RowsSorted(rbin[t])' /\ RowsRecorded(t, rbin[t])' /\ RowsFilled(t, rbin[t])'
    BY DEF RowsOK
  <2>1. RowsSorted(rbin[t])'
    BY <1>1 DEF RowsSorted, RowsOK
  <2>2. RowsRecorded(t, rbin[t])'
    <3>1. RowsRecorded(t, rbin[t])
      BY DEF RowsOK
    <3> QED
      BY <1>1, <1>2, <3>1 DEF RowsRecorded
  <2>3. RowsFilled(t, rbin[t])'
    BY <1>1, <1>2, <1>4 DEF RowsFilled, RowsOK, BinRows
  <2> QED
    BY <2>1, <2>2, <2>3
<1>6. \A t \in {1, 2} : CleanBins(t)' = CleanBins(t)
  BY <1>1 DEF CleanBins, EveryBinFits, RowsOf, ReadBlockSize
<1>7. AllClean' = AllClean
  BY <1>6 DEF AllClean
<1>8. KeysFollow' = KeysFollow
  BY <1>1 DEF KeysFollow, AllKeys
<1>9. \A n : MatchesBelow(n)' = MatchesBelow(n)
  BY <1>1, <1>2 DEF MatchesBelow
<1>10. \A n : CrossInv(n) => CrossInv(n)'
  BY <1>1, <1>2 DEF CrossInv
<1> QED
  BY <1>1, <1>2, <1>3, <1>4, <1>5, <1>6, <1>7, <1>8, <1>9, <1>10

LEMMA JoinStep ==
  ASSUME DoneInv, RowsOK, JoinInv, keyNoisyMax \in Nat, JoinBin
  PROVE  DoneInv' /\ RowsOK' /\ JoinInv'
<1>1. /\ i < NumBins /\ i' = i + 1 /\ abs_pos' = [t \in {1, 2} |-> abs_pos[t] + Take(t)] /\ SameRows
      /\ written' = written + Take(1) * Take(2)
  BY DEF JoinBin, SameRows
<1>2. PICK n \in Nat, b \in Nat : n = NumBins /\ b = i /\ b < n
  <2>1. NumBins \in Nat /\ i \in 0 .. NumBins
    BY DEF DoneInv, Grouped, JoinInv
  <2> QED
    BY <1>1, <2>1
<1>3. \A t \in {1, 2} : RowsSorted(rbin[t]) /\ Len(rbin[t]) \in Nat /\ abs_pos[t] \in 0 .. Len(rbin[t])
  BY DEF RowsOK, RowsSorted, JoinInv
<1>4. \A t \in {1, 2} : TakenRows(t, Take(t))
  BY <1>3, TakeFacts
<1>5. ASSUME NEW t \in {1, 2}
      PROVE  /\ abs_pos'[t] = abs_pos[t] + Take(t)
             /\ abs_pos'[t] \in 0 .. Len(rbin[t])
             /\ CleanBins(t) => /\ abs_pos[t] + 1 .. abs_pos[t] + Take(t) = BinRows(rbin[t], b)
                                /\ Take(t) = Cardinality(BinRows(rbin[t], b))
                                /\ StartsAt(t, b + 1, abs_pos'[t])
  <2>1. abs_pos'[t] = abs_pos[t] + Take(t)
    BY <1>1
  <2>2. Take(t) \in Nat /\ abs_pos[t] + Take(t) <= Len(rbin[t])
    BY <1>4 DEF TakenRows
  <2>3. abs_pos'[t] \in 0 .. Len(rbin[t])
    BY <1>3, <2>1, <2>2
  <2>4. ASSUME CleanBins(t)
        PROVE  /\ abs_pos[t] + 1 .. abs_pos[t] + Take(t) = BinRows(rbin[t], i)
               /\ Take(t) = Cardinality(BinRows(rbin[t], i))
               /\ StartsAt(t, i + 1, abs_pos[t] + Take(t))
    <3>1. StartsAt(t, i, abs_pos[t]) /\ Grouped /\ i \in 0 .. NumBins - 1
      BY <1>2, <2>4 DEF JoinInv, DoneInv
    <3> QED
      BY <1>3, <1>4, <2>4, <3>1, TakeBin
  <2> QED
    BY <1>2, <2>1, <2>3, <2>4
<1>6. DoneInv' /\ RowsOK'
  BY <1>1, RowsUnchanged
<1>7. i' \in 0 .. NumBins'
  <2>1. b + 1 \in 0 .. n
    BY <1>2
  <2> QED
    BY <1>1, <1>2, <2>1, RowsUnchanged
<1>8. ASSUME NEW t \in {1, 2}
      PROVE  abs_pos'[t] \in 0 .. Len(rbin'[t]) /\ (CleanBins(t)' => StartsAt(t, i, abs_pos[t])')
  <2>1. rbin' = rbin /\ CleanBins(t)' = CleanBins(t)
    BY <1>1, RowsUnchanged
  <2>2. CleanBins(t) => StartsAt(t, i', abs_pos'[t])
    BY <1>1, <1>2, <1>5
  <2> QED
    BY <1>5, <2>1, <2>2 DEF StartsAt
<1>9. WrittenInv'
  <2>1. SUFFICES ASSUME AllClean, \A t \in {1, 2} : AllFree(t)
                 PROVE  \E Q : Adds(Q, n, Products) /\ crossProductSize = Q[n] /\ written' = Q[b + 1]
    BY <1>1, <1>2, RowsUnchanged DEF WrittenInv
  <2>2. PICK Q : Adds(Q, n, Products) /\ crossProductSize = Q[n] /\ written = Q[b]
    BY <1>2, <2>1 DEF JoinInv, WrittenInv
  <2>3. b \in 0 .. n - 1 /\ b \in Int /\ b \in Nat
    BY <1>2
  <2>4. Q[b + 1] = Q[b] + Products[b]
    BY <2>2, <2>3 DEF Adds
  <2>5. Products[b] = SizeOf[1][b] * SizeOf[2][b]
    BY <2>3 DEF Products
  <2>6. ASSUME NEW t \in {1, 2} PROVE Take(t) = SizeOf[t][b]
    <3>1. Take(t) = Cardinality(BinRows(rbin[t], b))
      BY <1>5, <2>1 DEF AllClean
    <3>2. b \in 0 .. NumBins - 1
      BY <1>2
    <3>3. Cardinality(BinRows(rbin[t], b)) = SizeOf[t][b]
      BY <2>1, <3>2 DEF RowsOK, RowsFilled
    <3> QED
      BY <3>1, <3>3
  <2>7. written' = Q[b + 1]
    <3>1. Take(1) = SizeOf[1][b] /\ Take(2) = SizeOf[2][b]
      BY <2>6
    <3> QED
      BY <1>1, <2>2, <2>4, <2>5, <3>1
  <2> QED
    BY <2>2, <2>7
<1>10. MatchedInv'
  <2>1. SUFFICES ASSUME AllClean, KeysFollow
                 PROVE  joined' = MatchesBelow(b + 1) /\ realMatches' = Cardinality(joined')
    BY <1>1, <1>2, RowsUnchanged DEF MatchedInv
  <2>2. joined = MatchesBelow(b) /\ realMatches = Cardinality(joined)
    BY <1>2, <2>1 DEF JoinInv, MatchedInv
  <2> DEFINE rows1 == BinRows(rbin[1], b)
             rows2 == BinRows(rbin[2], b)
             new == MatchingRids(rows1, rows2)
  <2>3. abs_pos[1] + 1 .. abs_pos[1] + Take(1) = rows1 /\ abs_pos[2] + 1 .. abs_pos[2] + Take(2) = rows2
    BY <1>5, <2>1 DEF AllClean
  <2>4. /\ realMatches' = realMatches + Cardinality(Matching(rows1, rows2))
        /\ joined' = joined \cup new
    <3> DEFINE taken(t) == abs_pos[t] + 1 .. abs_pos[t] + Take(t)
    <3>1. /\ realMatches' = realMatches + Cardinality(Matching(taken(1), taken(2)))
          /\ joined' = joined \cup MatchingRids(taken(1), taken(2))
      BY DEF JoinBin, Matching, MatchingRids
    <3> HIDE DEF rows1, rows2
    <3>2. taken(1) = rows1 /\ taken(2) = rows2
      BY <2>3
    <3> QED
      BY <3>1, <3>2
  <2>5. BinsOK /\ TablesOK
    BY BinsAreOK DEF DoneInv
  <2>6. MatchesBelow(b + 1) = MatchesBelow(b) \cup new /\ MatchesBelow(b) \cap new = {}
    BY <2>1, <2>5, MatchesOfBin
  <2>7. IsFiniteSet(new) /\ Cardinality(new) = Cardinality(Matching(rows1, rows2))
    <3>1. rows1 \in SUBSET (1 .. Len(rbin[1])) /\ rows2 \in SUBSET (1 .. Len(rbin[2]))
      BY DEF BinRows
    <3> HIDE DEF rows1, rows2
    <3> QED
      BY <3>1, MatchingCounted DEF new
  <2>8. IsFiniteSet(joined)
    <3>1. PICK x \in Nat, y \in Nat : x = Len(tables[1]) /\ y = Len(tables[2])
      BY <2>5, TableFacts
    <3>2. IsFiniteSet(1 .. x) /\ IsFiniteSet(1 .. y)
      BY FS_Interval
    <3>3. IsFiniteSet((1 .. x) \X (1 .. y))
      BY <3>2, FS_Product
    <3>4. joined \in SUBSET ((1 .. x) \X (1 .. y))
      BY <2>2, <3>1 DEF MatchesBelow
    <3> QED
      BY <3>3, <3>4, FS_Subset
  <2> HIDE DEF new, rows1, rows2
  <2>9. Cardinality(joined \cup new) = Cardinality(joined) + Cardinality(new) - Cardinality(joined \cap new)
    BY <2>7, <2>8, FS_Union
  <2>10. Cardinality(joined \cap new) = 0
    BY <2>2, <2>6, FS_EmptySet
  <2>11. Cardinality(joined) \in Nat /\ Cardinality(new) \in Nat
    BY <2>7, <2>8, FS_CardinalityType
  <2>12. joined' = MatchesBelow(b + 1)
    BY <2>2, <2>4, <2>6
  <2>13. Cardinality(joined') = Cardinality(joined) + Cardinality(new)
    BY <2>4, <2>9, <2>10, <2>11
  <2> QED
    BY <2>2, <2>4, <2>7, <2>12, <2>13
<1> QED
  BY <1>6, <1>7, <1>8, <1>9, <1>10 DEF JoinInv

\* Before the join.
NothingJoined == i = 0 /\ abs_pos = Both(0) /\ written = 0 /\ realMatches = 0 /\ joined = {}

LEMMA JoinStarts ==
  ASSUME DoneInv, CrossInv(NumBins), RowsOK, NothingJoined
  PROVE  JoinInv
<1>1. NumBins \in Nat /\ TablesOK /\ BinsOK
  BY BinsAreOK DEF DoneInv, Grouped
<1>2. ASSUME NEW t \in {1, 2}
      PROVE  abs_pos[t] \in 0 .. Len(rbin[t]) /\ StartsAt(t, i, abs_pos[t])
  <2>1. abs_pos[t] = 0 /\ i = 0
    BY DEF NothingJoined, Both
  <2>2. Len(rbin[t]) \in Nat /\ \A p \in 1 .. Len(rbin[t]) : rbin[t][p].bin \in 0 .. NumBins - 1
    BY DEF RowsOK, RowsSorted
  <2>3. ASSUME NEW p \in 1 .. Len(rbin[t]) PROVE p <= 0 <=> rbin[t][p].bin < 0
    <3>1. ~ (p <= 0) /\ rbin[t][p].bin \in 0 .. NumBins - 1
      BY <2>2
    <3> QED
      BY <1>1, <3>1
  <2> QED
    BY <2>1, <2>2, <2>3 DEF StartsAt
<1>3. WrittenInv
  <2>1. PICK Q : Adds(Q, NumBins, Products) /\ crossProductSize = Q[NumBins]
    BY DEF CrossInv
  <2>2. Q[0] = 0
    BY <2>1 DEF Adds
  <2> QED
    BY <2>1, <2>2 DEF WrittenInv, NothingJoined
<1>4. MatchedInv
  <2>1. ASSUME NEW m \in MatchesBelow(0) PROVE FALSE
    <3>1. m[1] \in 1 .. Len(tables[1]) /\ RowBin[1][m[1]] < 0
      BY DEF MatchesBelow
    <3>2. PICK k \in Entries : keyBinList[k].key = tables[1][m[1]]
      BY <1>1, <3>1 DEF BinsOK, RowBinsOK
    <3>3. RowBin[1][m[1]] = keyBinList[k].bin
      BY <1>1, <3>1, <3>2 DEF BinsOK, RowBinsOK
    <3>4. keyBinList[k].bin \in 0 .. NumBins - 1
      BY DEF DoneInv, Grouped
    <3> QED
      BY <1>1, <3>1, <3>3, <3>4
  <2>2. MatchesBelow(0) = {}
    BY <2>1
  <2> QED
    BY <2>2, FS_EmptySet DEF MatchedInv, NothingJoined
<1> QED
  BY <1>1, <1>2, <1>3, <1>4 DEF JoinInv, NothingJoined

-----------------------------------------------------------------------------
(* The inductive invariant: what holds before and after each of the phases *)
(* of CZSCJoin.                                                            *)
NoGroups ==
  /\ e = 1 /\ ndense = 0 /\ n_sparsebins = 0 /\ sbinCount = Both(0) /\ preKey = DummyKey
  /\ noiseArray = Both(<<>>) /\ noiseSum = Both(0) /\ crossProductSize = 0

NothingFilled == rbin = Both(<<>>) /\ NothingJoined

AtPopulate == pc = "populate" /\ keyBinList = <<>> /\ NoGroups /\ NothingFilled
AtDense == pc = "dense" /\ GroupInv /\ DenseInv /\ NothingFilled
AtSparse == pc = "sparse" /\ GroupInv /\ SparseInv /\ NothingFilled
AtPad == pc = "pad" /\ GroupInv /\ Grouped /\ noisyBins \in Nat /\ NothingFilled
AtFill == pc = "fill" /\ DoneInv /\ CrossInv(NumBins) /\ DummiesOK /\ NothingFilled
AtStart == pc = "start" /\ DoneInv /\ CrossInv(NumBins) /\ RowsOK /\ NothingJoined
AtJoin == pc = "join" /\ DoneInv /\ RowsOK /\ JoinInv
AtJoined == pc = "joined" /\ DoneInv /\ RowsOK /\ JoinInv /\ i = NumBins
AtCrashed == pc = "crashed" /\ DoneInv /\ NothingJoined /\ \A t \in {1, 2} : Len(rbin[t]) \in Nat

IInv ==
  /\ TablesOK /\ keyNoisyMax \in Nat
  /\ \/ AtPopulate \/ AtDense \/ AtSparse \/ AtPad \/ AtFill \/ AtStart \/ AtJoin \/ AtJoined \/ AtCrashed

(* Before any key has a bin there are no sums.                             *)
AllUngrouped == TablesOK /\ KeyListOK /\ NoGroups /\ \A k \in Entries : keyBinList[k].bin = -1

LEMMA GroupingStarts ==
  AllUngrouped => GroupInv /\ DenseInv
<1> SUFFICES ASSUME AllUngrouped PROVE GroupInv /\ DenseInv
  OBVIOUS
<1>1. /\ TablesOK /\ KeyListOK /\ \A k \in Entries : keyBinList[k].bin = -1
      /\ e = 1 /\ ndense = 0 /\ n_sparsebins = 0 /\ sbinCount = Both(0) /\ preKey = DummyKey
      /\ noiseArray = Both(<<>>) /\ noiseSum = Both(0) /\ crossProductSize = 0
  BY DEF AllUngrouped, NoGroups
<1>2. PICK n \in Nat \ {0} : n = NumRows(tables)
  BY <1>1, TableFacts
<1>3. DenseBins
  <2>1. 0 .. ndense - 1 = {}
    BY <1>1
  <2> QED
    BY <2>1 DEF DenseBins
<1>4. \A step : Adds([x \in 0 .. 0 |-> 0], 0, step)
  BY DEF Adds
<1>5. CrossInv(ndense)
  <2>1. crossProductSize = [x \in 0 .. 0 |-> 0][0]
    BY <1>1
  <2> QED
    BY <1>1, <1>4, <2>1 DEF CrossInv
<1>6. NoiseInv
  <2> SUFFICES ASSUME NEW t \in {1, 2}
               PROVE  NoiseOK(noiseArray[t], noiseSum[t], FreeOf[t], NumBins) /\ noiseSum[t] <= NumBins * Bound
    BY DEF NoiseInv
  <2>1. noiseArray[t] = <<>> /\ noiseSum[t] = 0 /\ NumBins = 0
    BY <1>1 DEF Both, NumBins
  <2>2. 0 <= 0 * Bound
    <3>1. 1 \in Entries
      <4>1. 1 \in 1 .. n
        BY <1>2
      <4> QED
        BY <1>2, <4>1 DEF Entries
    <3>2. keyBinList[1].noise \in NoisePairs
      BY <1>1, <3>1, EntryFacts
    <3>3. Bound \in Nat
      BY <1>1, <3>2, NoiseBound
    <3> QED
      BY <3>3
  <2>3. Marks(<<>>, [x \in 0 .. 0 |-> 0], 0)
    <3>1. 1 .. Len(<<>>) = {} /\ 0 .. 0 - 1 = {}
      OBVIOUS
    <3> QED
      BY <3>1 DEF Marks
  <2>4. <<>> \in Seq(NoiseEntry) /\ 0 = [x \in 0 .. 0 |-> 0][0]
    OBVIOUS
  <2>5. NoiseOK(<<>>, 0, FreeOf[t], 0)
    BY <1>4, <2>3, <2>4 DEF NoiseOK
  <2> QED
    BY <2>1, <2>2, <2>5
<1>7. GroupInv
  <2>1. e \in 1 .. NumRows(tables) + 1 /\ ndense \in Nat /\ n_sparsebins \in Nat
    BY <1>1, <1>2
  <2> QED
    BY <1>1, <1>3, <1>5, <1>6, <2>1 DEF GroupInv
<1>8. DenseInv
  <2>1. \A k \in Entries : ~ (k < 1)
    BY <1>2 DEF Entries
  <2> QED
    BY <1>1, <2>1 DEF DenseInv
<1> QED
  BY <1>7, <1>8

LEMMA NextGroupingStarts ==
  AllUngrouped' => GroupInv' /\ DenseInv'
BY GroupingStarts, PTL

LEMMA GroupedIsDone ==
  ASSUME GroupInv, Grouped
  PROVE  DoneInv
<1>1. \A t \in {1, 2} : noiseSum[t] \in Nat
  <2> SUFFICES ASSUME NEW t \in {1, 2} PROVE noiseSum[t] \in Nat
    OBVIOUS
  <2>1. PICK S : Adds(S, NumBins, FreeOf[t]) /\ noiseSum[t] = S[NumBins]
    BY DEF GroupInv, NoiseInv, NoiseOK
  <2> QED
    BY <2>1 DEF Adds
<1> QED
  BY <1>1 DEF GroupInv, DoneInv

LEMMA NoRowsAreThere ==
  ASSUME NothingFilled
  PROVE  \A t \in {1, 2} : Len(rbin[t]) \in Nat
BY DEF NothingFilled, Both

\* What a step leaves as it was in the enclave.
LEMMA GroupedUnchanged ==
  ASSUME GroupInv, SameRows
  PROVE  GroupInv' /\ (Grouped => Grouped')
<1>1. /\ SameBins /\ e' = e /\ n_sparsebins' = n_sparsebins /\ noiseArray' = noiseArray /\ noiseSum' = noiseSum
      /\ crossProductSize' = crossProductSize /\ NumBins' = NumBins
  BY DEF SameRows, SameBins, keyVars, groupVars, fillVars, NumBins
<1>2. HeldBy' = HeldBy /\ Entries' = Entries /\ NumRows(tables)' = NumRows(tables)
  BY <1>1, BinsUnchanged
<1>3. e \in 1 .. NumRows(tables) + 1
  BY DEF GroupInv
<1>4. GroupInv'
  BY <1>1, <1>3, GroupUnchanged
<1>5. Grouped => Grouped'
  BY <1>1, <1>2 DEF Grouped, SameBins
<1> QED
  BY <1>4, <1>5

LEMMA JoinUnchanged ==
  ASSUME SameRows, UNCHANGED joinVars, JoinInv
  PROVE  JoinInv'
<1>1. /\ i' = i /\ abs_pos' = abs_pos /\ written' = written /\ realMatches' = realMatches /\ joined' = joined
      /\ NumBins' = NumBins /\ rbin' = rbin /\ crossProductSize' = crossProductSize /\ Products' = Products
      /\ AllClean' = AllClean /\ KeysFollow' = KeysFollow
  BY RowsUnchanged DEF joinVars
<1>2. \A t \in {1, 2} : AllFree(t)' = AllFree(t) /\ CleanBins(t)' = CleanBins(t)
  BY RowsUnchanged
<1>3. \A n : MatchesBelow(n)' = MatchesBelow(n)
  BY RowsUnchanged
<1>4. WrittenInv'
  BY <1>1, <1>2 DEF JoinInv, WrittenInv
<1>5. MatchedInv'
  <2>1. MatchesBelow(i)' = MatchesBelow(i)
    BY <1>1, <1>3
  <2> QED
    BY <1>1, <2>1 DEF JoinInv, MatchedInv
<1>6. ASSUME NEW t \in {1, 2}
      PROVE  abs_pos'[t] \in 0 .. Len(rbin'[t]) /\ (CleanBins(t)' => StartsAt(t, i, abs_pos[t])')
  BY <1>1, <1>2 DEF JoinInv, StartsAt
<1> QED
  BY <1>1, <1>4, <1>5, <1>6 DEF JoinInv

LEMMA LoopsUnchanged ==
  ASSUME SameRows
  PROVE  (DenseInv => DenseInv') /\ (SparseInv => SparseInv') /\ (DummiesOK => DummiesOK')
<1>1. /\ n_sparsebins' = n_sparsebins /\ sbinCount' = sbinCount /\ preKey' = preKey /\ e' = e
      /\ ndense' = ndense /\ keyBinList' = keyBinList /\ noiseArray' = noiseArray /\ NumBins' = NumBins /\ SameBins
  BY DEF SameRows, SameBins, keyVars, groupVars, fillVars, NumBins
<1>2. HeldBy' = HeldBy /\ Entries' = Entries /\ FreeOf' = FreeOf
  BY <1>1, BinsUnchanged
<1>3. \A k \in Entries : Small(keyBinList[k])' = Small(keyBinList[k])
  BY <1>1 DEF Small
<1>4. DenseInv => DenseInv'
  BY <1>1, <1>2 DEF DenseInv, Small
<1>5. SparseInv => SparseInv'
  BY <1>1, <1>2 DEF SparseInv, Small
<1>6. DummiesOK => DummiesOK'
  <2>1. \A t \in {1, 2} : AllFree(t)' = AllFree(t)
    BY RowsUnchanged
  <2> QED
    <3> SUFFICES ASSUME DummiesOK, NEW t \in {1, 2}
        PROVE  /\ noiseArray'[t] \in Seq(NoiseEntry)
               /\ \A p \in 1 .. Len(noiseArray'[t]) : noiseArray'[t][p].second.bin \in 0 .. NumBins' - 1
               /\ AllFree(t)' =>
                    \E S : /\ Adds(S, NumBins', FreeOf'[t]) /\ Len(noiseArray'[t]) = S[NumBins']
                           /\ \A b \in 0 .. NumBins' - 1 :
                                \A s \in S[b] + 1 .. S[b + 1] : noiseArray'[t][s].second.bin = b
      BY DEF DummiesOK
    <3>1. noiseArray'[t] = noiseArray[t] /\ FreeOf'[t] = FreeOf[t] /\ NumBins' = NumBins /\ AllFree(t)' = AllFree(t)
      BY <1>1, <1>2, <2>1
    <3>2. /\ noiseArray[t] \in Seq(NoiseEntry)
          /\ \A p \in 1 .. Len(noiseArray[t]) : noiseArray[t][p].second.bin \in 0 .. NumBins - 1
          /\ AllFree(t) =>
               \E S : /\ Adds(S, NumBins, FreeOf[t]) /\ Len(noiseArray[t]) = S[NumBins]
                      /\ \A b \in 0 .. NumBins - 1 : \A s \in S[b] + 1 .. S[b + 1] : noiseArray[t][s].second.bin = b
      BY DEF DummiesOK
    <3> QED
      BY <3>1, <3>2
<1> QED
  BY <1>4, <1>5, <1>6

LEMMA IInvUnchanged ==
  ASSUME IInv, UNCHANGED vars
  PROVE  IInv'
<1>1. /\ SameRows /\ UNCHANGED joinVars /\ UNCHANGED rbin /\ pc' = pc /\ noisyBins' = noisyBins /\ keyNoisyMax' = keyNoisyMax
      /\ keyBinList' = keyBinList /\ tables' = tables /\ NumBins' = NumBins
      /\ UNCHANGED <<e, groupVars, fillVars>>
  BY DEF vars, SameRows, keyVars, groupVars, fillVars, NumBins
<1>2. NothingJoined' = NothingJoined /\ NothingFilled' = NothingFilled /\ NoGroups' = NoGroups
  BY <1>1 DEF NothingJoined, NothingFilled, NoGroups, joinVars, groupVars, fillVars
<1>3. /\ (DoneInv => DoneInv') /\ (RowsOK => RowsOK') /\ (CrossInv(NumBins) => CrossInv(NumBins)')
      /\ (JoinInv => JoinInv') /\ (DenseInv => DenseInv') /\ (SparseInv => SparseInv') /\ (DummiesOK => DummiesOK')
      /\ (GroupInv => GroupInv') /\ (GroupInv /\ Grouped => Grouped')
  <2>1. CrossInv(NumBins) => CrossInv(NumBins)'
    BY <1>1, RowsUnchanged
  <2>2. (DoneInv => DoneInv') /\ (RowsOK => RowsOK')
    BY <1>1, RowsUnchanged
  <2> QED
    BY <1>1, <2>1, <2>2, JoinUnchanged, LoopsUnchanged, GroupedUnchanged
<1>4. TablesOK' /\ keyNoisyMax' \in Nat
  BY <1>1 DEF IInv, TablesOK
<1>5. AtPopulate => AtPopulate'
  BY <1>1, <1>2 DEF AtPopulate
<1>6. AtDense => AtDense'
  BY <1>1, <1>2, <1>3 DEF AtDense
<1>7. AtSparse => AtSparse'
  BY <1>1, <1>2, <1>3 DEF AtSparse
<1>8. AtPad => AtPad'
  BY <1>1, <1>2, <1>3 DEF AtPad
<1>9. AtFill => AtFill'
  BY <1>1, <1>2, <1>3 DEF AtFill
<1>10. AtStart => AtStart'
  BY <1>1, <1>2, <1>3 DEF AtStart
<1>11. AtJoin => AtJoin'
  BY <1>1, <1>2, <1>3 DEF AtJoin
<1>12. AtJoined => AtJoined'
  <2>1. i' = i
    BY <1>1 DEF joinVars
  <2> QED
    BY <1>1, <1>2, <1>3, <2>1 DEF AtJoined
<1>13. AtCrashed => AtCrashed'
  BY <1>1, <1>2, <1>3 DEF AtCrashed
<1> QED
  BY <1>4, <1>5, <1>6, <1>7, <1>8, <1>9, <1>10, <1>11, <1>12, <1>13 DEF IInv

LEMMA JoinStartsFrom ==
  DoneInv /\ CrossInv(NumBins) /\ RowsOK /\ NothingJoined => JoinInv
BY JoinStarts

LEMMA NextJoinStarts ==
  DoneInv' /\ CrossInv(NumBins)' /\ RowsOK' /\ NothingJoined' => JoinInv'
BY JoinStartsFrom, PTL

LEMMA InitIInv ==
  ASSUME Init
  PROVE  IInv
<1>1. TablesOK /\ keyNoisyMax = 0
  BY DEF Init, TablesOK
<1>2. AtPopulate
  BY DEF Init, AtPopulate, NoGroups, NothingFilled, NothingJoined
<1> QED
  BY <1>1, <1>2 DEF IInv

LEMMA StepIInv ==
  ASSUME IInv, [Next]_vars
  PROVE  IInv'
<1>0. TablesOK /\ keyNoisyMax \in Nat
  BY DEF IInv
<1>1. CASE PopulateKeyBinList
  <2>1. AtPopulate
    BY <1>1 DEF PopulateKeyBinList, IInv, AtPopulate, AtDense, AtSparse, AtPad, AtFill, AtStart, AtJoin,
                AtJoined, AtCrashed
  <2>2. /\ KeyListOK' /\ TablesOK' /\ keyNoisyMax' \in Nat
        /\ \A k \in Entries : keyBinList'[k].bin = -1
    BY <1>0, <1>1, PopulateFacts
  <2>3. tables' = tables /\ pc' = "dense" /\ UNCHANGED <<groupVars, fillVars, e, rbin, joinVars>>
    BY <1>1 DEF PopulateKeyBinList
  <2>4. NoGroups' /\ NothingFilled'
    BY <2>1, <2>3 DEF AtPopulate, NoGroups, NothingFilled, NothingJoined, groupVars, fillVars, joinVars
  <2>5. Entries' = Entries
    BY <2>3 DEF Entries
  <2>6. AllUngrouped'
    BY <2>2, <2>4, <2>5 DEF AllUngrouped
  <2>7. AtDense'
    BY <2>3, <2>4, <2>6, NextGroupingStarts DEF AtDense
  <2> QED
    BY <2>2, <2>7 DEF IInv
<1>2. CASE GroupDense
  <2>1. AtDense
    BY <1>2 DEF GroupDense, IInv, AtPopulate, AtDense, AtSparse, AtPad, AtFill, AtStart, AtJoin, AtJoined, AtCrashed
  <2>2. GroupInv' /\ DenseInv'
    BY <1>2, <2>1, DenseLoop DEF AtDense
  <2>3. pc' = "dense" /\ keyNoisyMax' = keyNoisyMax /\ NothingFilled'
    BY <1>2, <2>1 DEF GroupDense, AtDense, NothingFilled, NothingJoined, joinVars
  <2> QED
    BY <1>0, <2>2, <2>3 DEF IInv, AtDense, GroupInv
<1>3. CASE EndDense
  <2>1. AtDense
    BY <1>3 DEF EndDense, IInv, AtPopulate, AtDense, AtSparse, AtPad, AtFill, AtStart, AtJoin, AtJoined, AtCrashed
  <2>2. GroupInv' /\ SparseInv'
    BY <1>3, <2>1, DenseLoopEnds DEF AtDense
  <2>3. pc' = "sparse" /\ keyNoisyMax' = keyNoisyMax /\ NothingFilled'
    BY <1>3, <2>1 DEF EndDense, AtDense, NothingFilled, NothingJoined, joinVars, keyVars
  <2> QED
    BY <1>0, <2>2, <2>3 DEF IInv, AtSparse, GroupInv
<1>4. CASE GroupSparse
  <2>1. AtSparse
    BY <1>4 DEF GroupSparse, IInv, AtPopulate, AtDense, AtSparse, AtPad, AtFill, AtStart, AtJoin, AtJoined, AtCrashed
  <2>2. GroupInv' /\ SparseInv'
    BY <1>4, <2>1, SparseLoop DEF AtSparse
  <2>3. pc' = "sparse" /\ keyNoisyMax' = keyNoisyMax /\ NothingFilled'
    BY <1>4, <2>1 DEF GroupSparse, AtSparse, NothingFilled, NothingJoined, joinVars
  <2> QED
    BY <1>0, <2>2, <2>3 DEF IInv, AtSparse, GroupInv
<1>5. CASE EndSparse
  <2>1. AtSparse
    BY <1>5 DEF EndSparse, IInv, AtPopulate, AtDense, AtSparse, AtPad, AtFill, AtStart, AtJoin, AtJoined, AtCrashed
  <2>2. GroupInv' /\ Grouped' /\ noisyBins' \in Nat
    BY <1>5, <2>1, SparseLoopEnds DEF AtSparse
  <2>3. pc' = "pad" /\ keyNoisyMax' = keyNoisyMax /\ NothingFilled'
    BY <1>5, <2>1 DEF EndSparse, AtSparse, NothingFilled, NothingJoined, joinVars, keyVars
  <2> QED
    BY <1>0, <2>2, <2>3 DEF IInv, AtPad, GroupInv
<1>6. CASE Pad
  <2>1. AtPad
    BY <1>6 DEF Pad, IInv, AtPopulate, AtDense, AtSparse, AtPad, AtFill, AtStart, AtJoin, AtJoined, AtCrashed
  <2>2. DoneInv' /\ CrossInv(NumBins)' /\ DummiesOK'
    BY <1>6, <2>1, PadStep DEF AtPad
  <2>3. pc' = "fill" /\ keyNoisyMax' = keyNoisyMax /\ NothingFilled'
    BY <1>6, <2>1 DEF Pad, AtPad, NothingFilled, NothingJoined, joinVars, keyVars
  <2> QED
    BY <1>0, <2>2, <2>3 DEF IInv, AtFill, DoneInv
<1>7. CASE PadPastEnd
  <2>1. AtPad
    BY <1>7 DEF PadPastEnd, IInv, AtPopulate, AtDense, AtSparse, AtPad, AtFill, AtStart, AtJoin, AtJoined, AtCrashed
  <2>2. pc' = "crashed" /\ SameRows /\ keyNoisyMax' = keyNoisyMax /\ rbin' = rbin /\ NothingJoined'
    BY <1>7, <2>1 DEF PadPastEnd, AtPad, NothingFilled, NothingJoined, SameRows, joinVars, keyVars
  <2>3. DoneInv
    BY <2>1, GroupedIsDone DEF AtPad
  <2>4. DoneInv'
    BY <2>2, <2>3, RowsUnchanged
  <2>5. \A t \in {1, 2} : Len(rbin'[t]) \in Nat
    BY <2>1, <2>2, NoRowsAreThere DEF AtPad
  <2> QED
    BY <1>0, <2>2, <2>4, <2>5 DEF IInv, AtCrashed, DoneInv
<1>8. CASE Fill
  <2>1. AtFill
    BY <1>8 DEF Fill, IInv, AtPopulate, AtDense, AtSparse, AtPad, AtFill, AtStart, AtJoin, AtJoined, AtCrashed
  <2>2. DoneInv' /\ CrossInv(NumBins)' /\ RowsOK'
    BY <1>8, <2>1, FillStep DEF AtFill
  <2>3. pc' = "start" /\ keyNoisyMax' = keyNoisyMax /\ NothingJoined'
    BY <1>8, <2>1 DEF Fill, AtFill, NothingFilled, NothingJoined, joinVars, keyVars
  <2> QED
    BY <1>0, <2>2, <2>3 DEF IInv, AtStart, DoneInv
<1>9. CASE StartJoin
  <2>1. AtStart
    BY <1>9 DEF StartJoin, IInv, AtPopulate, AtDense, AtSparse, AtPad, AtFill, AtStart, AtJoin, AtJoined, AtCrashed
  <2>2. /\ pc' \in {"join", "crashed"} /\ SameRows /\ keyNoisyMax' = keyNoisyMax /\ rbin' = rbin
        /\ NumBins' = NumBins /\ NothingJoined'
    BY <1>9, <2>1 DEF StartJoin, AtStart, NothingJoined, SameRows, joinVars, keyVars, groupVars, NumBins
  <2>3. DoneInv' /\ RowsOK' /\ CrossInv(NumBins)'
    <3>1. DoneInv /\ RowsOK /\ CrossInv(NumBins)
      BY <2>1 DEF AtStart
    <3> QED
      BY <2>2, <3>1, RowsUnchanged
  <2>4. JoinInv'
    BY <2>2, <2>3, NextJoinStarts
  <2>5. \A t \in {1, 2} : Len(rbin[t])' \in Nat
    BY <2>3 DEF RowsOK, RowsSorted
  <2> QED
    BY <1>0, <2>2, <2>3, <2>4, <2>5 DEF IInv, AtJoin, AtCrashed, DoneInv
<1>10. CASE JoinBin
  <2>1. AtJoin
    BY <1>10 DEF JoinBin, IInv, AtPopulate, AtDense, AtSparse, AtPad, AtFill, AtStart, AtJoin, AtJoined, AtCrashed
  <2>2. DoneInv' /\ RowsOK' /\ JoinInv'
    BY <1>0, <1>10, <2>1, JoinStep DEF AtJoin
  <2>3. pc' = "join" /\ keyNoisyMax' = keyNoisyMax
    BY <1>10, <2>1 DEF JoinBin, AtJoin, keyVars
  <2> QED
    BY <1>0, <2>2, <2>3 DEF IInv, AtJoin, DoneInv
<1>11. CASE EndJoin
  <2>1. AtJoin
    BY <1>11 DEF EndJoin, IInv, AtPopulate, AtDense, AtSparse, AtPad, AtFill, AtStart, AtJoin, AtJoined, AtCrashed
  <2>2. pc' = "joined" /\ SameRows /\ keyNoisyMax' = keyNoisyMax /\ i = NumBins /\ UNCHANGED joinVars
    BY <1>11 DEF EndJoin, SameRows, keyVars
  <2>3. DoneInv' /\ RowsOK'
    BY <2>1, <2>2, RowsUnchanged DEF AtJoin
  <2>4. JoinInv' /\ i' = NumBins'
    <3>1. JoinInv'
      BY <2>1, <2>2, JoinUnchanged DEF AtJoin
    <3>2. NumBins' = NumBins
      BY <2>2, RowsUnchanged
    <3> QED
      BY <2>2, <3>1, <3>2 DEF joinVars
  <2> QED
    BY <1>0, <2>2, <2>3, <2>4 DEF IInv, AtJoined, DoneInv
<1>12. CASE UNCHANGED vars
  BY <1>12, IInvUnchanged
<1> QED
  BY <1>1, <1>2, <1>3, <1>4, <1>5, <1>6, <1>7, <1>8, <1>9, <1>10, <1>11, <1>12 DEF Next

-----------------------------------------------------------------------------
\* What the invariant says of the properties.
LEMMA DoneFacts ==
  ASSUME DoneInv
  PROVE  /\ BinsOK /\ TablesOK /\ NumBins \in Nat /\ Len(keyBinList) = NumRows(tables)
         /\ \A t \in {1, 2} : \A b \in 0 .. NumBins - 1 :
              /\ SizeOf[t][b] \in Nat /\ HeldBy[t][b] \in Nat /\ FreeOf[t][b] = SizeOf[t][b] - HeldBy[t][b]
              /\ Size(t, b) = SizeOf[t][b] /\ Cardinality(RecordsOf(t, b)) = HeldBy[t][b]
<1>1. BinsOK /\ TablesOK /\ NumBins \in Nat
  BY BinsAreOK DEF DoneInv, Grouped
<1>2. Len(keyBinList) = NumRows(tables)
  BY <1>1 DEF BinsOK, EntriesOK
<1>3. ASSUME NEW t \in {1, 2}, NEW b \in 0 .. NumBins - 1
      PROVE  /\ SizeOf[t][b] \in Nat /\ HeldBy[t][b] \in Nat /\ FreeOf[t][b] = SizeOf[t][b] - HeldBy[t][b]
             /\ Size(t, b) = SizeOf[t][b] /\ Cardinality(RecordsOf(t, b)) = HeldBy[t][b]
  <2>1. b \in Nat
    BY <1>1
  <2> QED
    BY <2>1, FreeFacts DEF DoneInv
<1> QED
  BY <1>1, <1>2, <1>3

\* Every bin is padded just when it has free places.
LEMMA PaddedIsFree ==
  ASSUME DoneInv, NEW t \in {1, 2}, EveryBinPadded(t)
  PROVE  AllFree(t)
<1>1. ASSUME NEW b \in 0 .. NumBins - 1 PROVE FreeOf[t][b] > 0
  <2>1. /\ SizeOf[t][b] \in Nat /\ HeldBy[t][b] \in Nat /\ FreeOf[t][b] = SizeOf[t][b] - HeldBy[t][b]
        /\ Size(t, b) = SizeOf[t][b] /\ Cardinality(RecordsOf(t, b)) = HeldBy[t][b]
    BY DoneFacts
  <2>2. SizeOf[t][b] > HeldBy[t][b]
    BY <2>1 DEF EveryBinPadded
  <2> QED
    BY <2>1, <2>2
<1> QED
  BY <1>1 DEF AllFree

LEMMA RowsOfBins ==
  ASSUME RowsOK, NEW t \in {1, 2}, NEW b
  PROVE  RowsOf(t, b) = BinRows(rbin[t], b)
BY DEF RowsOK, RowsSorted, RowsOf, BinRows

\* No bin is empty that is padded.
LEMMA PaddedIsClean ==
  ASSUME DoneInv, RowsOK, NEW t \in {1, 2}, EveryBinPadded(t), EveryBinFits(t)
  PROVE  CleanBins(t) /\ AllFree(t)
<1>1. AllFree(t)
  BY PaddedIsFree
<1>2. ASSUME NEW b \in 0 .. NumBins - 1, RowsOf(t, b) = {} PROVE FALSE
  <2>1. Cardinality(BinRows(rbin[t], b)) = SizeOf[t][b]
    BY <1>1 DEF RowsOK, RowsFilled
  <2>2. Cardinality(BinRows(rbin[t], b)) = 0
    BY <1>2, RowsOfBins, FS_EmptySet
  <2>3. SizeOf[t][b] \in Nat /\ HeldBy[t][b] \in Nat /\ FreeOf[t][b] = SizeOf[t][b] - HeldBy[t][b]
    BY DoneFacts
  <2>4. FreeOf[t][b] > 0
    BY <1>1 DEF AllFree
  <2>5. PICK x \in Nat : x = HeldBy[t][b] /\ FreeOf[t][b] = 0 - x
    BY <2>1, <2>2, <2>3
  <2> QED
    BY <2>4, <2>5
<1> QED
  BY <1>1, <1>2 DEF CleanBins

LEMMA TypesFollow ==
  ASSUME IInv
  PROVE  TypeOK
<1>1. TablesOK
  BY DEF IInv
<1>2. CASE AtPopulate
  <2>1. /\ pc = "populate" /\ keyBinList = <<>> /\ e = 1 /\ i = 0 /\ abs_pos = Both(0) /\ noiseSum = Both(0)
        /\ rbin = Both(<<>>) /\ ndense = 0 /\ n_sparsebins = 0
    BY <1>2 DEF AtPopulate, NoGroups, NothingFilled, NothingJoined
  <2>2. NumBins = 0 /\ Len(keyBinList) = 0 /\ DOMAIN keyBinList = {}
    BY <2>1 DEF NumBins
  <2>3. \A t \in {1, 2} : noiseSum[t] \in Nat /\ abs_pos[t] \in 0 .. Len(rbin[t])
    BY <2>1 DEF Both
  <2> QED
    BY <2>1, <2>2, <2>3 DEF TypeOK
<1>3. ASSUME NothingFilled, GroupInv, \A k \in Entries : keyBinList[k].bin \in -1 .. NumBins
      PROVE  /\ e \in 1 .. Len(keyBinList) + 1 /\ i \in 0 .. NumBins
             /\ \A t \in {1, 2} : noiseSum[t] \in Nat /\ abs_pos[t] \in 0 .. Len(rbin[t])
             /\ \A k \in DOMAIN keyBinList : keyBinList[k].bin \in -1 .. NumBins
  <2>1. BinsOK /\ NumBins \in Nat /\ Len(keyBinList) = NumRows(tables)
    BY <1>3, GroupFacts
  <2>2. e \in 1 .. Len(keyBinList) + 1
    BY <1>3, <2>1 DEF GroupInv
  <2>3. i \in 0 .. NumBins
    BY <1>3, <2>1 DEF NothingFilled, NothingJoined
  <2>4. ASSUME NEW t \in {1, 2} PROVE noiseSum[t] \in Nat /\ abs_pos[t] \in 0 .. Len(rbin[t])
    <3>1. noiseSum[t] \in Nat
      <4>1. PICK S : Adds(S, NumBins, FreeOf[t]) /\ noiseSum[t] = S[NumBins]
        BY <1>3 DEF GroupInv, NoiseInv, NoiseOK
      <4> QED
        BY <4>1 DEF Adds
    <3>2. abs_pos[t] = 0 /\ rbin[t] = <<>>
      BY <1>3 DEF NothingFilled, NothingJoined, Both
    <3> QED
      BY <3>1, <3>2
  <2>5. DOMAIN keyBinList = Entries
    BY <2>1 DEF BinsOK, EntriesOK
  <2> QED
    BY <1>3, <2>2, <2>3, <2>4, <2>5
<1>4. CASE AtDense
  <2>1. \A k \in Entries : keyBinList[k].bin \in -1 .. NumBins
    <3>1. NumBins = ndense /\ ndense \in Nat
      BY <1>4 DEF AtDense, DenseInv, GroupInv, NumBins
    <3>2. ASSUME NEW k \in Entries PROVE keyBinList[k].bin \in -1 .. NumBins
      <4>1. keyBinList[k].bin \in -1 .. ndense - 1
        BY <1>4 DEF AtDense, DenseInv
      <4> QED
        BY <3>1, <4>1
    <3> QED
      BY <3>2
  <2> QED
    BY <1>3, <1>4, <2>1 DEF AtDense, TypeOK
<1>5. CASE AtSparse
  BY <1>3, <1>5 DEF AtSparse, SparseInv, TypeOK
<1>6. CASE AtPad
  <2>1. \A k \in Entries : keyBinList[k].bin \in -1 .. NumBins
    <3>1. \A k \in Entries : keyBinList[k].bin \in 0 .. NumBins - 1
      BY <1>6 DEF AtPad, Grouped
    <3>2. NumBins \in Nat
      BY <1>6 DEF AtPad, Grouped
    <3>3. \A b \in 0 .. NumBins - 1 : b \in -1 .. NumBins
      BY <3>2
    <3> QED
      BY <3>1, <3>3
  <2> QED
    BY <1>3, <1>6, <2>1 DEF AtPad, TypeOK
<1>7. ASSUME DoneInv
      PROVE  /\ e \in 1 .. Len(keyBinList) + 1 /\ NumBins \in Nat
             /\ \A t \in {1, 2} : noiseSum[t] \in Nat
             /\ \A k \in DOMAIN keyBinList : keyBinList[k].bin \in -1 .. NumBins
  <2>1. BinsOK /\ NumBins \in Nat /\ Len(keyBinList) = NumRows(tables)
    BY <1>7, DoneFacts
  <2>2. DOMAIN keyBinList = Entries
    BY <2>1 DEF BinsOK, EntriesOK
  <2>3. \A b \in 0 .. NumBins - 1 : b \in -1 .. NumBins
    BY <2>1
  <2> QED
    BY <1>7, <2>1, <2>2, <2>3 DEF DoneInv, Grouped
<1>8. ASSUME NothingJoined, \A t \in {1, 2} : Len(rbin[t]) \in Nat
      PROVE  i = 0 /\ \A t \in {1, 2} : abs_pos[t] \in 0 .. Len(rbin[t])
  <2>1. i = 0 /\ \A t \in {1, 2} : abs_pos[t] = 0
    BY <1>8 DEF NothingJoined, Both
  <2> QED
    BY <1>8, <2>1
<1>9. CASE AtFill
  <2>1. NothingJoined /\ \A t \in {1, 2} : Len(rbin[t]) \in Nat
    BY <1>9, NoRowsAreThere DEF AtFill, NothingFilled
  <2> QED
    BY <1>7, <1>8, <1>9, <2>1 DEF AtFill, TypeOK
<1>10. CASE AtStart
  <2>1. NothingJoined /\ \A t \in {1, 2} : Len(rbin[t]) \in Nat
    BY <1>10 DEF AtStart, RowsOK, RowsSorted
  <2> QED
    BY <1>7, <1>8, <1>10, <2>1 DEF AtStart, TypeOK
<1>11. CASE AtCrashed
  BY <1>7, <1>8, <1>11 DEF AtCrashed, TypeOK
<1>12. CASE AtJoin \/ AtJoined
  <2>1. DoneInv /\ JoinInv /\ pc \in {"join", "joined"}
    BY <1>12 DEF AtJoin, AtJoined
  <2> QED
    BY <1>7, <2>1 DEF JoinInv, TypeOK
<1> QED
  BY <1>2, <1>4, <1>5, <1>6, <1>9, <1>10, <1>11, <1>12 DEF IInv

LEMMA BinsFullFollows ==
  ASSUME IInv
  PROVE  BinsFull
<1> SUFFICES ASSUME pc = "start", NEW t \in {1, 2}, NEW b \in 0 .. NumBins - 1
             PROVE  /\ Cardinality(RecordsOf(t, b)) <= Size(t, b)
                    /\ EveryBinPadded(t) => Cardinality(RowsOf(t, b)) = Size(t, b)
  BY DEF BinsFull
<1>1. DoneInv /\ RowsOK
  BY DEF IInv, AtPopulate, AtDense, AtSparse, AtPad, AtFill, AtStart, AtJoin, AtJoined, AtCrashed
<1>2. /\ SizeOf[t][b] \in Nat /\ HeldBy[t][b] \in Nat /\ FreeOf[t][b] = SizeOf[t][b] - HeldBy[t][b]
      /\ Size(t, b) = SizeOf[t][b] /\ Cardinality(RecordsOf(t, b)) = HeldBy[t][b]
      /\ BinsOK /\ NumBins \in Nat
  BY <1>1, DoneFacts
<1>3. HeldBy[t][b] <= SizeOf[t][b]
  <2>1. CASE b >= ndense
    <3>1. b \in Nat /\ b \in Int
      BY <1>2
    <3>2. HeldBy[t][b] <= 4 * U
      BY <1>1, <2>1, <3>1 DEF DoneInv, Grouped
    <3>3. SizeOf[t][b] = 4 * U
      BY <1>2, <2>1, <3>1 DEF BinsOK, SparseOK
    <3> QED
      BY <3>2, <3>3
  <2>2. CASE ~ (b >= ndense)
    <3>1. b \in 0 .. ndense - 1
      BY <1>1, <1>2, <2>2 DEF DoneInv
    <3>2. PICK k \in Entries : keyBinList[k].bin = b
      BY <1>1, <3>1 DEF DoneInv, DenseBins
    <3>3. FreeOf[t][b] = keyBinList[k].noise[t] /\ keyBinList[k].noise[t] \in Nat
      BY <1>2, <3>1, <3>2 DEF BinsOK, DenseOK, EntriesOK
    <3> QED
      BY <1>2, <3>3
  <2> QED
    BY <2>1, <2>2
<1>4. ASSUME EveryBinPadded(t) PROVE Cardinality(RowsOf(t, b)) = SizeOf[t][b]
  <2>1. AllFree(t)
    BY <1>1, <1>4, PaddedIsFree
  <2>2. Cardinality(BinRows(rbin[t], b)) = SizeOf[t][b]
    BY <1>1, <2>1 DEF RowsOK, RowsFilled
  <2> QED
    BY <1>1, <2>2, RowsOfBins
<1> QED
  BY <1>2, <1>3, <1>4

LEMMA RoomFollows ==
  ASSUME IInv
  PROVE  RoomInJoinOutput
<1> SUFFICES ASSUME \A t \in {1, 2} : EveryBinPadded(t) /\ EveryBinFits(t), pc \in {"join", "joined"}
             PROVE  written <= crossProductSize
  BY DEF RoomInJoinOutput
<1>1. DoneInv /\ RowsOK /\ JoinInv
  BY DEF IInv, AtPopulate, AtDense, AtSparse, AtPad, AtFill, AtStart, AtJoin, AtJoined, AtCrashed
<1>2. AllClean /\ \A t \in {1, 2} : AllFree(t)
  BY <1>1, PaddedIsClean DEF AllClean
<1>3. PICK Q : Adds(Q, NumBins, Products) /\ crossProductSize = Q[NumBins] /\ written = Q[i]
  BY <1>1, <1>2 DEF JoinInv, WrittenInv
<1>4. PICK n \in Nat : n = NumBins
  BY <1>1, DoneFacts
<1>5. i \in 0 .. n /\ n \in 0 .. n
  BY <1>1, <1>4 DEF JoinInv
<1>6. SumsUp(Q, n)
  <2>1. n \in Nat /\ Q \in [0 .. n -> Nat] /\ Q[0] = 0 /\ \A b \in 0 .. n - 1 : Q[b + 1] = Q[b] + Products[b]
    BY <1>3, <1>4 DEF Adds
  <2>2. ASSUME NEW k \in 1 .. n PROVE Q[k - 1] <= Q[k]
    <3>1. k - 1 \in 0 .. n - 1 /\ k - 1 \in 0 .. n /\ k - 1 \in Int /\ (k - 1) + 1 = k
      OBVIOUS
    <3>2. Q[k] = Q[k - 1] + Products[k - 1] /\ Q[k - 1] \in Nat
      BY <2>1, <3>1
    <3>3. Products[k - 1] \in Nat
      <4>1. Products[k - 1] = SizeOf[1][k - 1] * SizeOf[2][k - 1]
        BY <3>1 DEF Products
      <4>2. SizeOf[1][k - 1] \in Nat /\ SizeOf[2][k - 1] \in Nat
        BY <1>1, <1>4, <3>1, DoneFacts
      <4> QED
        BY <4>1, <4>2
    <3> QED
      BY <3>2, <3>3
  <2> QED
    BY <2>1, <2>2 DEF SumsUp
<1>7. Q[i] <= Q[n]
  BY <1>5, <1>6, SumsRise
<1> QED
  BY <1>3, <1>4, <1>7

LEMMA MatchesFollow ==
  ASSUME IInv
  PROVE  MatchesJoined
<1> DEFINE matches == {m \in (DOMAIN tables[1]) \X (DOMAIN tables[2]) : tables[1][m[1]][1] = tables[2][m[2]][1]}
<1> SUFFICES ASSUME pc = "joined",
                    \A t \in {1, 2} : EveryBinFits(t) /\ \A b \in 0 .. NumBins - 1 : RowsOf(t, b) # {},
                    \A k1, k2 \in AllKeys : k1[1] = k2[1] => k1 = k2
             PROVE  joined = matches /\ realMatches = Cardinality(matches)
  BY DEF MatchesJoined
<1>1. DoneInv /\ JoinInv /\ i = NumBins
  BY DEF IInv, AtPopulate, AtDense, AtSparse, AtPad, AtFill, AtStart, AtJoin, AtJoined, AtCrashed
<1>2. AllClean /\ KeysFollow
  BY DEF AllClean, CleanBins, KeysFollow
<1>3. joined = MatchesBelow(NumBins) /\ realMatches = Cardinality(joined)
  BY <1>1, <1>2 DEF JoinInv, MatchedInv
<1>4. MatchesBelow(NumBins) = matches
  <2>1. BinsOK /\ TablesOK /\ NumBins \in Nat
    BY <1>1, DoneFacts
  <2>2. DOMAIN tables[1] = 1 .. Len(tables[1]) /\ DOMAIN tables[2] = 1 .. Len(tables[2])
    BY <2>1, TableFacts
  <2>3. ASSUME NEW r \in 1 .. Len(tables[1]) PROVE RowBin[1][r] < NumBins
    <3>1. PICK k \in Entries : keyBinList[k].key = tables[1][r]
      BY <2>1 DEF BinsOK, RowBinsOK
    <3>2. RowBin[1][r] = keyBinList[k].bin
      BY <2>1, <3>1 DEF BinsOK, RowBinsOK
    <3>3. keyBinList[k].bin \in 0 .. NumBins - 1
      BY <1>1 DEF DoneInv, Grouped
    <3> QED
      BY <2>1, <3>2, <3>3
  <2> QED
    BY <2>2, <2>3 DEF MatchesBelow
<1> QED
  BY <1>3, <1>4

(* In every reachable state the inductive invariant holds.                 *)
LEMMA IInvHolds ==
  Spec => []IInv
<1>1. Init => IInv
  BY InitIInv
<1>2. IInv /\ [Next]_vars => IInv'
  BY StepIInv
<1> QED
  BY <1>1, <1>2, PTL DEF Spec

(* The indices of CZSCJoin stay in the arrays they are indices of, and the *)
(* bin of an entry of keyBinList is one that exists or is being made.      *)
THEOREM TypeCorrect ==
  Spec => []TypeOK
<1>1. IInv => TypeOK
  BY TypesFollow
<1> QED
  BY <1>1, IInvHolds, PTL

(* groupSparseKeys and expandJoinTables: whatever keys, counts and noise,  *)
(* no bin has more records than it is padded to, and after the padding it  *)
(* has as many rows as its size says.                                      *)
THEOREM EveryBinIsFull ==
  Spec => []BinsFull
<1>1. IInv => BinsFull
  BY BinsFullFollows
<1> QED
  BY <1>1, IInvHolds, PTL

(* sortMergeJoin writes no row beyond crossProductSize, which is what      *)
(* joinOutput and selected_count were allocated for, when every bin is     *)
(* padded and is read as one block.                                        *)
THEOREM JoinOutputHasRoom ==
  Spec => []RoomInJoinOutput
<1>1. IInv => RoomInJoinOutput
  BY RoomFollows
<1> QED
  BY <1>1, IInvHolds, PTL

(* sortMergeJoin finds every pair of records that match, and counts each   *)
(* once, over all tables, noise and ways the keys were packed into bins.   *)
THEOREM EveryMatchIsJoined ==
  Spec => []MatchesJoined
<1>1. IInv => MatchesJoined
  BY MatchesFollow
<1> QED
  BY <1>1, IInvHolds, PTL
=============================================================================
