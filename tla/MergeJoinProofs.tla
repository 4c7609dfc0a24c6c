-------------------------- MODULE MergeJoinProofs --------------------------
(***************************************************************************)
(* The primary-foreign-key join: on every pair of bins the network leaves  *)
(* a foreign row behind the primary row it refers to, so that the merge    *)
(* counts exactly the matches, and the compaction keeps each of them once. *)
(***************************************************************************)
EXTENDS MergeJoin, BlockProofs, FiniteSetTheorems

Size == Len(bins[1]) + Len(bins[2])

AllRows == Numbered(bins[1] \o bins[2])

NumberedRow ==
  [table : {0, 1}, key : {k \in Int : k > IntMin}, dummy : BOOLEAN, row : Nat]

\* The orders in which n numbered rows can be.
Shuffles(rows, n) ==
  {x \in [1 .. n -> NumberedRow] :
     /\ \A p \in 1 .. n : x[p].row \in 1 .. n /\ x[p] = rows[x[p].row]
     /\ \A p, q \in 1 .. n : x[p].row = x[q].row => p = q
     /\ \A q \in 1 .. n : \E p \in 1 .. n : x[p].row = q}

\* What compare_and_swap_tm_fast orders rows by.
Rank(row) == 2 * row.key + row.table

Longest == Max({Len(b) : b \in ForeignBins})

IsMatch(p) == binpair[p].row \in Matching

-----------------------------------------------------------------------------
(* The rows of the pair, sorted from SortPair on.                          *)
PairOK ==
  /\ bins[1] \in Seq(PFRow(0)) /\ bins[2] \in ForeignBins \cup {<<>>} /\ bins[2] \in Seq(PFRow(1))
  /\ numData2 = Len(bins[2])
  /\ binpair \in Shuffles(AllRows, Size)
  /\ pc # "sort" => \A p, q \in 1 .. Size : p < q => Rank(binpair[p]) <= Rank(binpair[q])

(* The row of the primary key table that is remembered is the last one.    *)
LastPrimaryRow ==
  \/ preKey = IntMin /\ \A k \in 1 .. i : binpair[k].table = 1
  \/ \E k \in 1 .. i : /\ binpair[k].table = 0
                       /\ preKey = binpair[k].key /\ primary = binpair[k].row
                       /\ \A l \in k + 1 .. i : binpair[l].table = 1

(* selected_count, up to the row the merge has reached: its entry is       *)
(* written before the row is counted.                                      *)
CountStep(k) ==
  /\ IsMatch(k + 1) => selectedCount[k + 1] - selectedCount[k] = 1
  /\ ~IsMatch(k + 1) => selectedCount[k + 1] - selectedCount[k] = 0

CountsOK ==
  /\ selectedCount \in [0 .. Size -> Nat] /\ selectedCount[0] = 0
  /\ nReal = Cardinality({k \in 1 .. i : IsMatch(k)})
  /\ \A k \in 0 .. i - 2 : CountStep(k)
  /\ i > 0 => /\ IsMatch(i) => nReal - selectedCount[i - 1] = 1
              /\ ~IsMatch(i) => nReal - selectedCount[i - 1] = 0
  /\ i = 0 => nReal = 0

(* The rows of output, of the rows that the merge has passed.              *)
OutputOK ==
  \A k \in 0 .. i - 1 :
    /\ joinOutput[k].foreign \in {0, binpair[k + 1].row}
    /\ IsMatch(k + 1) => /\ joinOutput[k].foreign = binpair[k + 1].row
                         /\ joinOutput[k].primary \in 1 .. Len(bins[1])
                         /\ bins[1][joinOutput[k].primary].key = binpair[k + 1].key

Invariant ==
  /\ pc \in {"next", "sort", "merge"}
  /\ pairs \in Nat /\ i \in Nat /\ nReal \in Nat /\ preKey \in Int
  /\ PairOK
  /\ pc = "merge" => i <= Size
  /\ pc = "next" => i = Size
  /\ pc # "sort" => LastPrimaryRow /\ nReal <= numData2
  /\ pc # "next" => selectedCount \in [0 .. Size -> Nat] /\ selectedCount[0] = 0
  /\ pc # "next" => DOMAIN joinOutput = 0 .. Size - 1
  /\ pc = "merge" \/ Done => CountsOK /\ OutputOK
  /\ Done => written = ORCompact(joinOutput, Size, selectedCount, numData2)
  /\ pc = "next" /\ ~Done => Size = 0
  /\ pc = "merge" => realMatches \in 0 .. pairs * Longest + nReal
  /\ pc # "merge" => realMatches \in 0 .. pairs * Longest

-----------------------------------------------------------------------------
(* A finite set of numbers has a bound, and so a greatest number.          *)
LEMMA MaxOfFinite ==
  ASSUME NEW T \in SUBSET Nat, IsFiniteSet(T), T # {}
  PROVE  Max(T) \in T /\ \A t \in T : Max(T) >= t
<1>1. PICK n \in Nat : ExistsBijection(1 .. n, T)
  BY FS_NatBijection
<1>2. PICK f \in [1 .. n -> T] : \A t \in T : \E k \in 1 .. n : f[k] = t
  BY <1>1 DEF ExistsBijection, Bijection, Surjection
<1> DEFINE Bounded(m) == \E N \in Nat : \A k \in 1 .. m : f[k] <= N
           W == {m \in Nat : m <= n /\ ~Bounded(m)}
<1>3. W = {}
  <2> SUFFICES ASSUME W # {} PROVE FALSE
    OBVIOUS
  <2>1. PICK m \in W : \A c \in 0 .. m - 1 : c \notin W
    BY LeastNumber
  <2>2. CASE m = 0
    <3>1. 0 \in Nat /\ \A k \in 1 .. m : f[k] <= 0
      BY <2>2
    <3> QED
      BY <3>1
  <2>3. CASE m # 0
    <3>1. m - 1 \in Nat /\ m - 1 \in 0 .. m - 1 /\ m - 1 <= n /\ m \in 1 .. n
      BY <2>3
    <3>2. PICK N \in Nat : \A k \in 1 .. m - 1 : f[k] <= N
      BY <2>1, <3>1
    <3>3. PICK x \in Nat : x = f[m]
      BY <3>1
    <3>4. ASSUME NEW k \in 1 .. m PROVE f[k] <= N + x
      <4>1. k \in 1 .. n
        BY <3>1
      <4>2. PICK y \in Nat : y = f[k]
        BY <4>1
      <4>3. k = m \/ k \in 1 .. m - 1
        BY <3>1
      <4>4. y = x \/ y <= N
        BY <3>2, <3>3, <4>2, <4>3
      <4>5. y <= N + x
        BY <4>4
      <4> QED
        BY <4>2, <4>5
    <3>5. N + x \in Nat
      OBVIOUS
    <3> QED
      BY <3>4, <3>5
  <2> QED
    BY <2>2, <2>3
<1>4. PICK N \in Nat : \A k \in 1 .. n : f[k] <= N
  <2>1. n <= n
    OBVIOUS
  <2>2. Bounded(n)
    <3> HIDE DEF Bounded
    <3> QED
      BY <1>3, <2>1
  <2> QED
    BY <2>2
<1>5. T \in SUBSET (0 .. N)
  BY <1>2, <1>4
<1> QED
  BY <1>5, MaxOfNumbers

(* No foreign bin is longer than the longest.                              *)
LEMMA LongestBin ==
  ASSUME MergeAssumption
  PROVE  Longest \in Nat /\ \A b \in ForeignBins : Len(b) <= Longest
<1> DEFINE T == {Len(b) : b \in ForeignBins}
<1>1. \A b \in ForeignBins : Len(b) \in Nat
  BY DEF MergeAssumption
<1>2. T \in SUBSET Nat /\ T # {} /\ IsFiniteSet(T)
  BY <1>1 DEF MergeAssumption
<1>3. Max(T) \in T /\ \A t \in T : Max(T) >= t
  <2> HIDE DEF T
  <2> QED
    BY <1>2, MaxOfFinite
<1>4. Longest = Max(T)
  BY DEF Longest
<1>5. Longest \in Nat
  BY <1>2, <1>3, <1>4
<1> QED
  BY <1>1, <1>3, <1>4, <1>5

-----------------------------------------------------------------------------
(* The rows of a pair before they are sorted: those of the first bin, and  *)
(* then those of the second.                                               *)
RowsOfPair(b1, b2, rows, n) ==
  /\ n \in Nat /\ Len(b1) \in 0 .. n /\ rows \in Shuffles(rows, n)
  /\ \A q \in 1 .. n :
       /\ q <= Len(b1) => /\ rows[q].table = 0 /\ rows[q].key = b1[q].key
                          /\ rows[q].dummy = b1[q].dummy
       /\ q > Len(b1) => /\ rows[q].table = 1 /\ rows[q].key = b2[q - Len(b1)].key
                         /\ rows[q].dummy = b2[q - Len(b1)].dummy
(* The rows of a pair are those of its bins, each with its place as        *)
(* number.                                                                 *)
LEMMA PairRows ==
  ASSUME NEW b1 \in Seq(PFRow(0)), NEW b2 \in Seq(PFRow(1)), NEW rows, rows = Numbered(b1 \o b2),
         NEW n, n = Len(b1) + Len(b2)
  PROVE  RowsOfPair(b1, b2, rows, n)
<1> DEFINE both == b1 \o b2
<1>1. Len(b1) \in Nat /\ Len(b2) \in Nat /\ n \in Nat /\ Len(b1) \in 0 .. n
  OBVIOUS
<1>2. /\ DOMAIN both = 1 .. n
      /\ \A q \in 1 .. Len(b1) : both[q] = b1[q]
      /\ \A q \in 1 .. n : q > Len(b1) => both[q] = b2[q - Len(b1)]
  BY <1>1
<1>3. ASSUME NEW q \in 1 .. n
      PROVE  /\ q <= Len(b1) => both[q] = b1[q] /\ b1[q] \in PFRow(0)
             /\ q > Len(b1) => both[q] = b2[q - Len(b1)] /\ b2[q - Len(b1)] \in PFRow(1)
  <2>1. q <= Len(b1) => q \in 1 .. Len(b1)
    OBVIOUS
  <2>2. q > Len(b1) => q - Len(b1) \in 1 .. Len(b2)
    BY <1>1
  <2>3. \A k \in 1 .. Len(b1) : b1[k] \in PFRow(0)
    OBVIOUS
  <2>4. \A k \in 1 .. Len(b2) : b2[k] \in PFRow(1)
    OBVIOUS
  <2> HIDE DEF both
  <2> QED
    BY <1>2, <2>1, <2>2, <2>3, <2>4
<1> HIDE DEF both
<1>4. rows = [q \in 1 .. n |-> [table |-> both[q].table, key |-> both[q].key, dummy |-> both[q].dummy, row |-> q]]
  BY <1>2 DEF Numbered, both
<1>5. ASSUME NEW q \in 1 .. n
      PROVE  /\ rows[q].table = both[q].table /\ rows[q].key = both[q].key
             /\ rows[q].dummy = both[q].dummy /\ rows[q].row = q
             /\ both[q].table \in {0, 1} => rows[q] \in NumberedRow
  <2>1. rows[q] = [table |-> both[q].table, key |-> both[q].key, dummy |-> both[q].dummy, row |-> q]
    BY <1>4
  <2>2. both[q] \in PFRow(0) \/ both[q] \in PFRow(1)
    BY <1>1, <1>3
  <2>3. both[q].key \in {k \in Int : k > IntMin} /\ both[q].dummy \in BOOLEAN
    BY <2>2 DEF PFRow
  <2> QED
    BY <2>1, <2>3 DEF NumberedRow
<1>6. ASSUME NEW q \in 1 .. n
      PROVE  (q <= Len(b1) => both[q].table = 0) /\ (q > Len(b1) => both[q].table = 1)
  BY <1>3 DEF PFRow
<1>7. \A q \in 1 .. n : both[q].table \in {0, 1}
  BY <1>1, <1>6
<1>8. rows \in [1 .. n -> NumberedRow]
  BY <1>4, <1>5, <1>7
<1>9. rows \in Shuffles(rows, n)
  BY <1>5, <1>8 DEF Shuffles
<1> QED
  BY <1>1, <1>3, <1>5, <1>6, <1>9, SMTT(30) DEF RowsOfPair

-----------------------------------------------------------------------------
(* Rows are ordered by their ranks.                                        *)
LEMMA BeforeIsLess ==
  ASSUME NEW a \in NumberedRow, NEW b \in NumberedRow
  PROVE  /\ Rank(a) \in Int /\ Rank(b) \in Int
         /\ Before(a, b) => Rank(a) < Rank(b)
         /\ ~Before(a, b) => Rank(a) >= Rank(b)
<1>1. /\ a.key \in Int /\ b.key \in Int
      /\ (a.table = 0 \/ a.table = 1) /\ (b.table = 0 \/ b.table = 1)
  BY DEF NumberedRow
<1>2. CASE a.key = b.key
  <2>1. Before(a, b) <=> a.table < b.table
    BY <1>2 DEF Before
  <2> QED
    BY <1>1, <1>2, <2>1 DEF Rank
<1>3. CASE a.key # b.key
  <2>1. Before(a, b) <=> a.key < b.key
    BY <1>3 DEF Before
  <2> QED
    BY <1>1, <1>3, <2>1 DEF Rank
<1> QED
  BY <1>2, <1>3

(* An exchange puts the row of the smaller rank first, and is a shuffle.   *)
LEMMA ExchangedRows ==
  ASSUME NEW n \in Nat, NEW all, NEW x \in Shuffles(all, n),
         NEW c \in Nat \X Nat, c[1] < c[2], NEW y, y = CompareAndSwap(x, c)
  PROVE  /\ y \in Shuffles(all, n)
         /\ ExchangedRanks([p \in 1 .. n |-> Rank(x[p])], c, [p \in 1 .. n |-> Rank(y[p])], n)
<1> DEFINE u == [p \in 1 .. n |-> Rank(x[p])]
           w == [p \in 1 .. n |-> Rank(y[p])]
<1>1. /\ x \in [1 .. n -> NumberedRow]
      /\ \A p \in 1 .. n : x[p].row \in 1 .. n /\ x[p] = all[x[p].row]
      /\ \A p, q \in 1 .. n : x[p].row = x[q].row => p = q
      /\ \A q \in 1 .. n : \E p \in 1 .. n : x[p].row = q
  BY DEF Shuffles
<1>2. Len(x) = n
  BY <1>1
<1>3. PICK a \in Nat, b \in Nat : a = c[1] + 1 /\ b = c[2] + 1 /\ a < b /\ a >= 1
  OBVIOUS
<1>4. CASE c[2] >= n
  <2>1. y = x
    BY <1>2, <1>4 DEF CompareAndSwap
  <2> QED
    BY <1>4, <2>1 DEF ExchangedRanks
<1>5. CASE c[2] < n
  <2>1. a \in 1 .. n /\ b \in 1 .. n /\ x[a] \in NumberedRow /\ x[b] \in NumberedRow
    BY <1>1, <1>3, <1>5
  <2>2. CASE Before(x[a], x[b])
    <3>1. y = x
      BY <1>3, <2>2 DEF CompareAndSwap
    <3>2. Rank(x[a]) \in Int /\ Rank(x[b]) \in Int /\ Rank(x[a]) < Rank(x[b])
      BY <2>1, <2>2, BeforeIsLess
    <3>3. SmallerFirst(u, w, a, b)
      BY <2>1, <3>1, <3>2 DEF SmallerFirst
    <3>4. ExchangedRanks(u, c, w, n)
      BY <1>3, <3>1, <3>3 DEF ExchangedRanks
    <3> QED
      BY <3>1, <3>4
  <2>3. CASE ~Before(x[a], x[b])
    <3>1. y = [x EXCEPT ![a] = x[b], ![b] = x[a]]
      BY <1>2, <1>3, <1>5, <2>3 DEF CompareAndSwap
    <3>2. /\ y \in [1 .. n -> NumberedRow] /\ y[a] = x[b] /\ y[b] = x[a]
          /\ \A p \in 1 .. n : p # a /\ p # b => y[p] = x[p]
      <4>1. a # b /\ DOMAIN x = 1 .. n
        BY <1>1, <1>3
      <4>2. y \in [1 .. n -> NumberedRow]
        BY <1>1, <2>1, <3>1
      <4>3. y[a] = x[b] /\ y[b] = x[a]
        BY <2>1, <3>1, <4>1
      <4>4. \A p \in 1 .. n : p # a /\ p # b => y[p] = x[p]
        BY <3>1, <4>1
      <4> QED
        BY <4>2, <4>3, <4>4
    <3>3. ASSUME NEW p \in 1 .. n PROVE y[p].row \in 1 .. n /\ y[p] = all[y[p].row]
      <4>1. y[p] = x[b] \/ y[p] = x[a] \/ y[p] = x[p]
        BY <3>2
      <4>2. PICK q \in 1 .. n : y[p] = x[q]
        BY <2>1, <4>1
      <4> QED
        BY <1>1, <4>2
    <3>4. ASSUME NEW p \in 1 .. n, NEW q \in 1 .. n, y[p].row = y[q].row
          PROVE  p = q
      <4>1. \A s, t \in 1 .. n : s # t => x[s].row # x[t].row
        BY <1>1
      <4>2. CASE p = a
        BY <2>1, <3>2, <3>4, <4>1, <4>2
      <4>3. CASE p = b
        BY <2>1, <3>2, <3>4, <4>1, <4>3
      <4>4. CASE p # a /\ p # b
        BY <2>1, <3>2, <3>4, <4>1, <4>4
      <4> QED
        BY <4>2, <4>3, <4>4
    <3>5. ASSUME NEW q \in 1 .. n PROVE \E p \in 1 .. n : y[p].row = q
      <4>1. PICK p \in 1 .. n : x[p].row = q
        BY <1>1
      <4>2. CASE p = a
        BY <2>1, <3>2, <4>1, <4>2
      <4>3. CASE p = b
        BY <2>1, <3>2, <4>1, <4>3
      <4>4. CASE p # a /\ p # b
        BY <3>2, <4>1, <4>4
      <4> QED
        BY <4>2, <4>3, <4>4
    <3>6. y \in Shuffles(all, n)
      BY <3>2, <3>3, <3>4, <3>5 DEF Shuffles
    <3>7. Rank(x[a]) \in Int /\ Rank(x[b]) \in Int /\ Rank(x[a]) >= Rank(x[b])
      BY <2>1, <2>3, BeforeIsLess
    <3>8. SmallerFirst(u, w, a, b)
      BY <2>1, <3>2, <3>7 DEF SmallerFirst
    <3>9. \A p \in 1 .. n : p # a /\ p # b => w[p] = u[p]
      BY <3>2
    <3>10. ExchangedRanks(u, c, w, n)
      <4> HIDE DEF u, w
      <4> QED
        BY <1>3, <1>5, <3>8, <3>9 DEF ExchangedRanks
    <3> QED
      BY <3>6, <3>10
  <2> QED
    BY <2>2, <2>3
<1> QED
  BY <1>4, <1>5

(* The rows after each exchange exist: the recursion is on numbers.        *)
LEMMA ExchangesAre ==
  ASSUME NEW n \in Nat, NEW all, NEW rows \in Shuffles(all, n), NEW net, Ascending(net)
  PROVE  /\ \A k \in 0 .. Len(net) : Exchanges(rows, net)[k] \in Shuffles(all, n)
         /\ Exchanges(rows, net)[0] = rows
         /\ \A k \in 1 .. Len(net) :
              Exchanges(rows, net)[k] = CompareAndSwap(Exchanges(rows, net)[k - 1], net[k])
<1> DEFINE X == Shuffles(all, n)
           C == rows
           S == [k \in Nat |-> [x \in X |-> IF k \in 1 .. Len(net) THEN CompareAndSwap(x, net[k]) ELSE x]]
           After(g) == g = [k \in 0 .. Len(net) |-> IF k = 0 THEN rows ELSE CompareAndSwap(g[k - 1], net[k])]
<1>1. Len(net) \in Nat /\ \A k \in 1 .. Len(net) : net[k] \in Nat \X Nat /\ net[k][1] < net[k][2]
  BY DEF Ascending, Nets
<1>2. \A x \in X : \A k \in 1 .. Len(net) : CompareAndSwap(x, net[k]) \in X
  <2> HIDE DEF X
  <2>1. ASSUME NEW x \in X, NEW k \in 1 .. Len(net) PROVE CompareAndSwap(x, net[k]) \in X
    BY <1>1, ExchangedRows DEF X
  <2> QED
    BY <2>1
<1>3. S \in [Nat -> [X -> X]]
  BY <1>2
<1>4. PICK f \in [Nat -> X] : \A k \in Nat : f[k] = IF k = 0 THEN C ELSE S[k][f[k - 1]]
  <2>1. C \in X
    OBVIOUS
  <2> HIDE DEF X, S, C
  <2>2. HasValues(X, C, S)
    BY <1>3, <2>1, TypedRecursion
  <2> QED
    BY <2>2 DEF HasValues
<1>5. ASSUME NEW k \in 1 .. Len(net) PROVE f[k] = CompareAndSwap(f[k - 1], net[k])
  <2>1. k \in Nat /\ k # 0 /\ k - 1 \in Nat
    BY <1>1
  <2>2. f[k] = S[k][f[k - 1]] /\ f[k - 1] \in X
    BY <1>4, <2>1
  <2> HIDE DEF X
  <2> QED
    BY <2>1, <2>2
<1> DEFINE g == [k \in 0 .. Len(net) |-> f[k]]
<1>6. After(g)
  <2>1. ASSUME NEW k \in 0 .. Len(net)
        PROVE  g[k] = IF k = 0 THEN rows ELSE CompareAndSwap(g[k - 1], net[k])
    <3>1. CASE k = 0
      BY <1>1, <1>4, <3>1
    <3>2. CASE k # 0
      <4>1. k \in 1 .. Len(net) /\ k - 1 \in 0 .. Len(net)
        BY <1>1, <3>2
      <4>2. g[k] = f[k] /\ g[k - 1] = f[k - 1]
        BY <4>1
      <4> HIDE DEF g
      <4> QED
        BY <1>5, <3>2, <4>1, <4>2
    <3> QED
      BY <3>1, <3>2
  <2>2. g = [k \in 0 .. Len(net) |-> g[k]]
    OBVIOUS
  <2> HIDE DEF g
  <2> QED
    BY <2>1, <2>2
<1> DEFINE after == Exchanges(rows, net)
<1>7. After(after)
  <2>1. after = CHOOSE h : After(h)
    BY DEF Exchanges
  <2> HIDE DEF After, after, g
  <2> QED
    BY <1>6, <2>1
<1> HIDE DEF after
<1>8. /\ after[0] = rows
      /\ \A k \in 1 .. Len(net) : after[k] = CompareAndSwap(after[k - 1], net[k])
  <2>1. 0 \in 0 .. Len(net) /\ \A k \in 1 .. Len(net) : k \in 0 .. Len(net) /\ k # 0
    BY <1>1
  <2> QED
    BY <1>7, <2>1
<1>9. \A k \in 0 .. Len(net) : after[k] \in X
  <2> DEFINE W == {k \in Nat : k <= Len(net) /\ after[k] \notin X}
  <2> SUFFICES ASSUME W # {} PROVE FALSE
    BY <1>1
  <2>1. PICK k \in W : \A m \in 0 .. k - 1 : m \notin W
    BY LeastNumber
  <2> HIDE DEF X
  <2>2. CASE k = 0
    BY <1>8, <2>2 DEF X
  <2>3. CASE k # 0
    <3>1. k \in 1 .. Len(net) /\ k - 1 \in 0 .. k - 1 /\ k - 1 \in Nat /\ k - 1 <= Len(net)
      BY <1>1, <2>3
    <3>2. after[k - 1] \in X
      BY <2>1, <3>1
    <3> QED
      BY <1>2, <1>8, <3>1, <3>2
  <2> QED
    BY <2>2, <2>3
<1> QED
  BY <1>8, <1>9 DEF after

(* The sorted rows are a shuffle, and their ranks go up.                   *)
LEMMA SortedRows ==
  ASSUME NEW n \in Nat, NEW all, NEW rows \in Shuffles(all, n)
  PROVE  /\ Sorted(rows) \in Shuffles(all, n)
         /\ \A p, q \in 1 .. n : p < q => Rank(Sorted(rows)[p]) <= Rank(Sorted(rows)[q])
<1> DEFINE net == ObliSort(n)
           L == Len(ObliSort(n))
           after == Exchanges(rows, ObliSort(n))
           h == [k \in 0 .. L |-> [p \in 1 .. n |-> Rank(after[k][p])]]
<1>1. Ascending(net)
  BY UpperFacts, SortAscending DEF ObliSort
<1>2. /\ \A k \in 0 .. L : after[k] \in Shuffles(all, n)
      /\ \A k \in 1 .. L : after[k] = CompareAndSwap(after[k - 1], net[k])
  BY <1>1, ExchangesAre
<1>3. L \in Nat /\ \A k \in 1 .. L : net[k] \in Nat \X Nat /\ net[k][1] < net[k][2]
  BY <1>1 DEF Ascending, Nets
<1>4. Sorted(rows) = after[L]
  <2>1. rows \in [1 .. n -> NumberedRow]
    BY DEF Shuffles
  <2>2. Len(rows) = n
    BY <2>1
  <2> QED
    BY <2>2 DEF Sorted
<1> HIDE DEF after
<1>5. ASSUME NEW k \in 0 .. L PROVE [p \in 1 .. n |-> Rank(after[k][p])] \in [1 .. n -> Int]
  <2>1. after[k] \in [1 .. n -> NumberedRow]
    BY <1>2 DEF Shuffles
  <2>2. \A p \in 1 .. n : Rank(after[k][p]) \in Int
    BY <2>1, BeforeIsLess
  <2> QED
    BY <2>2
<1>6. h \in [0 .. L -> [1 .. n -> Int]]
  BY <1>5
<1>7. ASSUME NEW k \in 1 .. L PROVE ExchangedRanks(h[k - 1], net[k], h[k], n)
  <2>1. k \in 0 .. L /\ k - 1 \in 0 .. L
    BY <1>3
  <2>2. ExchangedRanks([p \in 1 .. n |-> Rank(after[k - 1][p])], net[k], [p \in 1 .. n |-> Rank(after[k][p])], n)
    <3>1. after[k - 1] \in Shuffles(all, n) /\ after[k] = CompareAndSwap(after[k - 1], net[k])
      BY <1>2, <2>1
    <3>2. net[k] \in Nat \X Nat /\ net[k][1] < net[k][2]
      BY <1>3
    <3> HIDE DEF net, L
    <3> QED
      BY <3>1, <3>2, ExchangedRows
  <2> QED
    BY <2>1, <2>2
<1>8. ASSUME NEW p \in 1 .. n, NEW q \in 1 .. n, p < q PROVE h[L][p] <= h[L][q]
  <2> HIDE DEF h
  <2> QED
    BY <1>6, <1>7, <1>8, NetworkSorts
<1>9. \A p \in 1 .. n : h[L][p] = Rank(after[L][p])
  BY <1>3
<1>10. after[L] \in Shuffles(all, n)
  BY <1>2, <1>3
<1> QED
  BY <1>4, <1>8, <1>9, <1>10

-----------------------------------------------------------------------------
(* The matching rows, by their numbers.                                    *)
LEMMA MatchingRows ==
  ASSUME PairOK
  PROVE  /\ Matching \subseteq 1 .. Size
         /\ \A q \in 1 .. Size :
              q \in Matching <=> /\ q > Len(bins[1]) /\ ~bins[2][q - Len(bins[1])].dummy
                                 /\ \E m \in 1 .. Len(bins[1]) :
                                      bins[1][m].key = bins[2][q - Len(bins[1])].key
<1>1. /\ Len(bins[1]) \in Nat /\ Len(bins[2]) \in Nat /\ Size = Len(bins[1]) + Len(bins[2])
      /\ DOMAIN bins[1] = 1 .. Len(bins[1]) /\ DOMAIN bins[2] = 1 .. Len(bins[2])
  BY DEF PairOK, Size
<1>2. Records(1) = {k \in 1 .. Len(bins[2]) : ~bins[2][k].dummy}
  <2>1. 1 + 1 = 2
    OBVIOUS
  <2> QED
    BY <1>1, <2>1 DEF Records
<1>3. Matching = {Len(bins[1]) + k : k \in {l \in Records(1) :
                    \E m \in 1 .. Len(bins[1]) : bins[1][m].key = bins[2][l].key}}
  BY <1>1 DEF Matching, RowNumber
<1>4. ASSUME NEW q \in Matching PROVE q \in 1 .. Size
  <2>1. PICK k \in 1 .. Len(bins[2]) : q = Len(bins[1]) + k
    BY <1>2, <1>3
  <2>2. PICK L1 \in Nat, L2 \in Nat : L1 = Len(bins[1]) /\ L2 = Len(bins[2])
    BY <1>1
  <2>3. k \in 1 .. L2 /\ q = L1 + k /\ Size = L1 + L2
    BY <1>1, <2>1, <2>2
  <2> QED
    BY <2>3
<1>5. ASSUME NEW q \in 1 .. Size
      PROVE  q \in Matching <=> /\ q > Len(bins[1]) /\ ~bins[2][q - Len(bins[1])].dummy
                                /\ \E m \in 1 .. Len(bins[1]) :
                                     bins[1][m].key = bins[2][q - Len(bins[1])].key
  <2>1. ASSUME q \in Matching
        PROVE  /\ q > Len(bins[1]) /\ ~bins[2][q - Len(bins[1])].dummy
               /\ \E m \in 1 .. Len(bins[1]) : bins[1][m].key = bins[2][q - Len(bins[1])].key
    <3>1. PICK k \in Records(1) : /\ q = Len(bins[1]) + k
                                  /\ \E m \in 1 .. Len(bins[1]) : bins[1][m].key = bins[2][k].key
      BY <1>3, <2>1
    <3>2. k = q - Len(bins[1]) /\ q > Len(bins[1]) /\ ~bins[2][k].dummy
      BY <1>1, <1>2, <3>1
    <3> QED
      BY <3>1, <3>2
  <2>2. ASSUME q > Len(bins[1]), ~bins[2][q - Len(bins[1])].dummy,
               \E m \in 1 .. Len(bins[1]) : bins[1][m].key = bins[2][q - Len(bins[1])].key
        PROVE  q \in Matching
    <3>1. PICK k \in 1 .. Len(bins[2]) : k = q - Len(bins[1]) /\ q = Len(bins[1]) + k
      <4>1. PICK L1 \in Nat, L2 \in Nat : L1 = Len(bins[1]) /\ L2 = Len(bins[2])
        BY <1>1
      <4>2. q \in 1 .. L1 + L2 /\ q > L1
        BY <1>1, <2>2, <4>1
      <4>3. q - L1 \in 1 .. L2 /\ q = L1 + (q - L1)
        BY <4>2
      <4> QED
        BY <4>1, <4>3
    <3>2. k \in Records(1)
      BY <1>2, <2>2, <3>1
    <3> QED
      BY <1>3, <2>2, <3>1, <3>2
  <2> QED
    BY <2>1, <2>2
<1> QED
  BY <1>4, <1>5

(* The rows of the pair are those of the bins.                             *)
LEMMA PairFacts ==
  ASSUME PairOK
  PROVE  /\ Size \in Nat /\ Len(bins[1]) \in 0 .. Size /\ Len(bins[2]) = Size - Len(bins[1])
         /\ numData2 = Len(bins[2])
         /\ Len(binpair) = Size /\ binpair \in [1 .. Size -> NumberedRow]
         /\ \A p, q \in 1 .. Size : binpair[p].row = binpair[q].row => p = q
         /\ \A p \in 1 .. Size : binpair[p].row \in 1 .. Size
<1>1. /\ bins[1] \in Seq(PFRow(0)) /\ bins[2] \in Seq(PFRow(1))
      /\ numData2 = Len(bins[2]) /\ binpair \in Shuffles(AllRows, Size)
  BY DEF PairOK
<1>2. /\ Size \in Nat /\ Len(bins[1]) \in 0 .. Size /\ Len(bins[2]) = Size - Len(bins[1])
  <2>1. PICK L1 \in Nat, L2 \in Nat : L1 = Len(bins[1]) /\ L2 = Len(bins[2])
    BY <1>1
  <2>2. L1 + L2 \in Nat /\ L1 \in 0 .. L1 + L2 /\ L2 = (L1 + L2) - L1
    OBVIOUS
  <2>3. Size = L1 + L2
    BY <2>1 DEF Size
  <2> QED
    BY <2>1, <2>2, <2>3
<1>3. /\ binpair \in [1 .. Size -> NumberedRow]
      /\ \A p, q \in 1 .. Size : binpair[p].row = binpair[q].row => p = q
      /\ \A p \in 1 .. Size : binpair[p].row \in 1 .. Size
  BY <1>1 DEF Shuffles
<1>4. Len(binpair) = Size
  BY <1>2, <1>3
<1> QED
  BY <1>1, <1>2, <1>3, <1>4

(* Every row of the bins is in the pair.                                   *)
LEMMA RowPlace ==
  ASSUME PairOK, NEW q \in 1 .. Size
  PROVE  \E p \in 1 .. Size : binpair[p].row = q
BY DEF PairOK, Shuffles

(* What a row of the pair says is what the row of the bin says.            *)
LEMMA PairRow ==
  ASSUME PairOK, NEW p \in 1 .. Size, NEW q, q = binpair[p].row
  PROVE  /\ q <= Len(bins[1]) => /\ binpair[p].table = 0 /\ binpair[p].key = bins[1][q].key
                                 /\ binpair[p].dummy = bins[1][q].dummy
         /\ q > Len(bins[1]) => /\ binpair[p].table = 1
                                /\ binpair[p].key = bins[2][q - Len(bins[1])].key
                                /\ binpair[p].dummy = bins[2][q - Len(bins[1])].dummy
<1>1. /\ bins[1] \in Seq(PFRow(0)) /\ bins[2] \in Seq(PFRow(1))
      /\ binpair \in Shuffles(AllRows, Size)
  BY DEF PairOK
<1>2. q \in 1 .. Size /\ binpair[p] = AllRows[q]
  BY <1>1 DEF Shuffles
<1>3. \A k \in 1 .. Size :
        /\ k <= Len(bins[1]) => /\ AllRows[k].table = 0 /\ AllRows[k].key = bins[1][k].key
                                /\ AllRows[k].dummy = bins[1][k].dummy
        /\ k > Len(bins[1]) => /\ AllRows[k].table = 1
                               /\ AllRows[k].key = bins[2][k - Len(bins[1])].key
                               /\ AllRows[k].dummy = bins[2][k - Len(bins[1])].dummy
  <2>1. RowsOfPair(bins[1], bins[2], AllRows, Size)
    BY <1>1, PairRows DEF AllRows, Size
  <2> QED
    BY <2>1 DEF RowsOfPair
<1> QED
  BY <1>2, <1>3, ZenonT(30)

(* A match refers to a primary row, and nothing else does.                 *)
LEMMA MatchAt ==
  ASSUME PairOK, NEW p \in 1 .. Size
  PROVE  IsMatch(p) <=> /\ binpair[p].table = 1 /\ ~binpair[p].dummy
                        /\ \E m \in 1 .. Len(bins[1]) : bins[1][m].key = binpair[p].key
<1>1. PICK q \in 1 .. Size : q = binpair[p].row
  <2>1. binpair[p].row \in 1 .. Size
    BY PairFacts
  <2> QED
    BY <2>1
<1>2. q \in Matching <=> /\ q > Len(bins[1]) /\ ~bins[2][q - Len(bins[1])].dummy
                         /\ \E m \in 1 .. Len(bins[1]) : bins[1][m].key = bins[2][q - Len(bins[1])].key
  BY MatchingRows
<1>3. Len(bins[1]) \in Nat /\ q \in Nat
  BY PairFacts
<1>4. CASE q <= Len(bins[1])
  <2>1. binpair[p].table = 0
    BY <1>1, <1>4, PairRow
  <2> QED
    BY <1>1, <1>2, <1>3, <1>4, <2>1 DEF IsMatch
<1>5. CASE q > Len(bins[1])
  <2>1. /\ binpair[p].table = 1 /\ binpair[p].key = bins[2][q - Len(bins[1])].key
        /\ binpair[p].dummy = bins[2][q - Len(bins[1])].dummy
    BY <1>1, <1>5, PairRow
  <2> QED
    BY <1>1, <1>2, <1>5, <2>1 DEF IsMatch
<1> QED
  BY <1>3, <1>4, <1>5

(* There are no more matches than foreign rows.                            *)
LEMMA MatchBound ==
  ASSUME PairOK, NEW m \in 0 .. Size
  PROVE  /\ IsFiniteSet({k \in 1 .. m : IsMatch(k)})
         /\ Cardinality({k \in 1 .. m : IsMatch(k)}) \in Nat
         /\ Cardinality({k \in 1 .. m : IsMatch(k)}) <= Len(bins[2])
<1> DEFINE S == {k \in 1 .. m : IsMatch(k)}
           first == Len(bins[1]) + 1
           T == first .. Size
           f == [k \in S |-> binpair[k].row]
<1>1. first \in Int /\ Size \in Int /\ first >= 1 /\ Size - first + 1 = Len(bins[2])
      /\ Len(bins[2]) \in Nat /\ m \in Nat /\ (first > Size => Len(bins[2]) = 0)
  BY PairFacts
<1>2. ASSUME NEW k \in S PROVE k \in 1 .. Size
  <2>1. PICK n \in Nat : n = Size
    BY PairFacts
  <2>2. k \in 1 .. m /\ m <= n
    BY <2>1
  <2> QED
    BY <2>1, <2>2
<1>3. ASSUME NEW k \in S PROVE f[k] \in T
  <2>1. binpair[k].row \in 1 .. Size /\ binpair[k].row \in Matching
    BY <1>2, PairFacts DEF IsMatch
  <2>2. PICK q \in 1 .. Size : q = binpair[k].row
    BY <2>1
  <2>3. q > Len(bins[1])
    BY <2>1, <2>2, MatchingRows
  <2>4. Len(bins[1]) \in Nat
    BY PairFacts
  <2>5. q \in T
    <3>1. PICK n \in Nat, L \in Nat : n = Size /\ L = Len(bins[1])
      BY <2>4, PairFacts
    <3>2. q \in L + 1 .. n
      BY <2>3, <3>1
    <3> QED
      BY <3>1, <3>2
  <2> QED
    BY <2>2, <2>5
<1>4. \A k, l \in S : f[k] = f[l] => k = l
  BY <1>2, PairFacts
<1>5. f \in Injection(S, T)
  <2>1. f \in [S -> T]
    BY <1>3
  <2> HIDE DEF S, T
  <2> QED
    BY <1>4, <2>1 DEF Injection, IsInjective
<1>6. IsFiniteSet(T) /\ Cardinality(T) = Len(bins[2])
  <2>1. IsFiniteSet(T) /\ Cardinality(T) = IF first > Size THEN 0 ELSE Size - first + 1
    <3> HIDE DEF first
    <3> QED
      BY <1>1, FS_Interval, Zenon
  <2> HIDE DEF T, first
  <2> QED
    BY <1>1, <2>1
<1> HIDE DEF S, T, f
<1>7. IsFiniteSet(S) /\ Cardinality(S) <= Cardinality(T)
  BY <1>5, <1>6, FS_Injection
<1>8. Cardinality(S) \in Nat
  BY <1>7, FS_CardinalityType
<1> QED
  BY <1>6, <1>7, <1>8 DEF S

(* The test of the merge finds the matches, and the row that it remembers  *)
(* is the one that is referred to: a foreign row is behind it, and no      *)
(* primary row of another key is between them.                             *)
LEMMA Referring ==
  ASSUME PairOK, pc # "sort", LastPrimaryRow, i \in 0 .. Size - 1
  PROVE  /\ (Refers /\ ~Row.dummy) <=> IsMatch(i + 1)
         /\ Refers => /\ primary \in 1 .. Len(bins[1])
                      /\ bins[1][primary].key = Row.key
<1>1. i + 1 \in 1 .. Size /\ i \in Nat /\ Size \in Nat /\ \A k \in 1 .. i : k \in 1 .. Size /\ k < i + 1
  BY PairFacts
<1>2. Row = binpair[i + 1] /\ Row \in NumberedRow
  BY <1>1, PairFacts DEF Row
<1>3. ASSUME NEW k \in 1 .. Size, binpair[k].table = 0
      PROVE  /\ binpair[k].row \in 1 .. Len(bins[1])
             /\ bins[1][binpair[k].row].key = binpair[k].key
  <2>1. PICK q \in 1 .. Size : q = binpair[k].row
    <3>1. binpair[k].row \in 1 .. Size
      BY PairFacts
    <3> QED
      BY <3>1
  <2>2. Len(bins[1]) \in Nat
    BY PairFacts
  <2>3. ~ (q > Len(bins[1]))
    BY <1>3, <2>1, PairRow
  <2>4. binpair[k].key = bins[1][q].key
    BY <2>1, <2>2, <2>3, PairRow
  <2> QED
    BY <2>1, <2>2, <2>3, <2>4
<1>4. ASSUME Refers
      PROVE  /\ primary \in 1 .. Len(bins[1]) /\ bins[1][primary].key = Row.key
  <2>1. preKey # IntMin
    BY <1>2, <1>4 DEF Refers, NumberedRow, IntMin
  <2>2. PICK k \in 1 .. i : /\ binpair[k].table = 0
                            /\ preKey = binpair[k].key /\ primary = binpair[k].row
    BY <2>1 DEF LastPrimaryRow
  <2> QED
    BY <1>1, <1>3, <1>4, <2>2 DEF Refers
<1>5. ASSUME Refers, ~Row.dummy PROVE IsMatch(i + 1)
  <2>1. Row.table = 1
    BY <1>5 DEF Refers
  <2> QED
    BY <1>1, <1>2, <1>4, <1>5, <2>1, MatchAt
<1>6. ASSUME IsMatch(i + 1) PROVE Refers /\ ~Row.dummy
  <2>1. /\ Row.table = 1 /\ ~Row.dummy
        /\ \E m \in 1 .. Len(bins[1]) : bins[1][m].key = Row.key
    BY <1>1, <1>2, <1>6, MatchAt
  <2>2. PICK m \in 1 .. Len(bins[1]) : bins[1][m].key = Row.key
    BY <2>1
  <2>3. m \in 1 .. Size /\ m <= Len(bins[1])
    BY PairFacts
  <2>4. PICK p \in 1 .. Size : binpair[p].row = m
    BY <2>3, RowPlace
  <2>5. binpair[p].table = 0 /\ binpair[p].key = Row.key
    BY <2>2, <2>3, <2>4, PairRow
  <2>6. \A a, b \in 1 .. Size : a < b => Rank(binpair[a]) <= Rank(binpair[b])
    BY DEF PairOK
  <2>7. ASSUME NEW a \in 1 .. Size
        PROVE  binpair[a].key \in Int /\ (binpair[a].table = 0 \/ binpair[a].table = 1)
    <3>1. binpair[a] \in NumberedRow
      BY PairFacts
    <3> QED
      BY <3>1 DEF NumberedRow
  <2>8. p \in 1 .. i
    <3>1. p # i + 1
      BY <1>2, <2>1, <2>5
    <3>2. ~ (i + 1 < p)
      <4>1. SUFFICES ASSUME i + 1 < p PROVE FALSE
        OBVIOUS
      <4>2. Rank(binpair[i + 1]) <= Rank(binpair[p])
        BY <1>1, <2>6, <4>1
      <4>3. PICK key \in Int : key = Row.key
        BY <1>1, <1>2, <2>7
      <4>4. Rank(binpair[i + 1]) = 2 * key + 1 /\ Rank(binpair[p]) = 2 * key + 0
        BY <1>2, <2>1, <2>5, <4>3 DEF Rank
      <4> QED
        BY <4>2, <4>4
    <3> QED
      BY <1>1, <3>1, <3>2
  <2>9. PICK k \in 1 .. i : /\ binpair[k].table = 0 /\ preKey = binpair[k].key
                            /\ \A l \in k + 1 .. i : binpair[l].table = 1
    BY <2>5, <2>8 DEF LastPrimaryRow
  <2>10. p <= k
    BY <1>1, <2>5, <2>8, <2>9
  <2>11. binpair[k].key = Row.key
    <3>1. PICK key \in Int : key = Row.key
      BY <1>1, <1>2, <2>7
    <3>2. PICK other \in Int : other = binpair[k].key
      BY <1>1, <2>7
    <3>3. Rank(binpair[k]) <= Rank(binpair[i + 1])
      BY <1>1, <2>6
    <3>4. Rank(binpair[k]) = 2 * other + 0 /\ Rank(binpair[i + 1]) = 2 * key + 1 /\ Rank(binpair[p]) = 2 * key + 0
      BY <1>2, <2>1, <2>5, <2>9, <3>1, <3>2 DEF Rank
    <3>5. p = k \/ Rank(binpair[p]) <= Rank(binpair[k])
      BY <1>1, <2>6, <2>8, <2>10
    <3>6. p = k => other = key
      BY <2>5, <3>1, <3>2
    <3>7. 2 * other <= 2 * key + 1
      BY <3>3, <3>4
    <3>8. other = key \/ 2 * key <= 2 * other
      BY <3>4, <3>5, <3>6
    <3>9. other = key
      BY <3>7, <3>8
    <3> QED
      BY <3>1, <3>2, <3>9
  <2> QED
    BY <2>1, <2>9, <2>11 DEF Refers
<1> QED
  BY <1>4, <1>5, <1>6

-----------------------------------------------------------------------------
(* Nothing is loaded yet.                                                  *)
LEMMA InitInvariant ==
  ASSUME MergeAssumption, Init
  PROVE  Invariant
<1>1. /\ bins[1] = <<>> /\ bins[2] = <<>> /\ binpair = <<>> /\ numData2 = 0
      /\ i = 0 /\ preKey = IntMin /\ nReal = 0 /\ realMatches = 0 /\ pairs = 0 /\ pc = "next"
  BY DEF Init
<1>2. RowsOfPair(bins[1], bins[2], AllRows, Size) /\ Size = 0
  <2>1. <<>> \in Seq(PFRow(0)) /\ <<>> \in Seq(PFRow(1)) /\ Len(<<>>) = 0
    OBVIOUS
  <2>2. RowsOfPair(bins[1], bins[2], AllRows, Size)
    BY <1>1, <2>1, PairRows DEF AllRows, Size
  <2> QED
    BY <1>1, <2>1, <2>2 DEF Size
<1>3. binpair \in Shuffles(AllRows, Size)
  <2>1. binpair \in [1 .. 0 -> NumberedRow] /\ 1 .. 0 = {}
    BY <1>1
  <2> QED
    BY <1>2, <2>1 DEF Shuffles
<1>4. PairOK
  <2>1. <<>> \in Seq(PFRow(0)) /\ <<>> \in Seq(PFRow(1)) /\ Len(<<>>) = 0 /\ 1 .. 0 = {}
    OBVIOUS
  <2> QED
    BY <1>1, <1>2, <1>3, <2>1 DEF PairOK
<1>5. LastPrimaryRow /\ preKey \in Int /\ nReal <= numData2
  BY <1>1 DEF LastPrimaryRow, IntMin
<1>6. realMatches \in 0 .. pairs * Longest
  <2>1. Longest \in Nat
    BY LongestBin
  <2> QED
    BY <1>1, <2>1
<1> QED
  BY <1>1, <1>2, <1>4, <1>5, <1>6 DEF Invariant, Done

(* The counts and the output do not matter until the pair is sorted.       *)
LEMMA LoadPairInvariant ==
  ASSUME MergeAssumption, Invariant, LoadPair
  PROVE  Invariant'
<1>1. PICK bin1 \in PrimaryBins, bin2 \in ForeignBins :
        /\ bins' = <<bin1, bin2>> /\ binpair' = Numbered(bin1 \o bin2) /\ numData2' = Len(bin2)
        /\ joinOutput' = [k \in 0 .. Len(bin1 \o bin2) - 1 |-> Empty]
        /\ \E left \in Leftover :
             selectedCount' = [k \in 0 .. Len(bin1 \o bin2) |-> IF k = 0 THEN 0 ELSE left]
  BY DEF LoadPair
<1>2. /\ pc = "next" /\ pc' = "sort" /\ i' = i /\ preKey' = preKey /\ nReal' = nReal
      /\ realMatches' = realMatches /\ pairs' = pairs
  BY DEF LoadPair
<1>3. bin1 \in Seq(PFRow(0)) /\ bin2 \in Seq(PFRow(1)) /\ Leftover \subseteq Nat
  BY DEF MergeAssumption
<1>4. bins'[1] = bin1 /\ bins'[2] = bin2
  BY <1>1
<1>5. Size' = Len(bin1) + Len(bin2) /\ AllRows' = Numbered(bin1 \o bin2)
  BY <1>4 DEF Size, AllRows
<1>6. RowsOfPair(bin1, bin2, AllRows', Size')
  BY <1>3, <1>5, PairRows
<1>7. PairOK'
  <2>1. binpair' \in Shuffles(AllRows', Size')
    BY <1>1, <1>5, <1>6 DEF RowsOfPair
  <2> QED
    BY <1>1, <1>2, <1>3, <1>4, <2>1 DEF PairOK
<1>8. /\ selectedCount' \in [0 .. Size' -> Nat] /\ selectedCount'[0] = 0
      /\ DOMAIN joinOutput' = 0 .. Size' - 1
  <2>1. Len(bin1 \o bin2) = Size' /\ Size' \in Nat
    BY <1>3, <1>5
  <2>2. PICK left \in Nat : selectedCount' = [k \in 0 .. Size' |-> IF k = 0 THEN 0 ELSE left]
    BY <1>1, <1>3, <2>1
  <2>3. DOMAIN joinOutput' = 0 .. Size' - 1
    BY <1>1, <2>1
  <2> QED
    BY <2>1, <2>2, <2>3
<1>9. /\ pairs \in Nat /\ i \in Nat /\ nReal \in Nat /\ preKey \in Int
      /\ realMatches \in 0 .. pairs * Longest
  BY <1>2 DEF Invariant
<1>10. Longest' = Longest
  BY DEF Longest
<1> QED
  BY <1>2, <1>7, <1>8, <1>9, <1>10 DEF Invariant, Done

(* From here on the rows are in order.                                     *)
LEMMA SortPairInvariant ==
  ASSUME MergeAssumption, Invariant, SortPair
  PROVE  Invariant'
<1>1. /\ pc = "sort" /\ pc' = "merge" /\ binpair' = Sorted(binpair)
      /\ i' = 0 /\ nReal' = 0 /\ preKey' = IntMin
      /\ bins' = bins /\ numData2' = numData2 /\ joinOutput' = joinOutput
      /\ selectedCount' = selectedCount /\ realMatches' = realMatches /\ pairs' = pairs
  BY DEF SortPair
<1>2. Size' = Size /\ AllRows' = AllRows /\ Longest' = Longest
  BY <1>1 DEF Size, AllRows, Longest
<1>3. PairOK /\ Size \in Nat /\ numData2 \in Nat
  <2>1. PairOK
    BY DEF Invariant
  <2>2. numData2 = Len(bins[2]) /\ Len(bins[2]) \in Nat
    BY <2>1 DEF PairOK
  <2> QED
    BY <2>1, <2>2, PairFacts
<1>4. /\ binpair' \in Shuffles(AllRows, Size)
      /\ \A p, q \in 1 .. Size : p < q => Rank(binpair'[p]) <= Rank(binpair'[q])
  <2>1. binpair \in Shuffles(AllRows, Size)
    BY <1>3 DEF PairOK
  <2> QED
    BY <1>1, <1>3, <2>1, SortedRows
<1>5. PairOK'
  BY <1>1, <1>2, <1>3, <1>4 DEF PairOK
<1>6. LastPrimaryRow' /\ preKey' \in Int
  BY <1>1 DEF LastPrimaryRow, IntMin
<1>7. CountsOK'
  <2>1. selectedCount \in [0 .. Size -> Nat] /\ selectedCount[0] = 0
    BY <1>1 DEF Invariant
  <2>2. {k \in 1 .. i' : IsMatch(k)'} = {}
    BY <1>1
  <2>3. nReal' = Cardinality({k \in 1 .. i' : IsMatch(k)'})
    BY <1>1, <2>2, FS_EmptySet
  <2> QED
    BY <1>1, <1>2, <2>1, <2>3 DEF CountsOK
<1>8. OutputOK'
  BY <1>1 DEF OutputOK
<1>9. pairs \in Nat /\ realMatches \in 0 .. pairs * Longest
  BY <1>1 DEF Invariant
<1>10. realMatches' \in 0 .. pairs' * Longest' + nReal'
  <2>1. pairs * Longest \in Int
    BY <1>9, LongestBin
  <2>2. pairs * Longest + 0 = pairs * Longest
    BY <2>1
  <2> QED
    BY <1>1, <1>2, <1>9, <2>2
<1>11. /\ selectedCount \in [0 .. Size -> Nat] /\ selectedCount[0] = 0
       /\ DOMAIN joinOutput = 0 .. Size - 1
  BY <1>1 DEF Invariant
<1> QED
  BY <1>1, <1>2, <1>3, <1>5, <1>6, <1>7, <1>8, <1>9, <1>10, <1>11 DEF Invariant, Done

(* What MatchRow and OtherRow do alike; m says whether the row is counted. *)
Advances(m) ==
  /\ pc = "merge" /\ i < Len(binpair)
  /\ selectedCount' = [selectedCount EXCEPT ![i] = nReal]
  /\ nReal' = nReal + m /\ realMatches' = realMatches + m
  /\ i' = i + 1
  /\ UNCHANGED <<bins, binpair, numData2, written, pairs, pc>>

(* The counts stay right if the rows that are counted are the matches.     *)
LEMMA CountsAdvance ==
  ASSUME Invariant, NEW m \in {0, 1}, Advances(m), m = 1 <=> IsMatch(i + 1)
  PROVE  CountsOK' /\ nReal' \in Nat /\ nReal' <= numData2'
<1>1. /\ PairOK /\ CountsOK /\ pc = "merge" /\ i \in Nat /\ nReal \in Nat
      /\ i' = i + 1 /\ nReal' = nReal + m /\ numData2' = numData2
      /\ selectedCount' = [selectedCount EXCEPT ![i] = nReal]
      /\ bins' = bins /\ binpair' = binpair
  BY DEF Invariant, Advances
<1>2. Size \in Nat /\ i < Size /\ numData2 = Len(bins[2]) /\ i + 1 \in 0 .. Size /\ i \in 0 .. Size
  BY <1>1, PairFacts DEF Advances
<1>3. Size' = Size /\ Matching' = Matching /\ \A k : IsMatch(k)' <=> IsMatch(k)
  <2>1. Matching' = Matching
    BY <1>1 DEF Matching, Records, RowNumber
  <2> QED
    BY <1>1, <2>1 DEF Size, IsMatch
<1>4. /\ selectedCount' \in [0 .. Size -> Nat]
      /\ selectedCount'[i] = nReal
      /\ \A k \in 0 .. Size : k # i => selectedCount'[k] = selectedCount[k]
  BY <1>1, <1>2 DEF CountsOK
<1>5. selectedCount'[0] = 0
  <2>1. CASE i = 0
    BY <1>1, <1>4, <2>1 DEF CountsOK
  <2>2. CASE i # 0
    BY <1>1, <1>2, <1>4, <2>2 DEF CountsOK
  <2> QED
    BY <2>1, <2>2
<1> DEFINE S == {k \in 1 .. i : IsMatch(k)}
           S1 == {k \in 1 .. i + 1 : IsMatch(k)}
<1>6. nReal' = Cardinality(S1)
  <2>1. IsFiniteSet(S) /\ nReal = Cardinality(S)
    BY <1>1, <1>2, MatchBound DEF CountsOK
  <2>2. CASE m = 1
    <3>1. S1 = S \cup {i + 1} /\ i + 1 \notin S
      BY <1>1, <2>2
    <3> HIDE DEF S, S1
    <3>2. Cardinality(S \cup {i + 1}) = Cardinality(S) + 1
      BY <2>1, <3>1, FS_AddElement
    <3> QED
      BY <1>1, <2>1, <2>2, <3>1, <3>2
  <2>3. CASE m = 0
    <3>1. S1 = S
      BY <1>1, <2>3
    <3> HIDE DEF S, S1
    <3> QED
      BY <1>1, <2>1, <2>3, <3>1
  <2> QED
    BY <2>2, <2>3
<1>7. {k \in 1 .. i' : IsMatch(k)'} = S1
  BY <1>1, <1>3
<1>8. nReal' \in Nat /\ nReal' <= numData2'
  <2> HIDE DEF S1
  <2>1. Cardinality(S1) \in Nat /\ Cardinality(S1) <= Len(bins[2])
    BY <1>1, <1>2, MatchBound DEF S1
  <2> QED
    BY <1>1, <1>2, <1>6, <2>1
<1>9. ASSUME NEW k \in 0 .. i' - 2
      PROVE  /\ IsMatch(k + 1)' => selectedCount'[k + 1] - selectedCount'[k] = 1
             /\ ~IsMatch(k + 1)' => selectedCount'[k + 1] - selectedCount'[k] = 0
  <2>1. k \in 0 .. i - 1 /\ k \in 0 .. Size /\ k + 1 \in 0 .. Size /\ k # i
    BY <1>1, <1>2
  <2>2. selectedCount'[k] = selectedCount[k]
    BY <1>4, <2>1
  <2>3. CASE k = i - 1
    <3>1. k + 1 = i /\ i > 0
      BY <1>1, <2>1, <2>3
    <3>2. /\ IsMatch(i) => nReal - selectedCount[i - 1] = 1
          /\ ~IsMatch(i) => nReal - selectedCount[i - 1] = 0
      BY <1>1, <3>1 DEF CountsOK
    <3> QED
      BY <1>3, <1>4, <2>2, <2>3, <3>1, <3>2
  <2>4. CASE k # i - 1
    <3>1. k \in 0 .. i - 2 /\ k + 1 # i
      BY <1>1, <2>1, <2>4
    <3>2. selectedCount'[k + 1] = selectedCount[k + 1]
      BY <1>4, <2>1, <3>1
    <3>3. /\ IsMatch(k + 1) => selectedCount[k + 1] - selectedCount[k] = 1
          /\ ~IsMatch(k + 1) => selectedCount[k + 1] - selectedCount[k] = 0
      <4>1. CountStep(k)
        BY <1>1, <3>1 DEF CountsOK
      <4> QED
        BY <4>1 DEF CountStep
    <3> QED
      BY <1>3, <2>2, <3>2, <3>3
  <2> QED
    BY <2>3, <2>4
<1>10. i' > 0 => /\ IsMatch(i)' => nReal' - selectedCount'[i' - 1] = 1
                 /\ ~IsMatch(i)' => nReal' - selectedCount'[i' - 1] = 0
  <2>1. selectedCount'[i' - 1] = nReal /\ nReal' - nReal = m
    BY <1>1, <1>4
  <2>2. IsMatch(i)' <=> IsMatch(i + 1)
    BY <1>1, <1>3 DEF IsMatch
  <2> QED
    BY <2>1, <2>2
<1>11. i' # 0
  BY <1>1
<1>12. nReal' = Cardinality({k \in 1 .. i' : IsMatch(k)'})
  BY <1>6, <1>7
<1>13. \A k \in 0 .. i' - 2 : CountStep(k)'
  BY <1>9 DEF CountStep
<1>14. CountsOK'
  BY <1>3, <1>4, <1>5, <1>10, <1>11, <1>12, <1>13 DEF CountsOK
<1> QED
  BY <1>8, <1>14

(* The rest of the invariant, which both steps keep alike.                 *)
LEMMA RowAdvances ==
  ASSUME MergeAssumption, Invariant, NEW m \in {0, 1}, Advances(m), m = 1 <=> IsMatch(i + 1),
         NEW out, joinOutput' = [joinOutput EXCEPT ![i] = out],
         out.foreign \in {0, Row.row},
         IsMatch(i + 1) => /\ out.foreign = Row.row
                           /\ out.primary \in 1 .. Len(bins[1])
                           /\ bins[1][out.primary].key = Row.key,
         LastPrimaryRow', preKey' \in Int
  PROVE  Invariant'
<1>1. /\ pc = "merge" /\ pc' = "merge" /\ i \in Nat /\ pairs \in Nat /\ nReal \in Nat
      /\ i' = i + 1 /\ nReal' = nReal + m /\ realMatches' = realMatches + m /\ numData2' = numData2
      /\ bins' = bins /\ binpair' = binpair /\ pairs' = pairs
      /\ PairOK /\ OutputOK /\ DOMAIN joinOutput = 0 .. Size - 1
      /\ realMatches \in 0 .. pairs * Longest + nReal
  BY DEF Invariant, Advances
<1>2. Size \in Nat /\ i < Size
  BY <1>1, PairFacts DEF Advances
<1>3. /\ Size' = Size /\ AllRows' = AllRows /\ Longest' = Longest
      /\ \A k : IsMatch(k)' <=> IsMatch(k)
  <2>1. Matching' = Matching
    BY <1>1 DEF Matching, Records, RowNumber
  <2> QED
    BY <1>1, <2>1 DEF Size, AllRows, Longest, IsMatch
<1>4. PairOK'
  BY <1>1, <1>3 DEF PairOK
<1>5. CountsOK' /\ nReal' \in Nat /\ nReal' <= numData2'
  BY CountsAdvance
<1>6. /\ joinOutput'[i] = out /\ DOMAIN joinOutput' = 0 .. Size - 1
      /\ \A k \in 0 .. Size - 1 : k # i => joinOutput'[k] = joinOutput[k]
  BY <1>1, <1>2
<1>7. OutputOK'
  <2>1. ASSUME NEW k \in 0 .. i
        PROVE  /\ joinOutput'[k].foreign \in {0, binpair[k + 1].row}
               /\ IsMatch(k + 1) => /\ joinOutput'[k].foreign = binpair[k + 1].row
                                    /\ joinOutput'[k].primary \in 1 .. Len(bins[1])
                                    /\ bins[1][joinOutput'[k].primary].key = binpair[k + 1].key
    <3>1. CASE k = i
      BY <1>6, <3>1 DEF Row
    <3>2. CASE k # i
      <4>1. k \in 0 .. i - 1 /\ k \in 0 .. Size - 1
        BY <1>1, <1>2, <3>2
      <4>2. joinOutput'[k] = joinOutput[k]
        BY <1>6, <3>2, <4>1
      <4> QED
        BY <1>1, <4>1, <4>2 DEF OutputOK
    <3> QED
      BY <3>1, <3>2
  <2>2. 0 .. i' - 1 = 0 .. i
    BY <1>1
  <2> QED
    BY <1>1, <1>3, <2>1, <2>2 DEF OutputOK
<1>8. realMatches' \in 0 .. pairs' * Longest' + nReal'
  <2>1. PICK bound \in Int : bound = pairs * Longest
    BY <1>1, LongestBin
  <2>2. PICK n \in Int : n = nReal
    BY <1>1
  <2>3. realMatches \in 0 .. bound + n
    BY <1>1, <2>1, <2>2
  <2>4. realMatches + m \in 0 .. bound + (n + m)
    BY <2>3
  <2>5. pairs' * Longest' = bound
    BY <1>1, <1>3, <2>1
  <2> QED
    BY <1>1, <2>2, <2>4, <2>5
<1>9. selectedCount' \in [0 .. Size' -> Nat] /\ selectedCount'[0] = 0
  BY <1>5 DEF CountsOK
<1>10. i' \in Nat /\ i' <= Size'
  BY <1>1, <1>2, <1>3
<1> QED
  BY <1>1, <1>3, <1>4, <1>5, <1>6, <1>7, <1>8, <1>9, <1>10 DEF Invariant, Done

(* A match is counted, unless its row is a dummy: then it is none.         *)
LEMMA MatchRowInvariant ==
  ASSUME MergeAssumption, Invariant, MatchRow
  PROVE  Invariant'
<1>1. PICK m \in {0, 1} : m = IF Row.dummy THEN 0 ELSE 1
  OBVIOUS
<1>2. /\ pc = "merge" /\ i < Len(binpair) /\ Refers /\ i' = i + 1 /\ binpair' = binpair
      /\ preKey' = preKey /\ primary' = primary
      /\ joinOutput' = [joinOutput EXCEPT ![i] = [primary |-> primary, foreign |-> Row.row]]
  BY DEF MatchRow
<1>3. Advances(m)
  BY <1>1 DEF MatchRow, Advances
<1>4. PairOK /\ LastPrimaryRow /\ i \in Nat /\ preKey \in Int
  BY <1>2 DEF Invariant
<1>5. i \in 0 .. Size - 1
  BY <1>2, <1>4, PairFacts
<1>6. m = 1 <=> IsMatch(i + 1)
  <2>1. ~Row.dummy <=> IsMatch(i + 1)
    BY <1>2, <1>4, <1>5, Referring
  <2>2. CASE Row.dummy
    BY <1>1, <2>1, <2>2
  <2>3. CASE ~Row.dummy
    BY <1>1, <2>1, <2>3
  <2> QED
    BY <2>2, <2>3
<1>7. primary \in 1 .. Len(bins[1]) /\ bins[1][primary].key = Row.key
  BY <1>2, <1>4, <1>5, Referring
<1>8. LastPrimaryRow'
  <2>1. binpair[i + 1].table = 1
    BY <1>2 DEF Refers, Row
  <2>2. CASE preKey = IntMin /\ \A k \in 1 .. i : binpair[k].table = 1
    <3>1. \A k \in 1 .. i + 1 : k \in 1 .. i \/ k = i + 1
      BY <1>4
    <3> QED
      BY <1>2, <2>1, <2>2, <3>1 DEF LastPrimaryRow
  <2>3. CASE \E k \in 1 .. i : /\ binpair[k].table = 0
                               /\ preKey = binpair[k].key /\ primary = binpair[k].row
                               /\ \A l \in k + 1 .. i : binpair[l].table = 1
    <3>1. PICK k \in 1 .. i : /\ binpair[k].table = 0
                              /\ preKey = binpair[k].key /\ primary = binpair[k].row
                              /\ \A l \in k + 1 .. i : binpair[l].table = 1
      BY <2>3
    <3>2. k \in 1 .. i + 1 /\ \A l \in k + 1 .. i + 1 : l \in k + 1 .. i \/ l = i + 1
      BY <1>4
    <3> QED
      BY <1>2, <2>1, <3>1, <3>2 DEF LastPrimaryRow
  <2> QED
    BY <1>4, <2>2, <2>3 DEF LastPrimaryRow
<1>9. /\ [primary |-> primary, foreign |-> Row.row].foreign = Row.row
      /\ [primary |-> primary, foreign |-> Row.row].primary = primary
  OBVIOUS
<1> DEFINE out == [primary |-> primary, foreign |-> Row.row]
<1>10. joinOutput' = [joinOutput EXCEPT ![i] = out] /\ out.foreign = Row.row /\ out.primary = primary
  BY <1>2
<1> HIDE DEF out
<1> QED
  BY <1>2, <1>3, <1>4, <1>6, <1>7, <1>8, <1>10, RowAdvances

(* Any other row is none.                                                  *)
LEMMA OtherRowInvariant ==
  ASSUME MergeAssumption, Invariant, OtherRow
  PROVE  Invariant'
<1>1. /\ pc = "merge" /\ i < Len(binpair) /\ ~Refers /\ i' = i + 1 /\ binpair' = binpair
      /\ joinOutput' = [joinOutput EXCEPT ![i] = Empty]
      /\ preKey' = IF Row.table = 0 THEN Row.key ELSE preKey
      /\ primary' = IF Row.table = 0 THEN Row.row ELSE primary
  BY DEF OtherRow
<1>2. PairOK /\ LastPrimaryRow /\ i \in Nat /\ preKey \in Int /\ nReal \in Nat
  BY <1>1 DEF Invariant
<1>3. i \in 0 .. Size - 1 /\ i + 1 \in 1 .. Size
  BY <1>1, <1>2, PairFacts
<1>4. realMatches \in Nat
  <2>1. realMatches \in 0 .. pairs * Longest + nReal
    BY <1>1 DEF Invariant
  <2>2. pairs * Longest + nReal \in Int
    <3>1. pairs \in Nat /\ Longest \in Nat
      BY LongestBin DEF Invariant
    <3> QED
      BY <1>2, <3>1
  <2> QED
    BY <2>1, <2>2
<1>5. Advances(0)
  BY <1>1, <1>2, <1>4 DEF OtherRow, Advances
<1>6. ~IsMatch(i + 1)
  BY <1>1, <1>2, <1>3, Referring
<1>7. Row = binpair[i + 1] /\ Row \in NumberedRow
  BY <1>3, PairFacts, <1>2 DEF Row
<1>8. preKey' \in Int
  BY <1>1, <1>2, <1>7 DEF NumberedRow
<1>9. LastPrimaryRow'
  <2>1. CASE Row.table = 0
    <3>1. i + 1 \in 1 .. i + 1 /\ (i + 1) + 1 .. i + 1 = {}
      BY <1>2
    <3>2. preKey' = binpair[i + 1].key /\ primary' = binpair[i + 1].row /\ binpair[i + 1].table = 0
      BY <1>1, <1>7, <2>1
    <3> QED
      BY <1>1, <3>1, <3>2 DEF LastPrimaryRow
  <2>2. CASE Row.table # 0
    <3>1. binpair[i + 1].table = 1 /\ preKey' = preKey /\ primary' = primary
      BY <1>1, <1>7, <2>2 DEF NumberedRow
    <3>2. CASE preKey = IntMin /\ \A k \in 1 .. i : binpair[k].table = 1
      <4>1. \A k \in 1 .. i + 1 : k \in 1 .. i \/ k = i + 1
        BY <1>2
      <4> QED
        BY <1>1, <3>1, <3>2, <4>1 DEF LastPrimaryRow
    <3>3. CASE \E k \in 1 .. i : /\ binpair[k].table = 0
                                 /\ preKey = binpair[k].key /\ primary = binpair[k].row
                                 /\ \A l \in k + 1 .. i : binpair[l].table = 1
      <4>1. PICK k \in 1 .. i : /\ binpair[k].table = 0
                                /\ preKey = binpair[k].key /\ primary = binpair[k].row
                                /\ \A l \in k + 1 .. i : binpair[l].table = 1
        BY <3>3
      <4>2. k \in 1 .. i + 1 /\ \A l \in k + 1 .. i + 1 : l \in k + 1 .. i \/ l = i + 1
        BY <1>2
      <4> QED
        BY <1>1, <3>1, <4>1, <4>2 DEF LastPrimaryRow
    <3> QED
      BY <1>2, <3>2, <3>3 DEF LastPrimaryRow
  <2> QED
    BY <2>1, <2>2
<1>10. Empty.foreign \in {0, Row.row}
  BY DEF Empty
<1>11. 0 \in {0, 1} /\ (0 = 1 <=> IsMatch(i + 1))
  BY <1>6
<1> QED
  BY <1>1, <1>5, <1>6, <1>8, <1>9, <1>10, <1>11, RowAdvances

(* What is written is what the compaction leaves.                          *)
LEMMA WritePairInvariant ==
  ASSUME MergeAssumption, Invariant, WritePair
  PROVE  Invariant'
<1>1. /\ pc = "merge" /\ pc' = "next" /\ i = Len(binpair) /\ i' = i
      /\ written' = ORCompact(joinOutput, Len(binpair), selectedCount, numData2)
      /\ pairs' = pairs + 1 /\ bins' = bins /\ binpair' = binpair /\ numData2' = numData2
      /\ preKey' = preKey /\ primary' = primary /\ joinOutput' = joinOutput
      /\ selectedCount' = selectedCount /\ nReal' = nReal /\ realMatches' = realMatches
  BY DEF WritePair
<1>2. /\ PairOK /\ LastPrimaryRow /\ CountsOK /\ OutputOK /\ i \in Nat /\ pairs \in Nat /\ nReal \in Nat
      /\ preKey \in Int /\ nReal <= numData2 /\ realMatches \in 0 .. pairs * Longest + nReal
  BY <1>1 DEF Invariant
<1>3. Len(binpair) = Size /\ numData2 = Len(bins[2])
  BY <1>2, PairFacts
<1>4. /\ Size' = Size /\ AllRows' = AllRows /\ Longest' = Longest
      /\ \A k : IsMatch(k)' <=> IsMatch(k)
  <2>1. Matching' = Matching
    BY <1>1 DEF Matching, Records, RowNumber
  <2> QED
    BY <1>1, <2>1 DEF Size, AllRows, Longest, IsMatch
<1>5. PairOK'
  BY <1>1, <1>2, <1>4 DEF PairOK
<1>6. LastPrimaryRow'
  BY <1>1, <1>2 DEF LastPrimaryRow
<1>7. CountsOK'
  BY <1>1, <1>2, <1>4 DEF CountsOK, CountStep
<1>8. OutputOK'
  BY <1>1, <1>2, <1>4 DEF OutputOK
<1>9. numData2 <= Longest /\ numData2 \in Nat /\ Longest \in Nat
  <2>1. Longest \in Nat
    BY LongestBin
  <2>2. bins[2] \in ForeignBins \/ bins[2] = <<>>
    BY <1>2 DEF PairOK
  <2>3. Len(<<>>) = 0
    OBVIOUS
  <2>4. Len(bins[2]) \in Nat
    BY <1>2 DEF PairOK
  <2> QED
    BY <1>3, <2>1, <2>2, <2>3, <2>4, LongestBin
<1>10. realMatches' \in 0 .. pairs' * Longest'
  <2>1. PICK bound \in Int : bound = pairs * Longest
    BY <1>2, <1>9
  <2>2. (pairs + 1) * Longest = bound + Longest
    BY <1>2, <1>9, <2>1
  <2>3. realMatches \in 0 .. bound + nReal
    BY <1>2, <2>1
  <2>4. realMatches \in 0 .. bound + Longest
    BY <1>2, <1>9, <2>3
  <2> QED
    BY <1>1, <1>4, <2>2, <2>4
<1> QED
  BY <1>1, <1>2, <1>3, <1>4, <1>5, <1>6, <1>7, <1>8, <1>10 DEF Invariant, Done

(* A step that changes nothing preserves the invariant.                    *)
LEMMA StutterInvariant ==
  ASSUME Invariant, UNCHANGED vars
  PROVE  Invariant'
<1>1. /\ bins' = bins /\ binpair' = binpair /\ numData2' = numData2 /\ i' = i /\ preKey' = preKey
      /\ primary' = primary /\ joinOutput' = joinOutput /\ selectedCount' = selectedCount
      /\ nReal' = nReal /\ realMatches' = realMatches /\ written' = written /\ pairs' = pairs /\ pc' = pc
  BY DEF vars
<1>2. Size' = Size /\ AllRows' = AllRows /\ Longest' = Longest /\ (Done' <=> Done)
  BY <1>1 DEF Size, AllRows, Longest, Done
<1>3. Matching' = Matching
  BY <1>1 DEF Matching, Records, RowNumber
<1>4. PairOK' <=> PairOK
  BY <1>1, <1>2 DEF PairOK
<1>5. LastPrimaryRow' <=> LastPrimaryRow
  BY <1>1 DEF LastPrimaryRow
<1>6. CountsOK' <=> CountsOK
  BY <1>1, <1>2, <1>3 DEF CountsOK, CountStep, IsMatch
<1>7. OutputOK' <=> OutputOK
  BY <1>1, <1>3 DEF OutputOK, IsMatch
<1> QED
  BY <1>1, <1>2, <1>4, <1>5, <1>6, <1>7 DEF Invariant

(* The invariant holds at every point of every pair.                       *)
THEOREM MergeInvariant == Spec => []Invariant
<1>1. Init => Invariant
  BY MergeAssumption, InitInvariant
<1>2. Invariant /\ [Next]_vars => Invariant'
  BY MergeAssumption, LoadPairInvariant, SortPairInvariant, MatchRowInvariant, OtherRowInvariant,
     WritePairInvariant, StutterInvariant DEF Next
<1> QED
  BY <1>1, <1>2, PTL DEF Spec

(* No row of the pair is lost or doubled by the network, and the matches   *)
(* are no more than the foreign bins have rows.                            *)
THEOREM PairTyped == Spec => []TypeOK
<1>1. ASSUME Invariant PROVE TypeOK
  <2>1. PairOK /\ pc \in {"next", "sort", "merge"} /\ i \in Nat /\ nReal \in Nat /\ pairs \in Nat
    BY <1>1 DEF Invariant
  <2>2. /\ Len(binpair) = Size /\ Size \in Nat /\ numData2 = Len(bins[2]) /\ numData2 \in Nat
        /\ DOMAIN binpair = 1 .. Size /\ \A p \in 1 .. Size : binpair[p].row \in 1 .. Size
    <3>1. numData2 = Len(bins[2]) /\ Len(bins[2]) \in Nat
      BY <2>1 DEF PairOK
    <3> QED
      BY <2>1, <3>1, PairFacts
  <2>3. {binpair[k].row : k \in DOMAIN binpair} = 1 .. Size
    <3>1. \A q \in 1 .. Size : \E p \in 1 .. Size : binpair[p].row = q
      BY <2>1, RowPlace
    <3> QED
      BY <2>2, <3>1
  <2>4. pc # "sort" => i \in 0 .. Size /\ nReal \in 0 .. numData2
    BY <1>1, <2>1, <2>2 DEF Invariant
  <2>5. realMatches \in 0 .. pairs * Longest + nReal
    <3>1. PICK bound \in Int : bound = pairs * Longest
      BY <2>1, MergeAssumption, LongestBin
    <3>2. realMatches \in 0 .. bound + nReal \/ realMatches \in 0 .. bound
      BY <1>1, <3>1 DEF Invariant
    <3> QED
      BY <2>1, <3>1, <3>2
  <2> QED
    BY <2>1, <2>2, <2>3, <2>4, <2>5 DEF TypeOK, Size, Longest
<1> QED
  BY <1>1, MergeInvariant, PTL

(* selected_count steps up at the matches and nowhere else, for bins of    *)
(* every size and whatever order the network leaves equal rows in.         *)
THEOREM CountedAreMatches == Spec => []MatchesCounted
<1>1. ASSUME Invariant PROVE MatchesCounted
  <2>1. SUFFICES ASSUME pc = "merge"
                 PROVE  /\ \A k \in 0 .. i - 2 : Selected(selectedCount, k) <=> IsMatch(k + 1)
                        /\ nReal = Cardinality({k \in 1 .. i : IsMatch(k)})
    BY DEF MatchesCounted, IsMatch
  <2>2. CountsOK
    BY <1>1, <2>1 DEF Invariant
  <2>3. ASSUME NEW k \in 0 .. i - 2 PROVE Selected(selectedCount, k) <=> IsMatch(k + 1)
    <3>1. CountStep(k)
      BY <2>2 DEF CountsOK
    <3> QED
      BY <3>1 DEF CountStep, Selected
  <2> QED
    BY <2>2, <2>3 DEF CountsOK
<1> QED
  BY <1>1, MergeInvariant, PTL

(* When a pair is done its counts go up by at most one, up to the row      *)
(* before the last at least.                                               *)
LEMMA DoneCounts ==
  ASSUME Invariant, Done
  PROVE  /\ PairOK /\ OutputOK /\ CountsOK /\ i = Size /\ Size \in Nat /\ numData2 \in Nat
         /\ nReal \in Nat /\ nReal <= numData2
         /\ Steps(selectedCount, 0, Size - 1)
         /\ written = ORCompact(joinOutput, Size, selectedCount, numData2)
<1>1. /\ pc = "next" /\ PairOK /\ OutputOK /\ CountsOK /\ i = Size /\ nReal \in Nat /\ nReal <= numData2
      /\ written = ORCompact(joinOutput, Size, selectedCount, numData2)
  BY DEF Invariant, Done
<1>2. Size \in Nat /\ numData2 \in Nat
  <2>1. numData2 = Len(bins[2]) /\ Len(bins[2]) \in Nat
    BY <1>1 DEF PairOK
  <2> QED
    BY <1>1, <2>1, PairFacts
<1>3. ASSUME NEW k \in 0 .. Size - 1 - 1
      PROVE  /\ selectedCount[k] \in Int /\ selectedCount[k + 1] \in Int
             /\ selectedCount[k + 1] - selectedCount[k] \in {0, 1}
  <2>1. k \in 0 .. i - 2 /\ k \in 0 .. Size /\ k + 1 \in 0 .. Size
    BY <1>1, <1>2
  <2>2. selectedCount[k] \in Int /\ selectedCount[k + 1] \in Int
    BY <1>1, <2>1 DEF CountsOK
  <2>3. CountStep(k)
    BY <1>1, <2>1 DEF CountsOK
  <2> QED
    BY <2>2, <2>3 DEF CountStep
<1> QED
  BY <1>1, <1>2, <1>3 DEF Steps

(* The rows that are written are rows of output, none of them twice.       *)
LEMMA WrittenRows ==
  ASSUME Invariant, Done
  PROVE  \E from : /\ Arrangement(from, Size)
                   /\ DOMAIN written \subseteq 0 .. Size - 1
                   /\ \A k \in DOMAIN written : written[k] = joinOutput[from[k]]
<1>1. /\ Size \in Nat /\ numData2 \in Nat /\ Steps(selectedCount, 0, Size - 1)
      /\ written = ORCompact(joinOutput, Size, selectedCount, numData2)
  BY DoneCounts
<1>2. PICK from : /\ Arrangement(from, Size)
                  /\ written = FirstRows(joinOutput, from, Min({Size, numData2}))
  <2>1. \E from : /\ Arrangement(from, Size)
                  /\ ORCompact(joinOutput, Size, selectedCount, numData2) =
                       FirstRows(joinOutput, from, Min({Size, numData2}))
    BY <1>1, CompactedAreRows
  <2> QED
    BY <1>1, <2>1
<1>3. PICK n \in Int : n = Min({Size, numData2}) /\ n <= Size
  <2>1. PICK a \in Int : a = Size
    BY <1>1
  <2>2. PICK b \in Int : b = numData2
    BY <1>1
  <2>3. Min({a, b}) \in {a, b} /\ Min({a, b}) <= a
    BY MinOfTwo, Zenon
  <2> QED
    BY <2>1, <2>2, <2>3
<1>4. written = [k \in 0 .. n - 1 |-> joinOutput[from[k]]]
  BY <1>2, <1>3 DEF FirstRows
<1>5. DOMAIN written = 0 .. n - 1 /\ \A k \in 0 .. n - 1 : written[k] = joinOutput[from[k]]
  BY <1>4
<1>6. 0 .. n - 1 \subseteq 0 .. Size - 1
  BY <1>1, <1>3
<1> QED
  BY <1>2, <1>5, <1>6

(* A match in the output has been put there by the row of its number.      *)
LEMMA OutputMatch ==
  ASSUME Invariant, Done, NEW k \in 0 .. Size - 1, joinOutput[k].foreign \in Matching
  PROVE  /\ IsMatch(k + 1) /\ joinOutput[k].foreign = binpair[k + 1].row
         /\ joinOutput[k].primary \in 1 .. Len(bins[1])
         /\ bins[1][joinOutput[k].primary].key = binpair[k + 1].key
<1>1. PairOK /\ OutputOK /\ i = Size
  BY DoneCounts
<1>2. joinOutput[k].foreign \in {0, binpair[k + 1].row}
  BY <1>1 DEF OutputOK
<1>3. 0 \notin Matching
  BY <1>1, MatchingRows
<1>4. IsMatch(k + 1)
  BY <1>2, <1>3 DEF IsMatch
<1> QED
  BY <1>1, <1>4 DEF OutputOK

(* Each match of the pair is written, and once, for bins of every size:    *)
(* the matches are no more than the foreign bin has rows, so that none is  *)
(* cut off, provided that the last entry of selected_count is right.       *)
THEOREM MatchesAreWritten == Spec => []MatchesWritten
<1>1. ASSUME Invariant, Done, LastEntryRight, NEW f \in Matching
      PROVE  Cardinality({k \in DOMAIN written : written[k].foreign = f}) = 1
  <2>1. /\ PairOK /\ OutputOK /\ CountsOK /\ i = Size /\ Size \in Nat /\ numData2 \in Nat
        /\ nReal \in Nat /\ nReal <= numData2 /\ Steps(selectedCount, 0, Size - 1)
        /\ written = ORCompact(joinOutput, Size, selectedCount, numData2)
    BY <1>1, DoneCounts
  <2>2. f \in 1 .. Size
    BY <2>1, MatchingRows
  <2>3. PICK p \in 1 .. Size : binpair[p].row = f
    BY <2>1, <2>2, RowPlace
  <2>4. PICK t \in 0 .. Size - 1 : p = t + 1
    <3>1. p - 1 \in 0 .. Size - 1 /\ p = (p - 1) + 1
      BY <2>1
    <3> QED
      BY <3>1
  <2>5. IsMatch(t + 1)
    BY <1>1, <2>3, <2>4 DEF IsMatch
  <2>6. selectedCount[Size] = nReal
    <3>1. Len(binpair) = Size /\ Size > 0
      BY <2>1, <2>2, PairFacts
    <3> QED
      BY <1>1, <3>1 DEF LastEntryRight
  <2>7. ASSUME NEW k \in 0 .. Size - 1 PROVE CountStep(k)
    <3>1. CASE k = Size - 1
      <4>1. /\ IsMatch(i) => nReal - selectedCount[i - 1] = 1
            /\ ~IsMatch(i) => nReal - selectedCount[i - 1] = 0
        BY <2>1, <2>2 DEF CountsOK
      <4>2. k + 1 = i /\ i - 1 = k
        BY <2>1, <3>1
      <4> QED
        BY <2>1, <2>6, <4>1, <4>2 DEF CountStep
    <3>2. CASE k # Size - 1
      <4>1. k \in 0 .. i - 2
        BY <2>1, <3>2
      <4> QED
        BY <2>1, <4>1 DEF CountsOK
    <3> QED
      BY <3>1, <3>2
  <2>8. Steps(selectedCount, 0, Size)
    <3>1. ASSUME NEW k \in 0 .. Size - 1
          PROVE  /\ selectedCount[k] \in Int /\ selectedCount[k + 1] \in Int
                 /\ selectedCount[k + 1] - selectedCount[k] \in {0, 1}
      <4>1. k \in 0 .. Size /\ k + 1 \in 0 .. Size
        BY <2>1
      <4>2. selectedCount[k] \in Int /\ selectedCount[k + 1] \in Int
        BY <2>1, <4>1 DEF CountsOK
      <4>3. CountStep(k)
        BY <2>7
      <4> QED
        BY <4>2, <4>3 DEF CountStep
    <3> QED
      BY <3>1 DEF Steps
  <2>9. Selected(selectedCount, t)
    <3>1. CountStep(t)
      BY <2>7
    <3> QED
      BY <2>5, <3>1 DEF CountStep, Selected
  <2>10. PICK place \in Nat : place = selectedCount[t] /\ place < numData2
    <3>1. 0 \in Int /\ Size \in Int /\ t \in 0 .. Size /\ Size \in 0 .. Size /\ t < Size
      BY <2>1
    <3>2. selectedCount[t] < selectedCount[Size]
      BY <2>8, <2>9, <3>1, SelectedBelow
    <3>3. selectedCount[t] \in Nat
      BY <2>1, <3>1 DEF CountsOK
    <3> QED
      BY <2>1, <2>6, <3>2, <3>3
  <2>11. written[place] = joinOutput[t]
    <3>1. selectedCount[0] = 0
      BY <2>1 DEF CountsOK
    <3>2. selectedCount[t] - selectedCount[0] = place
      BY <2>10, <3>1
    <3>3. ORCompact(joinOutput, Size, selectedCount, numData2)[selectedCount[t] - selectedCount[0]] = joinOutput[t]
      BY <2>1, <2>8, <2>9, <2>10, <3>2, SelectedRowsFirst
    <3> QED
      BY <2>1, <3>2, <3>3
  <2>12. place \in DOMAIN written
    <3>1. DOMAIN written = 0 .. Min({Size, numData2}) - 1
      BY <2>1 DEF ORCompact
    <3>2. PICK L1 \in Nat, L2 \in Nat : L2 = numData2 /\ L2 = Size - L1
      <4>1. bins[1] \in Seq(PFRow(0)) /\ bins[2] \in Seq(PFRow(1)) /\ numData2 = Len(bins[2])
        BY <2>1 DEF PairOK
      <4>2. PICK l1 \in Nat, l2 \in Nat : l1 = Len(bins[1]) /\ l2 = Len(bins[2])
        BY <4>1
      <4>3. Len(bins[2]) = Size - Len(bins[1])
        BY <2>1, PairFacts, Zenon
      <4> QED
        BY <4>1, <4>2, <4>3
    <3>3. PICK a \in Int : a = Size
      BY <2>1
    <3>4. PICK b \in Int : b = numData2
      BY <2>1
    <3>5. PICK m \in {a, b} : m = Min({Size, numData2})
      BY <3>3, <3>4, MinOfTwo, Zenon
    <3>6. place < a /\ place < b
      <4>1. L2 = a - L1 /\ L2 = b /\ place < L2 /\ place \in Nat
        BY <2>10, <3>2, <3>3, <3>4
      <4> QED
        BY <4>1
    <3>7. place \in 0 .. m - 1
      BY <3>3, <3>4, <3>5, <3>6
    <3> QED
      BY <3>1, <3>5, <3>7
  <2>13. joinOutput[t].foreign = f
    BY <2>1, <2>3, <2>4, <2>5 DEF OutputOK
  <2>14. PICK from : /\ Arrangement(from, Size)
                     /\ DOMAIN written \subseteq 0 .. Size - 1
                     /\ \A k \in DOMAIN written : written[k] = joinOutput[from[k]]
    BY <1>1, WrittenRows
  <2>15. ASSUME NEW k \in DOMAIN written, written[k].foreign = f PROVE from[k] = t
    <3>1. k \in 0 .. Size - 1 /\ written[k] = joinOutput[from[k]]
      BY <2>14
    <3>2. from[k] \in 0 .. Size - 1
      BY <2>14, <3>1 DEF Arrangement
    <3>3. joinOutput[from[k]].foreign \in Matching
      BY <1>1, <2>15, <3>1
    <3>4. joinOutput[from[k]].foreign = binpair[from[k] + 1].row
      BY <1>1, <3>2, <3>3, OutputMatch
    <3>5. from[k] + 1 \in 1 .. Size /\ from[k] + 1 = p
      <4>1. PICK s \in 0 .. Size - 1 : s = from[k]
        BY <3>2
      <4>2. s + 1 \in 1 .. Size
        BY <2>1
      <4>3. binpair[s + 1].row = binpair[p].row
        BY <2>3, <2>15, <3>1, <3>4, <4>1
      <4>4. s + 1 = p
        BY <2>1, <4>2, <4>3, PairFacts
      <4> QED
        BY <4>1, <4>2, <4>4
    <3> QED
      BY <2>4, <3>2, <3>5
  <2>16. ASSUME NEW k \in DOMAIN written, written[k].foreign = f PROVE k = place
    <3>1. from[k] = t /\ from[place] = t
      BY <2>11, <2>12, <2>13, <2>15, <2>16
    <3>2. k \in 0 .. Size - 1 /\ place \in 0 .. Size - 1
      BY <2>12, <2>14
    <3> QED
      BY <2>14, <3>1, <3>2 DEF Arrangement
  <2>17. {k \in DOMAIN written : written[k].foreign = f} = {place}
    BY <2>11, <2>12, <2>13, <2>16
  <2> QED
    BY <2>17, FS_Singleton
<1>2. Invariant => MatchesWritten
  BY <1>1 DEF MatchesWritten
<1> QED
  BY <1>2, MergeInvariant, PTL

(* What a match is joined with has its key, and is a record when no dummy  *)
(* of the primary bin has the key of a foreign record.                     *)
THEOREM PrimariesAreRecords == Spec => []PrimaryIsRecord
<1>1. ASSUME Invariant, Done,
             \A d \in DOMAIN bins[1] \ Records(0), k \in Records(1) : bins[1][d].key # bins[2][k].key,
             NEW r \in DOMAIN written, written[r].foreign \in Matching
      PROVE  /\ written[r].primary \in Records(0)
             /\ bins[1][written[r].primary].key = bins[2][written[r].foreign - Len(bins[1])].key
  <2>1. PairOK /\ Size \in Nat
    BY <1>1, DoneCounts
  <2>2. PICK from : /\ Arrangement(from, Size)
                    /\ DOMAIN written \subseteq 0 .. Size - 1
                    /\ \A k \in DOMAIN written : written[k] = joinOutput[from[k]]
    BY <1>1, WrittenRows
  <2>3. PICK t \in 0 .. Size - 1 : written[r] = joinOutput[t]
    <3>1. from[r] \in 0 .. Size - 1
      BY <1>1, <2>2 DEF Arrangement
    <3> QED
      BY <1>1, <2>2, <3>1
  <2>4. /\ joinOutput[t].foreign = binpair[t + 1].row
        /\ joinOutput[t].primary \in 1 .. Len(bins[1])
        /\ bins[1][joinOutput[t].primary].key = binpair[t + 1].key
    BY <1>1, <2>3, OutputMatch
  <2>5. PICK q \in 1 .. Size : q = written[r].foreign
    BY <1>1, <2>1, MatchingRows
  <2>6. q > Len(bins[1]) /\ ~bins[2][q - Len(bins[1])].dummy
    BY <1>1, <2>1, <2>5, MatchingRows
  <2>7. binpair[t + 1].key = bins[2][q - Len(bins[1])].key
    <3>1. t + 1 \in 1 .. Size /\ q = binpair[t + 1].row
      BY <2>1, <2>3, <2>4, <2>5
    <3> QED
      BY <2>1, <2>6, <3>1, PairRow
  <2>8. q - Len(bins[1]) \in Records(1)
    <3>1. PICK L1 \in Nat, L2 \in Nat : L1 = Len(bins[1]) /\ L2 = Len(bins[2]) /\ L2 = Size - L1
      <4>1. Len(bins[1]) \in Nat /\ Len(bins[2]) \in Nat
        BY <2>1 DEF PairOK
      <4> QED
        BY <2>1, <4>1, PairFacts
    <3>2. q - L1 \in 1 .. L2
      BY <2>1, <2>6, <3>1
    <3>3. DOMAIN bins[2] = 1 .. L2 /\ 1 + 1 = 2
      <4>1. bins[2] \in Seq(PFRow(1))
        BY <2>1 DEF PairOK
      <4>2. DOMAIN bins[2] = 1 .. Len(bins[2])
        BY <4>1
      <4>3. 1 + 1 = 2
        OBVIOUS
      <4> QED
        BY <3>1, <4>2, <4>3
    <3> QED
      BY <2>6, <3>1, <3>2, <3>3 DEF Records
  <2>9. written[r].primary \in DOMAIN bins[1]
    BY <2>1, <2>3, <2>4 DEF PairOK
  <2>10. bins[1][written[r].primary].key = bins[2][q - Len(bins[1])].key
    BY <2>3, <2>4, <2>7
  <2>11. written[r].primary \in Records(0)
    BY <1>1, <2>8, <2>9, <2>10
  <2> QED
    BY <2>5, <2>10, <2>11
<1>2. Invariant => PrimaryIsRecord
  BY <1>1 DEF PrimaryIsRecord
<1> QED
  BY <1>2, MergeInvariant, PTL
=============================================================================
