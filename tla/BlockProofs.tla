----------------------------- MODULE BlockProofs -----------------------------
(***************************************************************************)
(* The blocks that the joins and the structures are built from, for arrays *)
(* of every length: the compaction by prefix counts (TightCompact) keeps   *)
(* the rows that are selected, in order, the sorting network (SortingNet)  *)
(* sorts, and the expansion (ObliviousBlocks) moves items to their slots.  *)
(* The proofs follow the recursion of the code: the halves of a compaction *)
(* to a cyclic offset; for the network the 0-1 principle and the merge of  *)
(* the even and of the odd places; for the expansion the binary digits of  *)
(* the way an item has to go.                                              *)
(***************************************************************************)
EXTENDS TightCompact, SortingNet, ObliviousBlocks, WellFoundedInduction, TLAPS

-----------------------------------------------------------------------------
(* A set of numbers that is not empty has a least one: what proofs by      *)
(* induction start from, at the least counterexample.                      *)
LEMMA LeastNumber ==
  ASSUME NEW T \in SUBSET Nat, T # {}
  PROVE  \E n \in T : \A m \in 0 .. n - 1 : m \notin T
<1>1. PICK n \in T : \A m \in T : ~ (<<m, n>> \in OpToRel(<, Nat))
  BY NatLessThanWellFounded, WFMin
<1>2. \A m \in T : ~ (m < n)
  BY <1>1 DEF OpToRel
<1> QED
  BY <1>2

(* A set of numbers below a bound that is not empty has a greatest one.    *)
LEMMA GreatestNumber ==
  ASSUME NEW N \in Nat, NEW T \in SUBSET (0 .. N), T # {}
  PROVE  \E n \in T : \A m \in T : n >= m
<1> DEFINE D == {N - t : t \in T}
<1>1. D \in SUBSET Nat /\ D # {}
  <2>1. \A t \in T : N - t \in Nat
    OBVIOUS
  <2>2. PICK t \in T : TRUE
    OBVIOUS
  <2>3. N - t \in D
    OBVIOUS
  <2> QED
    BY <2>1, <2>3
<1>2. PICK d \in D : \A m \in 0 .. d - 1 : m \notin D
  BY <1>1, LeastNumber
<1>3. PICK n \in T : d = N - n
  OBVIOUS
<1>4. ASSUME NEW m \in T PROVE n >= m
  <2>1. N - m \in D
    OBVIOUS
  <2> QED
    BY <1>2, <1>3, <2>1
<1> QED
  BY <1>4

(* Max is the greatest number of such a set.                               *)
LEMMA MaxOfNumbers ==
  ASSUME NEW N \in Nat, NEW T \in SUBSET (0 .. N), T # {}
  PROVE  Max(T) \in T /\ \A m \in T : Max(T) >= m
BY GreatestNumber DEF Max

-----------------------------------------------------------------------------
(* Powers of two, as the recursive function Pow2 has them.                 *)
LEMMA Pow2Def ==
  Pow2 = [e \in Nat |-> IF e = 0 THEN 1 ELSE 2 * Pow2[e - 1]]
<1> DEFINE Upto(g, n) == g = [m \in 0 .. n |-> IF m = 0 THEN 1 ELSE 2 * g[m - 1]]
           F == [n \in Nat |-> (CHOOSE g : Upto(g, n))[n]]
<1>1. ASSUME NEW n \in Nat PROVE \E g : Upto(g, n)
  <2> DEFINE T == {k \in Nat : ~ \E g : Upto(g, k)}
  <2> SUFFICES ASSUME T # {} PROVE FALSE
    OBVIOUS
  <2>1. PICK k \in T : \A m \in 0 .. k - 1 : m \notin T
    BY LeastNumber
  <2>2. CASE k = 0
    <3>1. Upto([m \in 0 .. 0 |-> 1], 0)
      OBVIOUS
    <3> QED
      BY <2>2, <3>1
  <2>3. CASE k # 0
    <3>0. k - 1 \in Nat /\ k - 1 \in 0 .. k - 1
      BY <2>3
    <3>1. PICK g : Upto(g, k - 1)
      BY <2>1, <3>0
    <3> DEFINE h == [m \in 0 .. k |-> IF m < k THEN g[m] ELSE 2 * g[k - 1]]
    <3>2. Upto(h, k)
      BY <2>3, <3>1
    <3> QED
      BY <3>2
  <2> QED
    BY <2>2, <2>3
<1>2. ASSUME NEW n \in Nat, NEW k \in Nat, NEW g, NEW h, Upto(g, n), Upto(h, k), NEW m \in Nat, m <= n, m <= k
      PROVE  g[m] = h[m]
  <2> DEFINE T == {l \in Nat : l <= n /\ l <= k /\ g[l] # h[l]}
  <2> SUFFICES ASSUME T # {} PROVE FALSE
    BY <1>2
  <2>1. PICK l \in T : \A o \in 0 .. l - 1 : o \notin T
    BY LeastNumber
  <2>2. l = 0 \/ g[l - 1] = h[l - 1]
    BY <2>1
  <2> QED
    BY <1>2, <2>2
<1>3. ASSUME NEW n \in Nat PROVE F[n] = IF n = 0 THEN 1 ELSE 2 * F[n - 1]
  <2> DEFINE g == CHOOSE g : Upto(g, n)
             h == CHOOSE h : Upto(h, n - 1)
  <2>1. Upto(g, n)
    BY <1>1
  <2>2. CASE n # 0
    <3>0. n - 1 \in Nat /\ n - 1 <= n
      BY <2>2
    <3>1. Upto(h, n - 1)
      BY <1>1, <3>0
    <3>2. g[n - 1] = h[n - 1]
      <4> HIDE DEF g, h, Upto
      <4> QED
        BY <1>2, <2>1, <3>0, <3>1
    <3>3. g[n] = 2 * g[n - 1]
      <4> HIDE DEF g
      <4> QED
        BY <2>1, <2>2
    <3>4. F[n] = g[n] /\ F[n - 1] = h[n - 1]
      BY <3>0
    <3> HIDE DEF F, g, h
    <3> QED
      BY <2>2, <3>2, <3>3, <3>4
  <2>3. CASE n = 0
    BY <2>1, <2>3
  <2> QED
    BY <2>2, <2>3
<1>4. F = [n \in Nat |-> IF n = 0 THEN 1 ELSE 2 * F[n - 1]]
  <2> HIDE DEF F
  <2> QED
    BY <1>3 DEF F
<1>5. \E p : p = [n \in Nat |-> IF n = 0 THEN 1 ELSE 2 * p[n - 1]]
  BY <1>4
<1> QED
  BY <1>5 DEF Pow2

(* TightCompact_2power_inner is well defined.                              *)
LEMMA Pow2Recursion ==
  ASSUME NEW sc, NEW C
  PROVE  \E p : p = [n \in Nat |-> IF n = 0 THEN C ELSE Pow2Step(p[n - 1], n, sc)]
<1> DEFINE Upto(g, n) == g = [m \in 0 .. n |-> IF m = 0 THEN C ELSE Pow2Step(g[m - 1], m, sc)]
           F == [n \in Nat |-> (CHOOSE g : Upto(g, n))[n]]
<1>1. ASSUME NEW n \in Nat PROVE \E g : Upto(g, n)
  <2> DEFINE T == {k \in Nat : ~ \E g : Upto(g, k)}
  <2> SUFFICES ASSUME T # {} PROVE FALSE
    OBVIOUS
  <2>1. PICK k \in T : \A m \in 0 .. k - 1 : m \notin T
    BY LeastNumber
  <2>2. CASE k = 0
    <3>1. Upto([m \in 0 .. 0 |-> C], 0)
      OBVIOUS
    <3> QED
      BY <2>2, <3>1
  <2>3. CASE k # 0
    <3>0. k - 1 \in Nat /\ k - 1 \in 0 .. k - 1
      BY <2>3
    <3>1. PICK g : Upto(g, k - 1)
      BY <2>1, <3>0
    <3> DEFINE h == [m \in 0 .. k |-> IF m < k THEN g[m] ELSE Pow2Step(g[k - 1], k, sc)]
    <3>2. Upto(h, k)
      BY <2>3, <3>1
    <3> QED
      BY <3>2
  <2> QED
    BY <2>2, <2>3
<1>2. ASSUME NEW n \in Nat, NEW k \in Nat, NEW g, NEW h, Upto(g, n), Upto(h, k), NEW m \in Nat, m <= n, m <= k
      PROVE  g[m] = h[m]
  <2> DEFINE T == {l \in Nat : l <= n /\ l <= k /\ g[l] # h[l]}
  <2> SUFFICES ASSUME T # {} PROVE FALSE
    BY <1>2
  <2>1. PICK l \in T : \A o \in 0 .. l - 1 : o \notin T
    BY LeastNumber
  <2>2. l = 0 \/ g[l - 1] = h[l - 1]
    BY <2>1
  <2> QED
    BY <1>2, <2>2
<1>3. ASSUME NEW n \in Nat PROVE F[n] = IF n = 0 THEN C ELSE Pow2Step(F[n - 1], n, sc)
  <2> DEFINE g == CHOOSE g : Upto(g, n)
             h == CHOOSE h : Upto(h, n - 1)
  <2>1. Upto(g, n)
    BY <1>1
  <2>2. CASE n # 0
    <3>0. n - 1 \in Nat /\ n - 1 <= n
      BY <2>2
    <3>1. Upto(h, n - 1)
      BY <1>1, <3>0
    <3>2. g[n - 1] = h[n - 1]
      <4> HIDE DEF g, h, Upto
      <4> QED
        BY <1>2, <2>1, <3>0, <3>1
    <3>3. g[n] = Pow2Step(g[n - 1], n, sc)
      <4> HIDE DEF g
      <4> QED
        BY <2>1, <2>2
    <3>4. F[n] = g[n] /\ F[n - 1] = h[n - 1]
      BY <3>0
    <3> HIDE DEF F, g, h
    <3> QED
      BY <2>2, <3>2, <3>3, <3>4
  <2>3. CASE n = 0
    BY <2>1, <2>3
  <2> QED
    BY <2>2, <2>3
<1>4. F = [n \in Nat |-> IF n = 0 THEN C ELSE Pow2Step(F[n - 1], n, sc)]
  <2> HIDE DEF F
  <2> QED
    BY <1>3 DEF F
<1> QED
  BY <1>4

(* Pow2Inner, unfolded once: what a call on 2^e rows does with the two     *)
(* halves.                                                                 *)
LEMMA Pow2InnerDef ==
  ASSUME NEW sc
  PROVE  Pow2Inner(sc) =
           [e \in Nat |-> IF e = 0 THEN [idx \in Nat |-> [offset \in Nat |-> Unmoved(1)]]
                         ELSE Pow2Step(Pow2Inner(sc)[e - 1], e, sc)]
<1> DEFINE C == [idx \in Nat |-> [offset \in Nat |-> Unmoved(1)]]
<1>1. Pow2Inner(sc) = CHOOSE p : p = [n \in Nat |-> IF n = 0 THEN C ELSE Pow2Step(p[n - 1], n, sc)]
  BY DEF Pow2Inner
<1> HIDE DEF C
<1>2. Pow2Inner(sc) = [n \in Nat |-> IF n = 0 THEN C ELSE Pow2Step(Pow2Inner(sc)[n - 1], n, sc)]
  BY <1>1, Pow2Recursion
<1> QED
  BY <1>2 DEF C

(* f is the recursion of TightCompact_inner, from C on.                    *)
IsInner(f, sc, C, prev, pow) ==
  f = [n \in Nat |-> IF n < 3 THEN C[n] ELSE InnerParts(f[prev[n]], n, pow[n], sc)]

(* TightCompact_inner is well defined: every recursion is on fewer rows.   *)
LEMMA InnerRecursion ==
  ASSUME NEW sc, NEW C, NEW prev, NEW pow,
         \A n \in Nat : n > 2 => prev[n] \in 0 .. n - 1
  PROVE  \E f : IsInner(f, sc, C, prev, pow)
<1> DEFINE Upto(g, n) == g = [m \in 0 .. n |-> IF m < 3 THEN C[m] ELSE InnerParts(g[prev[m]], m, pow[m], sc)]
           F == [n \in Nat |-> (CHOOSE g : Upto(g, n))[n]]
<1>1. ASSUME NEW n \in Nat, NEW k \in Nat, NEW g, NEW h, Upto(g, n), Upto(h, k), NEW m \in Nat, m <= n, m <= k
      PROVE  g[m] = h[m]
  <2> DEFINE T == {l \in Nat : l <= n /\ l <= k /\ g[l] # h[l]}
  <2> SUFFICES ASSUME T # {} PROVE FALSE
    BY <1>1
  <2>1. PICK l \in T : \A o \in 0 .. l - 1 : o \notin T
    BY LeastNumber
  <2>2. l < 3 \/ g[prev[l]] = h[prev[l]]
    BY <2>1
  <2>3. g[l] = IF l < 3 THEN C[l] ELSE InnerParts(g[prev[l]], l, pow[l], sc)
    BY <1>1, SMTT(30)
  <2>4. h[l] = IF l < 3 THEN C[l] ELSE InnerParts(h[prev[l]], l, pow[l], sc)
    BY <1>1, SMTT(30)
  <2> QED
    BY <2>2, <2>3, <2>4
<1>2. ASSUME NEW n \in Nat PROVE \E g : Upto(g, n)
  <2> DEFINE T == {k \in Nat : ~ \E g : Upto(g, k)}
  <2> SUFFICES ASSUME T # {} PROVE FALSE
    OBVIOUS
  <2>1. PICK k \in T : \A m \in 0 .. k - 1 : m \notin T
    BY LeastNumber
  <2>2. CASE k = 0
    <3>1. Upto([m \in 0 .. 0 |-> C[m]], 0)
      OBVIOUS
    <3> QED
      BY <2>2, <3>1
  <2>3. CASE k # 0
    <3>0. k - 1 \in Nat /\ k - 1 \in 0 .. k - 1
      BY <2>3
    <3>1. PICK g : Upto(g, k - 1)
      BY <2>1, <3>0
    <3> DEFINE h == [m \in 0 .. k |-> IF m < k THEN g[m] ELSE IF k < 3 THEN C[k] ELSE InnerParts(g[prev[k]], k, pow[k], sc)]
    <3>2. ASSUME NEW m \in 0 .. k
          PROVE  h[m] = IF m < 3 THEN C[m] ELSE InnerParts(h[prev[m]], m, pow[m], sc)
      <4>1. m < 3 \/ h[prev[m]] = g[prev[m]]
        OBVIOUS
      <4>2. CASE m < k
        <5>1. g[m] = IF m < 3 THEN C[m] ELSE InnerParts(g[prev[m]], m, pow[m], sc)
          BY <3>1, <4>2
        <5>2. h[m] = g[m]
          BY <4>2
        <5> HIDE DEF h
        <5> QED
          BY <4>1, <5>1, <5>2
      <4>3. CASE m = k
        <5>1. h[m] = IF m < 3 THEN C[m] ELSE InnerParts(g[prev[m]], m, pow[m], sc)
          BY <4>3
        <5> HIDE DEF h
        <5> QED
          BY <4>1, <5>1
      <4> QED
        BY <4>2, <4>3
    <3>3. h = [m \in 0 .. k |-> h[m]]
      OBVIOUS
    <3>4. h = [m \in 0 .. k |-> IF m < 3 THEN C[m] ELSE InnerParts(h[prev[m]], m, pow[m], sc)]
      <4> HIDE DEF h
      <4> QED
        BY <3>2, <3>3
    <3>5. Upto(h, k)
      BY <3>4
    <3> QED
      BY <3>5
  <2> QED
    BY <2>2, <2>3
<1>3. ASSUME NEW n \in Nat PROVE F[n] = IF n < 3 THEN C[n] ELSE InnerParts(F[prev[n]], n, pow[n], sc)
  <2> DEFINE g == CHOOSE g : Upto(g, n)
             h == CHOOSE h : Upto(h, prev[n])
  <2>1. Upto(g, n)
    BY <1>2
  <2>2. CASE n > 2
    <3>0. prev[n] \in Nat /\ prev[n] <= n /\ ~ n < 3
      BY <2>2
    <3>1. Upto(h, prev[n])
      BY <1>2, <3>0
    <3>2. g[prev[n]] = h[prev[n]]
      <4> HIDE DEF g, h, Upto
      <4> QED
        BY <1>1, <2>1, <3>0, <3>1
    <3>3. g[n] = InnerParts(g[prev[n]], n, pow[n], sc)
      <4> HIDE DEF g
      <4> QED
        BY <2>1, <3>0
    <3>4. F[n] = g[n] /\ F[prev[n]] = h[prev[n]]
      BY <3>0
    <3> HIDE DEF F, g, h
    <3> QED
      BY <3>0, <3>2, <3>3, <3>4
  <2>3. CASE ~ n > 2
    <3>1. g[n] = C[n]
      <4> HIDE DEF g
      <4> QED
        BY <2>1, <2>3
    <3>2. F[n] = g[n]
      OBVIOUS
    <3> HIDE DEF F, g
    <3> QED
      BY <2>3, <3>1, <3>2
  <2> QED
    BY <2>2, <2>3
<1>4. IsInner(F, sc, C, prev, pow)
  <2>1. F = [n \in Nat |-> F[n]]
    OBVIOUS
  <2> HIDE DEF F
  <2> QED
    BY <1>3, <2>1 DEF IsInner
<1> QED
  BY <1>4

-----------------------------------------------------------------------------
(* A power of two is more than its exponent.                               *)
LEMMA Pow2Facts ==
  /\ Pow2[0] = 1
  /\ \A e \in Nat : Pow2[e] \in Nat /\ Pow2[e] > e /\ Pow2[e + 1] = 2 * Pow2[e]
<1>1. Pow2[0] = 1
  BY Pow2Def
<1>2. \A e \in Nat : Pow2[e + 1] = 2 * Pow2[e]
  BY Pow2Def
<1> DEFINE T == {e \in Nat : ~ (Pow2[e] \in Nat /\ Pow2[e] > e)}
<1> SUFFICES ASSUME T # {} PROVE FALSE
  BY <1>1, <1>2
<1>3. PICK e \in T : \A d \in 0 .. e - 1 : d \notin T
  BY LeastNumber
<1>4. CASE e = 0
  BY <1>1, <1>4
<1>5. CASE e # 0
  <2>1. e - 1 \in Nat /\ e - 1 \in 0 .. e - 1 /\ (e - 1) + 1 = e
    BY <1>5
  <2>2. Pow2[e - 1] \in Nat /\ Pow2[e - 1] > e - 1
    BY <1>3, <2>1
  <2>3. Pow2[e] = 2 * Pow2[e - 1]
    BY <1>2, <2>1
  <2> QED
    BY <2>1, <2>2, <2>3
<1> QED
  BY <1>4, <1>5

(* pow2_lt: the largest power of two below a number.                       *)
LEMMA Pow2LtFacts ==
  ASSUME NEW n \in Nat, n > 1
  PROVE  /\ Pow2Lt(n) \in Nat
         /\ Pow2[Pow2Lt(n)] \in Nat \ {0}
         /\ Pow2[Pow2Lt(n)] < n /\ n <= 2 * Pow2[Pow2Lt(n)]
<1> DEFINE T == {e \in 0 .. n : Pow2[e] < n}
           m == Max(T)
<1>1. T \in SUBSET (0 .. n) /\ 0 \in T
  BY Pow2Facts
<1>2. m \in T /\ \A e \in T : m >= e
  BY <1>1, MaxOfNumbers
<1>3. Pow2Lt(n) = m
  BY DEF Pow2Lt
<1> HIDE DEF m
<1>4. m \in Nat /\ Pow2[m] \in Nat /\ Pow2[m] > m /\ Pow2[m] < n /\ Pow2[m + 1] = 2 * Pow2[m]
  BY <1>2, Pow2Facts
<1>5. m + 1 \in 0 .. n
  BY <1>4
<1>6. ~ (Pow2[m + 1] < n)
  BY <1>2, <1>4, <1>5
<1> QED
  BY <1>3, <1>4, <1>6

-----------------------------------------------------------------------------
(* From lo to hi the counts go up by one at the rows that are selected.    *)
Steps(sc, lo, hi) ==
  \A k \in lo .. hi - 1 : sc[k] \in Int /\ sc[k + 1] \in Int /\ sc[k + 1] - sc[k] \in {0, 1}

(* Between two entries of selected_count lie as many steps as rows at      *)
(* most.                                                                   *)
LEMMA StepsBound ==
  ASSUME NEW sc, NEW lo \in Int, NEW hi \in Int, Steps(sc, lo, hi),
         NEW j \in lo .. hi, NEW k \in lo .. hi, j < k
  PROVE  sc[j] \in Int /\ sc[k] \in Int /\ sc[k] - sc[j] \in 0 .. k - j
<1> DEFINE T == {d \in Nat : j + d + 1 <= hi /\ ~ (sc[j + d + 1] \in Int /\ sc[j + d + 1] - sc[j] \in 0 .. d + 1)}
<1>0. sc[j] \in Int
  BY DEF Steps
<1>1. T = {}
  <2> SUFFICES ASSUME T # {} PROVE FALSE
    OBVIOUS
  <2>1. PICK d \in T : \A c \in 0 .. d - 1 : c \notin T
    BY LeastNumber
  <2>2. /\ j + d \in lo .. hi - 1 /\ sc[j + d] \in Int /\ sc[j + d + 1] \in Int
        /\ sc[j + d + 1] - sc[j + d] \in {0, 1}
    BY DEF Steps
  <2>3. CASE d = 0
    BY <1>0, <2>2, <2>3
  <2>4. CASE d # 0
    <3>1. d - 1 \in 0 .. d - 1 /\ d - 1 \in Nat /\ j + (d - 1) + 1 = j + d /\ (d - 1) + 1 = d
      BY <2>4
    <3>2. sc[j + d] - sc[j] \in 0 .. d
      BY <2>1, <3>1
    <3> QED
      BY <1>0, <2>2, <3>2
  <2> QED
    BY <2>3, <2>4
<1>2. PICK d \in Nat : j + d + 1 = k /\ d + 1 = k - j
  <2>1. k - j - 1 \in Nat /\ j + (k - j - 1) + 1 = k /\ (k - j - 1) + 1 = k - j
    OBVIOUS
  <2> QED
    BY <2>1
<1>3. d \notin T
  BY <1>1
<1>4. sc[j + d + 1] \in Int /\ sc[j + d + 1] - sc[j] \in 0 .. d + 1
  BY <1>2, <1>3
<1> QED
  BY <1>0, <1>2, <1>4

(* The count at a selected row is below that at any later one.             *)
LEMMA SelectedBelow ==
  ASSUME NEW sc, NEW lo \in Int, NEW hi \in Int, Steps(sc, lo, hi),
         NEW j \in lo .. hi, NEW k \in lo .. hi, j < k, Selected(sc, j)
  PROVE  sc[j] < sc[k]
<1>0. j \in lo .. hi - 1 /\ k - 1 \in lo .. hi - 1 /\ (k - 1) + 1 = k
  OBVIOUS
<1>1. sc[j] \in Int /\ sc[j + 1] \in Int /\ sc[j + 1] - sc[j] = 1 /\ sc[k] \in Int
  BY <1>0 DEF Selected, Steps
<1>2. CASE j + 1 = k
  BY <1>1, <1>2
<1>3. CASE j + 1 < k
  BY <1>1, <1>3, StepsBound
<1> QED
  BY <1>2, <1>3

-----------------------------------------------------------------------------
(* What TightCompact does to the rows: every place gets another row.       *)
Arrangement(from, n) ==
  /\ from \in [0 .. n - 1 -> 0 .. n - 1]
  /\ \A p, q \in 0 .. n - 1 : from[p] = from[q] => p = q

(* A round of swaps at one distance arranges the rows anew and loses none. *)
LEMMA SwapArrangement ==
  ASSUME NEW n \in Nat, NEW a, Arrangement(a, n), NEW gap \in Nat \ {0}, NEW swapped \in SUBSET (0 .. gap - 1),
         \A p \in swapped : p + gap < n
  PROVE  Arrangement(SwapRows(a, gap, swapped), n)
<1> DEFINE to == [p \in 0 .. n - 1 |-> IF p \in swapped THEN p + gap ELSE IF p - gap \in swapped THEN p - gap ELSE p]
<1>1. to \in [0 .. n - 1 -> 0 .. n - 1] /\ \A p, q \in 0 .. n - 1 : to[p] = to[q] => p = q
  OBVIOUS
<1>2. SwapRows(a, gap, swapped) = [p \in 0 .. n - 1 |-> a[to[p]]]
  BY DEF SwapRows, Arrangement
<1>3. ASSUME NEW p \in 0 .. n - 1, NEW q \in 0 .. n - 1, a[to[p]] = a[to[q]]
      PROVE  p = q
  <2> HIDE DEF to
  <2>1. to[p] \in 0 .. n - 1 /\ to[q] \in 0 .. n - 1
    BY <1>1
  <2>2. to[p] = to[q]
    BY <1>3, <2>1 DEF Arrangement
  <2> QED
    BY <1>1, <2>2
<1>4. \A p \in 0 .. n - 1 : a[to[p]] \in 0 .. n - 1
  <2> HIDE DEF to
  <2> QED
    BY <1>1 DEF Arrangement
<1> HIDE DEF to
<1> QED
  BY <1>2, <1>3, <1>4 DEF Arrangement

(* Two parts that are arranged each in itself arrange the whole.           *)
LEMMA BesideArrangement ==
  ASSUME NEW m \in Nat, NEW n \in Nat, NEW left, NEW right, Arrangement(left, m), Arrangement(right, n)
  PROVE  Arrangement(Beside(left, m, right, n), m + n)
<1> DEFINE b == Beside(left, m, right, n)
<1>1. ASSUME NEW p \in 0 .. m + n - 1
      PROVE  b[p] = (IF p < m THEN left[p] ELSE m + right[p - m]) /\ b[p] \in 0 .. m + n - 1
  BY DEF Beside, Arrangement
<1>2. ASSUME NEW p \in 0 .. m + n - 1, NEW q \in 0 .. m + n - 1, b[p] = b[q]
      PROVE  p = q
  <2>1. CASE p < m /\ q < m
    <3>1. p \in 0 .. m - 1 /\ q \in 0 .. m - 1
      BY <2>1
    <3>2. left[p] = left[q]
      BY <1>1, <1>2, <2>1
    <3> QED
      BY <3>1, <3>2 DEF Arrangement
  <2>2. CASE p < m /\ ~ q < m
    <3>1. left[p] \in 0 .. m - 1 /\ right[q - m] \in 0 .. n - 1
      BY <2>2 DEF Arrangement
    <3> QED
      BY <1>1, <1>2, <2>2, <3>1
  <2>3. CASE ~ p < m /\ q < m
    <3>1. left[q] \in 0 .. m - 1 /\ right[p - m] \in 0 .. n - 1
      BY <2>3 DEF Arrangement
    <3> QED
      BY <1>1, <1>2, <2>3, <3>1
  <2>4. CASE ~ p < m /\ ~ q < m
    <3>1. p - m \in 0 .. n - 1 /\ q - m \in 0 .. n - 1
      BY <2>4
    <3>2. right[p - m] = right[q - m]
      BY <1>1, <1>2, <2>4, <3>1 DEF Arrangement
    <3> QED
      BY <3>1, <3>2 DEF Arrangement
  <2> QED
    BY <2>1, <2>2, <2>3, <2>4
<1>3. b = [p \in 0 .. m + n - 1 |-> b[p]]
  BY DEF Beside
<1> HIDE DEF b
<1> QED
  BY <1>1, <1>2, <1>3 DEF Arrangement, b

(* Rows that are left alone are arranged as they were.                     *)
LEMMA UnmovedArrangement ==
  ASSUME NEW n \in Nat
  PROVE  Arrangement(Unmoved(n), n)
BY DEF Arrangement, Unmoved

(* A remainder, by a name that hides the division from the provers.        *)
Rem(x, m) == x % m

(* A remainder is below what is divided by.                                *)
LEMMA RemainderBelow ==
  ASSUME NEW m \in Nat \ {0}, NEW x \in Nat
  PROVE  Rem(x, m) \in 0 .. m - 1
BY DEF Rem

(* Remainders of numbers that are not large.                               *)
LEMMA SmallRemainder ==
  ASSUME NEW m \in Nat \ {0}, NEW x \in Nat, x < 2 * m
  PROVE  Rem(x, m) = IF x < m THEN x ELSE x - m
BY DEF Rem

(* The remainder of a number below three times the divisor, by cases.      *)
LEMMA LargerRemainder ==
  ASSUME NEW m \in Nat \ {0}, NEW x \in Nat, x < 3 * m
  PROVE  Rem(x, m) = IF x < m THEN x ELSE IF x < 2 * m THEN x - m ELSE x - 2 * m
BY DEF Rem

(* What TightCompact_2power_inner promises for the n rows from idx on: the *)
(* selected rows, in their order, stand from offset on, around the end.    *)
Brings(from, n, sc, idx, offset) ==
  \A k \in idx .. idx + n - 1 :
    Selected(sc, k) => from[Rem(offset + (sc[k] - sc[idx]), n)] = k - idx

(* The rows that TightCompact_2power_inner exchanges between its halves,   *)
(* as its flags have them.                                                 *)
Exchanged(half, offset, m1) ==
  {p \in 0 .. half - 1 :
     (p >= Rem(offset + m1, half)) # ((Rem(offset, half) + m1 >= half) # (offset >= half))}

(* The t-th selected row of the left half gets to where it belongs.        *)
LEMMA LeftRow ==
  ASSUME NEW half \in Nat \ {0}, NEW offset \in 0 .. 2 * half - 1, NEW m1 \in 0 .. half,
         NEW t \in 0 .. half - 1, t < m1, NEW q, q = Rem(Rem(offset, half) + t, half)
  PROVE  /\ q \in 0 .. half - 1
         /\ q \in Exchanged(half, offset, m1) => Rem(offset + t, 2 * half) = q + half
         /\ q \notin Exchanged(half, offset, m1) => Rem(offset + t, 2 * half) = q
<1> DEFINE o1 == Rem(offset, half)
           o2 == Rem(offset + m1, half)
           y == Rem(offset + t, 2 * half)
<1>1. o1 = IF offset < half THEN offset ELSE offset - half
  <2>1. offset \in Nat /\ offset < 2 * half
    OBVIOUS
  <2> QED
    BY <2>1, SmallRemainder, Zenon
<1>2. o2 = IF offset + m1 < half THEN offset + m1
           ELSE IF offset + m1 < 2 * half THEN offset + m1 - half ELSE offset + m1 - 2 * half
  <2>1. PICK x \in Nat : x = offset + m1
    OBVIOUS
  <2>0. x < 3 * half
    BY <2>1
  <2>2. Rem(x, half) = IF x < half THEN x ELSE IF x < 2 * half THEN x - half ELSE x - 2 * half
    BY <2>0, LargerRemainder, Zenon
  <2> QED
    BY <2>1, <2>2
<1>3. y = IF offset + t < 2 * half THEN offset + t ELSE offset + t - 2 * half
  <2>1. PICK x \in Nat : x = offset + t
    OBVIOUS
  <2>2. PICK m \in Nat \ {0} : m = 2 * half
    OBVIOUS
  <2>0. x < 2 * m
    BY <2>1, <2>2
  <2>3. Rem(x, m) = IF x < m THEN x ELSE x - m
    BY <2>0, SmallRemainder, Zenon
  <2> QED
    BY <2>1, <2>2, <2>3
<1>4. q = IF o1 + t < half THEN o1 + t ELSE o1 + t - half
  <2>0. o1 \in 0 .. half - 1
    BY <1>1
  <2> HIDE DEF o1
  <2>1. PICK x \in Nat : x = o1 + t /\ x < 2 * half
    BY <2>0
  <2>2. Rem(x, half) = IF x < half THEN x ELSE x - half
    BY <2>1, SmallRemainder, Zenon
  <2>3. q = Rem(x, half)
    BY <2>1 DEF o1
  <2> QED
    BY <2>0, <2>1, <2>2, <2>3
<1>5. q \in Exchanged(half, offset, m1) <=>
        q \in 0 .. half - 1 /\ ((q >= o2) # ((o1 + m1 >= half) # (offset >= half)))
  BY DEF Exchanged
<1> HIDE DEF o1, o2, y
<1>6. CASE offset < half
  BY <1>1, <1>2, <1>3, <1>4, <1>5, <1>6 DEF y
<1>7. CASE offset >= half
  BY <1>1, <1>2, <1>3, <1>4, <1>5, <1>7 DEF y
<1> QED
  BY <1>6, <1>7

(* So does the t-th of the right half.                                     *)
LEMMA RightRow ==
  ASSUME NEW half \in Nat \ {0}, NEW offset \in 0 .. 2 * half - 1, NEW m1 \in 0 .. half,
         NEW t \in 0 .. half - 1,
         NEW q, q = Rem(Rem(offset + m1, half) + t, half)
  PROVE  /\ q \in Exchanged(half, offset, m1) => Rem(offset + m1 + t, 2 * half) = q
         /\ q \notin Exchanged(half, offset, m1) => Rem(offset + m1 + t, 2 * half) = q + half
<1> DEFINE o1 == Rem(offset, half)
           o2 == Rem(offset + m1, half)
           y == Rem(offset + m1 + t, 2 * half)
<1>1. o1 = IF offset < half THEN offset ELSE offset - half
  <2>1. offset \in Nat /\ offset < 2 * half
    OBVIOUS
  <2> QED
    BY <2>1, SmallRemainder, Zenon
<1>2. o2 = IF offset + m1 < half THEN offset + m1
           ELSE IF offset + m1 < 2 * half THEN offset + m1 - half ELSE offset + m1 - 2 * half
  <2>1. PICK x \in Nat : x = offset + m1
    OBVIOUS
  <2>0. x < 3 * half
    BY <2>1
  <2>2. Rem(x, half) = IF x < half THEN x ELSE IF x < 2 * half THEN x - half ELSE x - 2 * half
    BY <2>0, LargerRemainder, Zenon
  <2> QED
    BY <2>1, <2>2
<1>3. y = IF offset + m1 + t < 2 * half THEN offset + m1 + t ELSE offset + m1 + t - 2 * half
  <2>1. PICK x \in Nat : x = offset + m1 + t
    OBVIOUS
  <2>2. PICK m \in Nat \ {0} : m = 2 * half
    OBVIOUS
  <2>0. x < 2 * m
    BY <2>1, <2>2
  <2>3. Rem(x, m) = IF x < m THEN x ELSE x - m
    BY <2>0, SmallRemainder, Zenon
  <2> QED
    BY <2>1, <2>2, <2>3
<1>4. q = IF o2 + t < half THEN o2 + t ELSE o2 + t - half
  <2>0. o2 \in 0 .. half - 1
    BY <1>2
  <2> HIDE DEF o2
  <2>1. PICK x \in Nat : x = o2 + t /\ x < 2 * half
    BY <2>0
  <2>2. Rem(x, half) = IF x < half THEN x ELSE x - half
    BY <2>1, SmallRemainder, Zenon
  <2>3. q = Rem(x, half)
    BY <2>1 DEF o2
  <2> QED
    BY <2>0, <2>1, <2>2, <2>3
<1>5. q \in Exchanged(half, offset, m1) <=>
        q \in 0 .. half - 1 /\ ((q >= o2) # ((o1 + m1 >= half) # (offset >= half)))
  BY DEF Exchanged
<1> HIDE DEF o1, o2, y
<1>6. CASE offset < half
  BY <1>1, <1>2, <1>3, <1>4, <1>5, <1>6 DEF y
<1>7. CASE offset >= half
  BY <1>1, <1>2, <1>3, <1>4, <1>5, <1>7 DEF y
<1> QED
  BY <1>6, <1>7

(* m1 rows are selected among the n rows from idx on.                      *)
CountIs(m1, sc, idx, n) == m1 = sc[idx + n] - sc[idx]

(* One level of the recursion: if both halves are right, so is the whole.  *)
LEMMA HalvesCorrect ==
  ASSUME NEW sc, NEW inner, NEW half \in Nat \ {0}, NEW idx \in Nat, NEW offset \in 0 .. 2 * half - 1,
         NEW m1 \in 0 .. half, CountIs(m1, sc, idx, half),
         NEW left, left = inner[idx][Rem(offset, half)],
         NEW right, right = inner[idx + half][Rem(offset + m1, half)],
         Arrangement(left, half), Arrangement(right, half)
  PROVE  /\ Arrangement(Pow2Halves(inner, half, sc, idx, offset), 2 * half)
         /\ /\ Steps(sc, idx, idx + 2 * half)
            /\ Brings(left, half, sc, idx, Rem(offset, half))
            /\ Brings(right, half, sc, idx + half, Rem(offset + m1, half))
            => Brings(Pow2Halves(inner, half, sc, idx, offset), 2 * half, sc, idx, offset)
<1> DEFINE b == Beside(left, half, right, half)
           ex == Exchanged(half, offset, m1)
           from == SwapRows(b, half, ex)
<1>1. Pow2Halves(inner, half, sc, idx, offset) = from
  BY DEF Pow2Halves, RightOffset, Exchanged, Rem, CountIs
<1>2. Arrangement(b, 2 * half)
  <2>1. half + half = 2 * half /\ half \in Nat
    OBVIOUS
  <2> QED
    BY <2>1, BesideArrangement
<1>3. ex \in SUBSET (0 .. half - 1)
  BY DEF Exchanged
<1> HIDE DEF ex
<1>4. Arrangement(from, 2 * half)
  <2>1. 2 * half \in Nat /\ \A p \in ex : p + half < 2 * half
    BY <1>3
  <2> HIDE DEF b
  <2> QED
    BY <1>2, <1>3, <2>1, SwapArrangement
<1>5. ASSUME NEW q \in 0 .. half - 1
      PROVE  /\ from[IF q \in ex THEN q + half ELSE q] = left[q]
             /\ from[IF q \in ex THEN q ELSE q + half] = half + right[q]
  <2>1. b[q] = left[q] /\ b[q + half] = half + right[q]
    <3>1. q \in 0 .. half + half - 1 /\ q + half \in 0 .. half + half - 1 /\ ~ q + half < half /\ (q + half) - half = q
      OBVIOUS
    <3> QED
      BY <3>1 DEF Beside
  <2>2. DOMAIN b = 0 .. 2 * half - 1
    BY <1>2 DEF Arrangement
  <2>3. CASE q \in ex
    <3>1. from[q] = b[q + half]
      <4>1. q \in 0 .. 2 * half - 1 /\ q - half \notin ex
        BY <1>3
      <4> HIDE DEF b
      <4> QED
        BY <2>2, <2>3, <4>1 DEF SwapRows
    <3>2. from[q + half] = b[q]
      <4>1. q + half \notin ex /\ (q + half) - half = q /\ q + half \in 0 .. 2 * half - 1
        BY <1>3
      <4> HIDE DEF b
      <4> QED
        BY <2>2, <2>3, <4>1 DEF SwapRows
    <3> QED
      BY <2>1, <2>3, <3>1, <3>2
  <2>4. CASE q \notin ex
    <3>1. from[q] = b[q]
      <4>1. q - half \notin ex /\ q \in 0 .. 2 * half - 1
        BY <1>3
      <4> HIDE DEF b
      <4> QED
        BY <2>2, <2>4, <4>1 DEF SwapRows
    <3>2. from[q + half] = b[q + half]
      <4>1. q + half \notin ex /\ (q + half) - half = q /\ q + half \in 0 .. 2 * half - 1
        BY <1>3
      <4> HIDE DEF b
      <4> QED
        BY <2>2, <2>4, <4>1 DEF SwapRows
    <3> QED
      BY <2>1, <2>4, <3>1, <3>2
  <2> QED
    BY <2>3, <2>4
<1> HIDE DEF from
<1>6. ASSUME Steps(sc, idx, idx + 2 * half),
             Brings(left, half, sc, idx, Rem(offset, half)),
             Brings(right, half, sc, idx + half, Rem(offset + m1, half)),
             NEW k \in idx .. idx + 2 * half - 1, Selected(sc, k)
      PROVE  from[Rem(offset + (sc[k] - sc[idx]), 2 * half)] = k - idx
  <2>1. CASE k < idx + half
    <3> DEFINE t == sc[k] - sc[idx]
               q == Rem(Rem(offset, half) + t, half)
    <3>1. t \in Nat /\ t < m1
      <4>1. sc[idx] \in Int /\ sc[k] \in Int /\ sc[k] - sc[idx] \in Nat
        <5>1. CASE idx < k
          BY <1>6, <5>1, StepsBound
        <5>2. CASE idx = k
          BY <1>6, <5>2 DEF Steps
        <5> QED
          BY <5>1, <5>2
      <4>2. sc[k] < sc[idx + half] /\ sc[idx + half] \in Int
        <5>1. k \in idx .. idx + 2 * half /\ idx + half \in idx .. idx + 2 * half /\ k < idx + half
          BY <2>1
        <5> QED
          BY <1>6, <5>1, SelectedBelow, StepsBound
      <4> QED
        BY <4>1, <4>2 DEF CountIs
    <3>2. t \in 0 .. half - 1 /\ t < m1
      BY <3>1
    <3>3. k \in idx .. idx + half - 1
      BY <2>1
    <3>4. left[q] = k - idx
      BY <1>6, <3>3 DEF Brings
    <3> HIDE DEF t
    <3>5. /\ q \in 0 .. half - 1
          /\ q \in ex => Rem(offset + t, 2 * half) = q + half
          /\ q \notin ex => Rem(offset + t, 2 * half) = q
      BY <3>2, LeftRow DEF ex
    <3> HIDE DEF q
    <3> QED
      BY <1>5, <3>4, <3>5 DEF t
  <2>2. CASE ~ k < idx + half
    <3> DEFINE t == sc[k] - sc[idx + half]
               q == Rem(Rem(offset + m1, half) + t, half)
    <3>1. sc[idx] \in Int /\ sc[idx + half] \in Int
      <4>1. idx \in idx .. idx + 2 * half /\ idx + half \in idx .. idx + 2 * half /\ idx < idx + half
        OBVIOUS
      <4> QED
        BY <1>6, <4>1, StepsBound
    <3>2. sc[k] \in Int /\ t \in 0 .. half - 1
      <4>1. CASE idx + half = k
        BY <2>2, <3>1, <4>1
      <4>2. CASE idx + half < k
        <5>1. k \in idx .. idx + 2 * half /\ idx + half \in idx .. idx + 2 * half
          BY <2>2
        <5>2. sc[k] \in Int /\ t \in 0 .. k - (idx + half)
          BY <1>6, <4>2, <5>1, StepsBound
        <5> HIDE DEF t
        <5> QED
          BY <5>2
      <4> QED
        BY <2>2, <4>1, <4>2
    <3>3. sc[k] - sc[idx] = m1 + t
      BY <3>1, <3>2 DEF CountIs
    <3>4. k \in idx + half .. idx + half + half - 1
      BY <2>2
    <3>5. right[q] = k - (idx + half)
      BY <1>6, <3>4 DEF Brings
    <3> HIDE DEF t
    <3>6. /\ q \in 0 .. half - 1
          /\ q \in ex => Rem(offset + m1 + t, 2 * half) = q
          /\ q \notin ex => Rem(offset + m1 + t, 2 * half) = q + half
      <4>1. ASSUME NEW u \in 0 .. half - 1, NEW r, r = Rem(Rem(offset + m1, half) + u, half)
            PROVE  /\ r \in 0 .. half - 1
                   /\ r \in ex => Rem(offset + m1 + u, 2 * half) = r
                   /\ r \notin ex => Rem(offset + m1 + u, 2 * half) = r + half
        <5>1. /\ r \in Exchanged(half, offset, m1) => Rem(offset + m1 + u, 2 * half) = r
              /\ r \notin Exchanged(half, offset, m1) => Rem(offset + m1 + u, 2 * half) = r + half
          BY <4>1, RightRow
        <5>2. r \in 0 .. half - 1
          <6>1. offset + m1 \in Nat
            OBVIOUS
          <6>2. Rem(offset + m1, half) \in 0 .. half - 1
            BY <6>1, RemainderBelow
          <6>3. Rem(offset + m1, half) + u \in Nat
            BY <6>2
          <6> QED
            BY <4>1, <6>3, RemainderBelow
        <5> QED
          BY <5>1, <5>2 DEF ex
      <4>2. q = Rem(Rem(offset + m1, half) + t, half)
        OBVIOUS
      <4> HIDE DEF q
      <4> QED
        BY <3>2, <4>1, <4>2
    <3>7. offset + (sc[k] - sc[idx]) = offset + m1 + t
      <4> HIDE DEF q
      <4> QED
        BY <3>2, <3>3
    <3> HIDE DEF q
    <3> QED
      BY <1>5, <3>5, <3>6, <3>7
  <2> QED
    BY <2>1, <2>2
<1> QED
  BY <1>1, <1>4, <1>6 DEF Brings

(* Two rows, exchanged when they are out of order for the offset.          *)
LEMMA PairCorrect ==
  ASSUME NEW sc, NEW idx \in Nat, NEW offset \in {0, 1}, NEW flag \in BOOLEAN,
         OutOfOrder(sc, idx) => (flag <=> offset = 0),
         ~ OutOfOrder(sc, idx) => (flag <=> offset = 1)
  PROVE  /\ Arrangement(SwapTwo(flag), 2)
         /\ Steps(sc, idx, idx + 2) => Brings(SwapTwo(flag), 2, sc, idx, offset)
<1> DEFINE from == SwapTwo(flag)
<1>1. Arrangement(from, 2)
  BY DEF SwapTwo, Arrangement
<1>2. /\ flag => from[0] = 1 /\ from[1] = 0
      /\ ~ flag => from[0] = 0 /\ from[1] = 1
  BY DEF SwapTwo
<1> HIDE DEF from
<1>3. Rem(0, 2) = 0 /\ Rem(1, 2) = 1 /\ Rem(2, 2) = 0
  BY DEF Rem
<1>4. ASSUME Steps(sc, idx, idx + 2), NEW k \in idx .. idx + 2 - 1, Selected(sc, k)
      PROVE  from[Rem(offset + (sc[k] - sc[idx]), 2)] = k - idx
  <2>1. /\ sc[idx] \in Int /\ sc[idx + 1] \in Int /\ sc[idx + 1 + 1] \in Int
        /\ sc[idx + 1] - sc[idx] \in {0, 1} /\ sc[idx + 1 + 1] - sc[idx + 1] \in {0, 1}
    BY <1>4 DEF Steps
  <2> DEFINE place == offset + (sc[k] - sc[idx])
  <2>2. CASE k = idx
    <3>1. place = offset /\ ~ OutOfOrder(sc, idx) /\ k - idx = 0
      BY <1>4, <2>1, <2>2 DEF OutOfOrder
    <3>2. flag <=> offset = 1
      BY <3>1
    <3>3. offset = 0 \/ offset = 1
      OBVIOUS
    <3> HIDE DEF place
    <3> QED
      BY <1>2, <1>3, <3>1, <3>2, <3>3 DEF place
  <2>3. CASE k = idx + 1
    <3>1. CASE Selected(sc, idx)
      <4>1. place = offset + 1 /\ ~ OutOfOrder(sc, idx) /\ k - idx = 1
        BY <2>1, <2>3, <3>1 DEF OutOfOrder, Selected
      <4>2. flag <=> offset = 1
        BY <4>1
      <4>3. offset = 0 \/ offset = 1
        OBVIOUS
      <4> HIDE DEF place
      <4> QED
        BY <1>2, <1>3, <4>1, <4>2, <4>3 DEF place
    <3>2. CASE ~ Selected(sc, idx)
      <4>1. place = offset /\ k - idx = 1
        BY <2>1, <2>3, <3>2 DEF Selected
      <4>2. OutOfOrder(sc, idx)
        BY <1>4, <2>3, <3>2 DEF OutOfOrder
      <4> HIDE DEF place
      <4> QED
        BY <1>2, <1>3, <4>1, <4>2 DEF place
    <3> QED
      BY <3>1, <3>2
  <2> QED
    BY <2>2, <2>3
<1> QED
  BY <1>1, <1>4 DEF Brings, from

(* TightCompact_2power_inner is right for every power of two: the rows are *)
(* rearranged, and if every count is right the selected ones are brought   *)
(* to the offset.  The count after the last row is not needed for the      *)
(* first part.                                                             *)
LEMMA Pow2Correct ==
  ASSUME NEW sc, NEW e \in Nat, NEW idx \in Nat, NEW offset \in 0 .. Pow2[e] - 1,
         Steps(sc, idx, idx + Pow2[e] - 1)
  PROVE  /\ Arrangement(Pow2Inner(sc)[e][idx][offset], Pow2[e])
         /\ Steps(sc, idx, idx + Pow2[e]) => Brings(Pow2Inner(sc)[e][idx][offset], Pow2[e], sc, idx, offset)
<1> DEFINE Right(d, x, o) ==
             Steps(sc, x, x + Pow2[d] - 1) =>
               /\ Arrangement(Pow2Inner(sc)[d][x][o], Pow2[d])
               /\ Steps(sc, x, x + Pow2[d]) => Brings(Pow2Inner(sc)[d][x][o], Pow2[d], sc, x, o)
           T == {d \in Nat : ~ \A x \in Nat : \A o \in 0 .. Pow2[d] - 1 : Right(d, x, o)}
<1>1. T = {}
  <2> SUFFICES ASSUME T # {} PROVE FALSE
    OBVIOUS
  <2>1. PICK d \in T : \A c \in 0 .. d - 1 : c \notin T
    BY LeastNumber
  <2>2. PICK x \in Nat, o \in 0 .. Pow2[d] - 1 : ~ Right(d, x, o)
    BY <2>1
  <2> DEFINE from == Pow2Inner(sc)[d][x][o]
  <2>3. CASE d = 0
    <3>1. Pow2[d] = 1 /\ o = 0
      BY <2>3, Pow2Facts
    <3>2. from = Unmoved(1)
      BY <2>3, <3>1, Pow2InnerDef
    <3> HIDE DEF from
    <3>3. Arrangement(from, 1)
      BY <3>2, UnmovedArrangement
    <3>4. ASSUME Steps(sc, x, x + 1)
          PROVE  Brings(from, 1, sc, x, 0)
      <4>1. sc[x] \in Int /\ sc[x] - sc[x] = 0
        BY <3>4 DEF Steps
      <4>2. Rem(0 + 0, 1) = 0 /\ from[0] = 0
        BY <3>2 DEF Rem, Unmoved
      <4>3. \A k \in x .. x + 1 - 1 : k = x /\ k - x = 0
        OBVIOUS
      <4> QED
        BY <4>1, <4>2, <4>3 DEF Brings
    <3> QED
      BY <2>2, <3>1, <3>3, <3>4 DEF from
  <2>4. CASE d = 1
    <3>1. Pow2[d] = 2 /\ o \in {0, 1}
      <4>1. Pow2[0 + 1] = 2 * Pow2[0] /\ Pow2[0] = 1
        BY Pow2Facts
      <4> QED
        BY <2>4, <4>1
    <3> DEFINE flag == OutOfOrder(sc, x) # (o = 1)
    <3>2. from = SwapTwo(flag)
      <4>1. Pow2Inner(sc)[1] = Pow2Step(Pow2Inner(sc)[0], 1, sc)
        BY Pow2InnerDef
      <4> QED
        BY <2>4, <3>1, <4>1 DEF Pow2Step
    <3> HIDE DEF from
    <3>3. Arrangement(from, 2) /\ (Steps(sc, x, x + 2) => Brings(from, 2, sc, x, o))
      <4>0. OutOfOrder(sc, x) \in BOOLEAN
        BY DEF OutOfOrder, Selected
      <4>1. /\ flag \in BOOLEAN
            /\ OutOfOrder(sc, x) => (flag <=> o = 0)
            /\ ~ OutOfOrder(sc, x) => (flag <=> o = 1)
        BY <3>1, <4>0
      <4> HIDE DEF flag
      <4> QED
        BY <3>1, <3>2, <4>1, PairCorrect
    <3> QED
      BY <2>2, <3>1, <3>3 DEF from
  <2>5. CASE d > 1
    <3>1. PICK half \in Nat \ {0} : half = Pow2[d - 1] /\ Pow2[d] = 2 * half
      <4>1. d - 1 \in Nat /\ (d - 1) + 1 = d
        BY <2>5
      <4>2. Pow2[d - 1] \in Nat /\ Pow2[d - 1] > d - 1 /\ Pow2[d] = 2 * Pow2[d - 1]
        BY <4>1, Pow2Facts
      <4> QED
        BY <4>1, <4>2
    <3> DEFINE inner == Pow2Inner(sc)[d - 1]
    <3>2. from = Pow2Halves(inner, half, sc, x, o)
      <4>1. d \in Nat /\ d # 0 /\ d # 1 /\ o \in Nat
        BY <2>5
      <4>2. Pow2Inner(sc)[d] = Pow2Step(inner, d, sc)
        BY <4>1, Pow2InnerDef
      <4> HIDE DEF inner
      <4> QED
        BY <3>1, <4>1, <4>2 DEF Pow2Step
    <3>3. ASSUME NEW y \in Nat, NEW u \in 0 .. half - 1, Steps(sc, y, y + half - 1)
          PROVE  /\ Arrangement(inner[y][u], half)
                 /\ Steps(sc, y, y + half) => Brings(inner[y][u], half, sc, y, u)
      <4>1. d - 1 \in Nat /\ d - 1 \in 0 .. d - 1 /\ d - 1 \notin T
        BY <2>1, <2>5
      <4>2. u \in 0 .. Pow2[d - 1] - 1
        BY <3>1
      <4>3. Right(d - 1, y, u)
        BY <4>1, <4>2
      <4> QED
        BY <3>1, <3>3, <4>3
    <3> HIDE DEF inner
    <3>4. SUFFICES ASSUME Steps(sc, x, x + 2 * half - 1)
                   PROVE  /\ Arrangement(from, 2 * half)
                          /\ Steps(sc, x, x + 2 * half) => Brings(from, 2 * half, sc, x, o)
      BY <2>2, <3>1
    <3> HIDE DEF from
    <3>5. PICK m1 \in 0 .. half : CountIs(m1, sc, x, half)
      <4>1. x \in x .. x + 2 * half - 1 /\ x + half \in x .. x + 2 * half - 1 /\ x < x + half
        OBVIOUS
      <4>2. sc[x + half] - sc[x] \in 0 .. (x + half) - x
        BY <3>4, <4>1, StepsBound
      <4> QED
        BY <4>2 DEF CountIs
    <3>6. Steps(sc, x, x + half) /\ Steps(sc, x, x + half - 1)
      BY <3>4 DEF Steps
    <3>7. /\ Steps(sc, x + half, x + half + half - 1)
          /\ Steps(sc, x, x + 2 * half) => Steps(sc, x + half, x + half + half)
      BY <3>4 DEF Steps
    <3> DEFINE l == Rem(o, half)
               r == Rem(o + m1, half)
    <3>8. l \in 0 .. half - 1 /\ r \in 0 .. half - 1
      <4>1. o \in Nat /\ o + m1 \in Nat
        BY <3>1
      <4> QED
        BY <4>1, RemainderBelow
    <3> HIDE DEF l, r
    <3>9. Arrangement(inner[x][l], half) /\ Brings(inner[x][l], half, sc, x, l)
      BY <3>3, <3>6, <3>8
    <3>10. /\ Arrangement(inner[x + half][r], half)
           /\ Steps(sc, x, x + 2 * half) => Brings(inner[x + half][r], half, sc, x + half, r)
      <4>1. x + half \in Nat
        OBVIOUS
      <4> QED
        BY <3>3, <3>7, <3>8, <4>1
    <3>11. o \in 0 .. 2 * half - 1
      BY <3>1
    <3> QED
      BY <3>2, <3>5, <3>9, <3>10, <3>11, HalvesCorrect DEF l, r
  <2> QED
    BY <2>3, <2>4, <2>5
<1> QED
  BY <1>1

(* Inner, unfolded once: a left part and a power of two of rows.           *)
LEMMA InnerDef ==
  ASSUME NEW sc
  PROVE  Inner(sc) =
           [n \in Nat |-> IF n < 2 THEN Unmoved(n)
                         ELSE IF n = 2 THEN SwapTwo(OutOfOrder(sc, 0))
                         ELSE InnerParts(Inner(sc)[n - Pow2[Pow2Lt(n)]], n, Pow2[Pow2Lt(n)], sc)]
<1> DEFINE C == [n \in Nat |-> IF n < 2 THEN Unmoved(n) ELSE SwapTwo(OutOfOrder(sc, 0))]
           prev == [n \in Nat |-> n - Pow2[Pow2Lt(n)]]
           pow == [n \in Nat |-> Pow2[Pow2Lt(n)]]
           Body(f) == [n \in Nat |-> IF n < 2 THEN Unmoved(n)
                                    ELSE IF n = 2 THEN SwapTwo(OutOfOrder(sc, 0))
                                    ELSE InnerParts(f[n - Pow2[Pow2Lt(n)]], n, Pow2[Pow2Lt(n)], sc)]
<1>1. \A n \in Nat : n > 2 => prev[n] \in 0 .. n - 1
  <2> SUFFICES ASSUME NEW n \in Nat, n > 2 PROVE n - Pow2[Pow2Lt(n)] \in 0 .. n - 1
    OBVIOUS
  <2> QED
    BY Pow2LtFacts
<1>2. \A f : f = Body(f) <=> IsInner(f, sc, C, prev, pow)
  BY DEF IsInner
<1>3. Inner(sc) = CHOOSE f : f = Body(f)
  BY DEF Inner
<1>4. \E f : IsInner(f, sc, C, prev, pow)
  <2> HIDE DEF C, prev, pow
  <2> QED
    BY <1>1, InnerRecursion
<1>5. Inner(sc) = Body(Inner(sc))
  <2> HIDE DEF Body, C, prev, pow
  <2> QED
    BY <1>2, <1>3, <1>4
<1> QED
  BY <1>5

-----------------------------------------------------------------------------
(* What TightCompact_inner promises: the selected rows, in their order,    *)
(* are the first ones.                                                     *)
Gathers(from, n, sc) ==
  \A k \in 0 .. n - 1 : Selected(sc, k) => from[sc[k] - sc[0]] = k

(* Row q of the power of two gets to place mL + u by the exchange with the *)
(* shorter part, or is there already.                                      *)
Lands(q, power, split, mL, u) ==
  /\ q \in 0 .. power - 1
  /\ mL + u \in mL .. split - 1 => split + q = mL + u + power
  /\ mL + u \notin mL .. split - 1 => split + q = mL + u

(* So does the u-th selected row of the power of two.                      *)
LEMMA PartsRow ==
  ASSUME NEW power \in Nat \ {0}, NEW split \in 0 .. power, NEW mL \in 0 .. split, NEW u \in 0 .. power - 1,
         NEW q, q = Rem(Rem(power - split + mL, power) + u, power)
  PROVE  Lands(q, power, split, mL, u)
<1> DEFINE o == Rem(power - split + mL, power)
<1>1. o = IF mL = split THEN 0 ELSE power - split + mL
  <2>1. PICK x \in Nat : x = power - split + mL
    OBVIOUS
  <2>0. x < 2 * power
    BY <2>1
  <2>2. Rem(x, power) = IF x < power THEN x ELSE x - power
    BY <2>0, SmallRemainder, Zenon
  <2> QED
    BY <2>1, <2>2
<1>2. q = IF o + u < power THEN o + u ELSE o + u - power
  <2>0. o \in 0 .. power - 1
    BY <1>1
  <2> HIDE DEF o
  <2>1. PICK x \in Nat : x = o + u /\ x < 2 * power
    BY <2>0
  <2>2. Rem(x, power) = IF x < power THEN x ELSE x - power
    BY <2>1, SmallRemainder, Zenon
  <2>3. q = Rem(x, power)
    BY <2>1 DEF o
  <2> QED
    BY <2>0, <2>1, <2>2, <2>3
<1> HIDE DEF o
<1> QED
  BY <1>1, <1>2 DEF Lands

(* One level of TightCompact_inner: a shorter part, then a power of two.   *)
LEMMA PartsCorrect ==
  ASSUME NEW sc, NEW n \in Nat, n > 2, Steps(sc, 0, n - 1),
         NEW power, power = Pow2[Pow2Lt(n)],
         NEW left, Arrangement(left, n - power)
  PROVE  /\ Arrangement(InnerParts(left, n, power, sc), n)
         /\ Steps(sc, 0, n) /\ Gathers(left, n - power, sc) => Gathers(InnerParts(left, n, power, sc), n, sc)
<1>1. PICK e \in Nat : e = Pow2Lt(n) /\ power = Pow2[e]
  BY Pow2LtFacts
<1>2. power \in Nat \ {0} /\ power < n /\ n <= 2 * power
  BY Pow2LtFacts
<1>3. PICK split \in Nat : split = n - power /\ split \in 1 .. power /\ split \in 0 .. n - 1 /\ split + power = n
  BY <1>2
<1>4. PICK mL \in 0 .. split : CountIs(mL, sc, 0, split)
  <2>1. 0 \in 0 .. n - 1 /\ split \in 0 .. n - 1 /\ 0 < split /\ n - 1 \in Int
    BY <1>3
  <2>2. sc[split] - sc[0] \in 0 .. split - 0
    BY <2>1, StepsBound
  <2> QED
    BY <1>3, <2>2 DEF CountIs
<1> DEFINE o == Rem(power - split + mL, power)
           right == Pow2Inner(sc)[e][split][o]
           b == Beside(left, split, right, power)
           from == SwapRows(b, power, mL .. split - 1)
<1>5. InnerParts(left, n, power, sc) = from
  BY <1>1, <1>3, <1>4 DEF InnerParts, CountIs, Rem
<1>6. o \in 0 .. power - 1
  <2>1. power - split + mL \in Nat
    BY <1>2, <1>3
  <2> QED
    BY <1>2, <2>1, RemainderBelow
<1>7. /\ Arrangement(right, power)
      /\ Steps(sc, 0, n) => Brings(right, power, sc, split, o)
  <2>1. Steps(sc, split, split + power - 1) /\ (Steps(sc, 0, n) => Steps(sc, split, split + power))
    BY <1>2, <1>3 DEF Steps
  <2> HIDE DEF o
  <2>2. e \in Nat /\ split \in Nat /\ o \in 0 .. Pow2[e] - 1 /\ Steps(sc, split, split + Pow2[e] - 1)
    BY <1>1, <1>3, <1>6, <2>1
  <2>3. /\ Arrangement(right, Pow2[e])
        /\ Steps(sc, split, split + Pow2[e]) => Brings(right, Pow2[e], sc, split, o)
    BY <2>2, Pow2Correct
  <2> HIDE DEF right
  <2> QED
    BY <1>1, <2>1, <2>3
<1> HIDE DEF o, right
<1>8. Arrangement(b, n)
  BY <1>2, <1>3, <1>7, BesideArrangement
<1>9. DOMAIN b = 0 .. n - 1
  BY <1>8 DEF Arrangement
<1>10. /\ \A p \in 0 .. split - 1 : b[p] = left[p]
       /\ \A p \in 0 .. power - 1 : b[split + p] = split + right[p]
  <2>1. ASSUME NEW p \in 0 .. split - 1 PROVE b[p] = left[p]
    <3>1. p \in 0 .. split + power - 1 /\ p < split
      BY <1>2, <1>3
    <3> QED
      BY <3>1 DEF Beside
  <2>2. ASSUME NEW p \in 0 .. power - 1 PROVE b[split + p] = split + right[p]
    <3>1. split + p \in 0 .. split + power - 1 /\ ~ split + p < split /\ (split + p) - split = p
      BY <1>2, <1>3
    <3> QED
      BY <3>1 DEF Beside
  <2> QED
    BY <2>1, <2>2
<1> HIDE DEF b
<1>11. Arrangement(from, n)
  <2>1. mL .. split - 1 \in SUBSET (0 .. power - 1) /\ \A p \in mL .. split - 1 : p + power < n
    BY <1>2, <1>3
  <2> QED
    BY <1>2, <1>8, <2>1, SwapArrangement
<1>12. ASSUME NEW p \in 0 .. n - 1
       PROVE  /\ p \in mL .. split - 1 => from[p] = b[p + power]
              /\ p \notin mL .. split - 1 /\ p - power \notin mL .. split - 1 => from[p] = b[p]
  <2> DEFINE swapped == mL .. split - 1
  <2> HIDE DEF swapped
  <2>1. from = SwapRows(b, power, swapped)
    BY DEF swapped
  <2> HIDE DEF from
  <2>2. /\ p \in swapped => from[p] = b[p + power]
        /\ p \notin swapped /\ p - power \notin swapped => from[p] = b[p]
    <3>1. p \in DOMAIN b
      BY <1>9
    <3>2. from[p] = CASE p \in swapped -> b[p + power]
                      [] p - power \in swapped -> b[p - power]
                      [] OTHER -> b[p]
      BY <2>1, <3>1 DEF SwapRows
    <3>3. ~ (p \in swapped /\ p - power \in swapped)
      BY <1>2, <1>3 DEF swapped
    <3> QED
      BY <3>2, <3>3
  <2> QED
    BY <2>2 DEF swapped
<1> HIDE DEF from
<1>13. ASSUME Steps(sc, 0, n), Gathers(left, n - power, sc), NEW k \in 0 .. n - 1, Selected(sc, k)
       PROVE  from[sc[k] - sc[0]] = k
  <2>0. sc[0] \in Int /\ sc[split] \in Int /\ sc[k] \in Int /\ sc[split] = sc[0] + mL
    <3>1. 0 \in 0 .. n - 1 /\ split \in 0 .. n - 1
      BY <1>3
    <3>2. sc[0] \in Int /\ sc[split] \in Int /\ sc[k] \in Int
      BY <1>13, <3>1 DEF Steps
    <3> QED
      BY <1>4, <1>3, <3>2 DEF CountIs
  <2>1. CASE k < split
    <3> DEFINE t == sc[k] - sc[0]
    <3>1. t \in Nat
      <4>1. CASE k = 0
        BY <2>0, <4>1
      <4>2. CASE 0 < k
        <5>1. 0 \in 0 .. n /\ k \in 0 .. n /\ n \in Int
          OBVIOUS
        <5> QED
          BY <1>13, <4>2, <5>1, StepsBound
      <4> QED
        BY <4>1, <4>2
    <3>2. sc[k] < sc[split]
      <4>1. split \in 0 .. n /\ k \in 0 .. n /\ n \in Int
        BY <1>3
      <4> QED
        BY <1>13, <2>1, <4>1, SelectedBelow
    <3>3. t < mL
      BY <2>0, <3>2
    <3>4. left[t] = k
      <4>1. k \in 0 .. (n - power) - 1
        BY <1>2, <1>3, <2>1
      <4> QED
        BY <1>13, <4>1 DEF Gathers
    <3> HIDE DEF t
    <3>5. t \in 0 .. split - 1 /\ t \in 0 .. n - 1 /\ t \notin mL .. split - 1 /\ t - power \notin mL .. split - 1
      BY <1>2, <1>3, <3>1, <3>3
    <3>6. from[t] = k
      BY <1>10, <1>12, <3>4, <3>5
    <3> QED
      BY <3>6 DEF t
  <2>2. CASE ~ k < split
    <3> DEFINE u == sc[k] - sc[split]
               q == Rem(o + u, power)
    <3>1. u \in 0 .. power - 1
      <4>1. CASE split = k
        BY <1>2, <2>0, <4>1
      <4>2. CASE split < k
        <5>1. split \in 0 .. n /\ k \in 0 .. n /\ n \in Int
          BY <1>3
        <5>2. u \in 0 .. k - split
          BY <1>13, <4>2, <5>1, StepsBound
        <5>3. k - split <= power - 1
          BY <1>2, <1>3
        <5> HIDE DEF u
        <5> QED
          BY <1>2, <1>3, <5>2, <5>3
      <4> QED
        BY <1>3, <2>2, <4>1, <4>2
    <3>2. sc[k] - sc[0] = mL + u
      BY <2>0
    <3>3. right[q] = k - split
      <4>1. k \in split .. split + power - 1
        BY <1>2, <1>3, <2>2
      <4> QED
        BY <1>7, <1>13, <4>1 DEF Brings
    <3> HIDE DEF u
    <3>4. Lands(q, power, split, mL, u)
      <4>1. split \in 0 .. power
        BY <1>3
      <4>2. q = Rem(Rem(power - split + mL, power) + u, power)
        BY DEF o
      <4>3. power \in Nat \ {0}
        BY <1>2
      <4> HIDE DEF q
      <4> QED
        BY <3>1, <4>1, <4>2, <4>3, PartsRow
    <3> HIDE DEF q
    <3>5. b[split + q] = k
      <4>1. b[split + q] = split + right[q]
        BY <1>10, <3>4 DEF Lands
      <4> QED
        BY <1>3, <3>3, <4>1
    <3>6. mL + u \in 0 .. n - 1 /\ (mL + u) - power \notin mL .. split - 1
      BY <1>2, <1>3, <3>1
    <3>7. from[mL + u] = k
      BY <1>12, <3>4, <3>5, <3>6 DEF Lands
    <3> QED
      BY <3>2, <3>7
  <2> QED
    BY <2>1, <2>2
<1> QED
  BY <1>5, <1>11, <1>13 DEF Gathers

(* TightCompact_inner is right for every number of rows.                   *)
LEMMA InnerCorrect ==
  ASSUME NEW sc, NEW n \in Nat, Steps(sc, 0, n - 1)
  PROVE  /\ Arrangement(Inner(sc)[n], n)
         /\ Steps(sc, 0, n) => Gathers(Inner(sc)[n], n, sc)
<1> DEFINE Right(m) == Steps(sc, 0, m - 1) => /\ Arrangement(Inner(sc)[m], m)
                                              /\ Steps(sc, 0, m) => Gathers(Inner(sc)[m], m, sc)
           T == {m \in Nat : ~ Right(m)}
<1>1. T = {}
  <2> SUFFICES ASSUME T # {} PROVE FALSE
    OBVIOUS
  <2>1. PICK m \in T : \A l \in 0 .. m - 1 : l \notin T
    BY LeastNumber
  <2>2. Steps(sc, 0, m - 1) /\ m \in Nat /\ ~ Right(m)
    BY <2>1
  <2> DEFINE from == Inner(sc)[m]
  <2>3. CASE m < 2
    <3>1. from = Unmoved(m)
      BY <2>2, <2>3, InnerDef
    <3> HIDE DEF from
    <3>2. Arrangement(from, m)
      BY <2>2, <3>1, UnmovedArrangement
    <3>3. ASSUME Steps(sc, 0, m), NEW k \in 0 .. m - 1
          PROVE  from[sc[k] - sc[0]] = k
      <4>1. k = 0 /\ m = 1
        BY <2>3
      <4>2. sc[0] \in Int
        BY <3>3, <4>1 DEF Steps
      <4> QED
        BY <3>1, <4>1, <4>2 DEF Unmoved
    <3> QED
      BY <2>2, <3>2, <3>3 DEF Gathers, from
  <2>4. CASE m = 2
    <3>1. from = SwapTwo(OutOfOrder(sc, 0))
      BY <2>2, <2>4, InnerDef
    <3> HIDE DEF from
    <3>2. OutOfOrder(sc, 0) \in BOOLEAN
      BY DEF OutOfOrder, Selected
    <3>3. Arrangement(from, 2) /\ (Steps(sc, 0, 2) => Brings(from, 2, sc, 0, 0))
      <4>1. 0 \in Nat /\ 0 \in {0, 1} /\ 0 + 2 = 2
        OBVIOUS
      <4>2. /\ OutOfOrder(sc, 0) => (OutOfOrder(sc, 0) <=> 0 = 0)
            /\ ~ OutOfOrder(sc, 0) => (OutOfOrder(sc, 0) <=> 0 = 1)
        OBVIOUS
      <4>3. Steps(sc, 0, 2) <=> Steps(sc, 0, 0 + 2)
        BY <4>1
      <4> QED
        BY <3>1, <3>2, <4>1, <4>2, <4>3, PairCorrect
    <3>4. ASSUME Steps(sc, 0, 2), NEW k \in 0 .. 1, Selected(sc, k)
          PROVE  from[sc[k] - sc[0]] = k
      <4>1. from[Rem(0 + (sc[k] - sc[0]), 2)] = k
        BY <3>3, <3>4 DEF Brings
      <4>2. sc[0] \in Int /\ sc[1] \in Int /\ sc[0 + 1] - sc[0] \in {0, 1}
        BY <3>4 DEF Steps
      <4>3. sc[k] - sc[0] = 0 \/ sc[k] - sc[0] = 1
        BY <4>2
      <4>4. Rem(0, 2) = 0 /\ Rem(1, 2) = 1
        BY DEF Rem
      <4> QED
        BY <4>1, <4>3, <4>4
    <3> QED
      BY <2>2, <2>4, <3>3, <3>4 DEF Gathers, from
  <2>5. CASE m > 2
    <3> DEFINE power == Pow2[Pow2Lt(m)]
               left == Inner(sc)[m - power]
    <3>1. power \in Nat \ {0} /\ power < m
      BY <2>2, <2>5, Pow2LtFacts
    <3>2. from = InnerParts(left, m, power, sc)
      <4>1. ~ m < 2 /\ m # 2
        BY <2>2, <2>5
      <4> QED
        BY <2>2, <4>1, InnerDef
    <3> HIDE DEF from
    <3>3. m - power \in Nat /\ m - power \notin T
      <4> HIDE DEF power, T
      <4> QED
        BY <2>1, <2>2, <3>1
    <3>4. Steps(sc, 0, m - power - 1) /\ (Steps(sc, 0, m) => Steps(sc, 0, m - power))
      <4> HIDE DEF power
      <4> QED
        BY <2>2, <3>1 DEF Steps
    <3>5. Right(m - power)
      BY <3>3
    <3>6. Arrangement(left, m - power) /\ (Steps(sc, 0, m) => Gathers(left, m - power, sc))
      BY <3>4, <3>5
    <3>7. /\ Arrangement(InnerParts(left, m, power, sc), m)
          /\ Steps(sc, 0, m) /\ Gathers(left, m - power, sc) => Gathers(InnerParts(left, m, power, sc), m, sc)
      <4> HIDE DEF left
      <4> QED
        BY <2>2, <2>5, <3>6, PartsCorrect
    <3> QED
      BY <2>2, <3>2, <3>6, <3>7 DEF from
  <2> QED
    BY <2>2, <2>3, <2>4, <2>5
<1> QED
  BY <1>1

(* Min of the two sizes a resize chooses from.                             *)
LEMMA MinOfTwo ==
  ASSUME NEW m \in Int, NEW n \in Int
  PROVE  /\ Min({m, n}) \in {m, n}
         /\ Min({m, n}) <= m /\ Min({m, n}) <= n
<1>1. \E x \in {m, n} : \A y \in {m, n} : x <= y
  OBVIOUS
<1> QED
  BY <1>1 DEF Min

(* The first n rows of an arrangement of an array.                         *)
FirstRows(a, from, n) == [k \in 0 .. n - 1 |-> a[from[k]]]

(* ORCompact, whatever array it is given and however many rows are kept:   *)
(* what is kept are rows of the array, each at most once (the entry of     *)
(* selected_count after the last row does not matter for that).            *)
THEOREM CompactedAreRows ==
  ASSUME NEW a, NEW size \in Nat, NEW sc, NEW noisyOutputSize \in Nat, Steps(sc, 0, size - 1)
  PROVE  \E from : /\ Arrangement(from, size)
                   /\ ORCompact(a, size, sc, noisyOutputSize) =
                        FirstRows(a, from, Min({size, noisyOutputSize}))
BY InnerCorrect DEF ORCompact, FirstRows

(* If every count is right, a selected row is kept at the place its count  *)
(* says, as far as that is not past the rows that are kept.                *)
THEOREM SelectedRowsFirst ==
  ASSUME NEW a, NEW size \in Nat, NEW sc, NEW noisyOutputSize \in Nat, Steps(sc, 0, size),
         NEW k \in 0 .. size - 1, Selected(sc, k), sc[k] - sc[0] < noisyOutputSize
  PROVE  ORCompact(a, size, sc, noisyOutputSize)[sc[k] - sc[0]] = a[k]
<1> DEFINE t == sc[k] - sc[0]
           n == Min({size, noisyOutputSize})
<1>1. Steps(sc, 0, size - 1)
  BY DEF Steps
<1>2. Inner(sc)[size][t] = k
  BY <1>1, InnerCorrect DEF Gathers
<1>3. t \in Nat /\ t < size
  <2>1. sc[0] \in Int /\ sc[k] \in Int
    BY DEF Steps
  <2>2. CASE k = 0
    BY <2>1, <2>2
  <2>3. CASE 0 < k
    <3>1. 0 \in 0 .. size /\ k \in 0 .. size /\ size \in Int
      OBVIOUS
    <3>2. t \in 0 .. k - 0
      BY <2>3, <3>1, StepsBound
    <3> HIDE DEF t
    <3> QED
      BY <3>2
  <2> QED
    BY <2>2, <2>3
<1>4. t < noisyOutputSize
  OBVIOUS
<1> HIDE DEF t
<1>5. t \in 0 .. n - 1
  <2>1. n = size \/ n = noisyOutputSize
    <3>1. size \in Int /\ noisyOutputSize \in Int
      OBVIOUS
    <3>2. n \in {size, noisyOutputSize}
      BY <3>1, MinOfTwo, Zenon
    <3> QED
      BY <3>2
  <2> HIDE DEF n
  <2> QED
    BY <1>3, <1>4, <2>1
<1> HIDE DEF n
<1>6. ORCompact(a, size, sc, noisyOutputSize) = [l \in 0 .. n - 1 |-> a[Inner(sc)[size][l]]]
  BY DEF ORCompact, n
<1>7. ORCompact(a, size, sc, noisyOutputSize)[t] = a[k]
  BY <1>2, <1>5, <1>6
<1> QED
  BY <1>7 DEF t

-----------------------------------------------------------------------------
(* The sorting network.  Values of X given by a first one and a function   *)
(* from each to the next.                                                  *)
HasValues(X, C, S) ==
  \E f \in [Nat -> X] : \A n \in Nat : f[n] = IF n = 0 THEN C ELSE S[n][f[n - 1]]

(* A recursive function whose step maps X to X has its values in X.        *)
LEMMA TypedRecursion ==
  ASSUME NEW X, NEW C \in X, NEW S \in [Nat -> [X -> X]]
  PROVE  HasValues(X, C, S)
<1> DEFINE Upto(g, n) == g \in [0 .. n -> X] /\ \A m \in 0 .. n : g[m] = IF m = 0 THEN C ELSE S[m][g[m - 1]]
           F == [n \in Nat |-> (CHOOSE g : Upto(g, n))[n]]
<1>1. ASSUME NEW n \in Nat PROVE \E g : Upto(g, n)
  <2> DEFINE T == {k \in Nat : ~ \E g : Upto(g, k)}
  <2> SUFFICES ASSUME T # {} PROVE FALSE
    OBVIOUS
  <2>1. PICK k \in T : \A m \in 0 .. k - 1 : m \notin T
    BY LeastNumber
  <2>2. CASE k = 0
    <3>1. Upto([m \in 0 .. 0 |-> C], 0)
      OBVIOUS
    <3> QED
      BY <2>2, <3>1
  <2>3. CASE k # 0
    <3>0. k - 1 \in Nat /\ k - 1 \in 0 .. k - 1 /\ k \in Nat
      BY <2>3
    <3>1. PICK g : Upto(g, k - 1)
      BY <2>1, <3>0
    <3> DEFINE h == [m \in 0 .. k |-> IF m < k THEN g[m] ELSE S[k][g[k - 1]]]
    <3>2. S[k][g[k - 1]] \in X
      BY <3>0, <3>1
    <3>3. h \in [0 .. k -> X]
      BY <3>0, <3>1, <3>2
    <3>4. ASSUME NEW m \in 0 .. k PROVE h[m] = IF m = 0 THEN C ELSE S[m][h[m - 1]]
      <4>1. CASE m < k
        BY <3>0, <3>1, <4>1
      <4>2. CASE m = k
        BY <2>3, <3>0, <3>1, <4>2
      <4> QED
        BY <4>1, <4>2
    <3>5. Upto(h, k)
      <4> HIDE DEF h
      <4> QED
        BY <3>3, <3>4
    <3> QED
      BY <3>5
  <2> QED
    BY <2>2, <2>3
<1>2. ASSUME NEW n \in Nat, NEW k \in Nat, NEW g, NEW h, Upto(g, n), Upto(h, k), NEW m \in Nat, m <= n, m <= k
      PROVE  g[m] = h[m]
  <2> DEFINE T == {l \in Nat : l <= n /\ l <= k /\ g[l] # h[l]}
  <2> SUFFICES ASSUME T # {} PROVE FALSE
    BY <1>2
  <2>1. PICK l \in T : \A o \in 0 .. l - 1 : o \notin T
    BY LeastNumber
  <2>2. l = 0 \/ g[l - 1] = h[l - 1]
    BY <2>1
  <2> QED
    BY <1>2, <2>2
<1>3. ASSUME NEW n \in Nat PROVE F[n] \in X /\ F[n] = IF n = 0 THEN C ELSE S[n][F[n - 1]]
  <2> DEFINE g == CHOOSE g : Upto(g, n)
             h == CHOOSE h : Upto(h, n - 1)
  <2>1. Upto(g, n)
    BY <1>1
  <2>2. CASE n # 0
    <3>0. n - 1 \in Nat /\ n - 1 <= n
      BY <2>2
    <3>1. Upto(h, n - 1)
      BY <1>1, <3>0
    <3>2. g[n - 1] = h[n - 1]
      <4> HIDE DEF g, h, Upto
      <4> QED
        BY <1>2, <2>1, <3>0, <3>1
    <3>3. g[n] \in X /\ g[n] = S[n][g[n - 1]]
      <4> HIDE DEF g
      <4> QED
        BY <2>1, <2>2
    <3>4. F[n] = g[n] /\ F[n - 1] = h[n - 1]
      BY <3>0
    <3> HIDE DEF F, g, h
    <3> QED
      BY <2>2, <3>2, <3>3, <3>4
  <2>3. CASE n = 0
    <3>1. g[n] = C
      <4> HIDE DEF g
      <4> QED
        BY <2>1, <2>3
    <3>2. F[n] = g[n]
      OBVIOUS
    <3> HIDE DEF F, g
    <3> QED
      BY <2>3, <3>1, <3>2
  <2> QED
    BY <2>2, <2>3
<1>4. F = [n \in Nat |-> F[n]]
  OBVIOUS
<1> HIDE DEF F
<1>5. F \in [Nat -> X]
  BY <1>3, <1>4
<1> QED
  BY <1>3, <1>5 DEF HasValues

Nets == Seq(Nat \X Nat)

(* Place t of those that are r apart, by a name that hides the product.    *)
At(lo, r, t) == lo + t * r

(* The indices that a call of oddeven_merge works on, and those of its     *)
(* calls.                                                                  *)
LEMMA AtFacts ==
  ASSUME NEW lo \in Nat, NEW r \in Nat, NEW t \in Nat
  PROVE  /\ At(lo, r, t) \in Nat
         /\ At(lo, 2 * r, t) = At(lo, r, 2 * t)
         /\ At(lo + r, 2 * r, t) = At(lo, r, 2 * t + 1)
         /\ At(lo, r, 0) = lo /\ At(lo, r, 1) = lo + r
         /\ At(lo, 1, t) = lo + t
<1>1. t * r \in Nat
  OBVIOUS
<1>2. t * (2 * r) = (2 * t) * r /\ (2 * t + 1) * r = t * (2 * r) + r
  OBVIOUS
<1> QED
  BY <1>1, <1>2 DEF At

(* The even ones and the odd ones are twice as far apart.                  *)
Halves(lo, r, t) ==
  At(lo, 2 * r, t) = At(lo, r, 2 * t) /\ At(lo + r, 2 * r, t) = At(lo, r, 2 * t + 1)

(* An index is among the even ones or the odd ones, at half its place.     *)
LEMMA AtHalves ==
  ASSUME NEW lo \in Nat, NEW r \in Nat, NEW t \in Nat
  PROVE  Halves(lo, r, t)
BY AtFacts DEF Halves

(* Different places have different names.                                  *)
LEMMA AtInjective ==
  ASSUME NEW lo \in Nat, NEW r \in Nat \ {0}, NEW s \in Nat, NEW t \in Nat, At(lo, r, s) = At(lo, r, t)
  PROVE  s = t
<1>1. (s - t) * r = 0
  BY DEF At
<1> QED
  BY <1>1

(* Neighbours are exchanged from the second place on.                      *)
Neighbours(lo, r, n) == [k \in 1 .. n - 1 |-> <<lo + (2 * k - 1) * r, lo + 2 * k * r>>]

(* The last exchanges of oddeven_merge: those of neighbours.               *)
LEMMA NeighboursNet ==
  ASSUME NEW lo \in Nat, NEW r \in Nat, NEW n \in Nat \ {0}
  PROVE  /\ Neighbours(lo, r, n) \in Nets /\ Len(Neighbours(lo, r, n)) = n - 1
         /\ \A k \in 1 .. n - 1 : Neighbours(lo, r, n)[k] = <<At(lo, r, 2 * k - 1), At(lo, r, 2 * k)>>
<1>1. ASSUME NEW k \in 1 .. n - 1
      PROVE  /\ Neighbours(lo, r, n)[k] = <<At(lo, r, 2 * k - 1), At(lo, r, 2 * k)>>
             /\ Neighbours(lo, r, n)[k] \in Nat \X Nat
  <2>1. Neighbours(lo, r, n)[k] = <<At(lo, r, 2 * k - 1), At(lo, r, 2 * k)>>
    BY DEF Neighbours, At
  <2>2. 2 * k - 1 \in Nat /\ 2 * k \in Nat
    OBVIOUS
  <2>3. At(lo, r, 2 * k - 1) \in Nat /\ At(lo, r, 2 * k) \in Nat
    BY <2>2, AtFacts
  <2> QED
    BY <2>1, <2>3
<1>2. n - 1 \in Nat /\ Neighbours(lo, r, n) = [k \in 1 .. n - 1 |-> Neighbours(lo, r, n)[k]]
  BY DEF Neighbours
<1>3. Neighbours(lo, r, n) \in [1 .. n - 1 -> Nat \X Nat]
  BY <1>1, <1>2
<1>4. Neighbours(lo, r, n) \in Nets /\ Len(Neighbours(lo, r, n)) = n - 1
  BY <1>2, <1>3 DEF Nets
<1> QED
  BY <1>1, <1>4

(* The exchanges of oddeven_merge, and that it is well defined.            *)
LEMMA MergeNet ==
  /\ \A e \in Nat, lo \in Nat, r \in Nat : OddEvenMerge[e][lo][r] \in Nets
  /\ \A lo \in Nat, r \in Nat : OddEvenMerge[1][lo][r] = << <<lo, lo + r>> >>
  /\ \A e \in Nat, lo \in Nat, r \in Nat : e > 1 =>
       OddEvenMerge[e][lo][r] =
         OddEvenMerge[e - 1][lo][2 * r] \o OddEvenMerge[e - 1][lo + r][2 * r] \o Neighbours(lo, r, Pow2[e - 1])
<1> DEFINE X == [Nat -> [Nat -> Nets]]
           C == [lo \in Nat |-> [r \in Nat |-> <<>>]]
           S == [n \in Nat |-> [p \in X |-> IF n = 0 THEN C ELSE MergeStep(p, n)]]
<1>1. C \in X
  BY DEF Nets
<1>2. ASSUME NEW n \in Nat \ {0}, NEW p \in X PROVE MergeStep(p, n) \in X
  <2>1. ASSUME NEW lo \in Nat, NEW r \in Nat PROVE MergeStep(p, n)[lo][r] \in Nets
    <3>1. CASE n = 1
      <4>1. MergeStep(p, n)[lo][r] = << <<lo, lo + r>> >>
        BY <3>1 DEF MergeStep
      <4>2. <<lo, lo + r>> \in Nat \X Nat
        OBVIOUS
      <4>3. \A c \in Nat \X Nat : <<c>> \in Seq(Nat \X Nat)
        OBVIOUS
      <4> QED
        BY <4>1, <4>2, <4>3 DEF Nets
    <3>2. CASE n # 1
      <4>1. n - 1 \in Nat
        OBVIOUS
      <4>2. Pow2[n - 1] \in Nat \ {0}
        BY <4>1, Pow2Facts
      <4>3. Neighbours(lo, r, Pow2[n - 1]) \in Nets
        BY <4>2, NeighboursNet
      <4>4. p[lo][2 * r] \in Nets /\ p[lo + r][2 * r] \in Nets
        OBVIOUS
      <4>5. MergeStep(p, n)[lo][r] = p[lo][2 * r] \o p[lo + r][2 * r] \o Neighbours(lo, r, Pow2[n - 1])
        BY <3>2 DEF MergeStep, Neighbours
      <4> QED
        BY <4>3, <4>4, <4>5 DEF Nets
    <3> QED
      BY <3>1, <3>2
  <2>2. MergeStep(p, n) = [lo \in Nat |-> [r \in Nat |-> MergeStep(p, n)[lo][r]]]
    BY DEF MergeStep
  <2> QED
    BY <2>1, <2>2
<1>3. S \in [Nat -> [X -> X]]
  BY <1>1, <1>2
<1>4. PICK f \in [Nat -> X] : \A n \in Nat : f[n] = IF n = 0 THEN C ELSE S[n][f[n - 1]]
  <2> HIDE DEF X, C, S
  <2> QED
    BY <1>1, <1>3, TypedRecursion DEF HasValues
<1>5. f = [n \in Nat |-> IF n = 0 THEN C ELSE MergeStep(f[n - 1], n)]
  <2>1. ASSUME NEW n \in Nat PROVE f[n] = IF n = 0 THEN C ELSE MergeStep(f[n - 1], n)
    <3>1. CASE n = 0
      BY <1>4, <3>1
    <3>2. CASE n # 0
      <4>1. n - 1 \in Nat
        BY <3>2
      <4>2. PICK p \in X : p = f[n - 1]
        BY <4>1
      <4>3. f[n] = S[n][p]
        BY <1>4, <3>2, <4>2
      <4> HIDE DEF X, C
      <4> QED
        BY <3>2, <4>2, <4>3
    <3> QED
      BY <3>1, <3>2
  <2> HIDE DEF C
  <2> QED
    BY <1>4, <2>1
<1>6. OddEvenMerge = [n \in Nat |-> IF n = 0 THEN C ELSE MergeStep(OddEvenMerge[n - 1], n)]
  BY <1>5 DEF OddEvenMerge
<1> DEFINE T == {n \in Nat : OddEvenMerge[n] \notin X}
<1>7. T = {}
  <2> SUFFICES ASSUME T # {} PROVE FALSE
    OBVIOUS
  <2>1. PICK n \in T : \A m \in 0 .. n - 1 : m \notin T
    BY LeastNumber
  <2> HIDE DEF X, C
  <2>2. CASE n = 0
    BY <1>1, <1>6, <2>1, <2>2
  <2>3. CASE n # 0
    <3>1. n - 1 \in Nat /\ n - 1 \in 0 .. n - 1 /\ n \in Nat \ {0}
      BY <2>3
    <3>2. OddEvenMerge[n - 1] \in X
      BY <2>1, <3>1
    <3> QED
      BY <1>2, <1>6, <2>1, <3>1, <3>2
  <2> QED
    BY <2>2, <2>3
<1>8. ASSUME NEW e \in Nat, NEW lo \in Nat, NEW r \in Nat
      PROVE  OddEvenMerge[e][lo][r] \in Nets
  <2>1. PICK p \in X : p = OddEvenMerge[e]
    BY <1>7
  <2> QED
    BY <2>1
<1> HIDE DEF X, C
<1>9. \A lo \in Nat, r \in Nat : OddEvenMerge[1][lo][r] = << <<lo, lo + r>> >>
  BY <1>6 DEF MergeStep
<1>10. ASSUME NEW e \in Nat, NEW lo \in Nat, NEW r \in Nat, e > 1
       PROVE  OddEvenMerge[e][lo][r] =
                OddEvenMerge[e - 1][lo][2 * r] \o OddEvenMerge[e - 1][lo + r][2 * r] \o Neighbours(lo, r, Pow2[e - 1])
  <2>1. OddEvenMerge[e] = MergeStep(OddEvenMerge[e - 1], e)
    BY <1>6, <1>10
  <2> QED
    <3> DEFINE p == OddEvenMerge[e - 1]
    <3>1. e # 1
      BY <1>10
    <3> HIDE DEF p
    <3>2. MergeStep(p, e)[lo][r] = p[lo][2 * r] \o p[lo + r][2 * r] \o Neighbours(lo, r, Pow2[e - 1])
      BY <3>1 DEF MergeStep, Neighbours
    <3> QED
      BY <2>1, <3>2 DEF p
<1> QED
  BY <1>8, <1>9, <1>10

(* Those of oddeven_merge_sort_range.                                      *)
LEMMA SortNet ==
  /\ \A e \in Nat, lo \in Nat : OddEvenMergeSort[e][lo] \in Nets
  /\ \A lo \in Nat : OddEvenMergeSort[0][lo] = <<>>
  /\ \A e \in Nat, lo \in Nat : e > 0 =>
       OddEvenMergeSort[e][lo] =
         OddEvenMergeSort[e - 1][lo] \o OddEvenMergeSort[e - 1][lo + Pow2[e - 1]] \o OddEvenMerge[e][lo][1]
<1> DEFINE X == [Nat -> Nets]
           C == [lo \in Nat |-> <<>>]
           S == [n \in Nat |-> [p \in X |-> IF n = 0 THEN C ELSE SortStep(p, n)]]
<1>1. C \in X
  BY DEF Nets
<1>2. ASSUME NEW n \in Nat \ {0}, NEW p \in X PROVE SortStep(p, n) \in X
  <2>1. ASSUME NEW lo \in Nat PROVE SortStep(p, n)[lo] \in Nets
    <3>1. n - 1 \in Nat
      OBVIOUS
    <3>2. Pow2[n - 1] \in Nat
      BY <3>1, Pow2Facts
    <3>3. OddEvenMerge[n][lo][1] \in Nets /\ p[lo] \in Nets /\ p[lo + Pow2[n - 1]] \in Nets
      <4>1. n \in Nat /\ 1 \in Nat /\ lo + Pow2[n - 1] \in Nat
        BY <3>2
      <4>2. OddEvenMerge[n][lo][1] \in Nets
        BY <4>1, MergeNet
      <4> QED
        BY <4>1, <4>2
    <3>4. SortStep(p, n)[lo] = p[lo] \o p[lo + Pow2[n - 1]] \o OddEvenMerge[n][lo][1]
      BY DEF SortStep
    <3> QED
      BY <3>3, <3>4 DEF Nets
  <2>2. SortStep(p, n) = [lo \in Nat |-> SortStep(p, n)[lo]]
    BY DEF SortStep
  <2> QED
    BY <2>1, <2>2
<1>3. S \in [Nat -> [X -> X]]
  BY <1>1, <1>2
<1>4. PICK f \in [Nat -> X] : \A n \in Nat : f[n] = IF n = 0 THEN C ELSE S[n][f[n - 1]]
  <2> HIDE DEF X, C, S
  <2> QED
    BY <1>1, <1>3, TypedRecursion DEF HasValues
<1>5. f = [n \in Nat |-> IF n = 0 THEN C ELSE SortStep(f[n - 1], n)]
  <2>1. ASSUME NEW n \in Nat PROVE f[n] = IF n = 0 THEN C ELSE SortStep(f[n - 1], n)
    <3>1. CASE n = 0
      BY <1>4, <3>1
    <3>2. CASE n # 0
      <4>1. n - 1 \in Nat
        BY <3>2
      <4>2. PICK p \in X : p = f[n - 1]
        BY <4>1
      <4>3. f[n] = S[n][p]
        BY <1>4, <3>2, <4>2
      <4> HIDE DEF X, C
      <4> QED
        BY <3>2, <4>2, <4>3
    <3> QED
      BY <3>1, <3>2
  <2> HIDE DEF C
  <2> QED
    BY <1>4, <2>1
<1>6. OddEvenMergeSort = [n \in Nat |-> IF n = 0 THEN C ELSE SortStep(OddEvenMergeSort[n - 1], n)]
  BY <1>5 DEF OddEvenMergeSort
<1> DEFINE T == {n \in Nat : OddEvenMergeSort[n] \notin X}
<1>7. T = {}
  <2> SUFFICES ASSUME T # {} PROVE FALSE
    OBVIOUS
  <2>1. PICK n \in T : \A m \in 0 .. n - 1 : m \notin T
    BY LeastNumber
  <2> HIDE DEF X, C
  <2>2. CASE n = 0
    BY <1>1, <1>6, <2>1, <2>2
  <2>3. CASE n # 0
    <3>1. n - 1 \in Nat /\ n - 1 \in 0 .. n - 1 /\ n \in Nat \ {0}
      BY <2>3
    <3>2. OddEvenMergeSort[n - 1] \in X
      BY <2>1, <3>1
    <3> QED
      BY <1>2, <1>6, <2>1, <3>1, <3>2
  <2> QED
    BY <2>2, <2>3
<1>8. ASSUME NEW e \in Nat, NEW lo \in Nat
      PROVE  OddEvenMergeSort[e][lo] \in Nets
  <2>1. PICK p \in X : p = OddEvenMergeSort[e]
    BY <1>7
  <2> QED
    BY <2>1
<1>9. \A lo \in Nat : OddEvenMergeSort[0][lo] = <<>>
  BY <1>6
<1>10. ASSUME NEW e \in Nat, NEW lo \in Nat, e > 0
       PROVE  OddEvenMergeSort[e][lo] =
                OddEvenMergeSort[e - 1][lo] \o OddEvenMergeSort[e - 1][lo + Pow2[e - 1]] \o OddEvenMerge[e][lo][1]
  <2> HIDE DEF X, C
  <2>1. OddEvenMergeSort[e] = SortStep(OddEvenMergeSort[e - 1], e)
    BY <1>6, <1>10
  <2> QED
    BY <2>1 DEF SortStep
<1> QED
  BY <1>8, <1>9, <1>10

-----------------------------------------------------------------------------
(* The 0-1 principle.  An array of zeros and ones, and what an exchange    *)
(* does to it.                                                             *)
Bits == [Nat -> {0, 1}]

SmallerFirst(z, y, p, q) ==
  /\ z[p] <= z[q] => y[p] = z[p] /\ y[q] = z[q]
  /\ z[p] > z[q] => y[p] = z[q] /\ y[q] = z[p]

Exchanged01(z, c, y) ==
  /\ SmallerFirst(z, y, c[1], c[2])
  /\ \A p \in Nat : p # c[1] /\ p # c[2] => y[p] = z[p]

(* The exchanges of net, one after the other, turn z into y.               *)
NetRuns(z, net, y) ==
  \E h \in [0 .. Len(net) -> Bits] :
    /\ h[0] = z /\ h[Len(net)] = y
    /\ \A k \in 1 .. Len(net) : Exchanged01(h[k - 1], net[k], h[k])

(* A run of one network after another passes through an array in between.  *)
LEMMA RunsConcat ==
  ASSUME NEW s \in Nets, NEW t \in Nets, NEW z, NEW y, NetRuns(z, s \o t, y)
  PROVE  \E m \in Bits : NetRuns(z, s, m) /\ NetRuns(m, t, y)
<1> DEFINE net == s \o t
<1>0. Len(s) \in Nat /\ Len(t) \in Nat
  BY DEF Nets
<1>1. /\ Len(net) = Len(s) + Len(t)
      /\ \A k \in 1 .. Len(s) : net[k] = s[k]
      /\ \A k \in 1 .. Len(t) : net[Len(s) + k] = t[k]
  BY DEF Nets
<1>2. PICK h \in [0 .. Len(net) -> Bits] :
        /\ h[0] = z /\ h[Len(net)] = y
        /\ \A k \in 1 .. Len(net) : Exchanged01(h[k - 1], net[k], h[k])
  BY DEF NetRuns
<1> HIDE DEF net
<1> DEFINE g1 == [k \in 0 .. Len(s) |-> h[k]]
           g2 == [k \in 0 .. Len(t) |-> h[Len(s) + k]]
<1>3. NetRuns(z, s, h[Len(s)])
  <2>1. g1 \in [0 .. Len(s) -> Bits] /\ g1[0] = z /\ g1[Len(s)] = h[Len(s)]
    BY <1>0, <1>1, <1>2
  <2>2. ASSUME NEW k \in 1 .. Len(s) PROVE Exchanged01(g1[k - 1], s[k], g1[k])
    <3>1. k \in 1 .. Len(net) /\ k - 1 \in 0 .. Len(s) /\ k \in 0 .. Len(s)
      BY <1>0, <1>1
    <3>2. g1[k - 1] = h[k - 1] /\ g1[k] = h[k] /\ net[k] = s[k]
      BY <1>1, <3>1
    <3> HIDE DEF g1
    <3> QED
      BY <1>2, <3>1, <3>2
  <2> HIDE DEF g1
  <2> QED
    BY <2>1, <2>2 DEF NetRuns
<1>4. NetRuns(h[Len(s)], t, y)
  <2>1. g2 \in [0 .. Len(t) -> Bits] /\ g2[0] = h[Len(s)] /\ g2[Len(t)] = y
    BY <1>0, <1>1, <1>2
  <2>2. ASSUME NEW k \in 1 .. Len(t) PROVE Exchanged01(g2[k - 1], t[k], g2[k])
    <3>1. Len(s) + k \in 1 .. Len(net) /\ k - 1 \in 0 .. Len(t) /\ k \in 0 .. Len(t) /\ Len(s) + (k - 1) = (Len(s) + k) - 1
      BY <1>0, <1>1
    <3>2. g2[k - 1] = h[(Len(s) + k) - 1] /\ g2[k] = h[Len(s) + k] /\ net[Len(s) + k] = t[k]
      BY <1>1, <3>1
    <3> HIDE DEF g2
    <3> QED
      BY <1>2, <3>1, <3>2
  <2> HIDE DEF g2
  <2> QED
    BY <2>1, <2>2 DEF NetRuns
<1>5. h[Len(s)] \in Bits
  BY <1>0, <1>1, <1>2
<1> QED
  BY <1>3, <1>4, <1>5

(* A run without exchanges leaves the array as it is.                      *)
LEMMA RunsNone ==
  ASSUME NEW z, NEW y, NetRuns(z, <<>>, y)
  PROVE  y = z
BY DEF NetRuns

(* A run of one exchange makes that exchange.                              *)
LEMMA RunsOne ==
  ASSUME NEW c, NEW z, NEW y, NetRuns(z, <<c>>, y)
  PROVE  Exchanged01(z, c, y)
<1>1. Len(<<c>>) = 1 /\ <<c>>[1] = c
  OBVIOUS
<1>2. PICK h \in [0 .. 1 -> Bits] : h[0] = z /\ h[1] = y /\ \A k \in 1 .. 1 : Exchanged01(h[k - 1], <<c>>[k], h[k])
  BY <1>1 DEF NetRuns
<1>3. Exchanged01(h[1 - 1], c, h[1]) /\ 1 - 1 = 0
  BY <1>1, <1>2
<1> QED
  BY <1>2, <1>3

(* Exchanges of places that are all different.                             *)
Apart(net, P, Q, n) ==
  /\ P \in [1 .. n -> Nat] /\ Q \in [1 .. n -> Nat]
  /\ \A k, l \in 1 .. n : P[k] # Q[l] /\ (k # l => P[k] # P[l] /\ Q[k] # Q[l])
  /\ Len(net) = n /\ \A k \in 1 .. n : net[k] = <<P[k], Q[k]>>

(* Exchanges of disjoint pairs do not disturb one another.                 *)
LEMMA RunsApart ==
  ASSUME NEW n \in Nat, NEW P, NEW Q, NEW net, Apart(net, P, Q, n),
         NEW z \in Bits, NEW y \in Bits, NetRuns(z, net, y)
  PROVE  /\ \A k \in 1 .. n : SmallerFirst(z, y, P[k], Q[k])
         /\ \A p \in Nat : (\A k \in 1 .. n : p # P[k] /\ p # Q[k]) => y[p] = z[p]
<1>0. /\ P \in [1 .. n -> Nat] /\ Q \in [1 .. n -> Nat]
      /\ \A k, l \in 1 .. n : P[k] # Q[l] /\ (k # l => P[k] # P[l] /\ Q[k] # Q[l])
      /\ Len(net) = n /\ \A k \in 1 .. n : net[k] = <<P[k], Q[k]>>
  BY DEF Apart
<1>1. PICK h \in [0 .. n -> Bits] :
        h[0] = z /\ h[n] = y /\ \A k \in 1 .. n : Exchanged01(h[k - 1], net[k], h[k])
  BY <1>0 DEF NetRuns
<1> DEFINE Sofar(k) ==
             /\ \A l \in 1 .. n : l <= k => SmallerFirst(z, h[k], P[l], Q[l])
             /\ \A l \in 1 .. n : l > k => h[k][P[l]] = z[P[l]] /\ h[k][Q[l]] = z[Q[l]]
             /\ \A p \in Nat : (\A l \in 1 .. n : p # P[l] /\ p # Q[l]) => h[k][p] = z[p]
           T == {k \in Nat : k <= n /\ ~ Sofar(k)}
<1>2. T = {}
  <2> SUFFICES ASSUME T # {} PROVE FALSE
    OBVIOUS
  <2>1. PICK k \in T : \A m \in 0 .. k - 1 : m \notin T
    BY LeastNumber
  <2>2. CASE k = 0
    BY <1>1, <2>1, <2>2
  <2>3. CASE k # 0
    <3>1. k - 1 \in Nat /\ k - 1 \in 0 .. k - 1 /\ k - 1 <= n /\ k \in 1 .. n
      BY <2>1, <2>3
    <3>2. Sofar(k - 1)
      BY <2>1, <3>1
    <3>3. Exchanged01(h[k - 1], <<P[k], Q[k]>>, h[k])
      BY <1>0, <1>1, <3>1
    <3>4. /\ SmallerFirst(h[k - 1], h[k], P[k], Q[k])
          /\ \A p \in Nat : p # P[k] /\ p # Q[k] => h[k][p] = h[k - 1][p]
      BY <3>3 DEF Exchanged01
    <3>5. ASSUME NEW l \in 1 .. n, l # k
          PROVE  h[k][P[l]] = h[k - 1][P[l]] /\ h[k][Q[l]] = h[k - 1][Q[l]]
      <4>1. P[l] \in Nat /\ Q[l] \in Nat
        BY <1>0
      <4>2. P[l] # P[k] /\ P[l] # Q[k] /\ Q[l] # P[k] /\ Q[l] # Q[k]
        BY <1>0, <3>1, <3>5, Zenon
      <4> QED
        BY <3>4, <4>1, <4>2, Zenon
    <3>6. ASSUME NEW l \in 1 .. n, l <= k PROVE SmallerFirst(z, h[k], P[l], Q[l])
      <4>1. CASE l = k
        <5>1. h[k - 1][P[k]] = z[P[k]] /\ h[k - 1][Q[k]] = z[Q[k]]
          BY <3>1, <3>2
        <5> QED
          BY <3>4, <4>1, <5>1 DEF SmallerFirst
      <4>2. CASE l # k
        <5>1. l <= k - 1
          BY <3>1, <3>6, <4>2
        <5>2. SmallerFirst(z, h[k - 1], P[l], Q[l])
          BY <3>2, <5>1
        <5> QED
          BY <3>5, <4>2, <5>2 DEF SmallerFirst
      <4> QED
        BY <4>1, <4>2
    <3>7. ASSUME NEW l \in 1 .. n, l > k PROVE h[k][P[l]] = z[P[l]] /\ h[k][Q[l]] = z[Q[l]]
      <4>1. l # k /\ l > k - 1
        BY <3>1, <3>7
      <4> QED
        BY <3>2, <3>5, <4>1
    <3>8. ASSUME NEW p \in Nat, \A l \in 1 .. n : p # P[l] /\ p # Q[l] PROVE h[k][p] = z[p]
      BY <3>1, <3>2, <3>4, <3>8
    <3> QED
      BY <2>1, <3>6, <3>7, <3>8
  <2> QED
    BY <2>2, <2>3
<1>3. Sofar(n)
  BY <1>2
<1> QED
  BY <1>1, <1>3

-----------------------------------------------------------------------------
(* Of the n places from place first on, c hold zeros and they come first.  *)
ZerosFirst(z, lo, r, first, n, c) ==
  \A t \in 0 .. n - 1 : /\ t < c => z[At(lo, r, first + t)] = 0
                        /\ t >= c => z[At(lo, r, first + t)] = 1

Elsewhere(z, y, lo, r, n) ==
  \A p \in Nat : (\A t \in 0 .. n - 1 : p # At(lo, r, t)) => y[p] = z[p]

(* oddeven_merge on 2 * half places whose halves are sorted.               *)
Merges(net, lo, r, half) ==
  \A z, y \in Bits : \A c1, c2 \in 0 .. half :
    ZerosFirst(z, lo, r, 0, half, c1) /\ ZerosFirst(z, lo, r, half, half, c2) /\ NetRuns(z, net, y) =>
      ZerosFirst(y, lo, r, 0, 2 * half, c1 + c2) /\ Elsewhere(z, y, lo, r, 2 * half)

(* Two places.                                                             *)
LEMMA MergesTwo ==
  ASSUME NEW lo \in Nat, NEW r \in Nat \ {0}
  PROVE  Merges(<< <<lo, lo + r>> >>, lo, r, 1)
<1> SUFFICES ASSUME NEW z \in Bits, NEW y \in Bits, NEW c1 \in 0 .. 1, NEW c2 \in 0 .. 1,
                    ZerosFirst(z, lo, r, 0, 1, c1), ZerosFirst(z, lo, r, 1, 1, c2),
                    NetRuns(z, << <<lo, lo + r>> >>, y)
             PROVE  ZerosFirst(y, lo, r, 0, 2, c1 + c2) /\ Elsewhere(z, y, lo, r, 2)
  BY DEF Merges
<1>1. At(lo, r, 0) = lo /\ At(lo, r, 1) = lo + r
  BY AtFacts
<1>2. Exchanged01(z, <<lo, lo + r>>, y)
  BY RunsOne
<1>3. SmallerFirst(z, y, lo, lo + r) /\ \A p \in Nat : p # lo /\ p # lo + r => y[p] = z[p]
  BY <1>2 DEF Exchanged01
<1>4. /\ c1 = 1 => z[lo] = 0
      /\ c1 = 0 => z[lo] = 1
  <2>1. 0 \in 0 .. 1 - 1 /\ 0 + 0 = 0
    OBVIOUS
  <2>2. (0 < c1 => z[At(lo, r, 0 + 0)] = 0) /\ (0 >= c1 => z[At(lo, r, 0 + 0)] = 1)
    BY <2>1 DEF ZerosFirst
  <2> QED
    BY <1>1, <2>1, <2>2
<1>5. /\ c2 = 1 => z[lo + r] = 0
      /\ c2 = 0 => z[lo + r] = 1
  <2>1. 0 \in 0 .. 1 - 1 /\ 1 + 0 = 1
    OBVIOUS
  <2>2. (0 < c2 => z[At(lo, r, 1 + 0)] = 0) /\ (0 >= c2 => z[At(lo, r, 1 + 0)] = 1)
    BY <2>1 DEF ZerosFirst
  <2> QED
    BY <1>1, <2>1, <2>2
<1>6. /\ c1 + c2 > 0 => y[lo] = 0
      /\ c1 + c2 <= 0 => y[lo] = 1
      /\ c1 + c2 > 1 => y[lo + r] = 0
      /\ c1 + c2 <= 1 => y[lo + r] = 1
  <2>1. (c1 = 0 \/ c1 = 1) /\ (c2 = 0 \/ c2 = 1)
    OBVIOUS
  <2> QED
    BY <1>3, <1>4, <1>5, <2>1 DEF SmallerFirst
<1>7. ASSUME NEW t \in 0 .. 2 - 1
      PROVE  /\ t < c1 + c2 => y[At(lo, r, 0 + t)] = 0
             /\ t >= c1 + c2 => y[At(lo, r, 0 + t)] = 1
  <2>1. CASE t = 0
    <3>1. 0 + t = 0
      BY <2>1
    <3> QED
      BY <1>1, <1>6, <2>1, <3>1
  <2>2. CASE t = 1
    <3>1. 0 + t = 1
      BY <2>2
    <3> QED
      BY <1>1, <1>6, <2>2, <3>1
  <2> QED
    BY <2>1, <2>2
<1>8. Elsewhere(z, y, lo, r, 2)
  <2>1. 0 \in 0 .. 2 - 1 /\ 1 \in 0 .. 2 - 1
    OBVIOUS
  <2> QED
    BY <1>1, <1>3, <2>1 DEF Elsewhere
<1> QED
  BY <1>7, <1>8 DEF ZerosFirst

(* A number is even or odd.                                                *)
LEMMA EvenOrOdd ==
  ASSUME NEW t \in Nat
  PROVE  \E k \in Nat : t = 2 * k \/ t = 2 * k + 1
<1> DEFINE T == {m \in Nat : ~ \E k \in Nat : m = 2 * k \/ m = 2 * k + 1}
<1> SUFFICES ASSUME T # {} PROVE FALSE
  OBVIOUS
<1>1. PICK m \in T : \A l \in 0 .. m - 1 : l \notin T
  BY LeastNumber
<1>2. CASE m = 0 \/ m = 1
  <2>1. m = 2 * 0 \/ m = 2 * 0 + 1
    BY <1>2
  <2> QED
    BY <2>1
<1>3. CASE m > 1
  <2>1. m - 2 \in Nat /\ m - 2 \in 0 .. m - 1
    BY <1>3
  <2>2. PICK k \in Nat : m - 2 = 2 * k \/ m - 2 = 2 * k + 1
    BY <1>1, <2>1
  <2>3. k + 1 \in Nat /\ (m = 2 * (k + 1) \/ m = 2 * (k + 1) + 1)
    BY <2>2
  <2>4. m \notin T
    BY <2>3
  <2> QED
    BY <2>4
<1> QED
  BY <1>2, <1>3

(* The even places hold e zeros and the odd ones f, at most two fewer: the *)
(* exchange of neighbours sorts them.                                      *)
LEMMA Interleaved ==
  ASSUME NEW lo \in Nat, NEW r \in Nat \ {0}, NEW n \in Nat \ {0},
         NEW z \in Bits, NEW y \in Bits, NetRuns(z, Neighbours(lo, r, n), y),
         NEW e \in 0 .. n, NEW f \in 0 .. n, e - f \in 0 .. 2,
         \A t \in 0 .. n - 1 : /\ t < e => z[At(lo, r, 2 * t)] = 0
                               /\ t >= e => z[At(lo, r, 2 * t)] = 1
                               /\ t < f => z[At(lo, r, 2 * t + 1)] = 0
                               /\ t >= f => z[At(lo, r, 2 * t + 1)] = 1
  PROVE  ZerosFirst(y, lo, r, 0, 2 * n, e + f) /\ Elsewhere(z, y, lo, r, 2 * n)
<1> DEFINE P == [k \in 1 .. n - 1 |-> At(lo, r, 2 * k - 1)]
           Q == [k \in 1 .. n - 1 |-> At(lo, r, 2 * k)]
           net == Neighbours(lo, r, n)
<1>1. P \in [1 .. n - 1 -> Nat] /\ Q \in [1 .. n - 1 -> Nat]
  <2>1. \A k \in 1 .. n - 1 : 2 * k - 1 \in Nat /\ 2 * k \in Nat
    OBVIOUS
  <2>2. \A k \in 1 .. n - 1 : At(lo, r, 2 * k - 1) \in Nat /\ At(lo, r, 2 * k) \in Nat
    BY <2>1, AtFacts
  <2> QED
    BY <2>2
<1>2. ASSUME NEW k \in 1 .. n - 1, NEW l \in 1 .. n - 1
      PROVE  P[k] # Q[l] /\ (k # l => P[k] # P[l] /\ Q[k] # Q[l])
  <2>1. 2 * k - 1 \in Nat /\ 2 * k \in Nat /\ 2 * l - 1 \in Nat /\ 2 * l \in Nat
    OBVIOUS
  <2>2. 2 * k - 1 # 2 * l /\ (k # l => 2 * k - 1 # 2 * l - 1 /\ 2 * k # 2 * l)
    OBVIOUS
  <2> QED
    BY <2>1, <2>2, AtInjective
<1>3. Len(net) = n - 1 /\ \A k \in 1 .. n - 1 : net[k] = <<P[k], Q[k]>>
  BY NeighboursNet
<1>4. /\ \A k \in 1 .. n - 1 : SmallerFirst(z, y, P[k], Q[k])
      /\ \A p \in Nat : (\A k \in 1 .. n - 1 : p # P[k] /\ p # Q[k]) => y[p] = z[p]
  <2>1. n - 1 \in Nat
    OBVIOUS
  <2> HIDE DEF P, Q, net
  <2>2. NetRuns(z, net, y)
    BY DEF net
  <2> QED
    <3>1. \A k, l \in 1 .. n - 1 : P[k] # Q[l] /\ (k # l => P[k] # P[l] /\ Q[k] # Q[l])
      BY <1>2
    <3>2. Apart(net, P, Q, n - 1)
      BY <1>1, <1>3, <3>1 DEF Apart
    <3> QED
      BY <2>1, <2>2, <3>2, RunsApart
<1>5. ASSUME NEW k \in 1 .. n - 1
      PROVE  /\ 2 * k - 1 < e + f => y[At(lo, r, 2 * k - 1)] = 0
             /\ 2 * k - 1 >= e + f => y[At(lo, r, 2 * k - 1)] = 1
             /\ 2 * k < e + f => y[At(lo, r, 2 * k)] = 0
             /\ 2 * k >= e + f => y[At(lo, r, 2 * k)] = 1
  <2> DEFINE p == At(lo, r, 2 * k - 1)
             q == At(lo, r, 2 * k)
  <2>1. SmallerFirst(z, y, p, q)
    BY <1>4
  <2>2. (k - 1 < f => z[p] = 0) /\ (k - 1 >= f => z[p] = 1)
    <3>1. k - 1 \in 0 .. n - 1 /\ 2 * (k - 1) + 1 = 2 * k - 1
      OBVIOUS
    <3>2. /\ k - 1 < f => z[At(lo, r, 2 * (k - 1) + 1)] = 0
          /\ k - 1 >= f => z[At(lo, r, 2 * (k - 1) + 1)] = 1
      BY <3>1
    <3> QED
      BY <3>1, <3>2
  <2>3. (k < e => z[q] = 0) /\ (k >= e => z[q] = 1)
    <3>1. k \in 0 .. n - 1
      OBVIOUS
    <3> QED
      BY <3>1
  <2> HIDE DEF p, q
  <2>4. e = f \/ e = f + 1 \/ e = f + 2
    OBVIOUS
  <2>5. /\ 2 * k - 1 < e + f => y[p] = 0
        /\ 2 * k - 1 >= e + f => y[p] = 1
        /\ 2 * k < e + f => y[q] = 0
        /\ 2 * k >= e + f => y[q] = 1
    BY <2>1, <2>2, <2>3, <2>4 DEF SmallerFirst
  <2> QED
    BY <2>5 DEF p, q
<1>6. ASSUME NEW t \in {0, 2 * n - 1}
      PROVE  y[At(lo, r, t)] = z[At(lo, r, t)]
  <2>1. t \in Nat /\ At(lo, r, t) \in Nat
    <3>1. t \in Nat
      OBVIOUS
    <3> QED
      BY <3>1, AtFacts
  <2>2. ASSUME NEW k \in 1 .. n - 1 PROVE At(lo, r, t) # P[k] /\ At(lo, r, t) # Q[k]
    <3>1. 2 * k - 1 \in Nat /\ 2 * k \in Nat /\ t # 2 * k - 1 /\ t # 2 * k
      OBVIOUS
    <3> QED
      BY <2>1, <3>1, AtInjective
  <2> HIDE DEF P, Q
  <2> QED
    BY <1>4, <2>1, <2>2
<1>7. ASSUME NEW t \in 0 .. 2 * n - 1
      PROVE  /\ t < e + f => y[At(lo, r, t)] = 0
             /\ t >= e + f => y[At(lo, r, t)] = 1
  <2>1. CASE t = 0
    <3>1. 0 \in 0 .. n - 1 /\ 2 * 0 = 0
      OBVIOUS
    <3>2. (0 < e => z[At(lo, r, 2 * 0)] = 0) /\ (0 >= e => z[At(lo, r, 2 * 0)] = 1)
      BY <3>1
    <3>3. y[At(lo, r, t)] = z[At(lo, r, t)]
      BY <1>6, <2>1
    <3> QED
      BY <2>1, <3>1, <3>2, <3>3
  <2>2. CASE t = 2 * n - 1
    <3>1. n - 1 \in 0 .. n - 1 /\ 2 * (n - 1) + 1 = t
      BY <2>2
    <3>2. (n - 1 < f => z[At(lo, r, 2 * (n - 1) + 1)] = 0) /\ (n - 1 >= f => z[At(lo, r, 2 * (n - 1) + 1)] = 1)
      BY <3>1
    <3>3. y[At(lo, r, t)] = z[At(lo, r, t)]
      BY <1>6, <2>2
    <3>4. t < e + f <=> n - 1 < f
      BY <2>2
    <3> QED
      BY <3>1, <3>2, <3>3, <3>4
  <2>3. CASE t # 0 /\ t # 2 * n - 1
    <3>1. PICK k \in 1 .. n - 1 : t = 2 * k - 1 \/ t = 2 * k
      <4>1. t \in Nat
        OBVIOUS
      <4>2. PICK k \in Nat : t = 2 * k \/ t = 2 * k + 1
        BY <4>1, EvenOrOdd
      <4>3. CASE t = 2 * k
        BY <2>3, <4>3
      <4>4. CASE t = 2 * k + 1
        <5>1. k + 1 \in 1 .. n - 1 /\ t = 2 * (k + 1) - 1
          BY <2>3, <4>4
        <5> QED
          BY <5>1
      <4> QED
        BY <4>2, <4>3, <4>4
    <3> QED
      BY <1>5, <3>1
  <2> QED
    BY <2>1, <2>2, <2>3
<1>8. ZerosFirst(y, lo, r, 0, 2 * n, e + f)
  <2>1. \A t \in 0 .. 2 * n - 1 : 0 + t = t
    OBVIOUS
  <2> QED
    BY <1>7, <2>1 DEF ZerosFirst
<1>9. Elsewhere(z, y, lo, r, 2 * n)
  <2>1. SUFFICES ASSUME NEW p \in Nat, \A t \in 0 .. 2 * n - 1 : p # At(lo, r, t)
                 PROVE  y[p] = z[p]
    BY DEF Elsewhere
  <2>2. ASSUME NEW k \in 1 .. n - 1 PROVE p # P[k] /\ p # Q[k]
    <3>1. 2 * k - 1 \in 0 .. 2 * n - 1 /\ 2 * k \in 0 .. 2 * n - 1
      OBVIOUS
    <3> QED
      BY <2>1, <3>1
  <2> HIDE DEF P, Q
  <2> QED
    BY <1>4, <2>2
<1> QED
  BY <1>8, <1>9

(* A sorted half, seen from its even places and from its odd ones.         *)
Halved(z, lo, r, g, n, c) ==
  \E e, f \in 0 .. n : /\ c = e + f /\ e - f \in 0 .. 1
                       /\ ZerosFirst(z, lo, 2 * r, g, n, e)
                       /\ ZerosFirst(z, lo + r, 2 * r, g, n, f)

(* Of zeros that come first as many are at even places as at odd ones, or  *)
(* one more.                                                               *)
LEMMA EvenAndOdd ==
  ASSUME NEW lo \in Nat, NEW r \in Nat \ {0}, NEW g \in Nat, NEW n \in Nat \ {0}, NEW z \in Bits,
         NEW c \in 0 .. 2 * n, ZerosFirst(z, lo, r, 2 * g, 2 * n, c)
  PROVE  Halved(z, lo, r, g, n, c)
<1>1. PICK f \in Nat : c = 2 * f \/ c = 2 * f + 1
  <2>1. c \in Nat
    OBVIOUS
  <2> QED
    BY <2>1, EvenOrOdd
<1>2. PICK e \in Nat : c = e + f /\ e - f \in 0 .. 1
  <2>1. CASE c = 2 * f
    <3>1. c = f + f /\ f - f \in 0 .. 1
      BY <2>1
    <3> QED
      BY <3>1
  <2>2. CASE c = 2 * f + 1
    <3>1. c = (f + 1) + f /\ (f + 1) - f \in 0 .. 1 /\ f + 1 \in Nat
      BY <2>2
    <3> QED
      BY <3>1
  <2> QED
    BY <1>1, <2>1, <2>2
<1>3. e = f \/ e = f + 1
  BY <1>2
<1>4. e \in 0 .. n /\ f \in 0 .. n
  BY <1>2, <1>3
<1>5. ASSUME NEW t \in 0 .. n - 1
      PROVE  /\ t < e => z[At(lo, 2 * r, g + t)] = 0
             /\ t >= e => z[At(lo, 2 * r, g + t)] = 1
             /\ t < f => z[At(lo + r, 2 * r, g + t)] = 0
             /\ t >= f => z[At(lo + r, 2 * r, g + t)] = 1
  <2>1. g + t \in Nat /\ 2 * (g + t) = 2 * g + 2 * t /\ 2 * (g + t) + 1 = 2 * g + (2 * t + 1)
    OBVIOUS
  <2>2. At(lo, 2 * r, g + t) = At(lo, r, 2 * g + 2 * t) /\ At(lo + r, 2 * r, g + t) = At(lo, r, 2 * g + (2 * t + 1))
    <3>1. PICK u \in Nat : u = g + t
      BY <2>1
    <3>2. At(lo, 2 * r, u) = At(lo, r, 2 * u) /\ At(lo + r, 2 * r, u) = At(lo, r, 2 * u + 1)
      <4>1. r \in Nat
        OBVIOUS
      <4>2. Halves(lo, r, u)
        BY <4>1, AtHalves
      <4> QED
        BY <4>2 DEF Halves
    <3> QED
      BY <2>1, <3>1, <3>2
  <2>3. 2 * t \in 0 .. 2 * n - 1 /\ 2 * t + 1 \in 0 .. 2 * n - 1
    OBVIOUS
  <2>4. /\ 2 * t < c => z[At(lo, r, 2 * g + 2 * t)] = 0
        /\ 2 * t >= c => z[At(lo, r, 2 * g + 2 * t)] = 1
    BY <2>3 DEF ZerosFirst
  <2>5. /\ 2 * t + 1 < c => z[At(lo, r, 2 * g + (2 * t + 1))] = 0
        /\ 2 * t + 1 >= c => z[At(lo, r, 2 * g + (2 * t + 1))] = 1
    BY <2>3 DEF ZerosFirst
  <2>6. (2 * t < c <=> t < e) /\ (2 * t + 1 < c <=> t < f)
    BY <1>2, <1>3
  <2>7. (2 * t >= c <=> t >= e) /\ (2 * t + 1 >= c <=> t >= f)
    BY <1>2, <1>3
  <2> QED
    BY <2>2, <2>4, <2>5, <2>6, <2>7
<1> QED
  BY <1>2, <1>4, <1>5 DEF ZerosFirst, Halved

(* The even places of both halves are merged, then the odd ones, then      *)
(* neighbours are exchanged.                                               *)
LEMMA MergesHalves ==
  ASSUME NEW lo \in Nat, NEW r \in Nat \ {0}, NEW n \in Nat \ {0}, NEW A \in Nets, NEW B \in Nets,
         Merges(A, lo, 2 * r, n), Merges(B, lo + r, 2 * r, n)
  PROVE  Merges(A \o B \o Neighbours(lo, r, 2 * n), lo, r, 2 * n)
<1> SUFFICES ASSUME NEW z \in Bits, NEW y \in Bits, NEW c1 \in 0 .. 2 * n, NEW c2 \in 0 .. 2 * n,
                    ZerosFirst(z, lo, r, 0, 2 * n, c1), ZerosFirst(z, lo, r, 2 * n, 2 * n, c2),
                    NetRuns(z, A \o B \o Neighbours(lo, r, 2 * n), y)
             PROVE  /\ ZerosFirst(y, lo, r, 0, 2 * (2 * n), c1 + c2)
                    /\ Elsewhere(z, y, lo, r, 2 * (2 * n))
  BY DEF Merges
<1>1. PICK e1, f1 \in 0 .. n : /\ c1 = e1 + f1 /\ e1 - f1 \in 0 .. 1
                               /\ ZerosFirst(z, lo, 2 * r, 0, n, e1)
                               /\ ZerosFirst(z, lo + r, 2 * r, 0, n, f1)
  <2>1. 0 \in Nat /\ 2 * 0 = 0
    OBVIOUS
  <2>2. ZerosFirst(z, lo, r, 2 * 0, 2 * n, c1)
    BY <2>1
  <2>3. Halved(z, lo, r, 0, n, c1)
    BY <2>1, <2>2, EvenAndOdd
  <2> QED
    BY <2>3 DEF Halved
<1>2. PICK e2, f2 \in 0 .. n : /\ c2 = e2 + f2 /\ e2 - f2 \in 0 .. 1
                               /\ ZerosFirst(z, lo, 2 * r, n, n, e2)
                               /\ ZerosFirst(z, lo + r, 2 * r, n, n, f2)
  <2>1. Halved(z, lo, r, n, n, c2)
    BY EvenAndOdd
  <2> QED
    BY <2>1 DEF Halved
<1>3. PICK m2 \in Bits : NetRuns(z, A \o B, m2) /\ NetRuns(m2, Neighbours(lo, r, 2 * n), y)
  <2>1. 2 * n \in Nat \ {0}
    OBVIOUS
  <2>2. A \o B \in Nets /\ Neighbours(lo, r, 2 * n) \in Nets
    BY <2>1, NeighboursNet DEF Nets
  <2> QED
    BY <2>2, RunsConcat
<1>4. PICK m1 \in Bits : NetRuns(z, A, m1) /\ NetRuns(m1, B, m2)
  BY <1>3, RunsConcat
<1>5. ZerosFirst(m1, lo, 2 * r, 0, 2 * n, e1 + e2) /\ Elsewhere(z, m1, lo, 2 * r, 2 * n)
  BY <1>1, <1>2, <1>4 DEF Merges
<1>6. \A s, t \in Nat : At(lo, r, 2 * s) # At(lo, r, 2 * t + 1)
  <2>1. \A s, t \in Nat : 2 * s \in Nat /\ 2 * t + 1 \in Nat /\ 2 * s # 2 * t + 1
    OBVIOUS
  <2> QED
    BY <2>1, AtInjective
<1>7. ASSUME NEW t \in Nat
      PROVE  /\ At(lo + r, 2 * r, t) = At(lo, r, 2 * t + 1) /\ At(lo, 2 * r, t) = At(lo, r, 2 * t)
             /\ At(lo, r, 2 * t + 1) \in Nat /\ At(lo, r, 2 * t) \in Nat
  <2>1. 2 * t \in Nat /\ 2 * t + 1 \in Nat /\ r \in Nat
    OBVIOUS
  <2>2. Halves(lo, r, t)
    BY <2>1, AtHalves
  <2>3. At(lo, r, 2 * t + 1) \in Nat /\ At(lo, r, 2 * t) \in Nat
    BY <2>1, AtFacts
  <2> QED
    BY <2>2, <2>3 DEF Halves
<1>8. ASSUME NEW t \in Nat PROVE m1[At(lo + r, 2 * r, t)] = z[At(lo + r, 2 * r, t)]
  <2>1. ASSUME NEW s \in 0 .. 2 * n - 1
        PROVE  At(lo + r, 2 * r, t) # At(lo, 2 * r, s)
    <3>1. s \in Nat
      OBVIOUS
    <3>2. At(lo + r, 2 * r, t) = At(lo, r, 2 * t + 1) /\ At(lo, 2 * r, s) = At(lo, r, 2 * s)
      BY <1>7, <3>1
    <3>3. At(lo, r, 2 * s) # At(lo, r, 2 * t + 1)
      BY <1>6, <3>1
    <3> QED
      BY <3>2, <3>3
  <2>2. At(lo + r, 2 * r, t) \in Nat
    BY <1>7
  <2> QED
    BY <1>5, <2>1, <2>2 DEF Elsewhere
<1>9. ZerosFirst(m1, lo + r, 2 * r, 0, n, f1) /\ ZerosFirst(m1, lo + r, 2 * r, n, n, f2)
  <2>1. \A t \in 0 .. n - 1 : 0 + t \in Nat /\ n + t \in Nat
    OBVIOUS
  <2> QED
    BY <1>1, <1>2, <1>8, <2>1 DEF ZerosFirst
<1>10. ZerosFirst(m2, lo + r, 2 * r, 0, 2 * n, f1 + f2) /\ Elsewhere(m1, m2, lo + r, 2 * r, 2 * n)
  BY <1>4, <1>9 DEF Merges
<1>11. ASSUME NEW t \in Nat PROVE m2[At(lo, 2 * r, t)] = m1[At(lo, 2 * r, t)]
  <2>1. ASSUME NEW s \in 0 .. 2 * n - 1
        PROVE  At(lo, 2 * r, t) # At(lo + r, 2 * r, s)
    <3>1. s \in Nat
      OBVIOUS
    <3>2. At(lo, 2 * r, t) = At(lo, r, 2 * t) /\ At(lo + r, 2 * r, s) = At(lo, r, 2 * s + 1)
      BY <1>7, <3>1
    <3>3. At(lo, r, 2 * t) # At(lo, r, 2 * s + 1)
      BY <1>6, <3>1
    <3> QED
      BY <3>2, <3>3
  <2>2. At(lo, 2 * r, t) \in Nat
    BY <1>7
  <2> QED
    BY <1>10, <2>1, <2>2 DEF Elsewhere
<1> DEFINE e == e1 + e2
           f == f1 + f2
<1>12. e \in 0 .. 2 * n /\ f \in 0 .. 2 * n /\ e - f \in 0 .. 2 /\ e + f = c1 + c2
  BY <1>1, <1>2
<1>13. ASSUME NEW t \in 0 .. 2 * n - 1
       PROVE  /\ t < e => m2[At(lo, r, 2 * t)] = 0
              /\ t >= e => m2[At(lo, r, 2 * t)] = 1
              /\ t < f => m2[At(lo, r, 2 * t + 1)] = 0
              /\ t >= f => m2[At(lo, r, 2 * t + 1)] = 1
  <2>1. t \in Nat /\ 0 + t = t
    OBVIOUS
  <2> HIDE DEF e, f
  <2>2. /\ t < e => m1[At(lo, 2 * r, 0 + t)] = 0
        /\ t >= e => m1[At(lo, 2 * r, 0 + t)] = 1
    BY <1>5 DEF ZerosFirst, e
  <2>3. /\ t < f => m2[At(lo + r, 2 * r, 0 + t)] = 0
        /\ t >= f => m2[At(lo + r, 2 * r, 0 + t)] = 1
    BY <1>10 DEF ZerosFirst, f
  <2> QED
    BY <1>7, <1>11, <2>1, <2>2, <2>3
<1>14. ZerosFirst(y, lo, r, 0, 2 * (2 * n), e + f) /\ Elsewhere(m2, y, lo, r, 2 * (2 * n))
  <2>1. PICK k \in Nat \ {0} : k = 2 * n
    OBVIOUS
  <2> HIDE DEF e, f
  <2>2. NetRuns(m2, Neighbours(lo, r, k), y) /\ e \in 0 .. k /\ f \in 0 .. k /\ e - f \in 0 .. 2
    BY <1>3, <1>12, <2>1
  <2>3. \A t \in 0 .. k - 1 : /\ t < e => m2[At(lo, r, 2 * t)] = 0
                              /\ t >= e => m2[At(lo, r, 2 * t)] = 1
                              /\ t < f => m2[At(lo, r, 2 * t + 1)] = 0
                              /\ t >= f => m2[At(lo, r, 2 * t + 1)] = 1
    BY <1>13, <2>1
  <2>4. ZerosFirst(y, lo, r, 0, 2 * k, e + f) /\ Elsewhere(m2, y, lo, r, 2 * k)
    BY <2>2, <2>3, Interleaved
  <2> QED
    BY <2>1, <2>4
<1>15. Elsewhere(z, y, lo, r, 2 * (2 * n))
  <2>1. SUFFICES ASSUME NEW p \in Nat, \A t \in 0 .. 2 * (2 * n) - 1 : p # At(lo, r, t)
                 PROVE  y[p] = z[p]
    BY DEF Elsewhere
  <2>2. y[p] = m2[p]
    BY <1>14, <2>1 DEF Elsewhere
  <2>3. ASSUME NEW t \in 0 .. 2 * n - 1
        PROVE  p # At(lo, 2 * r, t) /\ p # At(lo + r, 2 * r, t)
    <3>1. t \in Nat /\ 2 * t \in 0 .. 2 * (2 * n) - 1 /\ 2 * t + 1 \in 0 .. 2 * (2 * n) - 1
      OBVIOUS
    <3> QED
      BY <1>7, <2>1, <3>1, ZenonT(30)
  <2>4. m2[p] = m1[p] /\ m1[p] = z[p]
    BY <1>5, <1>10, <2>3 DEF Elsewhere
  <2> QED
    BY <2>2, <2>4
<1> QED
  BY <1>12, <1>14, <1>15

(* oddeven_merge merges, whatever power of two it is called for.           *)
LEMMA MergeCorrect ==
  ASSUME NEW e \in Nat \ {0}, NEW lo \in Nat, NEW r \in Nat \ {0}
  PROVE  Merges(OddEvenMerge[e][lo][r], lo, r, Pow2[e - 1])
<1> DEFINE T == {d \in Nat : d # 0 /\ ~ \A l \in Nat : \A s \in Nat \ {0} : Merges(OddEvenMerge[d][l][s], l, s, Pow2[d - 1])}
<1>1. T = {}
  <2> SUFFICES ASSUME T # {} PROVE FALSE
    OBVIOUS
  <2>1. PICK d \in T : \A c \in 0 .. d - 1 : c \notin T
    BY LeastNumber
  <2>2. d \in Nat /\ d # 0
    OBVIOUS
  <2>3. PICK l \in Nat, s \in Nat \ {0} : ~ Merges(OddEvenMerge[d][l][s], l, s, Pow2[d - 1])
    OBVIOUS
  <2>4. CASE d = 1
    <3>1. OddEvenMerge[1][l][s] = << <<l, l + s>> >>
      BY MergeNet
    <3>2. Pow2[1 - 1] = 1
      BY Pow2Facts
    <3> QED
      BY <2>3, <2>4, <3>1, <3>2, MergesTwo
  <2>5. CASE d # 1
    <3>1. d > 1 /\ d - 1 \in Nat /\ d - 1 \in 0 .. d - 1 /\ d - 1 # 0 /\ d - 2 \in Nat /\ (d - 1) - 1 = d - 2
      BY <2>2, <2>5
    <3>2. PICK n \in Nat \ {0} : n = Pow2[d - 2] /\ Pow2[d - 1] = 2 * n
      <4>1. (d - 2) + 1 = d - 1
        BY <2>2
      <4>2. Pow2[d - 2] \in Nat /\ Pow2[d - 2] > d - 2 /\ Pow2[d - 1] = 2 * Pow2[d - 2]
        BY <3>1, <4>1, Pow2Facts
      <4> QED
        BY <3>1, <4>2
    <3>3. d - 1 \notin T
      BY <2>1, <3>1
    <3>4. \A k \in Nat : \A u \in Nat \ {0} : Merges(OddEvenMerge[d - 1][k][u], k, u, n)
      BY <3>1, <3>2, <3>3
    <3> DEFINE A == OddEvenMerge[d - 1][l][2 * s]
               B == OddEvenMerge[d - 1][l + s][2 * s]
    <3>5. 2 * s \in Nat \ {0} /\ l + s \in Nat
      OBVIOUS
    <3>6. A \in Nets /\ B \in Nets
      BY <3>1, <3>5, MergeNet
    <3>7. Merges(A, l, 2 * s, n) /\ Merges(B, l + s, 2 * s, n)
      BY <3>4, <3>5
    <3>8. OddEvenMerge[d][l][s] = A \o B \o Neighbours(l, s, 2 * n)
      <4>1. s \in Nat
        OBVIOUS
      <4>2. OddEvenMerge[d][l][s] =
              OddEvenMerge[d - 1][l][2 * s] \o OddEvenMerge[d - 1][l + s][2 * s] \o Neighbours(l, s, Pow2[d - 1])
        BY <2>2, <3>1, <4>1, MergeNet
      <4> QED
        BY <3>2, <4>2
    <3> HIDE DEF A, B
    <3>9. Merges(A \o B \o Neighbours(l, s, 2 * n), l, s, 2 * n)
      BY <3>6, <3>7, MergesHalves
    <3> QED
      BY <2>3, <3>2, <3>8, <3>9
  <2> QED
    BY <2>4, <2>5
<1> QED
  BY <1>1

(* oddeven_merge_sort_range sorts, whatever power of two it is called for. *)
LEMMA SortCorrect ==
  ASSUME NEW e \in Nat, NEW lo \in Nat, NEW z \in Bits, NEW y \in Bits, NetRuns(z, OddEvenMergeSort[e][lo], y)
  PROVE  /\ \E c \in 0 .. Pow2[e] : ZerosFirst(y, lo, 1, 0, Pow2[e], c)
         /\ Elsewhere(z, y, lo, 1, Pow2[e])
<1> DEFINE Right(d, l, v, w) ==
             NetRuns(v, OddEvenMergeSort[d][l], w) =>
               /\ \E c \in 0 .. Pow2[d] : ZerosFirst(w, l, 1, 0, Pow2[d], c)
               /\ Elsewhere(v, w, l, 1, Pow2[d])
           T == {d \in Nat : ~ \A l \in Nat : \A v, w \in Bits : Right(d, l, v, w)}
<1>1. T = {}
  <2> SUFFICES ASSUME T # {} PROVE FALSE
    OBVIOUS
  <2>1. PICK d \in T : \A c \in 0 .. d - 1 : c \notin T
    BY LeastNumber
  <2>2. PICK l \in Nat, v \in Bits, w \in Bits : ~ Right(d, l, v, w)
    BY <2>1
  <2>3. NetRuns(v, OddEvenMergeSort[d][l], w) /\ d \in Nat
    BY <2>1, <2>2
  <2>4. CASE d = 0
    <3>1. Pow2[d] = 1 /\ w = v
      <4>1. Pow2[d] = 1
        BY <2>4, Pow2Facts
      <4>2. OddEvenMergeSort[d][l] = <<>>
        BY <2>4, SortNet
      <4>3. NetRuns(v, <<>>, w)
        BY <2>3, <4>2
      <4> QED
        BY <4>1, <4>3, RunsNone
    <3>2. Elsewhere(v, w, l, 1, 1)
      BY <3>1 DEF Elsewhere
    <3>3. PICK c \in 0 .. 1 : (c = 1 => w[l] = 0) /\ (c = 0 => w[l] = 1)
      <4>1. w[l] = 0 \/ w[l] = 1
        BY DEF Bits
      <4>2. 0 \in 0 .. 1 /\ 1 \in 0 .. 1 /\ 0 # 1
        OBVIOUS
      <4> QED
        BY <4>1, <4>2
    <3>4. ZerosFirst(w, l, 1, 0, 1, c)
      <4>1. \A t \in 0 .. 1 - 1 : t = 0 /\ 0 + t = 0
        OBVIOUS
      <4>2. At(l, 1, 0) = l
        BY AtFacts
      <4>3. c = 0 \/ c = 1
        OBVIOUS
      <4> QED
        BY <3>3, <4>1, <4>2, <4>3 DEF ZerosFirst
    <3> QED
      BY <2>2, <3>1, <3>2, <3>4
  <2>5. CASE d # 0
    <3>1. d > 0 /\ d - 1 \in Nat /\ d - 1 \in 0 .. d - 1 /\ d \in Nat \ {0}
      BY <2>3, <2>5
    <3>2. PICK n \in Nat \ {0} : n = Pow2[d - 1] /\ Pow2[d] = 2 * n
      <4>1. (d - 1) + 1 = d
        BY <2>3
      <4>2. Pow2[d - 1] \in Nat /\ Pow2[d - 1] > d - 1 /\ Pow2[d] = 2 * Pow2[d - 1]
        BY <3>1, <4>1, Pow2Facts
      <4> QED
        BY <3>1, <4>2
    <3> DEFINE A == OddEvenMergeSort[d - 1][l]
               B == OddEvenMergeSort[d - 1][l + n]
               M == OddEvenMerge[d][l][1]
    <3>3. A \in Nets /\ B \in Nets /\ M \in Nets
      <4>1. l + n \in Nat /\ 1 \in Nat
        OBVIOUS
      <4>2. A \in Nets /\ B \in Nets
        BY <3>1, <4>1, SortNet
      <4>3. M \in Nets
        BY <3>1, <4>1, MergeNet
      <4> QED
        BY <4>2, <4>3
    <3>4. OddEvenMergeSort[d][l] = A \o B \o M
      BY <2>3, <3>1, <3>2, SortNet
    <3>5. Merges(M, l, 1, n)
      BY <3>1, <3>2, MergeCorrect
    <3>6. d - 1 \notin T
      BY <2>1, <3>1
    <3>7. ASSUME NEW k \in Nat, NEW x1 \in Bits, NEW x2 \in Bits, NetRuns(x1, OddEvenMergeSort[d - 1][k], x2)
          PROVE  /\ \E c \in 0 .. n : ZerosFirst(x2, k, 1, 0, n, c)
                 /\ Elsewhere(x1, x2, k, 1, n)
      <4>1. Right(d - 1, k, x1, x2)
        BY <3>1, <3>6
      <4> QED
        BY <3>2, <3>7, <4>1
    <3>8. PICK m2 \in Bits : NetRuns(v, A \o B, m2) /\ NetRuns(m2, M, w)
      <4>1. A \o B \in Nets
        BY <3>3 DEF Nets
      <4>2. NetRuns(v, A \o B \o M, w)
        BY <2>3, <3>4
      <4> HIDE DEF A, B, M
      <4> QED
        BY <3>3, <4>1, <4>2, RunsConcat
    <3>9. PICK m1 \in Bits : NetRuns(v, A, m1) /\ NetRuns(m1, B, m2)
      <4> HIDE DEF A, B, M
      <4> QED
        BY <3>3, <3>8, RunsConcat
    <3>10. PICK c1 \in 0 .. n : ZerosFirst(m1, l, 1, 0, n, c1)
      BY <3>7, <3>9
    <3>11. Elsewhere(v, m1, l, 1, n)
      BY <3>7, <3>9
    <3>12. l + n \in Nat
      OBVIOUS
    <3>13. PICK c2 \in 0 .. n : ZerosFirst(m2, l + n, 1, 0, n, c2)
      BY <3>7, <3>9, <3>12
    <3>14. Elsewhere(m1, m2, l + n, 1, n)
      BY <3>7, <3>9, <3>12
    <3> HIDE DEF A, B, M
    <3>15. ASSUME NEW t \in Nat PROVE At(l, 1, t) = l + t /\ At(l + n, 1, t) = l + n + t
      BY <3>12 DEF At
    <3>16. ZerosFirst(m2, l, 1, 0, n, c1)
      <4>1. ASSUME NEW t \in 0 .. n - 1 PROVE m2[At(l, 1, 0 + t)] = m1[At(l, 1, 0 + t)]
        <5>1. 0 + t = t /\ t \in Nat /\ l + t \in Nat
          OBVIOUS
        <5>2. \A u \in 0 .. n - 1 : u \in Nat /\ l + t # l + n + u
          OBVIOUS
        <5>3. m2[l + t] = m1[l + t]
          BY <3>14, <3>15, <5>1, <5>2 DEF Elsewhere
        <5> QED
          BY <3>15, <5>1, <5>3
      <4> QED
        BY <3>10, <4>1 DEF ZerosFirst
    <3>17. ZerosFirst(m2, l, 1, n, n, c2)
      <4>1. ASSUME NEW t \in 0 .. n - 1 PROVE At(l, 1, n + t) = At(l + n, 1, 0 + t)
        <5>1. n + t \in Nat /\ 0 + t \in Nat /\ l + (n + t) = l + n + (0 + t)
          OBVIOUS
        <5> QED
          BY <3>15, <5>1
      <4> QED
        BY <3>13, <4>1 DEF ZerosFirst
    <3>18. ZerosFirst(w, l, 1, 0, 2 * n, c1 + c2) /\ Elsewhere(m2, w, l, 1, 2 * n)
      BY <3>5, <3>8, <3>16, <3>17 DEF Merges
    <3>19. Elsewhere(v, w, l, 1, 2 * n)
      <4>1. SUFFICES ASSUME NEW p \in Nat, \A t \in 0 .. 2 * n - 1 : p # At(l, 1, t)
                     PROVE  w[p] = v[p]
        BY DEF Elsewhere
      <4>2. w[p] = m2[p]
        BY <3>18, <4>1 DEF Elsewhere
      <4>3. ASSUME NEW t \in 0 .. n - 1 PROVE p # At(l, 1, t) /\ p # At(l + n, 1, t)
        <5>1. t \in Nat /\ t \in 0 .. 2 * n - 1 /\ n + t \in 0 .. 2 * n - 1 /\ n + t \in Nat /\ l + (n + t) = l + n + t
          OBVIOUS
        <5>2. p # At(l, 1, t) /\ p # At(l, 1, n + t)
          BY <4>1, <5>1
        <5> QED
          BY <3>15, <5>1, <5>2
      <4>4. m2[p] = m1[p] /\ m1[p] = v[p]
        BY <3>11, <3>14, <4>3 DEF Elsewhere
      <4> QED
        BY <4>2, <4>4
    <3>20. c1 + c2 \in 0 .. 2 * n
      OBVIOUS
    <3> QED
      BY <2>2, <3>2, <3>18, <3>19, <3>20
  <2> QED
    BY <2>4, <2>5
<1> QED
  BY <1>1

(* The first index of an exchange is below the second.                     *)
Ascending(net) == net \in Nets /\ \A k \in 1 .. Len(net) : net[k][1] < net[k][2]

(* Networks that exchange upwards do so after one another.                 *)
LEMMA AscendingConcat ==
  ASSUME NEW s, NEW t, Ascending(s), Ascending(t)
  PROVE  Ascending(s \o t)
<1> USE DEF Ascending
<1>1. s \o t \in Nets
  BY DEF Nets
<1>2. ASSUME NEW k \in 1 .. Len(s \o t) PROVE (s \o t)[k][1] < (s \o t)[k][2]
  <2>1. Len(s) \in Nat /\ Len(t) \in Nat /\ Len(s \o t) = Len(s) + Len(t)
    BY DEF Nets
  <2>2. CASE k <= Len(s)
    <3>1. (s \o t)[k] = s[k] /\ k \in 1 .. Len(s)
      BY <2>1, <2>2 DEF Nets
    <3> QED
      BY <3>1
  <2>3. CASE k > Len(s)
    <3>1. (s \o t)[k] = t[k - Len(s)] /\ k - Len(s) \in 1 .. Len(t)
      BY <2>1, <2>3 DEF Nets
    <3> QED
      BY <3>1
  <2> QED
    BY <2>1, <2>2, <2>3
<1> QED
  BY <1>1, <1>2

(* Also in oddeven_merge, whose places are r > 0 apart.                    *)
LEMMA MergeAscending ==
  ASSUME NEW e \in Nat \ {0}, NEW lo \in Nat, NEW r \in Nat \ {0}
  PROVE  Ascending(OddEvenMerge[e][lo][r])
<1> DEFINE T == {d \in Nat : d # 0 /\ ~ \A l \in Nat : \A s \in Nat \ {0} : Ascending(OddEvenMerge[d][l][s])}
<1>1. T = {}
  <2> SUFFICES ASSUME T # {} PROVE FALSE
    OBVIOUS
  <2>1. PICK d \in T : \A c \in 0 .. d - 1 : c \notin T
    BY LeastNumber
  <2>2. PICK l \in Nat, s \in Nat \ {0} : ~ Ascending(OddEvenMerge[d][l][s])
    OBVIOUS
  <2>3. d \in Nat /\ d # 0 /\ OddEvenMerge[d][l][s] \in Nets
    BY MergeNet
  <2>4. CASE d = 1
    <3>1. OddEvenMerge[1][l][s] = << <<l, l + s>> >> /\ l < l + s
      <4>1. s \in Nat /\ l < l + s
        OBVIOUS
      <4> QED
        BY <4>1, MergeNet
    <3> QED
      BY <2>2, <2>3, <2>4, <3>1 DEF Ascending
  <2>5. CASE d # 1
    <3>1. d > 1 /\ d - 1 \in Nat /\ d - 1 \in 0 .. d - 1 /\ d - 1 # 0 /\ d - 1 \notin T
      BY <2>1, <2>3, <2>5
    <3>2. PICK n \in Nat \ {0} : n = Pow2[d - 1]
      BY <3>1, Pow2Facts
    <3> DEFINE A == OddEvenMerge[d - 1][l][2 * s]
               B == OddEvenMerge[d - 1][l + s][2 * s]
    <3>3. Ascending(A) /\ Ascending(B)
      BY <3>1
    <3>4. OddEvenMerge[d][l][s] = A \o B \o Neighbours(l, s, n)
      <4>1. OddEvenMerge[d][l][s] =
              OddEvenMerge[d - 1][l][2 * s] \o OddEvenMerge[d - 1][l + s][2 * s] \o Neighbours(l, s, Pow2[d - 1])
        BY <2>3, <3>1, MergeNet
      <4> QED
        BY <3>2, <4>1
    <3>5. Ascending(Neighbours(l, s, n))
      <4>1. /\ Neighbours(l, s, n) \in Nets /\ Len(Neighbours(l, s, n)) = n - 1
            /\ \A k \in 1 .. n - 1 : Neighbours(l, s, n)[k] = <<At(l, s, 2 * k - 1), At(l, s, 2 * k)>>
        BY NeighboursNet
      <4>2. ASSUME NEW k \in 1 .. n - 1 PROVE At(l, s, 2 * k - 1) < At(l, s, 2 * k)
        <5>1. PICK u \in Nat : u = 2 * k - 1
          OBVIOUS
        <5>2. At(l, s, u) < At(l, s, u + 1)
          <6>1. (u + 1) * s = u * s + s /\ u * s \in Nat
            OBVIOUS
          <6> QED
            BY <6>1 DEF At
        <5> QED
          BY <5>1, <5>2
      <4> QED
        BY <4>1, <4>2 DEF Ascending
    <3> HIDE DEF A, B
    <3>6. Ascending(A \o B)
      BY <3>3, AscendingConcat
    <3> QED
      BY <2>2, <3>4, <3>5, <3>6, AscendingConcat
  <2> QED
    BY <2>4, <2>5
<1> QED
  BY <1>1

(* Also in oddeven_merge_sort_range.                                       *)
LEMMA SortAscending ==
  ASSUME NEW e \in Nat, NEW lo \in Nat
  PROVE  Ascending(OddEvenMergeSort[e][lo])
<1> DEFINE T == {d \in Nat : ~ \A l \in Nat : Ascending(OddEvenMergeSort[d][l])}
<1>1. T = {}
  <2> SUFFICES ASSUME T # {} PROVE FALSE
    OBVIOUS
  <2>1. PICK d \in T : \A c \in 0 .. d - 1 : c \notin T
    BY LeastNumber
  <2>2. PICK l \in Nat : ~ Ascending(OddEvenMergeSort[d][l])
    OBVIOUS
  <2>3. d \in Nat
    OBVIOUS
  <2>4. CASE d = 0
    <3>1. OddEvenMergeSort[d][l] = <<>>
      BY <2>4, SortNet
    <3> QED
      BY <2>2, <3>1 DEF Ascending, Nets
  <2>5. CASE d # 0
    <3>1. d > 0 /\ d - 1 \in Nat /\ d - 1 \in 0 .. d - 1 /\ d \in Nat \ {0} /\ d - 1 \notin T
      BY <2>1, <2>3, <2>5
    <3>2. l + Pow2[d - 1] \in Nat
      BY <3>1, Pow2Facts
    <3> DEFINE A == OddEvenMergeSort[d - 1][l]
               B == OddEvenMergeSort[d - 1][l + Pow2[d - 1]]
               M == OddEvenMerge[d][l][1]
    <3>3. Ascending(A) /\ Ascending(B)
      BY <3>1, <3>2
    <3>4. Ascending(M)
      BY <3>1, MergeAscending
    <3>5. OddEvenMergeSort[d][l] = A \o B \o M
      BY <2>3, <3>1, SortNet
    <3> HIDE DEF A, B, M
    <3>6. Ascending(A \o B)
      BY <3>3, AscendingConcat
    <3> QED
      BY <2>2, <3>4, <3>5, <3>6, AscendingConcat
  <2> QED
    BY <2>4, <2>5
<1> QED
  BY <1>1

(* Its power of two is above len.                                          *)
LEMMA UpperFacts ==
  ASSUME NEW len \in Nat
  PROVE  Upper(len) \in Nat /\ Pow2[Upper(len)] \in Nat /\ len < Pow2[Upper(len)]
<1> DEFINE T == {e \in 0 .. len : len < Pow2[e]}
<1>1. T \in SUBSET Nat /\ len \in T
  BY Pow2Facts
<1>2. PICK m \in T : \A k \in 0 .. m - 1 : k \notin T
  BY <1>1, LeastNumber
<1>3. \A k \in T : m <= k
  <2>1. \A k \in T : k \in Nat /\ m \in Nat
    BY <1>1
  <2> QED
    BY <1>2, <2>1
<1>4. Min(T) \in T
  BY <1>3 DEF Min
<1>5. Upper(len) \in Nat /\ len < Pow2[Upper(len)]
  BY <1>4 DEF Upper
<1> QED
  BY <1>5, Pow2Facts

(* What an exchange of obliSort does to n numbers: the indices are shifted *)
(* by one, and an index that is not below n is left alone.                 *)
ExchangedRanks(u, c, w, n) ==
  /\ c[2] < n => SmallerFirst(u, w, c[1] + 1, c[2] + 1)
  /\ \A p \in 1 .. n : c[2] >= n \/ (p # c[1] + 1 /\ p # c[2] + 1) => w[p] = u[p]

(* The bits that say which numbers are above v; above all of them, ones.   *)
Above(u, v, n) == [m \in Nat |-> IF m < n THEN IF u[m + 1] > v THEN 1 ELSE 0 ELSE 1]

(* Exchanging numbers exchanges these bits.                                *)
LEMMA ExchangedBits ==
  ASSUME NEW n \in Nat, NEW u \in [1 .. n -> Int], NEW w \in [1 .. n -> Int], NEW v \in Int,
         NEW c \in Nat \X Nat, c[1] < c[2], ExchangedRanks(u, c, w, n)
  PROVE  Exchanged01(Above(u, v, n), c, Above(w, v, n))
<1> DEFINE z == Above(u, v, n)
           y == Above(w, v, n)
<1>1. PICK a \in Nat, b \in Nat : c = <<a, b>>
  OBVIOUS
<1>2. c[1] = a /\ c[2] = b /\ a < b
  BY <1>1
<1>3. ASSUME NEW m \in Nat
      PROVE  /\ m < n => u[m + 1] \in Int /\ w[m + 1] \in Int
             /\ m < n /\ u[m + 1] > v => z[m] = 1
             /\ m < n /\ u[m + 1] <= v => z[m] = 0
             /\ m < n /\ w[m + 1] > v => y[m] = 1
             /\ m < n /\ w[m + 1] <= v => y[m] = 0
             /\ m >= n => z[m] = 1 /\ y[m] = 1
  <2>1. m < n => m + 1 \in 1 .. n
    OBVIOUS
  <2>2. m < n => u[m + 1] \in Int /\ w[m + 1] \in Int
    BY <2>1
  <2>3. z[m] = (IF m < n THEN IF u[m + 1] > v THEN 1 ELSE 0 ELSE 1)
    BY DEF Above
  <2>4. y[m] = (IF m < n THEN IF w[m + 1] > v THEN 1 ELSE 0 ELSE 1)
    BY DEF Above
  <2> QED
    BY <2>2, <2>3, <2>4
<1> HIDE DEF z, y
<1>4. SmallerFirst(z, y, a, b)
  <2>1. CASE b < n
    <3>1. a < n /\ a \in Nat /\ b \in Nat
      BY <1>2, <2>1
    <3>2. SmallerFirst(u, w, a + 1, b + 1)
      BY <1>2, <2>1 DEF ExchangedRanks
    <3>3. PICK x \in Int, x1 \in Int : x = u[a + 1] /\ x1 = w[a + 1]
      BY <1>3, <3>1
    <3>4. PICK t \in Int, t1 \in Int : t = u[b + 1] /\ t1 = w[b + 1]
      BY <1>3, <2>1, <3>1
    <3>5. (x <= t => x1 = x /\ t1 = t) /\ (x > t => x1 = t /\ t1 = x)
      BY <3>2, <3>3, <3>4 DEF SmallerFirst
    <3>6. /\ (x > v => z[a] = 1) /\ (x <= v => z[a] = 0)
          /\ (x1 > v => y[a] = 1) /\ (x1 <= v => y[a] = 0)
      BY <1>3, <3>1, <3>3
    <3>7. /\ (t > v => z[b] = 1) /\ (t <= v => z[b] = 0)
          /\ (t1 > v => y[b] = 1) /\ (t1 <= v => y[b] = 0)
      BY <1>3, <2>1, <3>1, <3>4
    <3> QED
      BY <3>5, <3>6, <3>7 DEF SmallerFirst
  <2>2. CASE b >= n
    <3>1. z[b] = 1 /\ y[b] = 1
      BY <1>3, <2>2
    <3>2. y[a] = z[a] /\ z[a] \in {0, 1}
      <4>1. CASE a >= n
        BY <1>3, <4>1
      <4>2. CASE a < n
        <5>1. w[a + 1] = u[a + 1]
          <6>1. a + 1 \in 1 .. n
            BY <4>2
          <6> QED
            BY <1>2, <2>2, <6>1 DEF ExchangedRanks
        <5> QED
          BY <1>3, <4>2, <5>1
      <4> QED
        BY <4>1, <4>2
    <3> QED
      BY <3>1, <3>2 DEF SmallerFirst
  <2> QED
    BY <2>1, <2>2
<1>5. ASSUME NEW p \in Nat, p # a, p # b PROVE y[p] = z[p]
  <2>1. CASE p >= n
    BY <1>3, <2>1
  <2>2. CASE p < n
    <3>1. w[p + 1] = u[p + 1]
      <4>1. p + 1 \in 1 .. n /\ p + 1 # a + 1 /\ p + 1 # b + 1
        BY <1>5, <2>2
      <4> QED
        BY <1>2, <4>1 DEF ExchangedRanks
    <3>2. PICK x \in Int : x = u[p + 1] /\ x = w[p + 1]
      BY <1>3, <2>2, <3>1
    <3>3. /\ x > v => z[p] = 1 /\ y[p] = 1
          /\ x <= v => z[p] = 0 /\ y[p] = 0
      BY <1>3, <2>2, <3>2
    <3> QED
      BY <3>3
  <2> QED
    BY <2>1, <2>2
<1>6. Exchanged01(z, c, y)
  BY <1>2, <1>4, <1>5 DEF Exchanged01
<1> QED
  BY <1>6 DEF z, y

(* obliSort sorts, however many rows there are: if each of its exchanges   *)
(* puts the smaller of two numbers first, they are in order in the end.    *)
THEOREM NetworkSorts ==
  ASSUME NEW n \in Nat, NEW h \in [0 .. Len(ObliSort(n)) -> [1 .. n -> Int]],
         \A k \in 1 .. Len(ObliSort(n)) : ExchangedRanks(h[k - 1], ObliSort(n)[k], h[k], n),
         NEW p \in 1 .. n, NEW q \in 1 .. n, p < q
  PROVE  h[Len(ObliSort(n))][p] <= h[Len(ObliSort(n))][q]
<1> DEFINE net == ObliSort(n)
           L == Len(ObliSort(n))
           v == h[L][q]
           H == [k \in 0 .. L |-> Above(h[k], v, n)]
<1>1. Upper(n) \in Nat /\ Pow2[Upper(n)] \in Nat /\ n < Pow2[Upper(n)]
  BY UpperFacts
<1>2. Ascending(net)
  BY <1>1, SortAscending DEF ObliSort
<1>3. L \in Nat /\ v \in Int /\ h[L] \in [1 .. n -> Int]
  <2>1. L \in Nat
    BY <1>2 DEF Ascending, Nets
  <2> QED
    BY <2>1
<1>4. ASSUME NEW k \in 1 .. L
      PROVE  Exchanged01(Above(h[k - 1], v, n), net[k], Above(h[k], v, n))
  <2>1. k - 1 \in 0 .. L /\ k \in 0 .. L
    BY <1>3
  <2>2. h[k - 1] \in [1 .. n -> Int] /\ h[k] \in [1 .. n -> Int]
    BY <2>1
  <2>3. net[k] \in Nat \X Nat /\ net[k][1] < net[k][2]
    BY <1>2 DEF Ascending, Nets
  <2>4. ExchangedRanks(h[k - 1], net[k], h[k], n)
    OBVIOUS
  <2> HIDE DEF net, L, v
  <2> QED
    BY <1>3, <2>2, <2>3, <2>4, ExchangedBits
<1>5. \A k \in 0 .. L : Above(h[k], v, n) \in Bits
  BY DEF Above, Bits
<1>6. NetRuns(H[0], net, H[L])
  <2>1. H \in [0 .. L -> Bits]
    BY <1>5
  <2>2. ASSUME NEW k \in 1 .. L PROVE Exchanged01(H[k - 1], net[k], H[k])
    <3>1. k - 1 \in 0 .. L /\ k \in 0 .. L
      BY <1>3
    <3>2. H[k - 1] = Above(h[k - 1], v, n) /\ H[k] = Above(h[k], v, n)
      BY <3>1
    <3> HIDE DEF H
    <3> QED
      BY <1>4, <3>2
  <2> HIDE DEF H
  <2> QED
    BY <2>1, <2>2 DEF NetRuns
<1>7. H[0] \in Bits /\ H[L] \in Bits /\ H[L] = Above(h[L], v, n)
  BY <1>3, <1>5
<1> HIDE DEF H
<1>8. PICK c \in 0 .. Pow2[Upper(n)] : ZerosFirst(H[L], 0, 1, 0, Pow2[Upper(n)], c)
  <2>1. NetRuns(H[0], OddEvenMergeSort[Upper(n)][0], H[L])
    BY <1>6 DEF ObliSort
  <2> HIDE DEF net, L
  <2>2. \E c \in 0 .. Pow2[Upper(n)] : ZerosFirst(H[L], 0, 1, 0, Pow2[Upper(n)], c)
    BY <1>1, <1>7, <2>1, SortCorrect
  <2> QED
    BY <2>2
<1>9. ASSUME NEW m \in 1 .. n
      PROVE  /\ m - 1 < c => H[L][m - 1] = 0
             /\ m - 1 >= c => H[L][m - 1] = 1
  <2>1. m - 1 \in 0 .. Pow2[Upper(n)] - 1 /\ 0 + (m - 1) = m - 1 /\ m - 1 \in Nat
    BY <1>1
  <2>2. At(0, 1, m - 1) = m - 1
    BY <2>1 DEF At
  <2> QED
    BY <1>8, <2>1, <2>2 DEF ZerosFirst
<1>10. ASSUME NEW m \in 1 .. n
       PROVE  h[L][m] \in Int /\ (h[L][m] > v => H[L][m - 1] = 1) /\ (h[L][m] <= v => H[L][m - 1] = 0)
  <2>1. m - 1 \in Nat /\ m - 1 < n /\ (m - 1) + 1 = m
    OBVIOUS
  <2> HIDE DEF v, L
  <2> QED
    BY <1>3, <1>7, <2>1 DEF Above
<1>11. H[L][q - 1] = 0
  BY <1>3, <1>10
<1>12. p - 1 < c
  BY <1>1, <1>9, <1>11
<1>13. H[L][p - 1] = 0
  BY <1>9, <1>12
<1> HIDE DEF L
<1>14. h[L][p] <= v
  BY <1>3, <1>10, <1>13, SMTT(30)
<1> QED
  BY <1>14 DEF L

-----------------------------------------------------------------------------
(* Expansion.  A recursive function on 0 .. N whose step maps X to X.      *)
HasFirstValues(X, C, S, N) ==
  \E f \in [0 .. N -> X] : \A n \in 0 .. N : f[n] = IF n = 0 THEN C ELSE S[n][f[n - 1]]

(* A recursive function on 0 .. N, too, has its values in X.               *)
LEMMA BoundedRecursion ==
  ASSUME NEW X, NEW C \in X, NEW N \in Nat, NEW S \in [1 .. N -> [X -> X]]
  PROVE  HasFirstValues(X, C, S, N)
<1> DEFINE R == [n \in Nat |-> IF n \in 1 .. N THEN S[n] ELSE [x \in X |-> x]]
<1>1. R \in [Nat -> [X -> X]]
  OBVIOUS
<1>2. \A n \in 1 .. N : R[n] = S[n]
  OBVIOUS
<1> HIDE DEF R
<1>3. PICK g \in [Nat -> X] : \A n \in Nat : g[n] = IF n = 0 THEN C ELSE R[n][g[n - 1]]
  <2>1. HasValues(X, C, R)
    BY <1>1, TypedRecursion
  <2> QED
    BY <2>1 DEF HasValues
<1> DEFINE f == [n \in 0 .. N |-> g[n]]
<1>4. f \in [0 .. N -> X] /\ \A n \in 0 .. N : f[n] = g[n]
  OBVIOUS
<1>5. ASSUME NEW n \in 0 .. N PROVE f[n] = IF n = 0 THEN C ELSE S[n][f[n - 1]]
  <2>1. CASE n = 0
    BY <1>3, <1>4, <2>1
  <2>2. CASE n # 0
    <3>1. n \in 1 .. N /\ n \in Nat /\ n - 1 \in 0 .. N
      BY <2>2
    <3>2. g[n] = S[n][g[n - 1]]
      BY <1>2, <1>3, <2>2, <3>1
    <3> HIDE DEF f
    <3> QED
      BY <1>4, <2>2, <3>1, <3>2
  <2> QED
    BY <2>1, <2>2
<1> HIDE DEF f
<1> QED
  BY <1>4, <1>5 DEF HasFirstValues

(* Arrays are sequences.                                                   *)
LEMMA ArrayIsSeq ==
  ASSUME NEW E, NEW n \in Nat, NEW a \in [1 .. n -> E]
  PROVE  a \in Seq(E) /\ Len(a) = n
OBVIOUS

(* What an exchange leaves where.                                          *)
LEMMA ExchangeValues ==
  ASSUME NEW E, NEW n \in Nat, NEW a \in [1 .. n -> E], NEW p \in 1 .. n, NEW q \in 1 .. n
  PROVE  /\ Exchange(a, p, q) \in [1 .. n -> E]
         /\ Exchange(a, p, q)[p] = a[q] /\ Exchange(a, p, q)[q] = a[p]
         /\ \A r \in 1 .. n : r # p /\ r # q => Exchange(a, p, q)[r] = a[r]
BY DEF Exchange

(* A move keeps the array an array.                                        *)
LEMMA MoveEntryType ==
  ASSUME NEW E, NEW n \in Nat, NEW a \in [1 .. n -> E], NEW j \in 0 .. n, NEW k \in 1 .. n - j
  PROVE  MoveEntry(a, k, j) \in [1 .. n -> E]
<1>1. k \in 1 .. n /\ k + j \in 1 .. n
  OBVIOUS
<1>2. Exchange(a, k, k + j) \in [1 .. n -> E]
  BY <1>1, ExchangeValues
<1> QED
  BY <1>2 DEF MoveEntry

(* One level, index by index from the right to the left.                   *)
LevelSteps(f, n, a, j) ==
  /\ f[0] = a
  /\ \A m \in 1 .. n - j : f[m] = MoveEntry(f[m - 1], n - j + 1 - m, j)

LevelRun(E, n, a, j) ==
  \E f \in [0 .. n - j -> [1 .. n -> E]] : LevelSteps(f, n, a, j) /\ MoveBy(a, j) = f[n - j]

(* MoveBy makes the steps of the loop, one after the other.                *)
LEMMA MoveBySteps ==
  ASSUME NEW E, NEW n \in Nat, NEW a \in [1 .. n -> E], NEW j \in 0 .. n
  PROVE  LevelRun(E, n, a, j)
<1> DEFINE X == [1 .. n -> E]
           N == n - j
           S == [m \in 1 .. N |-> [x \in X |-> MoveEntry(x, N + 1 - m, j)]]
           Body(f) == [m \in 0 .. N |-> IF m = 0 THEN a ELSE MoveEntry(f[m - 1], N + 1 - m, j)]
           g == CHOOSE f : f = Body(f)
<1>0. N \in Nat
  OBVIOUS
<1>1. ASSUME NEW m \in 1 .. N, NEW x \in X PROVE MoveEntry(x, N + 1 - m, j) \in X
  <2>1. N + 1 - m \in 1 .. n - j
    OBVIOUS
  <2> QED
    BY <2>1, MoveEntryType
<1>2. S \in [1 .. N -> [X -> X]]
  <2> HIDE DEF X, N
  <2> QED
    BY <1>1
<1>3. PICK f \in [0 .. N -> X] : \A m \in 0 .. N : f[m] = IF m = 0 THEN a ELSE S[m][f[m - 1]]
  <2>1. a \in X
    OBVIOUS
  <2> HIDE DEF X, N, S
  <2>2. HasFirstValues(X, a, S, N)
    BY <1>0, <1>2, <2>1, BoundedRecursion
  <2> QED
    BY <2>2 DEF HasFirstValues
<1>4. f = Body(f)
  <2>1. ASSUME NEW m \in 0 .. N PROVE f[m] = IF m = 0 THEN a ELSE MoveEntry(f[m - 1], N + 1 - m, j)
    <3>1. CASE m = 0
      BY <1>3, <3>1
    <3>2. CASE m # 0
      <4>1. m \in 1 .. N /\ m - 1 \in 0 .. N
        BY <1>0, <3>2
      <4>2. PICK x \in X : x = f[m - 1]
        BY <4>1
      <4>3. S[m][x] = MoveEntry(x, N + 1 - m, j)
        <5> HIDE DEF X, N
        <5> QED
          BY <4>1
      <4> HIDE DEF X, N, S
      <4> QED
        BY <1>3, <3>2, <4>2, <4>3
    <3> QED
      BY <3>1, <3>2
  <2> HIDE DEF X, N
  <2> QED
    BY <2>1
<1>5. g = Body(g)
  <2> HIDE DEF Body
  <2> QED
    BY <1>4
<1>6. MoveBy(a, j) = g[N]
  <2>1. Len(a) = n
    BY ArrayIsSeq
  <2>2. MoveBy(a, j) = (CHOOSE h : h = [m \in 0 .. Len(a) - j |->
                          IF m = 0 THEN a ELSE MoveEntry(h[m - 1], Len(a) - j + 1 - m, j)])[Len(a) - j]
    BY DEF MoveBy
  <2> QED
    BY <2>1, <2>2
<1> HIDE DEF g
<1>7. ASSUME NEW m \in 0 .. N PROVE g[m] = IF m = 0 THEN a ELSE MoveEntry(g[m - 1], N + 1 - m, j)
  <2> HIDE DEF N
  <2> QED
    BY <1>5
<1>8. DOMAIN g = 0 .. N
  BY <1>5
<1>9. g \in [0 .. N -> X]
  <2> DEFINE T == {m \in Nat : m <= N /\ g[m] \notin X}
  <2>1. T = {}
    <3> SUFFICES ASSUME T # {} PROVE FALSE
      OBVIOUS
    <3>1. PICK m \in T : \A l \in 0 .. m - 1 : l \notin T
      BY LeastNumber
    <3>2. m \in 0 .. N
      BY <1>0, <3>1
    <3>3. m # 0
      <4>1. a \in X
        OBVIOUS
      <4> HIDE DEF X, N
      <4> QED
        BY <1>7, <3>1, <3>2, <4>1
    <3>4. m \in 1 .. N /\ m - 1 \in 0 .. m - 1 /\ m - 1 \in Nat /\ m - 1 <= N /\ m - 1 \in 0 .. N
      BY <1>0, <3>2, <3>3
    <3>5. g[m - 1] \in X
      BY <3>1, <3>4
    <3> HIDE DEF X, N
    <3> QED
      BY <1>1, <1>7, <3>1, <3>2, <3>3, <3>4, <3>5
  <2>2. \A m \in 0 .. N : g[m] \in X
    BY <1>0, <2>1
  <2>3. g = [m \in 0 .. N |-> g[m]]
    <3> HIDE DEF N
    <3> QED
      BY <1>5
  <2> HIDE DEF X, N
  <2> QED
    BY <2>2, <2>3
<1>10. LevelSteps(g, n, a, j)
  BY <1>0, <1>7 DEF LevelSteps
<1> QED
  BY <1>6, <1>9, <1>10 DEF LevelRun

(* A level keeps the array an array.                                       *)
LEMMA MoveByType ==
  ASSUME NEW E, NEW n \in Nat, NEW a \in [1 .. n -> E], NEW j \in 0 .. n
  PROVE  MoveBy(a, j) \in [1 .. n -> E]
<1>1. PICK f \in [0 .. n - j -> [1 .. n -> E]] : LevelSteps(f, n, a, j) /\ MoveBy(a, j) = f[n - j]
  <2>1. LevelRun(E, n, a, j)
    BY MoveBySteps
  <2> QED
    BY <2>1 DEF LevelRun
<1>2. n - j \in 0 .. n - j
  OBVIOUS
<1> QED
  BY <1>1, <1>2

(* A larger exponent has a larger power.                                   *)
LEMMA Pow2Grows ==
  ASSUME NEW d \in Nat, NEW e \in Nat, d <= e
  PROVE  Pow2[d] <= Pow2[e]
<1> DEFINE T == {m \in Nat : ~ (Pow2[d] <= Pow2[d + m])}
<1>1. T = {}
  <2> SUFFICES ASSUME T # {} PROVE FALSE
    OBVIOUS
  <2>1. PICK m \in T : \A l \in 0 .. m - 1 : l \notin T
    BY LeastNumber
  <2>2. m # 0
    <3>1. Pow2[d] \in Nat /\ d + 0 = d
      BY Pow2Facts
    <3> QED
      BY <2>1, <3>1
  <2>3. m - 1 \in Nat /\ m - 1 \in 0 .. m - 1 /\ d + (m - 1) \in Nat /\ (d + (m - 1)) + 1 = d + m
    BY <2>2
  <2>4. Pow2[d] <= Pow2[d + (m - 1)]
    BY <2>1, <2>3
  <2>5. Pow2[d + m] = 2 * Pow2[d + (m - 1)] /\ Pow2[d + (m - 1)] \in Nat /\ Pow2[d] \in Nat
    BY <2>3, Pow2Facts
  <2>6. Pow2[d] <= Pow2[d + m]
    BY <2>4, <2>5
  <2> QED
    BY <2>1, <2>6
<1>2. e - d \in Nat /\ d + (e - d) = e
  OBVIOUS
<1> QED
  BY <1>1, <1>2

(* The steps of the levels: powers of two below the size.                  *)
LEMMA LevelFacts ==
  ASSUME NEW n \in Nat
  PROVE  /\ Levels(n) \in Nat
         /\ \A m \in 1 .. Levels(n) : /\ Levels(n) - m \in Nat
                                     /\ Pow2[Levels(n) - m] \in 1 .. n
         /\ n <= Pow2[Levels(n)]
<1>1. CASE n < 2
  <2>1. Levels(n) = 0
    BY <1>1 DEF Levels
  <2> QED
    BY <1>1, <2>1, Pow2Facts
<1>2. CASE n >= 2
  <2>1. Levels(n) = Pow2Lt(n) + 1
    BY <1>2 DEF Levels
  <2>2. PICK d \in Nat : d = Pow2Lt(n) /\ Pow2[d] < n /\ n <= 2 * Pow2[d]
    BY <1>2, Pow2LtFacts
  <2>3. Levels(n) = d + 1 /\ Pow2[d + 1] = 2 * Pow2[d]
    BY <2>1, <2>2, Pow2Facts
  <2>4. ASSUME NEW m \in 1 .. d + 1
        PROVE  (d + 1) - m \in Nat /\ Pow2[(d + 1) - m] \in 1 .. n
    <3>1. (d + 1) - m \in Nat /\ (d + 1) - m <= d
      OBVIOUS
    <3>2. Pow2[(d + 1) - m] <= Pow2[d]
      BY <3>1, Pow2Grows
    <3>3. Pow2[(d + 1) - m] \in Nat /\ Pow2[(d + 1) - m] > (d + 1) - m /\ Pow2[d] \in Nat
      BY <3>1, Pow2Facts
    <3> QED
      BY <2>2, <3>1, <3>2, <3>3
  <2> QED
    BY <2>2, <2>3, <2>4
<1> QED
  BY <1>1, <1>2

(* The levels, one after the other.                                        *)
PlaceSteps(h, n, a) ==
  /\ h[0] = a
  /\ \A m \in 1 .. Levels(n) : h[m] = MoveBy(h[m - 1], Pow2[Levels(n) - m])

PlaceRun(E, n, a) ==
  \E h \in [0 .. Levels(n) -> [1 .. n -> E]] : PlaceSteps(h, n, a) /\ Place(a) = h[Levels(n)]

(* Place makes the levels one after the other.                             *)
LEMMA PlacedSteps ==
  ASSUME NEW E, NEW n \in Nat, NEW a \in [1 .. n -> E]
  PROVE  PlaceRun(E, n, a)
<1> DEFINE X == [1 .. n -> E]
           N == Levels(n)
           S == [m \in 1 .. N |-> [x \in X |-> MoveBy(x, Pow2[N - m])]]
           Body(f) == [m \in 0 .. N |-> IF m = 0 THEN a ELSE MoveBy(f[m - 1], Pow2[N - m])]
           g == CHOOSE f : f = Body(f)
<1>0. N \in Nat
  BY LevelFacts
<1>1. ASSUME NEW m \in 1 .. N, NEW x \in X PROVE MoveBy(x, Pow2[N - m]) \in X
  <2>1. PICK j \in 0 .. n : j = Pow2[N - m]
    <3>1. Pow2[N - m] \in 1 .. n
      BY LevelFacts
    <3>2. Pow2[N - m] \in 0 .. n
      <4> HIDE DEF N
      <4> QED
        BY <3>1
    <3> QED
      BY <3>2
  <2>2. MoveBy(x, j) \in X
    BY MoveByType
  <2> QED
    BY <2>1, <2>2
<1>2. S \in [1 .. N -> [X -> X]]
  <2> HIDE DEF X, N
  <2> QED
    BY <1>1
<1>3. PICK f \in [0 .. N -> X] : \A m \in 0 .. N : f[m] = IF m = 0 THEN a ELSE S[m][f[m - 1]]
  <2>1. a \in X
    OBVIOUS
  <2> HIDE DEF X, N, S
  <2>2. HasFirstValues(X, a, S, N)
    BY <1>0, <1>2, <2>1, BoundedRecursion
  <2> QED
    BY <2>2 DEF HasFirstValues
<1>4. f = Body(f)
  <2>1. ASSUME NEW m \in 0 .. N PROVE f[m] = IF m = 0 THEN a ELSE MoveBy(f[m - 1], Pow2[N - m])
    <3>1. CASE m = 0
      <4> HIDE DEF X, N, S
      <4> QED
        BY <1>3, <3>1
    <3>2. CASE m # 0
      <4>1. m \in 1 .. N /\ m - 1 \in 0 .. N
        <5> HIDE DEF N
        <5> QED
          BY <1>0, <3>2
      <4>2. PICK x \in X : x = f[m - 1]
        <5> HIDE DEF X, N, S
        <5> QED
          BY <4>1
      <4>3. S[m][x] = MoveBy(x, Pow2[N - m])
        <5> HIDE DEF X, N
        <5> QED
          BY <4>1
      <4> HIDE DEF X, N, S
      <4> QED
        BY <1>3, <3>2, <4>2, <4>3
    <3> QED
      BY <3>1, <3>2
  <2> HIDE DEF X, N
  <2> QED
    BY <2>1
<1>5. g = Body(g)
  <2> HIDE DEF Body
  <2> QED
    BY <1>4
<1>6. Place(a) = g[N]
  <2>1. Len(a) = n
    BY ArrayIsSeq
  <2>2. Place(a) = (CHOOSE h : h = [m \in 0 .. Levels(Len(a)) |->
                      IF m = 0 THEN a ELSE MoveBy(h[m - 1], Pow2[Levels(Len(a)) - m])])[Levels(Len(a))]
    BY DEF Place
  <2> QED
    BY <2>1, <2>2
<1> HIDE DEF g
<1>7. ASSUME NEW m \in 0 .. N PROVE g[m] = IF m = 0 THEN a ELSE MoveBy(g[m - 1], Pow2[N - m])
  <2> HIDE DEF N
  <2> QED
    BY <1>5
<1>8. DOMAIN g = 0 .. N
  BY <1>5
<1>9. g \in [0 .. N -> X]
  <2> DEFINE T == {m \in Nat : m <= N /\ g[m] \notin X}
  <2>1. T = {}
    <3> SUFFICES ASSUME T # {} PROVE FALSE
      OBVIOUS
    <3>1. PICK m \in T : \A l \in 0 .. m - 1 : l \notin T
      BY LeastNumber
    <3> HIDE DEF N
    <3>2. m \in 0 .. N
      BY <1>0, <3>1
    <3>3. m # 0
      <4>1. a \in X
        OBVIOUS
      <4> HIDE DEF X
      <4> QED
        BY <1>7, <3>1, <3>2, <4>1
    <3>4. m \in 1 .. N /\ m - 1 \in 0 .. m - 1 /\ m - 1 \in Nat /\ m - 1 <= N /\ m - 1 \in 0 .. N
      BY <1>0, <3>2, <3>3
    <3>5. g[m - 1] \in X
      BY <3>1, <3>4
    <3> HIDE DEF X
    <3> QED
      BY <1>1, <1>7, <3>1, <3>2, <3>3, <3>4, <3>5
  <2> HIDE DEF X, N
  <2>2. \A m \in 0 .. N : g[m] \in X
    BY <1>0, <2>1
  <2>3. g = [m \in 0 .. N |-> g[m]]
    BY <1>5
  <2> QED
    BY <2>2, <2>3
<1>10. PlaceSteps(g, n, a)
  <2>1. g[0] = a
    <3>1. 0 \in 0 .. N
      BY <1>0
    <3> HIDE DEF N
    <3> QED
      BY <1>7, <3>1
  <2>2. ASSUME NEW m \in 1 .. N PROVE g[m] = MoveBy(g[m - 1], Pow2[N - m])
    <3>1. m \in 0 .. N /\ m # 0
      BY <1>0
    <3> HIDE DEF N
    <3> QED
      BY <1>7, <3>1
  <2> QED
    BY <2>1, <2>2 DEF PlaceSteps
<1> QED
  BY <1>6, <1>9, <1>10 DEF PlaceRun

-----------------------------------------------------------------------------
(* b has the entries of a, each of them once: from says which.             *)
Shuffled(b, a, from, n) ==
  /\ from \in [1 .. n -> 1 .. n]
  /\ \A p, q \in 1 .. n : from[p] = from[q] => p = q
  /\ \A k \in 1 .. n : \E p \in 1 .. n : from[p] = k
  /\ b = [p \in 1 .. n |-> a[from[p]]]

(* An array is a rearrangement of itself.                                  *)
LEMMA ShuffledSame ==
  ASSUME NEW E, NEW n \in Nat, NEW a \in [1 .. n -> E]
  PROVE  Shuffled(a, a, [p \in 1 .. n |-> p], n)
BY DEF Shuffled

(* An exchange rearranges further.                                         *)
LEMMA ShuffledExchange ==
  ASSUME NEW E, NEW n \in Nat, NEW a \in [1 .. n -> E], NEW b, NEW from, Shuffled(b, a, from, n),
         NEW p \in 1 .. n, NEW q \in 1 .. n
  PROVE  Shuffled(Exchange(b, p, q), a, Exchange(from, p, q), n)
<1> DEFINE f == Exchange(from, p, q)
           c == Exchange(b, p, q)
<1>1. from \in [1 .. n -> 1 .. n] /\ b \in [1 .. n -> E] /\ \A r \in 1 .. n : b[r] = a[from[r]]
  BY DEF Shuffled
<1>2. /\ f \in [1 .. n -> 1 .. n] /\ f[p] = from[q] /\ f[q] = from[p]
      /\ \A r \in 1 .. n : r # p /\ r # q => f[r] = from[r]
  BY <1>1 DEF Exchange
<1>3. /\ c \in [1 .. n -> E] /\ c[p] = b[q] /\ c[q] = b[p]
      /\ \A r \in 1 .. n : r # p /\ r # q => c[r] = b[r]
  BY <1>1 DEF Exchange
<1> HIDE DEF f, c
<1>4. ASSUME NEW r \in 1 .. n, NEW s \in 1 .. n, f[r] = f[s] PROVE r = s
  <2>1. \A x, y \in 1 .. n : from[x] = from[y] => x = y
    BY DEF Shuffled
  <2> DEFINE other(x) == IF x = p THEN q ELSE IF x = q THEN p ELSE x
  <2>2. \A x \in 1 .. n : other(x) \in 1 .. n /\ f[x] = from[other(x)]
    BY <1>2
  <2>3. other(r) = other(s)
    <3> HIDE DEF other
    <3> QED
      BY <1>4, <2>1, <2>2
  <2> QED
    BY <2>3
<1>5. ASSUME NEW k \in 1 .. n PROVE \E r \in 1 .. n : f[r] = k
  <2>1. PICK r \in 1 .. n : from[r] = k
    BY DEF Shuffled
  <2> QED
    BY <1>2, <2>1
<1>6. ASSUME NEW r \in 1 .. n PROVE c[r] = a[f[r]]
  BY <1>1, <1>2, <1>3
<1>7. c = [r \in 1 .. n |-> a[f[r]]]
  BY <1>3, <1>6
<1> QED
  BY <1>2, <1>4, <1>5, <1>7 DEF Shuffled, f, c

(* An array as the callers of expand pass it: the first len entries are    *)
(* items with slots of their own that rise, the others are not to move.    *)
Way(a, k) == a[k].first - (k - 1)

Spread(a, len, n) ==
  /\ len \in 0 .. n
  /\ \A k \in 1 .. len : a[k].first \in k - 1 .. n - 1
  /\ \A k, l \in 1 .. len : k < l => Way(a, k) <= Way(a, l)
  /\ \A k \in len + 1 .. n : a[k].first \in Int /\ a[k].first <= 0

(* The way of an item and its slot are numbers below the size.             *)
LEMMA WayType ==
  ASSUME NEW a, NEW n \in Nat, NEW len, Spread(a, len, n), NEW k \in 1 .. len
  PROVE  /\ k \in 1 .. n
         /\ Way(a, k) \in Nat /\ Way(a, k) < n
         /\ a[k].first = (k - 1) + Way(a, k) /\ a[k].first \in 0 .. n - 1
BY DEF Spread, Way

(* What is left of the ways is the remainder by w.                         *)
WayLeft(a, from, len, p, w) == a[from[p]].first - (p - 1) = Rem(Way(a, from[p]), w)

AllLeft(a, from, len, n, w) == \A p \in 1 .. n : from[p] \in 1 .. len => WayLeft(a, from, len, p, w)

(* In the course of a level that is so of the places beyond k for j, of    *)
(* the others for twice j.                                                 *)
LevelLeft(a, from, len, n, k, j) ==
  \A p \in 1 .. n : from[p] \in 1 .. len => WayLeft(a, from, len, p, IF p > k THEN j ELSE 2 * j)

(* The remainder by m from the one by twice m: one step of the binary      *)
(* digits.                                                                 *)
LEMMA DoubleRemainder ==
  ASSUME NEW x \in Nat, NEW m \in Nat \ {0}
  PROVE  /\ Rem(x, m) \in 0 .. m - 1 /\ Rem(x, 2 * m) \in 0 .. 2 * m - 1
         /\ Rem(x, 2 * m) < m => Rem(x, m) = Rem(x, 2 * m)
         /\ Rem(x, 2 * m) >= m => Rem(x, m) = Rem(x, 2 * m) - m
<1>1. Rem(x, m) \in 0 .. m - 1 /\ Rem(x, 2 * m) \in 0 .. 2 * m - 1
  BY DEF Rem
<1>2. PICK q \in Nat, r \in 0 .. 2 * m - 1 : x = (2 * m) * q + r /\ r = Rem(x, 2 * m)
  <2>1. x \div (2 * m) \in Nat /\ x = (2 * m) * (x \div (2 * m)) + (x % (2 * m))
    OBVIOUS
  <2> QED
    BY <1>1, <2>1 DEF Rem
<1>3. \A y \in Nat, s \in 0 .. m - 1 : (m * y + s) % m = s
  OBVIOUS
<1>4. CASE r < m
  <2>1. x = m * (2 * q) + r /\ 2 * q \in Nat /\ r \in 0 .. m - 1
    BY <1>2, <1>4
  <2>2. x % m = r
    BY <1>3, <2>1
  <2> QED
    BY <1>1, <1>2, <1>4, <2>2 DEF Rem
<1>5. CASE r >= m
  <2>1. r - m \in 0 .. m - 1 /\ 2 * q + 1 \in Nat
    BY <1>5
  <2>2. m * (2 * q + 1) = m * (2 * q) + m /\ m * (2 * q) = (2 * m) * q
    OBVIOUS
  <2>3. m * (2 * q) \in Nat
    OBVIOUS
  <2>4. x = m * (2 * q + 1) + (r - m)
    BY <1>2, <2>2, <2>3
  <2>5. x % m = r - m
    BY <1>3, <2>1, <2>4
  <2> QED
    BY <1>1, <1>2, <1>5, <2>5 DEF Rem
<1> QED
  BY <1>4, <1>5

(* Multiples of m below two numbers are in the order of the numbers.       *)
LEMMA RoundedInOrder ==
  ASSUME NEW x \in Nat, NEW y \in Nat, NEW m \in Nat \ {0}, x <= y
  PROVE  x - Rem(x, m) <= y - Rem(y, m)
<1>1. PICK p \in Nat, r \in 0 .. m - 1 : x = m * p + r /\ r = Rem(x, m)
  <2>1. x \div m \in Nat /\ x = m * (x \div m) + (x % m) /\ x % m \in 0 .. m - 1
    OBVIOUS
  <2> QED
    BY <2>1 DEF Rem
<1>2. PICK q \in Nat, s \in 0 .. m - 1 : y = m * q + s /\ s = Rem(y, m)
  <2>1. y \div m \in Nat /\ y = m * (y \div m) + (y % m) /\ y % m \in 0 .. m - 1
    OBVIOUS
  <2> QED
    BY <2>1 DEF Rem
<1>3. p <= q
  <2> SUFFICES ASSUME q < p PROVE FALSE
    OBVIOUS
  <2>1. p - q - 1 \in Nat
    OBVIOUS
  <2>2. m * (p - q - 1) >= 0
    BY <2>1
  <2>3. m * (p - q - 1) = m * p - m * q - m
    OBVIOUS
  <2> QED
    BY <1>1, <1>2, <2>2, <2>3
<1>4. m * (q - p) >= 0
  BY <1>3
<1>5. m * (q - p) = m * q - m * p
  OBVIOUS
<1>6. m * p \in Int /\ m * q \in Int
  OBVIOUS
<1> QED
  BY <1>1, <1>2, <1>4, <1>5, <1>6

(* Two items that have the same remainder to go are not at one place.      *)
LEMMA ItemsApart ==
  ASSUME NEW a, NEW n \in Nat, NEW len, Spread(a, len, n), NEW j \in Nat \ {0},
         NEW x \in 1 .. len, NEW y \in 1 .. len, x < y
  PROVE  a[x].first - Rem(Way(a, x), j) < a[y].first - Rem(Way(a, y), j)
<1>1. Way(a, x) <= Way(a, y)
  BY DEF Spread
<1>2. PICK v \in Nat, w \in Nat : v = Way(a, x) /\ w = Way(a, y)
  BY WayType
<1>3. a[x].first = (x - 1) + v /\ a[y].first = (y - 1) + w
  BY <1>2, WayType
<1>4. v - Rem(v, j) <= w - Rem(w, j) /\ Rem(v, j) \in 0 .. j - 1 /\ Rem(w, j) \in 0 .. j - 1
  BY <1>1, <1>2, RoundedInOrder, DoubleRemainder
<1>5. x \in Int /\ y \in Int
  BY DEF Spread
<1> QED
  BY <1>2, <1>3, <1>4, <1>5

(* The step of expand on the index k - 1.                                  *)
NextFrom(b, from, k, j) == IF b[k].first >= (k - 1) + j THEN Exchange(from, k, k + j) ELSE from

(* A step of the loop rearranges.                                          *)
LEMMA MoveShuffles ==
  ASSUME NEW E, NEW n \in Nat, NEW a \in [1 .. n -> E], NEW b, NEW from, Shuffled(b, a, from, n),
         NEW j \in 1 .. n, NEW k \in 1 .. n - j
  PROVE  Shuffled(MoveEntry(b, k, j), a, NextFrom(b, from, k, j), n)
<1>1. k \in 1 .. n /\ k + j \in 1 .. n
  OBVIOUS
<1>2. Shuffled(Exchange(b, k, k + j), a, Exchange(from, k, k + j), n)
  BY <1>1, ShuffledExchange
<1> QED
  BY <1>2 DEF MoveEntry, NextFrom

(* A step of the loop takes j off the way of the entry at k, if there is   *)
(* that much left; nothing is displaced by it that was still to move.      *)
LEMMA MoveLeft ==
  ASSUME NEW E, NEW n \in Nat, NEW a \in [1 .. n -> E], NEW b, NEW from, Shuffled(b, a, from, n),
         NEW len, Spread(a, len, n),
         NEW j \in 1 .. n, NEW k \in 1 .. n - j, LevelLeft(a, from, len, n, k, j)
  PROVE  LevelLeft(a, NextFrom(b, from, k, j), len, n, k - 1, j)
<1> DEFINE f == NextFrom(b, from, k, j)
           x == from[k]
<1>0. /\ k \in 1 .. n /\ k + j \in 1 .. n /\ k \in Nat /\ j \in Nat \ {0} /\ ~ k > k /\ k + j > k
      /\ len \in 0 .. n
  BY DEF Spread
<1>1. /\ from \in [1 .. n -> 1 .. n] /\ b[k] = a[x] /\ x \in 1 .. n
      /\ \A p, q \in 1 .. n : from[p] = from[q] => p = q
  BY <1>0 DEF Shuffled
<1>2. ASSUME NEW p \in 1 .. n, from[p] \in 1 .. len
      PROVE  WayLeft(a, from, len, p, IF p > k THEN j ELSE 2 * j)
  BY <1>2 DEF LevelLeft
<1>3. x \in 1 .. len => /\ a[x].first \in Nat /\ Way(a, x) \in Nat
                        /\ a[x].first - (k - 1) = Rem(Way(a, x), 2 * j)
  <2> SUFFICES ASSUME x \in 1 .. len
               PROVE /\ a[x].first \in Nat /\ Way(a, x) \in Nat
                     /\ a[x].first - (k - 1) = Rem(Way(a, x), 2 * j)
    OBVIOUS
  <2>1. a[x].first \in Nat /\ Way(a, x) \in Nat
    <3> HIDE DEF x
    <3>1. a[x].first \in 0 .. n - 1 /\ Way(a, x) \in Nat
      BY WayType
    <3> QED
      BY <3>1
  <2>2. WayLeft(a, from, len, k, 2 * j)
    BY <1>0, <1>2
  <2> QED
    BY <2>1, <2>2 DEF WayLeft
<1>4. CASE a[x].first >= (k - 1) + j
  <2>1. f = Exchange(from, k, k + j)
    BY <1>1, <1>4 DEF NextFrom
  <2>2. /\ f[k] = from[k + j] /\ f[k + j] = x
        /\ \A p \in 1 .. n : p # k /\ p # k + j => f[p] = from[p]
    BY <1>0, <1>1, <2>1 DEF Exchange
  <2>3. x \in 1 .. len
    <3>1. x \in len + 1 .. n => a[x].first \in Int /\ a[x].first <= 0
      <4> HIDE DEF x
      <4> QED
        BY DEF Spread
    <3>2. x \in 1 .. len \/ x \in len + 1 .. n
      BY <1>0, <1>1
    <3> HIDE DEF x
    <3> QED
      BY <1>0, <1>4, <3>1, <3>2
  <2>4. PICK d \in Nat, v \in Nat : d = a[x].first /\ v = Way(a, x)
    BY <1>3, <2>3
  <2>5. d - (k - 1) = Rem(v, 2 * j) /\ d >= (k - 1) + j /\ Rem(v, j) \in 0 .. j - 1
        /\ Rem(v, 2 * j) \in 0 .. 2 * j - 1 /\ (Rem(v, 2 * j) >= j => Rem(v, j) = Rem(v, 2 * j) - j)
    BY <1>0, <1>3, <1>4, <2>3, <2>4, DoubleRemainder
  <2>6. d - (k + j - 1) = Rem(v, j)
    BY <1>0, <2>5
  <2>7. from[k + j] \notin 1 .. len
    <3> SUFFICES ASSUME from[k + j] \in 1 .. len PROVE FALSE
      OBVIOUS
    <3> DEFINE y == from[k + j]
    <3>1. WayLeft(a, from, len, k + j, j)
      BY <1>0, <1>2
    <3>2. PICK e \in Nat, w \in Nat : e = a[y].first /\ w = Way(a, y) /\ Rem(w, j) \in 0 .. j - 1
      <4>1. y \in 1 .. len
        OBVIOUS
      <4> HIDE DEF y
      <4>2. a[y].first \in 0 .. n - 1 /\ Way(a, y) \in Nat
        BY <4>1, WayType
      <4>3. PICK w \in Nat : w = Way(a, y)
        BY <4>2
      <4>4. Rem(w, j) \in 0 .. j - 1
        BY <1>0, DoubleRemainder
      <4>5. a[y].first \in Nat
        BY <4>2
      <4> QED
        BY <4>3, <4>4, <4>5
    <3>3. e - (k + j - 1) = Rem(w, j)
      BY <3>1, <3>2 DEF WayLeft
    <3>4. x # y
      BY <1>0, <1>1
    <3>5. d - Rem(v, j) = e - Rem(w, j)
      <4>1. Rem(v, j) \in Int /\ Rem(w, j) \in Int /\ k \in Int /\ j \in Int
        BY <1>0, <2>5, <3>2
      <4> QED
        BY ONLY <2>6, <3>3, <4>1, d \in Nat, e \in Nat
    <3>6. x \in 1 .. len /\ y \in 1 .. len /\ x \in Nat /\ y \in Nat
      BY <2>3
    <3> HIDE DEF x, y
    <3>7. CASE x < y
      <4>1. d - Rem(v, j) < e - Rem(w, j)
        BY <1>0, <2>4, <3>2, <3>6, <3>7, ItemsApart
      <4> QED
        BY <2>5, <3>2, <3>5, <4>1
    <3>8. CASE y < x
      <4>1. e - Rem(w, j) < d - Rem(v, j)
        BY <1>0, <2>4, <3>2, <3>6, <3>8, ItemsApart
      <4> QED
        BY <2>5, <3>2, <3>5, <4>1
    <3> QED
      BY <3>4, <3>6, <3>7, <3>8
  <2>8. ASSUME NEW p \in 1 .. n, f[p] \in 1 .. len
        PROVE  WayLeft(a, f, len, p, IF p > k - 1 THEN j ELSE 2 * j)
    <3>1. p # k
      BY <2>2, <2>7, <2>8
    <3>2. CASE p = k + j
      <4>1. p > k - 1 /\ f[p] = x /\ p - 1 = k + j - 1
        BY <1>0, <2>2, <3>2
      <4> HIDE DEF f, x
      <4>2. a[f[p]].first - (p - 1) = Rem(Way(a, f[p]), j)
        BY <2>4, <2>6, <4>1
      <4> QED
        BY <4>1, <4>2 DEF WayLeft
    <3>3. CASE p # k + j
      <4>1. f[p] = from[p] /\ (p > k - 1 <=> p > k)
        BY <1>0, <2>2, <3>1, <3>3
      <4> HIDE DEF f
      <4>2. WayLeft(a, from, len, p, IF p > k THEN j ELSE 2 * j)
        BY <1>2, <2>8, <4>1
      <4> QED
        BY <4>1, <4>2 DEF WayLeft
    <3> QED
      BY <3>2, <3>3
  <2> QED
    BY <2>8 DEF LevelLeft
<1>5. CASE ~ a[x].first >= (k - 1) + j
  <2>1. f = from
    BY <1>1, <1>5 DEF NextFrom
  <2>2. ASSUME NEW p \in 1 .. n, from[p] \in 1 .. len
        PROVE  WayLeft(a, from, len, p, IF p > k - 1 THEN j ELSE 2 * j)
    <3>1. CASE p # k
      <4>1. p > k - 1 <=> p > k
        BY <1>0, <3>1
      <4> QED
        BY <1>2, <2>2, <4>1
    <3>2. CASE p = k
      <4>1. PICK d \in Nat, v \in Nat : d = a[x].first /\ v = Way(a, x)
        BY <1>3, <2>2, <3>2
      <4>2. d - (k - 1) = Rem(v, 2 * j) /\ ~ d >= (k - 1) + j
        BY <1>3, <1>5, <2>2, <3>2, <4>1
      <4>3. Rem(v, 2 * j) < j
        BY <1>0, <4>2
      <4>4. Rem(v, j) = Rem(v, 2 * j)
        BY <1>0, <4>3, DoubleRemainder
      <4>5. p > k - 1
        BY <1>0, <3>2
      <4>6. WayLeft(a, from, len, p, j)
        BY <3>2, <4>1, <4>2, <4>4 DEF WayLeft
      <4> QED
        BY <4>5, <4>6
    <3> QED
      BY <3>1, <3>2
  <2> QED
    BY <2>1, <2>2 DEF LevelLeft
<1> QED
  BY <1>4, <1>5

(* A whole level rearranges the array, and leaves the remainder by j of    *)
(* every way.                                                              *)
LevelDone(b, a, from0, n, j) ==
  \E from : /\ Shuffled(MoveBy(b, j), a, from, n)
            /\ \A len : Spread(a, len, n) /\ AllLeft(a, from0, len, n, 2 * j) => AllLeft(a, from, len, n, j)

(* A level does all its steps: see LevelDone.                              *)
LEMMA LevelCorrect ==
  ASSUME NEW E, NEW n \in Nat, NEW a \in [1 .. n -> E], NEW b, NEW from0, Shuffled(b, a, from0, n),
         NEW j \in 1 .. n
  PROVE  LevelDone(b, a, from0, n, j)
<1> DEFINE N == n - j
           Reached(c, m) ==
             \E from : /\ Shuffled(c, a, from, n)
                       /\ \A len : Spread(a, len, n) /\ AllLeft(a, from0, len, n, 2 * j)
                                     => LevelLeft(a, from, len, n, N - m, j)
<1>0. N \in Nat /\ b \in [1 .. n -> E] /\ j \in 0 .. n
  BY DEF Shuffled
<1>1. PICK f \in [0 .. N -> [1 .. n -> E]] : LevelSteps(f, n, b, j) /\ MoveBy(b, j) = f[N]
  <2>1. LevelRun(E, n, b, j)
    BY <1>0, MoveBySteps
  <2> QED
    BY <2>1 DEF LevelRun
<1>2. Reached(f[0], 0)
  <2>1. f[0] = b
    BY <1>1 DEF LevelSteps
  <2>2. ASSUME NEW len, Spread(a, len, n), AllLeft(a, from0, len, n, 2 * j)
        PROVE  LevelLeft(a, from0, len, n, N - 0, j)
    <3> SUFFICES ASSUME NEW p \in 1 .. n, from0[p] \in 1 .. len
                 PROVE  WayLeft(a, from0, len, p, IF p > N - 0 THEN j ELSE 2 * j)
      BY DEF LevelLeft
    <3>1. WayLeft(a, from0, len, p, 2 * j)
      BY <2>2 DEF AllLeft
    <3>2. CASE ~ p > N - 0
      BY <3>1, <3>2
    <3>3. CASE p > N - 0
      <4> DEFINE x == from0[p]
      <4>1. a[x].first \in 0 .. n - 1 /\ Way(a, x) \in Nat
        <5>1. x \in 1 .. len
          OBVIOUS
        <5> HIDE DEF x
        <5> QED
          BY <2>2, <5>1, WayType
      <4>2. PICK d \in 0 .. n - 1, v \in Nat : d = a[x].first /\ v = Way(a, x)
        BY <4>1
      <4>3. d - (p - 1) = Rem(v, 2 * j)
        BY <3>1, <4>2 DEF WayLeft
      <4>4. Rem(v, 2 * j) < j
        BY <3>3, <4>3
      <4>5. Rem(v, j) = Rem(v, 2 * j)
        BY <4>4, DoubleRemainder
      <4>6. WayLeft(a, from0, len, p, j)
        BY <4>2, <4>3, <4>5 DEF WayLeft
      <4> QED
        BY <3>3, <4>6
    <3> QED
      BY <3>2, <3>3
  <2> HIDE DEF N
  <2> QED
    BY <2>1, <2>2
<1>3. ASSUME NEW m \in 1 .. N, Reached(f[m - 1], m - 1) PROVE Reached(f[m], m)
  <2> DEFINE k == N + 1 - m
             c == f[m - 1]
  <2>0. k \in 1 .. N /\ N - (m - 1) = k /\ N - m = k - 1
    BY <1>0
  <2>1. f[m] = MoveEntry(c, k, j)
    BY <1>1 DEF LevelSteps
  <2> HIDE DEF k, c
  <2>2. PICK from : /\ Shuffled(c, a, from, n)
                    /\ \A len : Spread(a, len, n) /\ AllLeft(a, from0, len, n, 2 * j)
                                  => LevelLeft(a, from, len, n, k, j)
    BY <1>3, <2>0 DEF c
  <2>3. Shuffled(MoveEntry(c, k, j), a, NextFrom(c, from, k, j), n)
    BY <2>0, <2>2, MoveShuffles
  <2>4. ASSUME NEW len, Spread(a, len, n), AllLeft(a, from0, len, n, 2 * j)
        PROVE  LevelLeft(a, NextFrom(c, from, k, j), len, n, k - 1, j)
    <3>1. LevelLeft(a, from, len, n, k, j)
      BY <2>2, <2>4
    <3> QED
      BY <2>0, <2>2, <2>4, <3>1, MoveLeft
  <2> HIDE DEF N
  <2> QED
    BY <2>0, <2>1, <2>3, <2>4
<1> HIDE DEF N, Reached
<1>4. Reached(f[N], N)
  <2> DEFINE T == {m \in Nat : m <= N /\ ~ Reached(f[m], m)}
  <2>1. T = {}
    <3> SUFFICES ASSUME T # {} PROVE FALSE
      OBVIOUS
    <3>1. PICK m \in T : \A l \in 0 .. m - 1 : l \notin T
      BY LeastNumber
    <3>2. m # 0
      BY <1>2, <3>1
    <3>3. m \in 1 .. N /\ m - 1 \in 0 .. m - 1 /\ m - 1 \in Nat /\ m - 1 <= N
      BY <1>0, <3>1, <3>2
    <3> QED
      BY <1>3, <3>1, <3>3
  <2> QED
    BY <1>0, <2>1
<1>5. PICK from : /\ Shuffled(f[N], a, from, n)
                  /\ \A len : Spread(a, len, n) /\ AllLeft(a, from0, len, n, 2 * j)
                                => LevelLeft(a, from, len, n, N - N, j)
  BY <1>4 DEF Reached
<1>6. ASSUME NEW len, LevelLeft(a, from, len, n, N - N, j) PROVE AllLeft(a, from, len, n, j)
  <2> SUFFICES ASSUME NEW p \in 1 .. n, from[p] \in 1 .. len PROVE WayLeft(a, from, len, p, j)
    BY DEF AllLeft
  <2>1. p > N - N
    BY <1>0
  <2> QED
    BY <1>6, <2>1 DEF LevelLeft
<1> QED
  BY <1>1, <1>5, <1>6 DEF LevelDone

-----------------------------------------------------------------------------
(* The whole of expand(data, false): the array is rearranged, and the      *)
(* items are in their slots.                                               *)
Home(a, from, len, n) == \A p \in 1 .. n : from[p] \in 1 .. len => a[from[p]].first = p - 1

Placed(b, a, n) ==
  \E from : /\ Shuffled(b, a, from, n)
            /\ \A len : Spread(a, len, n) => Home(a, from, len, n)

(* expand(data, false), whatever the array: no entry is lost or doubled,   *)
(* and items whose ways do not fall from left to right end in their slots. *)
THEOREM ItemsPlaced ==
  ASSUME NEW E, NEW n \in Nat, NEW a \in [1 .. n -> E]
  PROVE  Placed(Place(a), a, n)
<1> DEFINE N == Levels(n)
           Reached(c, m) ==
             \E from : /\ Shuffled(c, a, from, n)
                       /\ \A len : Spread(a, len, n) => AllLeft(a, from, len, n, Pow2[N - m])
<1>0. N \in Nat /\ n <= Pow2[N] /\ Pow2[N] \in Nat \ {0}
  <2>1. N \in Nat /\ n <= Pow2[N]
    BY LevelFacts
  <2> HIDE DEF N
  <2>2. Pow2[N] \in Nat /\ Pow2[N] > N
    BY <2>1, Pow2Facts
  <2> QED
    BY <2>1, <2>2
<1>1. PICK h \in [0 .. N -> [1 .. n -> E]] : PlaceSteps(h, n, a) /\ Place(a) = h[N]
  <2>1. PlaceRun(E, n, a)
    BY PlacedSteps
  <2> QED
    BY <2>1 DEF PlaceRun
<1>2. Reached(h[0], 0)
  <2> DEFINE from == [p \in 1 .. n |-> p]
  <2>1. Shuffled(h[0], a, from, n)
    BY <1>1, ShuffledSame DEF PlaceSteps
  <2>2. ASSUME NEW len, Spread(a, len, n) PROVE AllLeft(a, from, len, n, Pow2[N - 0])
    <3> SUFFICES ASSUME NEW p \in 1 .. n, from[p] \in 1 .. len
                 PROVE  WayLeft(a, from, len, p, Pow2[N - 0])
      BY DEF AllLeft
    <3>1. from[p] = p /\ p \in 1 .. len /\ N - 0 = N
      <4>1. from[p] = p
        OBVIOUS
      <4> HIDE DEF from, N
      <4> QED
        BY <1>0, <4>1
    <3>2. PICK v \in Nat : v = Way(a, p) /\ v < n
      BY <2>2, <3>1, WayType
    <3>3. Way(a, p) = a[p].first - (p - 1)
      BY DEF Way
    <3> HIDE DEF from, N
    <3>4. v \in Nat /\ v < Pow2[N]
      BY <1>0, <3>2
    <3>5. \A x \in Nat, m \in Nat \ {0} : x < m => x % m = x
      OBVIOUS
    <3>6. Rem(v, Pow2[N]) = v
      BY <1>0, <3>4, <3>5 DEF Rem
    <3> QED
      BY <3>1, <3>2, <3>3, <3>6 DEF WayLeft
  <2> QED
    BY <2>1, <2>2
<1>3. ASSUME NEW m \in 1 .. N, Reached(h[m - 1], m - 1) PROVE Reached(h[m], m)
  <2>1. PICK j \in 1 .. n : j = Pow2[N - m]
    BY LevelFacts
  <2>2. Pow2[N - (m - 1)] = 2 * j
    <3> HIDE DEF N
    <3>1. N - m \in Nat /\ (N - m) + 1 = N - (m - 1)
      BY <1>0
    <3> QED
      BY <2>1, <3>1, Pow2Facts
  <2>3. h[m] = MoveBy(h[m - 1], j)
    BY <1>1, <2>1 DEF PlaceSteps
  <2>4. PICK from0 : /\ Shuffled(h[m - 1], a, from0, n)
                     /\ \A len : Spread(a, len, n) => AllLeft(a, from0, len, n, 2 * j)
    BY <1>3, <2>2
  <2>5. LevelDone(h[m - 1], a, from0, n, j)
    BY <2>4, LevelCorrect
  <2>6. PICK from : /\ Shuffled(MoveBy(h[m - 1], j), a, from, n)
                    /\ \A len : Spread(a, len, n) /\ AllLeft(a, from0, len, n, 2 * j)
                                  => AllLeft(a, from, len, n, j)
    BY <2>5 DEF LevelDone
  <2> QED
    BY <2>1, <2>3, <2>4, <2>6
<1> HIDE DEF N, Reached
<1>4. Reached(h[N], N)
  <2> DEFINE T == {m \in Nat : m <= N /\ ~ Reached(h[m], m)}
  <2>1. T = {}
    <3> SUFFICES ASSUME T # {} PROVE FALSE
      OBVIOUS
    <3>1. PICK m \in T : \A l \in 0 .. m - 1 : l \notin T
      BY LeastNumber
    <3>2. m # 0
      BY <1>2, <3>1
    <3>3. m \in 1 .. N /\ m - 1 \in 0 .. m - 1 /\ m - 1 \in Nat /\ m - 1 <= N
      BY <1>0, <3>1, <3>2
    <3> QED
      BY <1>3, <3>1, <3>3
  <2> QED
    BY <1>0, <2>1
<1>5. PICK from : /\ Shuffled(h[N], a, from, n)
                  /\ \A len : Spread(a, len, n) => AllLeft(a, from, len, n, Pow2[N - N])
  BY <1>4 DEF Reached
<1>6. ASSUME NEW len, Spread(a, len, n) PROVE Home(a, from, len, n)
  <2> SUFFICES ASSUME NEW p \in 1 .. n, from[p] \in 1 .. len PROVE a[from[p]].first = p - 1
    BY DEF Home
  <2> DEFINE x == from[p]
  <2>1. x \in 1 .. len
    OBVIOUS
  <2>2. AllLeft(a, from, len, n, 1)
    <3>1. N - N = 0 /\ Pow2[0] = 1
      BY <1>0, Pow2Facts
    <3> QED
      BY <1>5, <1>6, <3>1
  <2>3. a[x].first - (p - 1) = Rem(Way(a, x), 1)
    BY <2>2 DEF AllLeft, WayLeft
  <2> HIDE DEF x
  <2>4. PICK v \in Nat, d \in Nat : v = Way(a, x) /\ d = a[x].first
    <3>1. Way(a, x) \in Nat /\ a[x].first \in 0 .. n - 1
      BY <1>6, <2>1, WayType
    <3> QED
      BY <3>1
  <2>5. Rem(v, 1) = 0
    BY DoubleRemainder
  <2>6. d - (p - 1) = 0
    BY <2>3, <2>4, <2>5
  <2> QED
    BY <2>4, <2>6 DEF x
<1> QED
  BY <1>1, <1>5, <1>6 DEF Placed

(* What expand leaves in a slot: the last entry up to it that is in its    *)
(* own slot.                                                               *)
FilledFrom(c, b, none, n) ==
  /\ \A s \in 1 .. n : \/ c[s] = none /\ \A l \in 1 .. s : b[l].first # l - 1
                       \/ \E l \in 1 .. s : /\ c[s] = b[l] /\ b[l].first = l - 1
                                            /\ \A m \in l + 1 .. s : b[m].first # m - 1
  /\ \A s \in 1 .. n : b[s].first = s - 1 => c[s] = b[s]
  /\ none.first < 0 => \A s \in 1 .. n : c[s].first = s - 1 => c[s] = b[s]

(* expand(data), whatever the array: a slot holds what placement left in   *)
(* it when that is at home, else the nearest entry at home on its left.    *)
THEOREM SlotsFilled ==
  ASSUME NEW n \in Nat, NEW E, NEW a \in [1 .. n -> E], NEW none, none.first \in Int
  PROVE  DOMAIN Expand(a, none) = 1 .. n /\ FilledFrom(Expand(a, none), Place(a), none, n)
<1> DEFINE b == Place(a)
           c == Expand(a, none)
           home(k) == {l \in 1 .. k : b[l].first = l - 1}
<1>1. Len(a) = n
  BY ArrayIsSeq
<1>2. c = [k \in 1 .. n |-> IF home(k) = {} THEN none ELSE b[Max(home(k))]]
  BY <1>1 DEF Expand
<1>3. DOMAIN c = 1 .. n
  BY <1>2
<1>4. ASSUME NEW s \in 1 .. n, home(s) # {}
      PROVE  \E l \in 1 .. s : /\ c[s] = b[l] /\ b[l].first = l - 1 /\ l = Max(home(s))
                               /\ \A m \in l + 1 .. s : b[m].first # m - 1
  <2>1. home(s) \in SUBSET (0 .. s) /\ s \in Nat
    OBVIOUS
  <2>2. Max(home(s)) \in home(s) /\ \A m \in home(s) : Max(home(s)) >= m
    <3> HIDE DEF home
    <3> QED
      BY <1>4, <2>1, MaxOfNumbers
  <2>3. c[s] = b[Max(home(s))]
    <3> HIDE DEF home, c
    <3> QED
      BY <1>2, <1>4
  <2>4. PICK l \in home(s) : l = Max(home(s))
    BY <2>2
  <2>5. \A m \in l + 1 .. s : m \notin home(s)
    <3> HIDE DEF home
    <3> QED
      BY <2>1, <2>2, <2>4
  <2>6. l \in 1 .. s /\ b[l].first = l - 1
    OBVIOUS
  <2>7. \A m \in l + 1 .. s : b[m].first # m - 1
    <3>1. \A m \in l + 1 .. s : m \in 1 .. s
      BY <2>6
    <3> QED
      BY <2>5, <3>1
  <2> HIDE DEF home, b, c
  <2> QED
    BY <2>3, <2>4, <2>6, <2>7
<1>5. ASSUME NEW s \in 1 .. n, home(s) = {} PROVE c[s] = none /\ \A l \in 1 .. s : b[l].first # l - 1
  <2>1. c[s] = none
    <3> HIDE DEF home, c
    <3> QED
      BY <1>2, <1>5
  <2> QED
    BY <1>5, <2>1
<1>6. ASSUME NEW s \in 1 .. n, b[s].first = s - 1 PROVE c[s] = b[s]
  <2>1. s \in 1 .. s
    OBVIOUS
  <2>2. home(s) # {}
    BY <1>6, <2>1
  <2>3. PICK l \in 1 .. s : c[s] = b[l] /\ \A m \in l + 1 .. s : b[m].first # m - 1
    <3> HIDE DEF home, c, b
    <3> QED
      BY <1>4, <2>2
  <2>4. ~ l < s
    <3> SUFFICES ASSUME l < s PROVE FALSE
      OBVIOUS
    <3>1. s \in l + 1 .. s
      OBVIOUS
    <3> HIDE DEF b, c
    <3> QED
      BY <1>6, <2>3, <3>1
  <2>5. l = s
    BY <2>4
  <2> QED
    BY <2>3, <2>5
<1>7. ASSUME none.first < 0, NEW s \in 1 .. n, c[s].first = s - 1 PROVE c[s] = b[s]
  <2>1. home(s) # {}
    <3> SUFFICES ASSUME home(s) = {} PROVE FALSE
      OBVIOUS
    <3>1. c[s] = none
      <4> HIDE DEF home, c, b
      <4> QED
        BY <1>5
    <3> HIDE DEF c, home
    <3> QED
      BY <1>7, <3>1
  <2>2. PICK l \in 1 .. s : c[s] = b[l] /\ b[l].first = l - 1
    <3> HIDE DEF home, c, b
    <3> QED
      BY <1>4, <2>1
  <2>3. l = s
    <3> HIDE DEF c, b
    <3> QED
      BY <1>7, <2>2
  <2> QED
    BY <2>2, <2>3
<1>8. ASSUME NEW s \in 1 .. n
      PROVE \/ c[s] = none /\ \A l \in 1 .. s : b[l].first # l - 1
            \/ \E l \in 1 .. s : /\ c[s] = b[l] /\ b[l].first = l - 1
                                 /\ \A m \in l + 1 .. s : b[m].first # m - 1
  <2> HIDE DEF home, c, b
  <2> QED
    BY <1>4, <1>5
<1> HIDE DEF home, c, b
<1>9. FilledFrom(c, b, none, n)
  BY <1>6, <1>7, <1>8 DEF FilledFrom
<1> QED
  BY <1>3, <1>9 DEF b, c

-----------------------------------------------------------------------------
(* Sums of numbers, and the parts between them.                            *)

\* The sums of numbers, the first n of them.
SumsUp(S, n) ==
  /\ n \in Nat /\ S \in [0 .. n -> Nat] /\ S[0] = 0
  /\ \A k \in 1 .. n : S[k - 1] <= S[k]

(* Sums do not fall.                                                       *)
LEMMA SumsRise ==
  ASSUME NEW n, NEW S, SumsUp(S, n), NEW k \in 0 .. n, NEW l \in 0 .. n, k <= l
  PROVE  S[k] <= S[l]
<1> DEFINE T == {m \in Nat : m >= k /\ m <= n /\ ~ (S[k] <= S[m])}
<1>0. n \in Nat /\ \A m \in 0 .. n : S[m] \in Nat
  BY DEF SumsUp
<1>1. T = {}
  <2> SUFFICES ASSUME T # {} PROVE FALSE
    OBVIOUS
  <2>1. PICK m \in T : \A y \in 0 .. m - 1 : y \notin T
    BY LeastNumber
  <2>2. m \in Nat /\ m >= k /\ m <= n /\ ~ (S[k] <= S[m])
    BY <2>1
  <2>3. m # k
    <3>1. S[k] <= S[k]
      BY <1>0
    <3> QED
      BY <2>2, <3>1
  <2>4. m - 1 \in 0 .. m - 1 /\ m - 1 \in Nat /\ m - 1 >= k /\ m - 1 <= n /\ m \in 1 .. n
    BY <1>0, <2>2, <2>3
  <2>5. S[k] <= S[m - 1]
    BY <2>1, <2>4
  <2>6. S[m - 1] <= S[m]
    BY <2>4 DEF SumsUp
  <2>7. PICK x \in Nat, y \in Nat, z \in Nat : x = S[k] /\ y = S[m - 1] /\ z = S[m]
    <3>1. m \in 0 .. n /\ m - 1 \in 0 .. n
      BY <1>0, <2>4
    <3> QED
      BY <1>0, <3>1
  <2> QED
    BY <2>2, <2>5, <2>6, <2>7
<1>2. l \in Nat /\ l >= k /\ l <= n
  BY <1>0
<1> QED
  BY <1>1, <1>2

(* Every number up to the last sum lies between two sums next to each      *)
(* other, and between no other two.                                        *)
LEMMA SumsCut ==
  ASSUME NEW n, NEW S, SumsUp(S, n), NEW q \in 1 .. S[n]
  PROVE  \E k \in 1 .. n : /\ q \in S[k - 1] + 1 .. S[k]
                           /\ \A l \in 1 .. n : q \in S[l - 1] + 1 .. S[l] => l = k
<1> DEFINE T == {m \in Nat : m <= n /\ q <= S[m]}
<1>0. n \in Nat /\ S[0] = 0 /\ \A m \in 0 .. n : S[m] \in Nat
  BY DEF SumsUp
<1>1. n \in T
  BY <1>0
<1>2. PICK k \in T : \A m \in 0 .. k - 1 : m \notin T
  BY <1>1, LeastNumber
<1>3. k \in Nat /\ k <= n /\ q <= S[k]
  BY <1>2
<1>4. q \in Nat /\ q # 0
  BY <1>0
<1>5. k # 0
  BY <1>0, <1>3, <1>4
<1>6. k \in 1 .. n /\ k - 1 \in 0 .. k - 1 /\ k - 1 \in Nat /\ k - 1 <= n /\ k - 1 \in 0 .. n /\ k \in 0 .. n
  BY <1>0, <1>3, <1>5
<1>7. PICK x \in Nat, y \in Nat : x = S[k - 1] /\ y = S[k]
  BY <1>0, <1>6
<1>8. ~ (q <= x)
  BY <1>2, <1>6, <1>7
<1>9. q \in x + 1 .. y
  BY <1>3, <1>4, <1>7, <1>8
<1>10. ASSUME NEW l \in 1 .. n, q \in S[l - 1] + 1 .. S[l]
       PROVE  l = k
  <2>1. l - 1 \in 0 .. n /\ l \in 0 .. n
    BY <1>0
  <2>2. PICK u \in Nat, v \in Nat : u = S[l - 1] /\ v = S[l]
    BY <1>0, <2>1
  <2>3. q > u /\ q <= v
    BY <1>4, <1>10, <2>2
  <2>4. ~ (l < k)
    <3> SUFFICES ASSUME l < k PROVE FALSE
      OBVIOUS
    <3>1. l <= k - 1
      BY <1>6
    <3>2. v <= x
      BY <1>6, <1>7, <2>1, <2>2, <3>1, SumsRise
    <3> QED
      BY <1>4, <1>8, <2>3, <3>2
  <2>5. ~ (k < l)
    <3> SUFFICES ASSUME k < l PROVE FALSE
      OBVIOUS
    <3>1. k <= l - 1
      BY <1>6
    <3>2. y <= u
      BY <1>6, <1>7, <2>1, <2>2, <3>1, SumsRise
    <3> QED
      BY <1>4, <1>9, <2>3, <3>2
  <2> QED
    BY <1>6, <2>4, <2>5
<1> QED
  BY <1>6, <1>7, <1>9, <1>10

(* Sums that rise with every number.                                       *)
SumsClimb(S, n) == SumsUp(S, n) /\ \A k \in 1 .. n : S[k - 1] < S[k]

(* They rise by as much as there are numbers, or more.                     *)
LEMMA ClimbFast ==
  ASSUME NEW n, NEW S, SumsClimb(S, n), NEW k \in 0 .. n, NEW l \in 0 .. n, k <= l
  PROVE  S[k] + (l - k) <= S[l]
<1> DEFINE T == {m \in Nat : m >= k /\ m <= n /\ ~ (S[k] + (m - k) <= S[m])}
<1>0. n \in Nat /\ (\A m \in 0 .. n : S[m] \in Nat) /\ \A m \in 1 .. n : S[m - 1] < S[m]
  BY DEF SumsUp, SumsClimb
<1>1. T = {}
  <2> SUFFICES ASSUME T # {} PROVE FALSE
    OBVIOUS
  <2>1. PICK m \in T : \A y \in 0 .. m - 1 : y \notin T
    BY LeastNumber
  <2>2. m \in Nat /\ m >= k /\ m <= n /\ ~ (S[k] + (m - k) <= S[m])
    BY <2>1
  <2>3. m # k
    <3>1. S[k] + (k - k) <= S[k]
      BY <1>0
    <3> QED
      BY <2>2, <3>1
  <2>4. m - 1 \in 0 .. m - 1 /\ m - 1 \in Nat /\ m - 1 >= k /\ m - 1 <= n /\ m \in 1 .. n
    BY <1>0, <2>2, <2>3
  <2>5. S[k] + ((m - 1) - k) <= S[m - 1]
    BY <2>1, <2>4
  <2>6. S[m - 1] < S[m]
    BY <1>0, <2>4
  <2>7. PICK x \in Nat, y \in Nat, z \in Nat : x = S[k] /\ y = S[m - 1] /\ z = S[m]
    <3>1. m \in 0 .. n /\ m - 1 \in 0 .. n
      BY <1>0, <2>4
    <3> QED
      BY <1>0, <3>1
  <2> QED
    BY <2>2, <2>5, <2>6, <2>7
<1>2. l \in Nat /\ l >= k /\ l <= n
  BY <1>0
<1> QED
  BY <1>1, <1>2

\* Items in the first n slots that are to be spread to the starts of the parts.
AtStarts(a, S, n, N) ==
  /\ \A k \in 1 .. n : a[k].first = S[k - 1]
  /\ \A k \in n + 1 .. N : a[k].first \in Int /\ a[k].first <= 0

\* Every part holds the item of its start.
PartsFilled(c, a, S, n) == \A k \in 1 .. n : \A s \in S[k - 1] + 1 .. S[k] : c[s] = a[k]

(* They are spread so that expand can place them.                          *)
LEMMA StartsSpread ==
  ASSUME NEW n, NEW S, SumsClimb(S, n), NEW N, N = S[n], NEW a, AtStarts(a, S, n, N)
  PROVE  Spread(a, n, N) /\ n \in Nat /\ N \in Nat /\ n <= N
<1>0. n \in Nat /\ (\A m \in 0 .. n : S[m] \in Nat) /\ S[0] = 0
  BY DEF SumsUp, SumsClimb
<1>1. N \in Nat /\ n <= N
  <2>1. 0 \in 0 .. n /\ n \in 0 .. n /\ 0 <= n
    BY <1>0
  <2>2. S[0] + (n - 0) <= S[n]
    BY <2>1, ClimbFast
  <2> QED
    BY <1>0, <2>1, <2>2
<1>2. ASSUME NEW k \in 1 .. n
      PROVE  /\ k \in 0 .. n /\ k - 1 \in 0 .. n /\ S[k - 1] \in Nat /\ k \in Nat
             /\ a[k].first = S[k - 1] /\ a[k].first \in k - 1 .. N - 1
  <2>1. 0 \in 0 .. n /\ n \in 0 .. n /\ k \in 0 .. n /\ k - 1 \in 0 .. n /\ 0 <= k - 1 /\ k - 1 <= n /\ k \in Nat
    BY <1>0
  <2>2. S[0] + ((k - 1) - 0) <= S[k - 1]
    BY <2>1, ClimbFast
  <2>3. S[k - 1] + (n - (k - 1)) <= S[n]
    BY <2>1, ClimbFast
  <2>4. PICK x \in Nat : x = S[k - 1]
    BY <1>0, <2>1
  <2>5. a[k].first = x
    BY <2>4 DEF AtStarts
  <2>6. x >= k - 1 /\ x <= N - 1
    BY <1>0, <1>1, <2>1, <2>2, <2>3, <2>4
  <2> QED
    BY <1>1, <2>1, <2>4, <2>5, <2>6
<1>3. ASSUME NEW k \in 1 .. n, NEW l \in 1 .. n, k < l
      PROVE  Way(a, k) <= Way(a, l)
  <2>1. k - 1 <= l - 1 /\ k \in Nat /\ l \in Nat
    BY <1>2, <1>3
  <2>2. S[k - 1] + ((l - 1) - (k - 1)) <= S[l - 1]
    BY <1>2, <2>1, ClimbFast
  <2>3. PICK x \in Nat, y \in Nat : x = S[k - 1] /\ y = S[l - 1]
    BY <1>2
  <2>4. Way(a, k) = x - (k - 1) /\ Way(a, l) = y - (l - 1)
    BY <1>2, <2>3 DEF Way
  <2> QED
    BY <2>1, <2>2, <2>3, <2>4
<1> QED
  BY <1>0, <1>1, <1>2, <1>3 DEF Spread, AtStarts

(* expand fills every part with the item of its start.                     *)
LEMMA SpreadFilled ==
  ASSUME NEW n, NEW S, SumsClimb(S, n), NEW N, N = S[n], NEW E, NEW a \in [1 .. N -> E], AtStarts(a, S, n, N),
         NEW none, none.first \in Int
  PROVE  PartsFilled(Expand(a, none), a, S, n)
<1> DEFINE b == Place(a)
           c == Expand(a, none)
<1>0. Spread(a, n, N) /\ n \in Nat /\ N \in Nat /\ n <= N
  BY StartsSpread
<1>1. PICK from : Shuffled(b, a, from, N) /\ Home(a, from, n, N)
  BY <1>0, ItemsPlaced DEF Placed
<1>2. /\ from \in [1 .. N -> 1 .. N]
      /\ \A k \in 1 .. N : \E p \in 1 .. N : from[p] = k
      /\ \A p \in 1 .. N : b[p] = a[from[p]]
      /\ \A p \in 1 .. N : from[p] \in 1 .. n => a[from[p]].first = p - 1
      /\ \A p, q \in 1 .. N : from[p] = from[q] => p = q
  BY <1>1 DEF Shuffled, Home
<1>3. FilledFrom(c, b, none, N)
  BY <1>0, SlotsFilled
<1> HIDE DEF b, c
<1>4. ASSUME NEW k \in 1 .. n
      PROVE  /\ k \in 1 .. N /\ k \in 0 .. n /\ k - 1 \in 0 .. n /\ S[k - 1] \in Nat /\ S[k] \in Nat
             /\ S[k - 1] < S[k] /\ S[k] <= N /\ a[k].first = S[k - 1]
             /\ b[S[k - 1] + 1] = a[k]
  <2>1. k \in 1 .. N /\ k \in 0 .. n /\ k - 1 \in 0 .. n /\ n \in 0 .. n /\ k <= n
    BY <1>0
  <2>2. PICK x \in Nat, y \in Nat : x = S[k - 1] /\ y = S[k] /\ x < y /\ y <= N
    <3>1. S[k - 1] \in Nat /\ S[k] \in Nat /\ S[k - 1] < S[k]
      BY <2>1 DEF SumsClimb, SumsUp
    <3>2. S[k] <= S[n]
      BY <2>1, SumsRise DEF SumsClimb
    <3> QED
      BY <3>1, <3>2
  <2>3. a[k].first = x
    BY <2>2 DEF AtStarts
  <2>4. PICK p \in 1 .. N : from[p] = k
    BY <1>2, <2>1
  <2>5. p - 1 = x /\ p = x + 1
    <3>1. p \in Nat
      BY <1>0
    <3>2. a[k].first = p - 1
      BY <1>2, <2>4
    <3> QED
      BY <2>2, <2>3, <3>1, <3>2
  <2>6. b[x + 1] = a[k]
    BY <1>2, <2>4, <2>5
  <2> QED
    BY <2>1, <2>2, <2>3, <2>6
<1>5. ASSUME NEW p \in 1 .. N, b[p].first = p - 1
      PROVE  \E k \in 1 .. n : p = S[k - 1] + 1
  <2>1. CASE from[p] \in 1 .. n
    <3>1. a[from[p]].first = p - 1
      BY <1>2, <2>1
    <3>2. a[from[p]].first = S[from[p] - 1] /\ S[from[p] - 1] \in Nat
      BY <1>4, <2>1
    <3>3. p = S[from[p] - 1] + 1
      BY <3>1, <3>2
    <3> QED
      BY <2>1, <3>3
  <2>2. CASE from[p] \notin 1 .. n
    <3>1. from[p] \in n + 1 .. N
      <4>1. from[p] \in 1 .. N
        BY <1>2
      <4>2. \A z \in 1 .. N : z \notin 1 .. n => z \in n + 1 .. N
        BY <1>0
      <4> QED
        BY <2>2, <4>1, <4>2
    <3>2. a[from[p]].first \in Int /\ a[from[p]].first <= 0
      BY <3>1 DEF AtStarts
    <3>3. b[p].first = a[from[p]].first
      BY <1>2
    <3>4. p = 1
      BY <1>5, <3>2, <3>3
    <3>5. n # 0
      <4>1. S[0] = 0
        BY DEF SumsClimb, SumsUp
      <4> QED
        BY <4>1
    <3>6. 1 \in 1 .. n /\ S[1 - 1] = 0
      BY <1>0, <3>5 DEF SumsClimb, SumsUp
    <3> QED
      BY <3>4, <3>6
  <2> QED
    BY <2>1, <2>2
<1>6. ASSUME NEW k \in 1 .. n, NEW s \in S[k - 1] + 1 .. S[k]
      PROVE  c[s] = a[k]
  <2>1. PICK x \in Nat, y \in Nat : x = S[k - 1] /\ y = S[k] /\ x < y /\ y <= N /\ s \in x + 1 .. y
                                    /\ b[x + 1] = a[k] /\ a[k].first = x
    BY <1>4, <1>6
  <2>2. s \in 1 .. N /\ x + 1 \in 1 .. s /\ x + 1 \in 1 .. N /\ (x + 1) - 1 = x /\ s \in Nat
    BY <1>0, <2>1, SMTT(30)
  <2>3. b[x + 1].first = (x + 1) - 1
    BY <2>1, <2>2
  <2>4. PICK l \in 1 .. s : /\ c[s] = b[l] /\ b[l].first = l - 1
                            /\ \A m \in l + 1 .. s : b[m].first # m - 1
    <3>1. \/ c[s] = none /\ \A l \in 1 .. s : b[l].first # l - 1
          \/ \E l \in 1 .. s : /\ c[s] = b[l] /\ b[l].first = l - 1
                               /\ \A m \in l + 1 .. s : b[m].first # m - 1
      BY <1>3, <2>2 DEF FilledFrom
    <3> QED
      BY <2>2, <2>3, <3>1
  <2>5. l \in 1 .. N
    BY <1>0, <2>2
  <2>6. PICK j1 \in 1 .. n : l = S[j1 - 1] + 1
    BY <1>5, <2>4, <2>5
  <2>7. ~ (l < x + 1)
    <3> SUFFICES ASSUME l < x + 1 PROVE FALSE
      OBVIOUS
    <3>1. x + 1 \in l + 1 .. s
      BY <2>2
    <3> QED
      BY <2>3, <2>4, <3>1
  <2>8. ~ (k < j1)
    <3> SUFFICES ASSUME k < j1 PROVE FALSE
      OBVIOUS
    <3>1. k \in 0 .. n /\ j1 - 1 \in 0 .. n /\ k <= j1 - 1
      BY <1>0
    <3>2. S[k] <= S[j1 - 1]
      BY <3>1, SumsRise DEF SumsClimb
    <3>3. PICK u \in Nat : u = S[j1 - 1]
      BY <1>4
    <3> QED
      BY <2>1, <2>2, <2>6, <3>2, <3>3
  <2>9. ~ (j1 < k)
    <3> SUFFICES ASSUME j1 < k PROVE FALSE
      OBVIOUS
    <3>1. j1 \in 0 .. n /\ k - 1 \in 0 .. n /\ j1 <= k - 1
      BY <1>0
    <3>2. S[j1] <= S[k - 1]
      BY <3>1, SumsRise DEF SumsClimb
    <3>3. PICK u \in Nat, v \in Nat : u = S[j1 - 1] /\ v = S[j1] /\ u < v
      BY <1>4
    <3>4. l = u + 1 /\ v <= x
      BY <2>1, <2>6, <3>2, <3>3
    <3>5. u + 1 < x + 1
      BY <2>1, <3>3, <3>4, SMTT(30)
    <3> QED
      BY <2>7, <3>4, <3>5
  <2>10. j1 = k
    BY <1>0, <2>8, <2>9
  <2>11. l = x + 1
    BY <2>1, <2>6, <2>10
  <2> QED
    BY <2>1, <2>4, <2>11
<1> QED
  BY <1>6 DEF PartsFilled, c
=============================================================================
