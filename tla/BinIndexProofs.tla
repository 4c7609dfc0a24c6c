--------------------------- MODULE BinIndexProofs ---------------------------
(***************************************************************************)
(* The index on the bounds of the bins, for any bins, any queries and      *)
(* blocks of any size: the trees are consistent, and what idxSelect        *)
(* answers is what the filter on ranges (BinFilter) promises.              *)
(***************************************************************************)
EXTENDS BinIndex, SequenceTheorems, FiniteSetTheorems, WellFoundedInduction, TLAPS

-----------------------------------------------------------------------------
(* Numbers.  What int is converted to is a number.                         *)
LEMMA NumberRange ==
  ASSUME InputAssumption, NEW x \in Int
  PROVE  Number(x) \in 0 .. Width - 1
BY DEF InputAssumption, Number

(* A number that an int can hold is the same after the conversion.         *)
LEMMA NumberSame ==
  ASSUME InputAssumption, NEW x \in 0 .. Width - 1
  PROVE  Number(x) = x
BY DEF InputAssumption, Number

(* The blocks of a layer: they lie behind one another, none is empty or    *)
(* has more than Fanout pairs, and together they have all pairs.           *)
First(g) == Fanout * (g - 1) + 1
Last(g, n) == IF Fanout * g < n THEN Fanout * g ELSE n
Groups(n) == (n + Fanout - 1) \div Fanout

(* Every group has its places, and they adjoin.                            *)
LEMMA GroupBounds ==
  ASSUME FanoutAssumption, NEW n \in Nat \ {0}
  PROVE  /\ Groups(n) \in Nat \ {0}
         /\ \A g \in 1 .. Groups(n) : /\ First(g) \in 1 .. n /\ Last(g, n) \in First(g) .. n
                                      /\ Last(g, n) - First(g) + 1 \in 1 .. Fanout
                                      /\ g < Groups(n) => First(g + 1) = Last(g, n) + 1
         /\ First(1) = 1 /\ Last(Groups(n), n) = n
<1>0. Fanout \in Nat \ {0, 1}
  BY FanoutAssumption DEF FanoutAssumption
<1>1. PICK G \in Nat, r \in 0 .. Fanout - 1 : n + Fanout - 1 = Fanout * G + r /\ G = Groups(n)
  <2> DEFINE m == n + Fanout - 1
  <2>1. /\ m \in Nat /\ m \div Fanout \in Nat /\ m % Fanout \in 0 .. Fanout - 1
        /\ m = Fanout * (m \div Fanout) + (m % Fanout)
    BY <1>0
  <2> QED
    BY <2>1 DEF Groups
<1>2. Fanout * G <= n + Fanout - 1 /\ n <= Fanout * G /\ G > 0
  BY <1>0, <1>1
<1>3. ASSUME NEW g \in 1 .. G
      PROVE  /\ First(g) \in 1 .. n /\ Last(g, n) \in First(g) .. n
             /\ Last(g, n) - First(g) + 1 \in 1 .. Fanout
             /\ g < G => First(g + 1) = Last(g, n) + 1
  <2>1. PICK p \in Nat : p = Fanout * (g - 1) /\ Fanout * g = p + Fanout
    BY <1>0
  <2>2. p <= Fanout * (G - 1) /\ Fanout * (G - 1) = Fanout * G - Fanout
    BY <1>0, <1>2, <2>1
  <2>3. p <= n - 1
    BY <1>0, <1>2, <2>1, <2>2
  <2>4. g < G => p + Fanout <= n - 1
    <3>1. g < G => Fanout * g <= Fanout * (G - 1)
      BY <1>0
    <3> QED
      BY <1>0, <1>2, <2>1, <2>2, <3>1
  <2>5. First(g) = p + 1 /\ First(g + 1) = p + Fanout + 1
    BY <1>0, <2>1 DEF First
  <2>6. Last(g, n) = IF p + Fanout < n THEN p + Fanout ELSE n
    BY <2>1 DEF Last
  <2> QED
    BY <1>0, <2>3, <2>4, <2>5, <2>6
<1>4. First(1) = 1 /\ Last(G, n) = n
  BY <1>0, <1>2 DEF First, Last
<1> QED
  BY <1>1, <1>2, <1>3, <1>4

-----------------------------------------------------------------------------
(* The bins of b in the order of their bounds, as the tree t has them.     *)
Bound(bin, t) == IF t = 1 THEN bin.start ELSE bin.end

SortedData(b, t, srt) ==
  /\ srt \in [1 .. Len(b) -> [key : 0 .. Width - 1, data : 1 .. Len(b)]]
  /\ \A p \in 1 .. Len(b) : srt[p].key = Number(Bound(b[srt[p].data], t))
  /\ \A p, q \in 1 .. Len(b) : p <= q => srt[p].key <= srt[q].key
  /\ \A p, q \in 1 .. Len(b) : srt[p].data = srt[q].data => p = q
  /\ \A x \in 1 .. Len(b) : \E p \in 1 .. Len(b) : srt[p].data = x

(* The data blocks: the last one in this order is at address 2, and each   *)
(* has a link to the block after it, which is at the address before it.    *)
DataBlock(srt, n, a) ==
  [type |-> "data", key |-> srt[n + 2 - a].key, data |-> srt[n + 2 - a].data,
   next |-> IF a = 2 THEN EMPTY ELSE a - 1]

Pair == [key : 0 .. Width - 1, address : Nat]

(* The blocks that these pairs lead to stand for places of the sorted data *)
(* that follow on one another; the key of a pair is the largest of them.   *)
LeadsTo(pairs, srt, last, top) ==
  \A i \in 1 .. Len(pairs) : /\ pairs[i].address \in 2 .. top - 1
                             /\ pairs[i].key = srt[last[pairs[i].address]].key

Adjoining(pairs, first, last) ==
  \A i \in 1 .. Len(pairs) - 1 : first[pairs[i + 1].address] = last[pairs[i].address] + 1

InTurn(pairs, first, last) ==
  \A i, j \in 1 .. Len(pairs) : i < j => last[pairs[i].address] < first[pairs[j].address]

Chain(pairs, srt, first, last, top) ==
  /\ pairs \in Seq(Pair) /\ LeadsTo(pairs, srt, last, top)
  /\ Adjoining(pairs, first, last) /\ InTurn(pairs, first, last)

NodeBlock(mem, srt, first, last, a) ==
  /\ mem[a].type = "node"
  /\ Len(mem[a].pairs) \in 1 .. Fanout
  /\ Chain(mem[a].pairs, srt, first, last, a)
  /\ first[a] = first[mem[a].pairs[1].address]
  /\ last[a] = last[mem[a].pairs[Len(mem[a].pairs)].address]

(* The memory of a tree below the address top: n data blocks, and node     *)
(* blocks above them.                                                      *)
Places(n, first, last, top) ==
  /\ first \in [2 .. top - 1 -> 1 .. n] /\ last \in [2 .. top - 1 -> 1 .. n]
  /\ \A a \in 2 .. top - 1 : first[a] <= last[a]

DataBlocks(mem, srt, n, first, last) ==
  \A a \in 2 .. n + 1 : /\ mem[a] = DataBlock(srt, n, a)
                        /\ first[a] = n + 2 - a /\ last[a] = n + 2 - a

NodeBlocks(mem, srt, n, first, last, top) ==
  \A a \in n + 2 .. top - 1 : NodeBlock(mem, srt, first, last, a)

Shape(mem, srt, n, first, last, top) ==
  /\ top \in Nat /\ top >= n + 2 /\ DOMAIN mem = 1 .. top - 1
  /\ Places(n, first, last, top)
  /\ DataBlocks(mem, srt, n, first, last)
  /\ NodeBlocks(mem, srt, n, first, last, top)

(* A tree that is built: its root stands for all places.                   *)
Tree(b, t, mem, top, rt, srt, first, last) ==
  /\ SortedData(b, t, srt)
  /\ Shape(mem, srt, Len(b), first, last, top)
  /\ rt \in Len(b) + 2 .. top - 1
  /\ first[rt] = 1 /\ last[rt] = Len(b)
  /\ mem[META] = rt
-----------------------------------------------------------------------------
(* A layer of blocks on top of a layer.  Group of the model, for any layer. *)
GroupOf(pairs, g) == SubSeq(pairs, First(g), Last(g, Len(pairs)))

NextMemory(mem, pairs, top) ==
  [a \in DOMAIN mem \cup top .. (top + Groups(Len(pairs))) - 1 |->
     IF a < top THEN mem[a] ELSE [type |-> "node", pairs |-> GroupOf(pairs, a - top + 1)]]

NextLayer(pairs, top) ==
  [g \in 1 .. Groups(Len(pairs)) |-> [key |-> LargestKey(GroupOf(pairs, g)), address |-> top + g - 1]]

NextFirst(first, pairs, top) ==
  [a \in 2 .. (top + Groups(Len(pairs))) - 1 |->
     IF a < top THEN first[a] ELSE first[pairs[First(a - top + 1)].address]]

NextLast(last, pairs, top) ==
  [a \in 2 .. (top + Groups(Len(pairs))) - 1 |->
     IF a < top THEN last[a] ELSE last[pairs[Last(a - top + 1, Len(pairs))].address]]

(* Where the keys do not fall, the largest is the last.                    *)
LEMMA LargestIsLast ==
  ASSUME NEW block \in Seq(Pair), Len(block) > 0,
         \A i, j \in 1 .. Len(block) : i <= j => block[i].key <= block[j].key
  PROVE  LargestKey(block) = block[Len(block)].key
<1>1. PICK n \in Nat \ {0} : n = Len(block) /\ DOMAIN block = 1 .. n
  BY LenProperties
<1>2. ASSUME NEW i \in 1 .. n PROVE block[i].key \in Int
  <2>1. block[i] \in Pair
    BY <1>1, ElementOfSeq
  <2> QED
    BY <2>1 DEF Pair
<1> DEFINE P(i) == i \in DOMAIN block /\ \A j \in DOMAIN block : block[j].key <= block[i].key
           i == CHOOSE i \in DOMAIN block : \A j \in DOMAIN block : block[j].key <= block[i].key
<1>3. n \in DOMAIN block /\ \A j \in DOMAIN block : block[j].key <= block[n].key
  BY <1>1
<1>4. i \in DOMAIN block /\ \A j \in DOMAIN block : block[j].key <= block[i].key
  BY <1>3
<1>5. LargestKey(block) = block[i].key
  BY DEF LargestKey
<1> HIDE DEF i
<1>6. block[i].key <= block[n].key /\ block[n].key <= block[i].key
  BY <1>1, <1>3, <1>4
<1> QED
  BY <1>1, <1>2, <1>4, <1>5, <1>6

(* The keys of pairs that follow on one another do not fall.               *)
LEMMA ChainKeys ==
  ASSUME NEW srt, NEW n \in Nat, NEW first, NEW last, NEW top \in Nat, NEW pairs,
         \A p, q \in 1 .. n : p <= q => srt[p].key <= srt[q].key,
         first \in [2 .. top - 1 -> 1 .. n], last \in [2 .. top - 1 -> 1 .. n],
         \A a \in 2 .. top - 1 : first[a] <= last[a],
         Chain(pairs, srt, first, last, top),
         NEW i \in 1 .. Len(pairs), NEW j \in 1 .. Len(pairs), i <= j
  PROVE  pairs[i].key <= pairs[j].key
<1>1. /\ pairs[i].address \in 2 .. top - 1 /\ pairs[i].key = srt[last[pairs[i].address]].key
      /\ pairs[j].address \in 2 .. top - 1 /\ pairs[j].key = srt[last[pairs[j].address]].key
  BY DEF Chain, LeadsTo, Adjoining, InTurn
<1>2. last[pairs[i].address] <= last[pairs[j].address]
  <2>1. CASE i = j
    BY <1>1, <2>1
  <2>2. CASE i < j
    <3>1. last[pairs[i].address] < first[pairs[j].address]
      BY <2>2 DEF Chain, LeadsTo, Adjoining, InTurn
    <3>2. PICK a \in 2 .. top - 1, c \in 2 .. top - 1 : a = pairs[i].address /\ c = pairs[j].address
      BY <1>1
    <3>3. last[a] \in 1 .. n /\ first[c] \in 1 .. n /\ last[c] \in 1 .. n /\ first[c] <= last[c]
      OBVIOUS
    <3> QED
      BY <3>1, <3>2, <3>3, SMTT(30)
  <2>3. i \in Int /\ j \in Int
    BY DEF Chain, LeadsTo, Adjoining, InTurn
  <2> QED
    BY <2>1, <2>2, <2>3
<1> QED
  BY <1>1, <1>2

(* A group of a layer has the pairs of its places.                         *)
LEMMA GroupPairs ==
  ASSUME FanoutAssumption, NEW pairs \in Seq(Pair), Len(pairs) > 0, NEW g \in 1 .. Groups(Len(pairs))
  PROVE  /\ GroupOf(pairs, g) \in Seq(Pair)
         /\ Len(GroupOf(pairs, g)) = Last(g, Len(pairs)) - First(g) + 1
         /\ Len(GroupOf(pairs, g)) \in 1 .. Fanout
         /\ \A i \in 1 .. Len(GroupOf(pairs, g)) : /\ First(g) + i - 1 \in First(g) .. Last(g, Len(pairs))
                                                   /\ First(g) + i - 1 \in 1 .. Len(pairs)
                                                   /\ GroupOf(pairs, g)[i] = pairs[First(g) + i - 1]
<1>1. PICK n \in Nat \ {0} : n = Len(pairs)
  BY LenProperties
<1>2. PICK lo \in 1 .. n, hi \in 1 .. n : lo <= hi /\ lo = First(g) /\ hi = Last(g, n) /\ hi - lo + 1 \in 1 .. Fanout
  BY <1>1, GroupBounds
<1>3. \A i \in lo .. hi : pairs[i] \in Pair
  BY <1>1, <1>2, ElementOfSeq
<1>4. /\ SubSeq(pairs, lo, hi) \in Seq(Pair)
      /\ Len(SubSeq(pairs, lo, hi)) = hi - lo + 1
      /\ \A i \in 1 .. hi - lo + 1 : SubSeq(pairs, lo, hi)[i] = pairs[lo + i - 1]
  <2>1. lo \in Int /\ hi \in Int /\ lo <= hi
    BY <1>2
  <2> QED
    BY <1>3, <2>1, SubSeqProperties
<1>5. GroupOf(pairs, g) = SubSeq(pairs, lo, hi)
  BY <1>1, <1>2 DEF GroupOf
<1>6. Len(GroupOf(pairs, g)) = hi - lo + 1 /\ GroupOf(pairs, g) \in Seq(Pair)
  BY <1>4, <1>5
<1>7. ASSUME NEW i \in 1 .. hi - lo + 1
      PROVE  /\ lo + i - 1 \in lo .. hi /\ lo + i - 1 \in 1 .. n
             /\ GroupOf(pairs, g)[i] = pairs[lo + i - 1]
  <2>1. lo + i - 1 \in lo .. hi /\ lo + i - 1 \in 1 .. n
    BY <1>2, SMTT(30)
  <2>2. SubSeq(pairs, lo, hi)[i] = pairs[lo + i - 1]
    BY <1>4
  <2> QED
    BY <1>5, <2>1, <2>2
<1> QED
  BY <1>1, <1>2, <1>6, <1>7

(* A chain is one for functions that agree below its top.                  *)
LEMMA ChainExtends ==
  ASSUME NEW pairs, NEW srt, NEW first, NEW last, NEW top, NEW F, NEW L,
         Chain(pairs, srt, first, last, top),
         \A a \in 2 .. top - 1 : F[a] = first[a] /\ L[a] = last[a]
  PROVE  Chain(pairs, srt, F, L, top)
<1>1. \A i \in 1 .. Len(pairs) : /\ pairs[i].address \in 2 .. top - 1
                                 /\ pairs[i].key = srt[last[pairs[i].address]].key
                                 /\ F[pairs[i].address] = first[pairs[i].address]
                                 /\ L[pairs[i].address] = last[pairs[i].address]
  BY DEF Chain, LeadsTo, Adjoining, InTurn
<1>2. Len(pairs) \in Nat /\ pairs \in Seq(Pair)
  BY LenProperties DEF Chain, LeadsTo, Adjoining, InTurn
<1>3. ASSUME NEW i \in 1 .. Len(pairs) - 1
      PROVE  F[pairs[i + 1].address] = L[pairs[i].address] + 1
  <2>1. i \in 1 .. Len(pairs) /\ i + 1 \in 1 .. Len(pairs)
    BY <1>2
  <2>2. first[pairs[i + 1].address] = last[pairs[i].address] + 1
    BY DEF Chain, LeadsTo, Adjoining, InTurn
  <2> QED
    BY <1>1, <2>1, <2>2
<1>4. ASSUME NEW i \in 1 .. Len(pairs), NEW j \in 1 .. Len(pairs), i < j
      PROVE  L[pairs[i].address] < F[pairs[j].address]
  <2>1. last[pairs[i].address] < first[pairs[j].address]
    BY <1>4 DEF Chain, LeadsTo, Adjoining, InTurn
  <2> QED
    BY <1>1, <2>1
<1> QED
  BY <1>1, <1>2, <1>3, <1>4 DEF Chain, LeadsTo, Adjoining, InTurn

(* What a layer on top of a layer gives: the shape of the memory up to its *)
(* last block, and a chain of its blocks.                                  *)
LEMMA PushShape ==
  ASSUME FanoutAssumption, NEW b, NEW t, NEW srt, SortedData(b, t, srt), Len(b) \in Nat,
         NEW mem, NEW first, NEW last, NEW top, Shape(mem, srt, Len(b), first, last, top),
         NEW pairs, Chain(pairs, srt, first, last, top), Len(pairs) > 0
  PROVE  LET next == top + Groups(Len(pairs)) IN
         /\ Shape(NextMemory(mem, pairs, top), srt, Len(b), NextFirst(first, pairs, top),
                  NextLast(last, pairs, top), next)
         /\ Chain(NextLayer(pairs, top), srt, NextFirst(first, pairs, top),
                  NextLast(last, pairs, top), next)
<1> DEFINE n == Len(pairs)
           G == Groups(n)
           F == NextFirst(first, pairs, top)
           L == NextLast(last, pairs, top)
           M == NextMemory(mem, pairs, top)
           at(g, i) == pairs[First(g) + i - 1].address
<1>1. /\ top \in Nat /\ top >= Len(b) + 2 /\ DOMAIN mem = 1 .. top - 1
      /\ first \in [2 .. top - 1 -> 1 .. Len(b)] /\ last \in [2 .. top - 1 -> 1 .. Len(b)]
      /\ \A a \in 2 .. top - 1 : first[a] <= last[a]
  BY DEF Shape, Places
<1>2. /\ pairs \in Seq(Pair) /\ n \in Nat \ {0}
      /\ \A i \in 1 .. n : pairs[i].address \in 2 .. top - 1 /\ pairs[i].key = srt[last[pairs[i].address]].key
      /\ \A i \in 1 .. n - 1 : first[pairs[i + 1].address] = last[pairs[i].address] + 1
      /\ \A i, j \in 1 .. n : i < j => last[pairs[i].address] < first[pairs[j].address]
  BY LenProperties DEF Chain, LeadsTo, Adjoining, InTurn
<1>3. /\ G \in Nat \ {0} /\ First(1) = 1 /\ Last(G, n) = n
      /\ \A g \in 1 .. G : /\ First(g) \in 1 .. n /\ Last(g, n) \in 1 .. n /\ First(g) <= Last(g, n)
                           /\ g < G => First(g + 1) = Last(g, n) + 1
  BY <1>2, GroupBounds
<1>0. PICK next \in Nat : next = top + G
  BY <1>1, <1>3
<1>4. ASSUME NEW g \in 1 .. G, NEW h \in 1 .. G, g < h PROVE Last(g, n) < First(h)
  <2>1. Fanout * g <= Fanout * (h - 1)
    BY <1>3, <1>4 DEF FanoutAssumption
  <2>2. Last(g, n) <= Fanout * g
    BY <1>2, <1>3 DEF Last, FanoutAssumption
  <2>3. Last(g, n) \in Int /\ First(h) \in Int /\ Fanout * g \in Int /\ Fanout * (h - 1) \in Int
    BY <1>3 DEF FanoutAssumption
  <2> QED
    BY <2>1, <2>2, <2>3 DEF First
<1>5. /\ F \in [2 .. next - 1 -> 1 .. Len(b)] /\ L \in [2 .. next - 1 -> 1 .. Len(b)]
      /\ \A a \in 2 .. top - 1 : F[a] = first[a] /\ L[a] = last[a]
      /\ \A g \in 1 .. G : /\ F[top + g - 1] = first[pairs[First(g)].address]
                           /\ L[top + g - 1] = last[pairs[Last(g, n)].address]
  <2>1. ASSUME NEW a \in 2 .. next - 1
        PROVE  /\ F[a] = IF a < top THEN first[a] ELSE first[pairs[First(a - top + 1)].address]
               /\ L[a] = IF a < top THEN last[a] ELSE last[pairs[Last(a - top + 1, n)].address]
    BY <1>0 DEF NextFirst, NextLast
  <2>2. ASSUME NEW a \in 2 .. next - 1, a >= top PROVE a - top + 1 \in 1 .. G
    BY <1>0, <1>1, <1>3, <2>2
  <2>3. ASSUME NEW a \in 2 .. next - 1 PROVE F[a] \in 1 .. Len(b) /\ L[a] \in 1 .. Len(b)
    <3>1. CASE a < top
      <4>1. a \in 2 .. top - 1
        BY <1>1, <3>1
      <4> QED
        BY <1>1, <2>1, <3>1, <4>1
    <3>2. CASE a >= top
      <4>1. PICK g \in 1 .. G : g = a - top + 1
        BY <2>2, <3>2
      <4>2. /\ F[a] = first[pairs[First(g)].address] /\ L[a] = last[pairs[Last(g, n)].address]
        BY <1>1, <2>1, <3>2, <4>1
      <4>3. pairs[First(g)].address \in 2 .. top - 1 /\ pairs[Last(g, n)].address \in 2 .. top - 1
        BY <1>2, <1>3
      <4> QED
        BY <1>1, <4>2, <4>3
    <3> QED
      BY <1>1, <3>1, <3>2
  <2>4. DOMAIN F = 2 .. next - 1 /\ DOMAIN L = 2 .. next - 1
    BY <1>0 DEF NextFirst, NextLast
  <2>5. F = [a \in 2 .. next - 1 |-> F[a]] /\ L = [a \in 2 .. next - 1 |-> L[a]]
    BY <1>0, <2>4 DEF NextFirst, NextLast
  <2>6. ASSUME NEW a \in 2 .. top - 1 PROVE F[a] = first[a] /\ L[a] = last[a]
    <3>1. a \in 2 .. next - 1 /\ a < top
      BY <1>0, <1>1, <1>3
    <3> QED
      BY <2>1, <3>1
  <2>7. ASSUME NEW g \in 1 .. G
        PROVE  /\ F[top + g - 1] = first[pairs[First(g)].address]
               /\ L[top + g - 1] = last[pairs[Last(g, n)].address]
    <3>1. top + g - 1 \in 2 .. next - 1 /\ ~ (top + g - 1 < top) /\ (top + g - 1) - top + 1 = g
      BY <1>0, <1>1, <1>3
    <3> QED
      BY <2>1, <3>1
  <2> HIDE DEF F, L, G, n
  <2> QED
    BY <2>3, <2>5, <2>6, <2>7
<1> HIDE DEF F, L
<1>6. ASSUME NEW i \in 1 .. n, NEW j \in 1 .. n, i <= j
      PROVE  first[pairs[i].address] <= last[pairs[j].address]
  <2>1. PICK a \in 2 .. top - 1, c \in 2 .. top - 1 : a = pairs[i].address /\ c = pairs[j].address
    BY <1>2
  <2>0. first[a] \in Int /\ last[a] \in Int /\ first[c] \in Int /\ last[c] \in Int
    BY <1>1
  <2>2. first[a] <= last[a] /\ first[c] <= last[c]
    BY <1>1
  <2>3. i < j => last[a] < first[c]
    BY <1>2, <2>1
  <2>4. i = j => a = c
    BY <2>1
  <2>5. i < j \/ i = j
    BY <1>2, <1>6
  <2>6. first[a] <= last[c]
    BY <2>0, <2>2, <2>3, <2>4, <2>5
  <2> QED
    BY <2>1, <2>6
<1>7. ASSUME NEW a \in 2 .. next - 1 PROVE F[a] <= L[a]
  <2>1. CASE a < top
    <3>1. a \in 2 .. top - 1
      BY <1>1, <2>1
    <3> QED
      BY <1>1, <1>5, <3>1
  <2>2. CASE a >= top
    <3>1. PICK g \in 1 .. G : a = top + g - 1
      <4>1. a - top + 1 \in 1 .. G /\ a = top + (a - top + 1) - 1
        BY <1>0, <1>1, <1>3, <2>2
      <4> QED
        BY <4>1
    <3> QED
      BY <1>3, <1>5, <1>6, <3>1
  <2> QED
    BY <1>1, <2>1, <2>2
<1>8. /\ DOMAIN M = 1 .. next - 1
      /\ \A a \in 1 .. top - 1 : M[a] = mem[a]
      /\ \A g \in 1 .. G : M[top + g - 1] = [type |-> "node", pairs |-> GroupOf(pairs, g)]
  <2>1. DOMAIN M = 1 .. top - 1 \cup top .. next - 1
    BY <1>0, <1>1 DEF NextMemory
  <2>2. 1 .. top - 1 \cup top .. next - 1 = 1 .. next - 1
    BY <1>0, <1>1, <1>3
  <2>3. ASSUME NEW a \in 1 .. next - 1
        PROVE  M[a] = IF a < top THEN mem[a] ELSE [type |-> "node", pairs |-> GroupOf(pairs, a - top + 1)]
    BY <1>0, <2>1, <2>2 DEF NextMemory
  <2>4. ASSUME NEW a \in 1 .. top - 1 PROVE M[a] = mem[a]
    <3>1. a \in 1 .. next - 1 /\ a < top
      BY <1>0, <1>1, <1>3
    <3> QED
      BY <2>3, <3>1
  <2>5. ASSUME NEW g \in 1 .. G PROVE M[top + g - 1] = [type |-> "node", pairs |-> GroupOf(pairs, g)]
    <3>1. top + g - 1 \in 1 .. next - 1 /\ ~ (top + g - 1 < top) /\ (top + g - 1) - top + 1 = g
      BY <1>0, <1>1, <1>3
    <3> QED
      BY <2>3, <3>1
  <2> HIDE DEF M, G
  <2> QED
    BY <2>1, <2>2, <2>4, <2>5
<1> HIDE DEF M
<1>9. ASSUME NEW g \in 1 .. G PROVE NodeBlock(M, srt, F, L, top + g - 1)
  <2> DEFINE grp == GroupOf(pairs, g)
  <2>1. PICK lo \in 1 .. n, hi \in 1 .. n : lo <= hi /\ lo = First(g) /\ hi = Last(g, n)
    BY <1>3
  <2>2. /\ grp \in Seq(Pair) /\ Len(grp) = hi - lo + 1 /\ Len(grp) \in 1 .. Fanout
        /\ \A i \in 1 .. hi - lo + 1 : grp[i] = pairs[lo + i - 1]
    BY <1>2, <2>1, GroupPairs, SMTT(30)
  <2>0. M[top + g - 1] = [type |-> "node", pairs |-> grp]
    BY <1>8
  <2> HIDE DEF grp
  <2>3. M[top + g - 1].type = "node" /\ M[top + g - 1].pairs = grp
    BY <2>0
  <2>4. ASSUME NEW i \in 1 .. hi - lo + 1
        PROVE  /\ lo + i - 1 \in 1 .. n /\ grp[i] = pairs[lo + i - 1]
               /\ grp[i].address \in 2 .. top - 1 /\ grp[i].key = srt[last[grp[i].address]].key
               /\ F[grp[i].address] = first[grp[i].address] /\ L[grp[i].address] = last[grp[i].address]
    <3>1. lo + i - 1 \in 1 .. n
      BY <1>2, <2>1, SMTT(30)
    <3>2. grp[i] = pairs[lo + i - 1]
      BY <2>2
    <3>3. PICK c \in 2 .. top - 1 : c = pairs[lo + i - 1].address /\ pairs[lo + i - 1].key = srt[last[c]].key
      BY <1>2, <3>1
    <3>4. F[c] = first[c] /\ L[c] = last[c]
      BY <1>5
    <3> QED
      BY <3>1, <3>2, <3>3, <3>4
  <2>5. ASSUME NEW i \in 1 .. (hi - lo + 1) - 1
        PROVE  F[grp[i + 1].address] = L[grp[i].address] + 1
    <3>1. /\ i \in 1 .. hi - lo + 1 /\ i + 1 \in 1 .. hi - lo + 1
          /\ lo + i - 1 \in 1 .. n - 1 /\ lo + (i + 1) - 1 = (lo + i - 1) + 1
      BY <1>2, <2>1
    <3>2. grp[i] = pairs[lo + i - 1] /\ grp[i + 1] = pairs[(lo + i - 1) + 1]
      BY <2>4, <3>1
    <3>3. first[pairs[(lo + i - 1) + 1].address] = last[pairs[lo + i - 1].address] + 1
      BY <1>2, <3>1
    <3> QED
      BY <2>4, <3>1, <3>2, <3>3
  <2>6. ASSUME NEW i \in 1 .. hi - lo + 1, NEW j \in 1 .. hi - lo + 1, i < j
        PROVE  L[grp[i].address] < F[grp[j].address]
    <3>1. lo + i - 1 < lo + j - 1 /\ lo + i - 1 \in 1 .. n /\ lo + j - 1 \in 1 .. n
      BY <2>1, <2>4, <2>6
    <3>2. last[pairs[lo + i - 1].address] < first[pairs[lo + j - 1].address]
      BY <1>2, <3>1
    <3> QED
      BY <2>4, <3>2
  <2>7. ASSUME NEW i \in 1 .. hi - lo + 1 PROVE grp[i].address \in 2 .. (top + g - 1) - 1
    <3>1. PICK a \in 2 .. top - 1 : a = grp[i].address
      BY <2>4
    <3> QED
      BY <1>1, <1>3, <3>1, SMTT(30)
  <2>8. Chain(grp, srt, F, L, top + g - 1)
    <3>1. LeadsTo(grp, srt, L, top + g - 1)
      BY <2>2, <2>4, <2>7 DEF LeadsTo
    <3>2. Adjoining(grp, F, L)
      BY <2>2, <2>5 DEF Adjoining
    <3>3. InTurn(grp, F, L)
      BY <2>2, <2>6 DEF InTurn
    <3> QED
      BY <2>2, <3>1, <3>2, <3>3 DEF Chain
  <2>9. F[top + g - 1] = F[grp[1].address] /\ L[top + g - 1] = L[grp[Len(grp)].address]
    <3>1. 1 \in 1 .. hi - lo + 1 /\ hi - lo + 1 \in 1 .. hi - lo + 1
          /\ lo + 1 - 1 = lo /\ lo + (hi - lo + 1) - 1 = hi
      BY <2>1
    <3>2. grp[1] = pairs[lo] /\ grp[Len(grp)] = pairs[hi]
      BY <2>2, <3>1
    <3>3. F[top + g - 1] = first[pairs[lo].address] /\ L[top + g - 1] = last[pairs[hi].address]
      BY <1>5, <2>1
    <3> QED
      BY <2>2, <2>4, <3>1, <3>2, <3>3
  <2> QED
    BY <2>2, <2>3, <2>8, <2>9 DEF NodeBlock
<1>10. ASSUME NEW a \in Len(b) + 2 .. top - 1 PROVE NodeBlock(M, srt, F, L, a)
  <2>1. NodeBlock(mem, srt, first, last, a)
    BY DEF Shape, NodeBlocks
  <2>2. a \in 1 .. top - 1 /\ a \in 2 .. top - 1 /\ \A c \in 2 .. a - 1 : c \in 2 .. top - 1
    BY <1>1
  <2>3. M[a] = mem[a] /\ F[a] = first[a] /\ L[a] = last[a]
    BY <1>5, <1>8, <2>2
  <2>4. Chain(M[a].pairs, srt, F, L, a)
    <3>1. Chain(mem[a].pairs, srt, first, last, a)
      BY <2>1 DEF NodeBlock
    <3>2. \A c \in 2 .. a - 1 : F[c] = first[c] /\ L[c] = last[c]
      BY <1>5, <2>2
    <3> QED
      BY <2>3, <3>1, <3>2, ChainExtends
  <2>5. Len(mem[a].pairs) \in 1 .. Fanout
    BY <2>1 DEF NodeBlock
  <2>6. mem[a].pairs[1].address \in 2 .. top - 1 /\ mem[a].pairs[Len(mem[a].pairs)].address \in 2 .. top - 1
    <3>1. PICK m \in Nat \ {0} : m = Len(mem[a].pairs)
      BY <2>5
    <3>2. mem[a].pairs[1].address \in 2 .. a - 1 /\ mem[a].pairs[m].address \in 2 .. a - 1
      <4>1. LeadsTo(mem[a].pairs, srt, last, a)
        BY <2>1 DEF NodeBlock, Chain
      <4>2. 1 \in 1 .. m /\ m \in 1 .. m
        BY <3>1
      <4>3. \A i \in 1 .. m : mem[a].pairs[i].address \in 2 .. a - 1
        BY <3>1, <4>1 DEF LeadsTo
      <4> QED
        BY <4>2, <4>3
    <3> QED
      BY <2>2, <3>1, <3>2
  <2> QED
    BY <1>5, <2>1, <2>3, <2>4, <2>6 DEF NodeBlock
<1>11. Shape(M, srt, Len(b), F, L, next)
  <2>1. ASSUME NEW a \in Len(b) + 2 .. next - 1 PROVE NodeBlock(M, srt, F, L, a)
    <3>1. CASE a < top
      BY <1>0, <1>1, <1>3, <1>10, <3>1
    <3>2. CASE a >= top
      <4>1. a - top + 1 \in 1 .. G /\ a = top + (a - top + 1) - 1
        BY <1>0, <1>1, <1>3, <3>2
      <4> QED
        BY <1>9, <4>1
    <3> QED
      BY <1>1, <3>1, <3>2
  <2>2. ASSUME NEW a \in 2 .. Len(b) + 1
        PROVE  /\ M[a] = DataBlock(srt, Len(b), a)
               /\ F[a] = Len(b) + 2 - a /\ L[a] = Len(b) + 2 - a
    <3>1. a \in 2 .. top - 1 /\ a \in 1 .. top - 1
      BY <1>1
    <3> QED
      BY <1>5, <1>8, <3>1 DEF Shape, DataBlocks
  <2>3. next \in Nat /\ next >= Len(b) + 2
    BY <1>0, <1>1, <1>3
  <2>4. DOMAIN M = 1 .. next - 1
    BY <1>8
  <2>5. Places(Len(b), F, L, next)
    BY <1>5, <1>7 DEF Places
  <2>6. DataBlocks(M, srt, Len(b), F, L)
    BY <2>2 DEF DataBlocks
  <2>7. NodeBlocks(M, srt, Len(b), F, L, next)
    BY <2>1 DEF NodeBlocks
  <2> HIDE DEF G
  <2> QED
    BY <2>3, <2>4, <2>5, <2>6, <2>7 DEF Shape
<1>12. Chain(NextLayer(pairs, top), srt, F, L, next)
  <2> DEFINE up == NextLayer(pairs, top)
  <2>1. ASSUME NEW g \in 1 .. G
        PROVE  up[g].address = top + g - 1 /\ up[g].key = srt[L[top + g - 1]].key /\ up[g] \in Pair
    <3> DEFINE grp == GroupOf(pairs, g)
    <3>1. PICK lo \in 1 .. n, hi \in 1 .. n : lo <= hi /\ lo = First(g) /\ hi = Last(g, n)
      BY <1>3
    <3>2. /\ grp \in Seq(Pair) /\ Len(grp) = hi - lo + 1
          /\ \A i \in 1 .. hi - lo + 1 : grp[i] = pairs[lo + i - 1]
      BY <1>2, <3>1, GroupPairs, SMTT(30)
    <3>3. up[g] = [key |-> LargestKey(grp), address |-> top + g - 1]
      BY DEF NextLayer
    <3> HIDE DEF grp
    <3>4. ASSUME NEW i \in 1 .. hi - lo + 1, NEW j \in 1 .. hi - lo + 1, i <= j
          PROVE  grp[i].key <= grp[j].key
      <4>1. lo + i - 1 \in 1 .. n /\ lo + j - 1 \in 1 .. n /\ lo + i - 1 <= lo + j - 1
        BY <1>2, <3>1, <3>4, SMTT(30)
      <4>2. pairs[lo + i - 1].key <= pairs[lo + j - 1].key
        BY <1>1, <4>1, ChainKeys DEF SortedData
      <4> QED
        BY <3>2, <4>2
    <3>5. LargestKey(grp) = grp[hi - lo + 1].key
      <4>1. Len(grp) > 0
        BY <3>1, <3>2
      <4> QED
        BY <3>2, <3>4, <4>1, LargestIsLast
    <3>6. grp[hi - lo + 1] = pairs[hi]
      <4>1. hi - lo + 1 \in 1 .. hi - lo + 1 /\ lo + (hi - lo + 1) - 1 = hi
        BY <3>1
      <4> QED
        BY <3>2, <4>1
    <3>7. pairs[hi].key = srt[L[top + g - 1]].key
      BY <1>2, <1>5, <3>1
    <3>8. pairs[hi] \in Pair
      BY <1>2, <3>1, ElementOfSeq
    <3>9. top + g - 1 \in Nat
      BY <1>1
    <3> HIDE DEF up
    <3> QED
      BY <3>3, <3>5, <3>6, <3>7, <3>8, <3>9 DEF Pair
  <2>2. up = [g \in 1 .. G |-> up[g]]
    BY DEF NextLayer
  <2> HIDE DEF up
  <2>3. up \in Seq(Pair) /\ Len(up) = G
    <3>1. up \in [1 .. G -> Pair]
      BY <2>1, <2>2
    <3> QED
      BY <1>3, <3>1, SMTT(30)
  <2>4. ASSUME NEW g \in 1 .. G PROVE top + g - 1 \in 2 .. next - 1
    BY <1>0, <1>1, <1>3
  <2>5. ASSUME NEW g \in 1 .. G - 1 PROVE F[up[g + 1].address] = L[up[g].address] + 1
    <3>1. g \in 1 .. G /\ g + 1 \in 1 .. G /\ g < G
      BY <1>3
    <3>2. PICK hi \in 1 .. n : hi = Last(g, n) /\ First(g + 1) = hi + 1 /\ hi + 1 \in 1 .. n
      BY <1>3, <3>1
    <3>3. hi \in 1 .. n - 1
      BY <1>2, <3>2
    <3>4. first[pairs[hi + 1].address] = last[pairs[hi].address] + 1
      BY <1>2, <3>3
    <3>5. F[top + (g + 1) - 1] = first[pairs[hi + 1].address] /\ L[top + g - 1] = last[pairs[hi].address]
      BY <1>5, <3>1, <3>2
    <3> QED
      BY <2>1, <3>1, <3>4, <3>5
  <2>6. ASSUME NEW g \in 1 .. G, NEW h \in 1 .. G, g < h PROVE L[up[g].address] < F[up[h].address]
    <3>1. PICK hi \in 1 .. n, lo \in 1 .. n : hi = Last(g, n) /\ lo = First(h) /\ hi < lo
      BY <1>3, <1>4, <2>6
    <3>2. last[pairs[hi].address] < first[pairs[lo].address]
      BY <1>2, <3>1
    <3> QED
      BY <1>5, <2>1, <3>1, <3>2
  <2> QED
    <3>1. LeadsTo(up, srt, L, next)
      BY <2>1, <2>3, <2>4 DEF LeadsTo
    <3>2. Adjoining(up, F, L)
      BY <2>3, <2>5 DEF Adjoining
    <3>3. InTurn(up, F, L)
      BY <2>3, <2>6 DEF InTurn
    <3>4. Chain(up, srt, F, L, next)
      BY <2>3, <3>1, <3>2, <3>3 DEF Chain
    <3> QED
      BY <3>4 DEF up
<1> QED
  BY <1>0, <1>11, <1>12 DEF F, L, M, G, n

(* The blocks of the next layer stand for the same places as the layer.    *)
LEMMA PushEnds ==
  ASSUME FanoutAssumption, NEW top \in Nat, top >= 2, NEW pairs \in Seq(Pair), Len(pairs) > 0,
         NEW first, NEW last
  PROVE  LET up == NextLayer(pairs, top) IN
         /\ Len(up) \in Nat \ {0}
         /\ up[1].address >= top
         /\ NextFirst(first, pairs, top)[up[1].address] = first[pairs[1].address]
         /\ NextLast(last, pairs, top)[up[Len(up)].address] = last[pairs[Len(pairs)].address]
<1>1. PICK n \in Nat \ {0} : n = Len(pairs)
  BY LenProperties
<1>2. PICK G \in Nat \ {0} : G = Groups(n) /\ First(1) = 1 /\ Last(G, n) = n
  BY <1>1, GroupBounds
<1> DEFINE up == NextLayer(pairs, top)
<1>3. Len(up) = G /\ up[1].address = top /\ up[G].address = top + G - 1
  <2>1. up = [g \in 1 .. G |-> [key |-> LargestKey(GroupOf(pairs, g)), address |-> top + g - 1]]
    BY <1>1, <1>2 DEF NextLayer
  <2> HIDE DEF up
  <2>2. Len(up) = G
    BY <2>1
  <2>3. up[1].address = top + 1 - 1 /\ up[G].address = top + G - 1
    BY <2>1
  <2> QED
    BY <2>2, <2>3
<1>4. top \in 2 .. (top + G) - 1 /\ top + G - 1 \in 2 .. (top + G) - 1
      /\ ~ (top < top) /\ ~ (top + G - 1 < top) /\ top - top + 1 = 1 /\ (top + G - 1) - top + 1 = G
  BY <1>2
<1>5. NextFirst(first, pairs, top)[top] = first[pairs[1].address]
  BY <1>1, <1>2, <1>4 DEF NextFirst
<1>6. NextLast(last, pairs, top)[top + G - 1] = last[pairs[n].address]
  BY <1>1, <1>2, <1>4 DEF NextLast
<1> HIDE DEF up
<1>7. up[1].address >= top
  BY <1>3
<1> QED
  BY <1>1, <1>2, <1>3, <1>5, <1>6, <1>7 DEF up

(* The layer of the last k data blocks of n.                               *)
DataLayer(srt, n, k) == [i \in 1 .. k |-> [key |-> srt[(n - k) + i].key, address |-> (2 + k) - i]]

(* A tree in the making: a layer of blocks stands for all places.          *)
Layered(mem, srt, n, top, pairs) ==
  \E first, last : /\ Shape(mem, srt, n, first, last, top)
                   /\ Chain(pairs, srt, first, last, top)
                   /\ Len(pairs) > 0
                   /\ first[pairs[1].address] = 1 /\ last[pairs[Len(pairs)].address] = n

(* The finished data layer stands for all places.                          *)
LEMMA DataLayered ==
  ASSUME NEW b, NEW t, NEW srt, SortedData(b, t, srt), NEW n \in Nat \ {0}, Len(b) = n,
         NEW mem, DOMAIN mem = 1 .. n + 1,
         \A a \in 2 .. n + 1 : mem[a] = DataBlock(srt, n, a)
  PROVE  Layered(mem, srt, n, n + 2, DataLayer(srt, n, n))
<1> DEFINE place == [a \in 2 .. n + 1 |-> (n + 2) - a]
           pairs == DataLayer(srt, n, n)
<1>1. ASSUME NEW a \in 2 .. n + 1 PROVE place[a] \in 1 .. n /\ place[a] = n + 2 - a
  OBVIOUS
<1>2. (n + 2) - 1 = n + 1
  OBVIOUS
<1>3. Places(n, place, place, n + 2)
  <2>1. place \in [2 .. n + 1 -> 1 .. n]
    BY <1>1
  <2>2. ASSUME NEW a \in 2 .. n + 1 PROVE place[a] <= place[a]
    BY <1>1
  <2> HIDE DEF place
  <2> QED
    BY <1>2, <2>1, <2>2 DEF Places
<1>4. DataBlocks(mem, srt, n, place, place)
  <2> HIDE DEF place
  <2> QED
    BY <1>1 DEF DataBlocks
<1>5. NodeBlocks(mem, srt, n, place, place, n + 2)
  BY <1>2 DEF NodeBlocks
<1>6. Shape(mem, srt, n, place, place, n + 2)
  <2> HIDE DEF place
  <2> QED
    BY <1>2, <1>3, <1>4, <1>5 DEF Shape
<1>7. ASSUME NEW i \in 1 .. n
      PROVE  /\ pairs[i].address = (2 + n) - i /\ pairs[i].address \in 2 .. n + 1
             /\ place[pairs[i].address] = i /\ pairs[i].key = srt[i].key /\ pairs[i] \in Pair
  <2>1. pairs[i] = [key |-> srt[(n - n) + i].key, address |-> (2 + n) - i]
    BY DEF DataLayer
  <2>2. (n - n) + i = i /\ (2 + n) - i \in 2 .. n + 1 /\ (n + 2) - ((2 + n) - i) = i
    OBVIOUS
  <2>3. srt[i].key \in 0 .. Width - 1
    BY DEF SortedData
  <2> HIDE DEF pairs
  <2>4. pairs[i] \in Pair
    BY <2>1, <2>2, <2>3 DEF Pair
  <2> QED
    BY <2>1, <2>2, <2>4
<1>8. pairs \in Seq(Pair) /\ Len(pairs) = n
  <2>1. pairs = [i \in 1 .. n |-> pairs[i]]
    BY DEF DataLayer
  <2> HIDE DEF pairs
  <2>2. pairs \in [1 .. n -> Pair]
    BY <1>7, <2>1
  <2> QED
    BY <2>2
<1> HIDE DEF pairs, place
<1>9. Chain(pairs, srt, place, place, n + 2)
  <2>1. LeadsTo(pairs, srt, place, n + 2)
    BY <1>2, <1>7, <1>8 DEF LeadsTo
  <2>2. ASSUME NEW i \in 1 .. n - 1 PROVE place[pairs[i + 1].address] = place[pairs[i].address] + 1
    <3>1. i \in 1 .. n /\ i + 1 \in 1 .. n
      OBVIOUS
    <3> QED
      BY <1>7, <3>1
  <2>3. Adjoining(pairs, place, place)
    BY <1>8, <2>2 DEF Adjoining
  <2>4. InTurn(pairs, place, place)
    BY <1>7, <1>8 DEF InTurn
  <2> QED
    BY <1>8, <2>1, <2>3, <2>4 DEF Chain
<1>10. place[pairs[1].address] = 1 /\ place[pairs[n].address] = n
  BY <1>7
<1> QED
  BY <1>6, <1>8, <1>9, <1>10 DEF Layered, pairs

(* The next layer stands for all places if the layer does.                 *)
LEMMA PushLayered ==
  ASSUME FanoutAssumption, NEW b, NEW t, NEW srt, SortedData(b, t, srt), NEW n \in Nat, Len(b) = n,
         NEW mem, NEW top, NEW pairs, Layered(mem, srt, n, top, pairs)
  PROVE  LET up == NextLayer(pairs, top) IN
         /\ Layered(NextMemory(mem, pairs, top), srt, n, top + Groups(Len(pairs)), up)
         /\ top \in Nat /\ top >= n + 2 /\ DOMAIN mem = 1 .. top - 1 /\ Groups(Len(pairs)) \in Nat
         /\ up[1].address >= n + 2 /\ Len(up) \in Nat \ {0}
<1>1. PICK first, last : /\ Shape(mem, srt, n, first, last, top)
                         /\ Chain(pairs, srt, first, last, top)
                         /\ Len(pairs) > 0
                         /\ first[pairs[1].address] = 1 /\ last[pairs[Len(pairs)].address] = n
  BY DEF Layered
<1>2. top \in Nat /\ top >= n + 2 /\ DOMAIN mem = 1 .. top - 1 /\ pairs \in Seq(Pair)
  BY <1>1 DEF Shape, Chain
<1>3. Groups(Len(pairs)) \in Nat
  <2>1. Len(pairs) \in Nat \ {0}
    BY <1>1, <1>2, LenProperties
  <2> QED
    BY <2>1, GroupBounds
<1> DEFINE up == NextLayer(pairs, top)
           F == NextFirst(first, pairs, top)
           L == NextLast(last, pairs, top)
<1>4. /\ Shape(NextMemory(mem, pairs, top), srt, n, F, L, top + Groups(Len(pairs)))
      /\ Chain(up, srt, F, L, top + Groups(Len(pairs)))
  BY <1>1, PushShape
<1>5. /\ Len(up) \in Nat \ {0} /\ up[1].address >= top
      /\ F[up[1].address] = first[pairs[1].address]
      /\ L[up[Len(up)].address] = last[pairs[Len(pairs)].address]
  <2>1. top >= 2
    BY <1>2
  <2> QED
    BY <1>1, <1>2, <2>1, PushEnds
<1>6. up[1].address >= n + 2
  <2>1. up[1].address \in 2 .. (top + Groups(Len(pairs))) - 1
    <3> HIDE DEF up
    <3>1. 1 \in 1 .. Len(up)
      BY <1>5
    <3> QED
      BY <1>4, <3>1 DEF Chain, LeadsTo
  <2> HIDE DEF up
  <2> QED
    BY <1>2, <1>5, <2>1
<1> HIDE DEF up, F, L
<1>7. Layered(NextMemory(mem, pairs, top), srt, n, top + Groups(Len(pairs)), up)
  BY <1>1, <1>4, <1>5 DEF Layered
<1> QED
  BY <1>2, <1>3, <1>5, <1>6, <1>7 DEF up

-----------------------------------------------------------------------------
(* The state.  Memories are records, one for each tree.                    *)
IsTree(b, t, mem, top, rt) == \E srt, first, last : Tree(b, t, mem, top, rt, srt, first, last)

TreeOf(t) == IsTree(bins, t, storage[t].memory, storage[t].locationCounter, root[t])

Building == {"sort", "data", "push", "root"}
Searching == {"search", "filter", "difference"}

StoresOK ==
  /\ DOMAIN storage = Trees /\ DOMAIN root = Trees
  /\ \A t \in Trees : DOMAIN storage[t] = {"memory", "locationCounter"}

(* The trees are built one after the other.                                *)
TreesOK ==
  /\ pc \in Building => root[tree] = EMPTY /\ storage[tree].memory[META] = EMPTY
  /\ pc \in Building /\ tree = 1 => storage[2] = NewStorage /\ root[2] = EMPTY
  /\ pc \in Building /\ tree = 2 => TreeOf(1)
  /\ pc \notin Building => TreeOf(1) /\ TreeOf(2)

DataOK(mem, top, srt, n, k) ==
  /\ top = k + 2 /\ DOMAIN mem = 1 .. k + 1
  /\ \A a \in 2 .. k + 1 : mem[a] = DataBlock(srt, n, a)

BuildOK ==
  /\ pc = "sort" => storage[tree] = NewStorage
  /\ pc \in {"data", "push", "root"} => SortedData(bins, tree, data)
  /\ pc = "data" => \E k \in 0 .. Len(bins) - 1 :
       /\ layer = DataLayer(data, Len(bins), k)
       /\ DataOK(storage[tree].memory, storage[tree].locationCounter, data, Len(bins), k)
  /\ pc \in {"push", "root"} =>
       Layered(storage[tree].memory, data, Len(bins), storage[tree].locationCounter, layer)
  /\ pc = "root" => Len(layer) = 1 /\ layer[1].address >= Len(bins) + 2

(* No query is asked while the trees are built.                            *)
QueryOK ==
  /\ pc \in Building \cup {"idle"} => query = <<>> /\ filterBins = <<>>
  /\ pc \in Searching => query \in Queries
  /\ allBins \in {<<>>, [i \in 1 .. Len(bins) |-> i]}
  /\ pc # "difference" => it1 = 1 /\ it2 = 1 /\ resultSet = <<>>

-----------------------------------------------------------------------------
(* A search.  What it is to find in the tree t.                            *)
SearchStart(q, t) == IF t = 1 THEN Number(q[2] + 1) ELSE 0
SearchEnd(q, t) == IF t = 1 THEN Width - 1 ELSE Number(q[1] - 1)

Hits(b, q, t) ==
  {x \in 1 .. Len(b) : /\ SearchStart(q, t) <= Number(Bound(b[x], t))
                       /\ Number(Bound(b[x], t)) <= SearchEnd(q, t)}

(* The search for keys from lo to hi is at address a and has found the     *)
(* bins ids, in m blocks: all places before a are below the range or have  *)
(* been found.                                                             *)
Below(srt, k, lo) == {srt[p].data : p \in {p \in 1 .. k : lo <= srt[p].key}}

Fit(srt, k, lo, hi) == \A p \in 1 .. k : lo <= srt[p].key => srt[p].key <= hi

At(srt, first, last, n, rt, a, lo, hi, ids, m) ==
  /\ a > n + 1 => /\ \A p \in 1 .. first[a] - 1 : srt[p].key < lo
                  /\ a = rt \/ lo <= srt[last[a]].key
                  /\ ids = {} /\ m = 0
  /\ a <= n + 1 => /\ lo <= srt[first[a]].key
                   /\ Fit(srt, first[a] - 1, lo, hi)
                   /\ ids = Below(srt, first[a] - 1, lo)
                   /\ m \in 0 .. first[a] - 1

(* What both searches have found so far, the second one ids in m blocks.   *)
Distinct(s) == \A i, j \in 1 .. Len(s) : s[i] = s[j] => i = j
Apart(b, q) == Hits(b, q, 1) \cap Hits(b, q, 2) = {}

Gathered(found, b, q, t, ids, m) ==
  /\ found \in Seq(1 .. Len(b))
  /\ Range(found) = (IF t = 2 THEN Hits(b, q, 1) ELSE {}) \cup ids
  /\ Len(found) <= (IF t = 2 THEN Len(b) ELSE 0) + m
  /\ Apart(b, q) => Distinct(found)

SearchAt(b, t, mem, top, rt, q, a, found) ==
  \E srt, first, last, ids, m :
    /\ Tree(b, t, mem, top, rt, srt, first, last)
    /\ a \in 2 .. top - 1
    /\ At(srt, first, last, Len(b), rt, a, SearchStart(q, t), SearchEnd(q, t), ids, m)
    /\ Gathered(found, b, q, t, ids, m)

SearchOK ==
  /\ pc = "search" => SearchAt(bins, tree, storage[tree].memory, storage[tree].locationCounter,
                               root[tree], query, address, filterBins)
  /\ pc = "filter" => Gathered(filterBins, bins, query, 2, Hits(bins, query, 2), Len(bins))

-----------------------------------------------------------------------------
(* The difference of the two lists.  Whether the filter on ranges makes a  *)
(* promise, and the bins that it leaves out.                               *)
Promises(b, q) == 1 <= q[1] /\ q[1] <= q[2] /\ \A i \in DOMAIN b : b[i].start >= 0

Excluded(b, q) == {x \in 1 .. Len(b) : ~ByRange!Meets(b[x], q)}

Rising(s) == \A i, j \in 1 .. Len(s) : i < j => s[i] < s[j]

Kept(promised, found, i1, i2, result, n, excluded) ==
  /\ found = [k \in 1 .. Len(found) |-> found[k]] /\ Len(found) \in 0 .. 2 * n
  /\ i1 \in 1 .. n + 1 /\ i2 \in 1 .. Len(found) + 1
  /\ result \in Seq(1 .. i1 - 1) /\ Len(result) < i1 /\ Rising(result)
  /\ promised =>
       /\ Rising(found) /\ Range(found) = excluded /\ found \in Seq(1 .. n)
       /\ {found[k] : k \in 1 .. i2 - 1} = {x \in excluded : x < i1}
       /\ Range(result) = {x \in 1 .. i1 - 1 : x \notin excluded}

DifferenceOK ==
  pc = "difference" =>
    /\ allBins = [i \in 1 .. Len(bins) |-> i]
    /\ Kept(Promises(bins, query), filterBins, it1, it2, resultSet, Len(bins), Excluded(bins, query))

(* What holds in every state.                                              *)
Invariant ==
  /\ bins \in Inputs /\ tree \in Trees /\ pc \in Building \cup Searching \cup {"idle"}
  /\ StoresOK /\ TreesOK /\ BuildOK /\ QueryOK /\ SearchOK /\ DifferenceOK

-----------------------------------------------------------------------------
(* A structure has bins, and their bounds are ints.                        *)
LEMMA InputFacts ==
  ASSUME InputAssumption, NEW b \in Inputs
  PROVE  /\ Len(b) \in Nat \ {0} /\ DOMAIN b = 1 .. Len(b) /\ Width \in Nat \ {0}
         /\ \A i \in 1 .. Len(b) : /\ b[i].start \in Int /\ b[i].end \in Int
                                   /\ b[i].start <= b[i].end
                                   /\ 2 * b[i].start <= Width - 1 /\ 2 * b[i].end <= Width - 1
<1>1. b \in Seq([start : Int, end : Int]) /\ Len(b) > 0
  BY DEF InputAssumption
<1>2. Len(b) \in Nat \ {0} /\ DOMAIN b = 1 .. Len(b)
  BY <1>1, LenProperties
<1>3. Width \in Nat \ {0}
  BY DEF InputAssumption
<1>4. ASSUME NEW i \in 1 .. Len(b)
      PROVE  /\ b[i].start \in Int /\ b[i].end \in Int /\ b[i].start <= b[i].end
             /\ 2 * b[i].start <= Width - 1 /\ 2 * b[i].end <= Width - 1
  <2>1. b[i] \in [start : Int, end : Int]
    BY <1>1, ElementOfSeq
  <2>2. /\ 2 * b[i].start \in -Width .. Width - 1 /\ 2 * b[i].end \in -Width .. Width - 1
        /\ b[i].start <= b[i].end
    BY <1>2 DEF InputAssumption
  <2> QED
    BY <1>3, <2>1, <2>2
<1> QED
  BY <1>2, <1>3, <1>4

(* std::sort of the pairs for a tree.                                      *)
LEMMA SortSorted ==
  ASSUME InputAssumption, NEW b \in Inputs, NEW t \in Trees,
         NEW p \in Bijection(DOMAIN b, DOMAIN b), NEW srt,
         srt = [i \in DOMAIN b |-> [key |-> Number(Bound(b[p[i]], t)), data |-> p[i]]],
         \A i, j \in DOMAIN b : i <= j => srt[i].key <= srt[j].key
  PROVE  SortedData(b, t, srt)
<1>1. DOMAIN b = 1 .. Len(b)
  BY InputFacts
<1>2. /\ p \in [1 .. Len(b) -> 1 .. Len(b)]
      /\ \A i, j \in 1 .. Len(b) : p[i] = p[j] => i = j
      /\ \A x \in 1 .. Len(b) : \E i \in 1 .. Len(b) : p[i] = x
  BY <1>1 DEF Bijection, Injection, Surjection, IsInjective
<1>3. ASSUME NEW i \in 1 .. Len(b)
      PROVE  Number(Bound(b[p[i]], t)) \in 0 .. Width - 1
  <2>1. Bound(b[p[i]], t) \in Int
    BY <1>2, InputFacts DEF Bound
  <2> QED
    BY <2>1, NumberRange
<1>4. srt \in [1 .. Len(b) -> [key : 0 .. Width - 1, data : 1 .. Len(b)]]
  BY <1>1, <1>2, <1>3
<1>5. \A i \in 1 .. Len(b) : srt[i].key = Number(Bound(b[srt[i].data], t)) /\ srt[i].data = p[i]
  BY <1>1
<1> QED
  BY <1>1, <1>2, <1>4, <1>5 DEF SortedData

(* One more data block.                                                    *)
LEMMA DataStep ==
  ASSUME NEW n \in Nat, NEW k \in 0 .. n - 1, NEW srt, NEW store, NEW layr,
         layr = DataLayer(srt, n, k), DataOK(store.memory, store.locationCounter, srt, n, k)
  PROVE  LET item  == srt[n - k]
             block == [type |-> "data", key |-> item.key, data |-> item.data,
                       next |-> IF layr = <<>> THEN EMPTY ELSE Head(layr).address]
         IN /\ DataOK(Store(store, block).memory, Store(store, block).locationCounter, srt, n, k + 1)
            /\ <<[key |-> item.key, address |-> store.locationCounter]>> \o layr
                 = DataLayer(srt, n, k + 1)
<1> DEFINE item  == srt[n - k]
           block == [type |-> "data", key |-> item.key, data |-> item.data,
                     next |-> IF layr = <<>> THEN EMPTY ELSE Head(layr).address]
<1>1. /\ store.locationCounter = k + 2 /\ DOMAIN store.memory = 1 .. k + 1
      /\ \A a \in 2 .. k + 1 : store.memory[a] = DataBlock(srt, n, a)
  BY DEF DataOK
<1>2. layr \in Seq({layr[i] : i \in 1 .. k}) /\ Len(layr) = k
      /\ \A i \in 1 .. k : layr[i] = [key |-> srt[(n - k) + i].key, address |-> (2 + k) - i]
  <2>1. layr = [i \in 1 .. k |-> layr[i]]
    BY DEF DataLayer
  <2>2. \A i \in 1 .. k : layr[i] = [key |-> srt[(n - k) + i].key, address |-> (2 + k) - i]
    BY DEF DataLayer
  <2> DEFINE S == {layr[i] : i \in 1 .. k}
  <2>3. layr \in [1 .. k -> S] /\ k \in Nat
    BY <2>1
  <2> HIDE DEF S
  <2>4. layr \in Seq(S) /\ Len(layr) = k
    BY <2>3
  <2> QED
    BY <2>2, <2>4 DEF S
<1>3. block = DataBlock(srt, n, k + 2)
  <2>1. CASE k = 0
    <3>1. layr = <<>> /\ (n + 2) - (k + 2) = n - k /\ k + 2 = 2
      BY <1>2, <2>1
    <3> QED
      BY <3>1 DEF DataBlock
  <2>2. CASE k > 0
    <3>1. layr # <<>> /\ Head(layr) = layr[1] /\ layr[1].address = (2 + k) - 1
      BY <1>2, <2>2
    <3>2. (n + 2) - (k + 2) = n - k /\ k + 2 # 2 /\ (k + 2) - 1 = (2 + k) - 1
      BY <2>2
    <3> QED
      BY <3>1, <3>2 DEF DataBlock
  <2> QED
    BY <2>1, <2>2
<1> HIDE DEF block
<1> DEFINE new == Store(store, block)
<1>4. /\ DOMAIN new.memory = 1 .. k + 2 /\ new.locationCounter = k + 3
      /\ new.memory[k + 2] = block
      /\ \A a \in 2 .. k + 1 : new.memory[a] = store.memory[a]
  BY <1>1 DEF Store
<1> HIDE DEF new
<1>5. DataOK(new.memory, new.locationCounter, srt, n, k + 1)
  BY <1>1, <1>3, <1>4 DEF DataOK
<1> DEFINE up == <<[key |-> item.key, address |-> store.locationCounter]>> \o layr
<1>6. up = DataLayer(srt, n, k + 1)
  <2> DEFINE S == {layr[i] : i \in 1 .. k} \cup {[key |-> item.key, address |-> store.locationCounter]}
             one == <<[key |-> item.key, address |-> store.locationCounter]>>
             next == DataLayer(srt, n, k + 1)
  <2>1. layr \in Seq(S) /\ one \in Seq(S) /\ Len(one) = 1
        /\ one[1] = [key |-> item.key, address |-> store.locationCounter]
    BY <1>2
  <2> HIDE DEF S
  <2>2. up \in Seq(S) /\ Len(up) = k + 1 /\ \A i \in 1 .. k + 1 : up[i] = IF i <= 1 THEN one[i] ELSE layr[i - 1]
    BY <1>2, <2>1, ConcatProperties
  <2> HIDE DEF up, one
  <2>3. ASSUME NEW i \in 1 .. k + 1 PROVE up[i] = next[i]
    <3>1. next[i] = [key |-> srt[(n - (k + 1)) + i].key, address |-> (2 + (k + 1)) - i]
      BY DEF DataLayer
    <3> HIDE DEF next
    <3>2. CASE i = 1
      <4>1. (n - (k + 1)) + i = n - k /\ (2 + (k + 1)) - i = k + 2
        BY <3>2
      <4> QED
        BY <1>1, <2>1, <2>2, <3>1, <3>2, <4>1
    <3>3. CASE i > 1
      <4>1. i - 1 \in 1 .. k /\ (n - (k + 1)) + i = (n - k) + (i - 1) /\ (2 + (k + 1)) - i = (2 + k) - (i - 1)
        BY <3>3
      <4>2. up[i] = layr[i - 1]
        BY <2>2, <3>3
      <4> QED
        BY <1>2, <3>1, <4>1, <4>2
    <3> QED
      BY <3>2, <3>3
  <2>4. next = [i \in 1 .. k + 1 |-> next[i]]
    BY DEF DataLayer
  <2> HIDE DEF next
  <2>5. up = [i \in 1 .. k + 1 |-> up[i]]
    BY <2>2
  <2> QED
    BY <2>3, <2>4, <2>5 DEF next
<1> QED
  BY <1>5, <1>6 DEF block, new

(* The only block of the last layer is the root.                           *)
LEMMA RootSet ==
  ASSUME NEW b, NEW t, NEW srt, SortedData(b, t, srt), Len(b) \in Nat \ {0},
         NEW mem, NEW top, NEW pairs, Layered(mem, srt, Len(b), top, pairs),
         Len(pairs) = 1, pairs[1].address >= Len(b) + 2
  PROVE  IsTree(b, t, [mem EXCEPT ![META] = pairs[1].address], top, pairs[1].address)
<1> DEFINE rt == pairs[1].address
           new == [mem EXCEPT ![META] = rt]
<1>1. PICK n \in Nat \ {0} : n = Len(b)
  OBVIOUS
<1>2. PICK first, last : /\ Shape(mem, srt, n, first, last, top)
                         /\ Chain(pairs, srt, first, last, top)
                         /\ first[rt] = 1 /\ last[rt] = n
  BY <1>1 DEF Layered
<1>3. top \in Nat /\ top >= n + 2 /\ DOMAIN mem = 1 .. top - 1
  BY <1>2 DEF Shape
<1>4. rt \in 2 .. top - 1
  BY <1>2 DEF Chain, LeadsTo
<1>5. /\ DOMAIN new = 1 .. top - 1 /\ new[META] = rt
      /\ \A a \in 2 .. top - 1 : new[a] = mem[a]
  BY <1>1, <1>3 DEF META
<1> HIDE DEF new, rt
<1>6. DataBlocks(new, srt, n, first, last)
  <2>1. DataBlocks(mem, srt, n, first, last) /\ \A a \in 2 .. n + 1 : a \in 2 .. top - 1
    BY <1>2, <1>3 DEF Shape
  <2> QED
    BY <1>5, <2>1 DEF DataBlocks
<1>7. NodeBlocks(new, srt, n, first, last, top)
  <2>1. NodeBlocks(mem, srt, n, first, last, top) /\ \A a \in n + 2 .. top - 1 : a \in 2 .. top - 1
    BY <1>2, <1>3 DEF Shape
  <2> QED
    BY <1>5, <2>1 DEF NodeBlocks, NodeBlock
<1>8. Shape(new, srt, n, first, last, top)
  BY <1>2, <1>3, <1>5, <1>6, <1>7 DEF Shape
<1>9. rt \in n + 2 .. top - 1
  BY <1>1, <1>3, <1>4 DEF rt
<1>10. Tree(b, t, new, top, rt, srt, first, last)
  BY <1>1, <1>2, <1>5, <1>8, <1>9 DEF Tree
<1> QED
  BY <1>10 DEF IsTree, new, rt

-----------------------------------------------------------------------------
(* The invariant holds before the first tree is built.                     *)
LEMMA InitInvariant ==
  ASSUME InputAssumption, Init
  PROVE  Invariant
<1>1. StoresOK
  BY DEF Init, StoresOK, NewStorage
<1>2. TreesOK
  BY DEF Init, TreesOK, NewStorage, Building, Trees
<1>3. BuildOK
  BY DEF Init, BuildOK, Trees
<1>4. QueryOK
  BY DEF Init, QueryOK, Building, Searching
<1>5. SearchOK /\ DifferenceOK
  BY DEF Init, SearchOK, DifferenceOK
<1> QED
  BY <1>1, <1>2, <1>3, <1>4, <1>5 DEF Init, Invariant, Trees, Building

(* While the trees are built no query is asked.                            *)
LEMMA BuildingAsks ==
  ASSUME Invariant, pc \in Building, pc' \in Building \cup {"idle"}, bins' = bins, asking' = asking
  PROVE  QueryOK' /\ SearchOK' /\ DifferenceOK'
<1>1. pc # "difference" /\ pc' \notin {"difference", "search", "filter"} /\ pc' \notin Searching
  BY DEF Building, Searching
<1>2. QueryOK'
  BY <1>1 DEF Invariant, QueryOK, asking, comparing
<1>3. SearchOK' /\ DifferenceOK'
  BY <1>1 DEF SearchOK, DifferenceOK
<1> QED
  BY <1>2, <1>3

(* Sort keeps the invariant.                                               *)
LEMMA SortStep ==
  ASSUME InputAssumption, Invariant, Sort
  PROVE  Invariant'
<1>1. /\ pc = "sort" /\ pc' = "data" /\ layer' = <<>>
      /\ bins' = bins /\ storage' = storage /\ root' = root /\ tree' = tree /\ asking' = asking
  BY DEF Sort
<1>2. pc \in Building /\ pc' \in Building /\ bins \in Inputs /\ tree \in Trees
  BY <1>1 DEF Building, Invariant
<1>3. QueryOK' /\ SearchOK' /\ DifferenceOK'
  BY <1>1, <1>2, BuildingAsks
<1>4. StoresOK' /\ TreesOK'
  BY <1>1, <1>2 DEF Invariant, StoresOK, TreesOK, TreeOf
<1>5. SortedData(bins, tree, data')
  <2>1. PICK p \in Bijection(DOMAIN bins, DOMAIN bins) :
          /\ data' = [i \in DOMAIN bins |-> IdxBin(tree)[p[i]]]
          /\ \A i, j \in DOMAIN bins : i <= j => data'[i].key <= data'[j].key
    BY DEF Sort
  <2>2. ASSUME NEW i \in DOMAIN bins
        PROVE  IdxBin(tree)[p[i]] = [key |-> Number(Bound(bins[p[i]], tree)), data |-> p[i]]
    <3>1. p[i] \in DOMAIN bins
      BY <2>1 DEF Bijection, Injection
    <3> QED
      BY <3>1 DEF IdxBin, Bound
  <2>3. data' = [i \in DOMAIN bins |-> [key |-> Number(Bound(bins[p[i]], tree)), data |-> p[i]]]
    BY <2>1, <2>2
  <2> QED
    BY <1>2, <2>1, <2>3, SortSorted
<1>6. BuildOK'
  <2>1. Len(bins) \in Nat \ {0} /\ 0 \in 0 .. Len(bins) - 1
    BY <1>2, InputFacts
  <2>2. layer' = DataLayer(data', Len(bins), 0)
    BY <1>1 DEF DataLayer
  <2>3. DataOK(storage[tree].memory, storage[tree].locationCounter, data', Len(bins), 0)
    <3>1. storage[tree] = NewStorage
      BY <1>1 DEF Invariant, BuildOK
    <3> QED
      BY <3>1 DEF DataOK, NewStorage, META
  <2>4. \E k \in 0 .. Len(bins) - 1 :
          /\ layer' = DataLayer(data', Len(bins), k)
          /\ DataOK(storage[tree].memory, storage[tree].locationCounter, data', Len(bins), k)
    BY <2>1, <2>2, <2>3
  <2> QED
    BY <1>1, <1>5, <2>4 DEF BuildOK
<1> QED
  BY <1>1, <1>2, <1>3, <1>4, <1>6 DEF Invariant

(* What a step leaves as it was: the other tree, and the root of this one. *)
LEMMA BuildingTrees ==
  ASSUME Invariant, pc \in Building, pc' \in Building, bins' = bins, tree' = tree, root' = root,
         NEW store, storage' = [storage EXCEPT ![tree] = store],
         DOMAIN store = {"memory", "locationCounter"}, store.memory[META] = EMPTY
  PROVE  StoresOK' /\ TreesOK' /\ storage'[tree] = store
<1>1. tree \in Trees /\ DOMAIN storage = Trees /\ DOMAIN root = Trees
  BY DEF Invariant, StoresOK
<1>2. storage'[tree] = store /\ \A t \in Trees : t # tree => storage'[t] = storage[t]
  BY <1>1
<1>3. StoresOK'
  BY <1>1, <1>2 DEF Invariant, StoresOK
<1>4. TreesOK'
  BY <1>1, <1>2 DEF Invariant, TreesOK, TreeOf, Trees
<1> QED
  BY <1>2, <1>3, <1>4

(* CreateDataBlock keeps the invariant.                                    *)
LEMMA CreateDataBlockStep ==
  ASSUME InputAssumption, Invariant, CreateDataBlock
  PROVE  Invariant'
<1> DEFINE item  == data[Len(data) - Len(layer)]
           block == [type |-> "data", key |-> item.key, data |-> item.data,
                     next |-> IF layer = <<>> THEN EMPTY ELSE Head(layer).address]
           store == Store(storage[tree], block)
<1>1. /\ pc = "data" /\ pc' = IF Len(layer') = Len(data) THEN "push" ELSE "data"
      /\ storage' = [storage EXCEPT ![tree] = store]
      /\ layer' = <<[key |-> item.key, address |-> storage[tree].locationCounter]>> \o layer
      /\ bins' = bins /\ root' = root /\ tree' = tree /\ data' = data /\ asking' = asking
  <2>1. storage' = [storage EXCEPT ![tree] = Store(@, block)]
    BY DEF CreateDataBlock
  <2>2. tree \in DOMAIN storage
    BY DEF Invariant, StoresOK
  <2> QED
    BY <2>1, <2>2 DEF CreateDataBlock
<1>2. pc \in Building /\ pc' \in Building /\ bins \in Inputs /\ tree \in Trees
  BY <1>1 DEF Building, Invariant
<1>3. QueryOK' /\ SearchOK' /\ DifferenceOK'
  BY <1>1, <1>2, BuildingAsks
<1>4. PICK n \in Nat \ {0} : n = Len(bins) /\ Len(data) = n
  <2>1. SortedData(bins, tree, data) /\ Len(bins) \in Nat \ {0}
    BY <1>1, <1>2, InputFacts DEF Invariant, BuildOK
  <2>2. data \in [1 .. Len(bins) -> [key : 0 .. Width - 1, data : 1 .. Len(bins)]]
    BY <2>1 DEF SortedData
  <2> QED
    BY <2>1, <2>2
<1>5. PICK k \in 0 .. n - 1 : /\ layer = DataLayer(data, n, k)
                              /\ DataOK(storage[tree].memory, storage[tree].locationCounter, data, n, k)
  BY <1>1, <1>4 DEF Invariant, BuildOK
<1>6. Len(layer) = k
  BY <1>5 DEF DataLayer
<1>7. item = data[n - k]
  BY <1>4, <1>6
<1>8. /\ DataOK(store.memory, store.locationCounter, data, n, k + 1)
      /\ layer' = DataLayer(data, n, k + 1)
  <2> HIDE DEF item
  <2> DEFINE store2 == storage[tree]
             item2 == data[n - k]
             block2 == [type |-> "data", key |-> item2.key, data |-> item2.data,
                        next |-> IF layer = <<>> THEN EMPTY ELSE Head(layer).address]
  <2>1. /\ DataOK(Store(store2, block2).memory, Store(store2, block2).locationCounter, data, n, k + 1)
        /\ <<[key |-> item2.key, address |-> store2.locationCounter]>> \o layer = DataLayer(data, n, k + 1)
    <3> HIDE DEF store2
    <3>1. DataOK(store2.memory, store2.locationCounter, data, n, k)
      BY <1>5 DEF store2
    <3>2. layer = DataLayer(data, n, k)
      BY <1>5
    <3> HIDE <1>1, <1>2, <1>3, <1>4, <1>5, <1>6, <1>7
    <3> QED
      BY <3>1, <3>2, DataStep, SMTT(30)
  <2>2. item2 = item
    BY <1>7
  <2> HIDE DEF item2
  <2> QED
    BY <1>1, <2>1, <2>2
<1>9. StoresOK' /\ TreesOK' /\ storage'[tree] = store
  <2>1. DOMAIN store = {"memory", "locationCounter"}
    BY DEF Store
  <2>2. storage[tree].memory[META] = EMPTY /\ storage[tree].locationCounter # META
        /\ META \in DOMAIN storage[tree].memory
    BY <1>1, <1>2, <1>5 DEF Invariant, TreesOK, DataOK, META
  <2>3. store.memory[META] = EMPTY
    <3> HIDE DEF block
    <3> QED
      BY <2>2 DEF Store
  <2> HIDE DEF store
  <2> QED
    BY <1>1, <1>2, <2>1, <2>3, BuildingTrees
<1> HIDE DEF item, store
<1>10. Len(layer') = k + 1
  BY <1>8 DEF DataLayer
<1>11. SortedData(bins, tree, data)
  BY <1>1 DEF Invariant, BuildOK
<1>12. BuildOK'
  <2>1. CASE k + 1 = n
    <3>1. pc' = "push"
      BY <1>1, <1>4, <1>10, <2>1
    <3>2. Layered(store.memory, data, n, n + 2, DataLayer(data, n, n))
      <4>1. DOMAIN store.memory = 1 .. n + 1 /\ \A a \in 2 .. n + 1 : store.memory[a] = DataBlock(data, n, a)
        BY <1>8, <2>1 DEF DataOK
      <4> QED
        BY <1>4, <1>11, <4>1, DataLayered
    <3>3. store.locationCounter = n + 2
      BY <1>8, <2>1 DEF DataOK
    <3>4. Layered(storage'[tree].memory, data', n, storage'[tree].locationCounter, layer')
      BY <1>1, <1>8, <1>9, <2>1, <3>2, <3>3
    <3> QED
      BY <1>1, <1>4, <1>11, <3>1, <3>4 DEF BuildOK
  <2>2. CASE k + 1 # n
    <3>1. pc' = "data" /\ k + 1 \in 0 .. n - 1
      BY <1>1, <1>4, <1>10, <2>2
    <3>2. /\ layer' = DataLayer(data', n, k + 1)
          /\ DataOK(storage'[tree].memory, storage'[tree].locationCounter, data', n, k + 1)
      BY <1>1, <1>8, <1>9
    <3> QED
      BY <1>1, <1>4, <1>11, <3>1, <3>2 DEF BuildOK
  <2> QED
    BY <2>1, <2>2
<1> QED
  BY <1>1, <1>2, <1>3, <1>9, <1>12 DEF Invariant

(* PushLayer keeps the invariant.                                          *)
LEMMA PushLayerStep ==
  ASSUME FanoutAssumption, InputAssumption, Invariant, PushLayer
  PROVE  Invariant'
<1> DEFINE groups == (Len(layer) + Fanout - 1) \div Fanout
           first  == storage[tree].locationCounter
           mem == storage[tree].memory
           store == [memory |-> [a \in DOMAIN mem \cup first .. first + groups - 1 |->
                            IF a < first THEN mem[a]
                            ELSE [type |-> "node", pairs |-> Group(a - first + 1)]],
                     locationCounter |-> first + groups]
<1>1. /\ pc = "push" /\ pc' = IF Len(layer') > 1 THEN "push" ELSE "root"
      /\ storage' = [storage EXCEPT ![tree] = store]
      /\ layer' = [g \in 1 .. groups |-> [key |-> LargestKey(Group(g)), address |-> first + g - 1]]
      /\ bins' = bins /\ root' = root /\ tree' = tree /\ data' = data /\ asking' = asking
  <2>1. tree \in DOMAIN storage
    BY DEF Invariant, StoresOK
  <2> QED
    BY <2>1 DEF PushLayer
<1>2. pc \in Building /\ pc' \in Building /\ bins \in Inputs /\ tree \in Trees
  BY <1>1 DEF Building, Invariant
<1>3. QueryOK' /\ SearchOK' /\ DifferenceOK'
  BY <1>1, <1>2, BuildingAsks
<1>4. PICK n \in Nat \ {0} : n = Len(bins)
  BY <1>2, InputFacts
<1>5. SortedData(bins, tree, data) /\ Layered(mem, data, n, first, layer)
  BY <1>1, <1>4 DEF Invariant, BuildOK
<1>6. /\ Layered(NextMemory(mem, layer, first), data, n, first + Groups(Len(layer)), NextLayer(layer, first))
      /\ first \in Nat /\ first >= n + 2 /\ DOMAIN mem = 1 .. first - 1 /\ Groups(Len(layer)) \in Nat
      /\ NextLayer(layer, first)[1].address >= n + 2 /\ Len(NextLayer(layer, first)) \in Nat \ {0}
  <2> HIDE DEF mem, first
  <2> QED
    BY <1>4, <1>5, PushLayered
<1>7. Groups(Len(layer)) = groups /\ \A g : Group(g) = GroupOf(layer, g)
  BY DEF Groups, Group, GroupOf, First, Last
<1>8. layer' = NextLayer(layer, first) /\ store.memory = NextMemory(mem, layer, first)
  <2>1. layer' = NextLayer(layer, first)
    BY <1>1, <1>7 DEF NextLayer
  <2>2. (first + groups) - 1 = first + groups - 1
    <3> HIDE DEF first, groups
    <3> QED
      BY <1>6, <1>7
  <2> QED
    BY <1>7, <2>1, <2>2 DEF NextMemory
<1>9. store.locationCounter = first + Groups(Len(layer)) /\ DOMAIN store = {"memory", "locationCounter"}
  BY <1>7
<1>10. StoresOK' /\ TreesOK' /\ storage'[tree] = store
  <2>1. mem[META] = EMPTY
    BY <1>2 DEF Invariant, TreesOK
  <2>2. META \in DOMAIN mem /\ META < first
    BY <1>4, <1>6 DEF META
  <2>3. store.memory[META] = EMPTY
    <3> HIDE DEF mem, first, groups
    <3> QED
      BY <2>1, <2>2
  <2> HIDE DEF store
  <2> QED
    BY <1>1, <1>2, <1>9, <2>3, BuildingTrees
<1> HIDE DEF store, mem, first, groups
<1>11. BuildOK'
  <2>1. Layered(storage'[tree].memory, data', n, storage'[tree].locationCounter, layer')
    BY <1>1, <1>6, <1>8, <1>9, <1>10
  <2>2. Len(layer') \in Nat \ {0} /\ layer'[1].address >= n + 2
    BY <1>6, <1>8
  <2>3. pc' # "sort" /\ pc' # "data" /\ (pc' = "root" => Len(layer') = 1)
    <3>1. PICK l \in Nat \ {0} : l = Len(layer')
      BY <2>2
    <3>2. pc' = IF l > 1 THEN "push" ELSE "root"
      BY <1>1, <3>1
    <3> QED
      BY <3>1, <3>2
  <2>4. SortedData(bins', tree', data')
    BY <1>1, <1>5
  <2>5. Layered(storage'[tree'].memory, data', Len(bins'), storage'[tree'].locationCounter, layer')
        /\ layer'[1].address >= Len(bins') + 2
    BY <1>1, <1>4, <2>1, <2>2
  <2> QED
    BY <2>3, <2>4, <2>5 DEF BuildOK
<1> QED
  BY <1>1, <1>2, <1>3, <1>10, <1>11 DEF Invariant

(* SetRoot keeps the invariant.                                            *)
LEMMA SetRootStep ==
  ASSUME InputAssumption, Invariant, SetRoot
  PROVE  Invariant'
<1> DEFINE rt == layer[1].address
           new == [storage[tree].memory EXCEPT ![META] = rt]
<1>1. /\ pc = "root" /\ pc' = IF tree = 1 THEN "sort" ELSE "idle"
      /\ root' = [root EXCEPT ![tree] = rt] /\ tree' = IF tree = 1 THEN 2 ELSE 1
      /\ storage' = [storage EXCEPT ![tree].memory[META] = rt]
      /\ bins' = bins /\ asking' = asking
  BY DEF SetRoot
<1>2. pc \in Building /\ pc' \in Building \cup {"idle"} /\ bins \in Inputs /\ tree \in Trees
  BY <1>1 DEF Building, Invariant
<1>3. QueryOK' /\ SearchOK' /\ DifferenceOK'
  BY <1>1, <1>2, BuildingAsks
<1>4. /\ DOMAIN storage = Trees /\ DOMAIN root = Trees
      /\ \A t \in Trees : DOMAIN storage[t] = {"memory", "locationCounter"}
  BY DEF Invariant, StoresOK
<1>5. /\ storage'[tree].memory = new /\ storage'[tree].locationCounter = storage[tree].locationCounter
      /\ DOMAIN storage'[tree] = {"memory", "locationCounter"} /\ DOMAIN storage' = Trees
      /\ \A t \in Trees : t # tree => storage'[t] = storage[t] /\ root'[t] = root[t]
      /\ root'[tree] = rt /\ DOMAIN root' = Trees
  BY <1>1, <1>2, <1>4
<1>6. StoresOK'
  BY <1>2, <1>4, <1>5 DEF StoresOK
<1>7. IsTree(bins', tree, storage'[tree].memory, storage'[tree].locationCounter, root'[tree])
  <2>1. SortedData(bins, tree, data) /\ Len(bins) \in Nat \ {0}
        /\ Layered(storage[tree].memory, data, Len(bins), storage[tree].locationCounter, layer)
        /\ Len(layer) = 1 /\ layer[1].address >= Len(bins) + 2
    BY <1>1, <1>2, InputFacts DEF Invariant, BuildOK
  <2>2. IsTree(bins, tree, new, storage[tree].locationCounter, rt)
    BY <2>1, RootSet
  <2> QED
    BY <1>1, <1>5, <2>2
<1> HIDE DEF new, rt
<1>8. CASE tree = 1
  <2>1. pc' = "sort" /\ tree' = 2
    BY <1>1, <1>8
  <2>2. storage[2] = NewStorage /\ root[2] = EMPTY
    BY <1>2, <1>8 DEF Invariant, TreesOK
  <2>3. storage'[2] = NewStorage /\ root'[2] = EMPTY
    BY <1>5, <1>8, <2>2 DEF Trees
  <2>4. IsTree(bins', 1, storage'[1].memory, storage'[1].locationCounter, root'[1])
    BY <1>7, <1>8
  <2>5. TreesOK'
    BY <2>1, <2>3, <2>4 DEF TreesOK, TreeOf, Building, NewStorage
  <2>6. BuildOK'
    BY <2>1, <2>3 DEF BuildOK
  <2> QED
    BY <1>1, <1>2, <1>3, <1>6, <2>1, <2>5, <2>6 DEF Invariant, Trees
<1>9. CASE tree = 2
  <2>1. pc' = "idle" /\ tree' = 1 /\ pc' \notin Building
    BY <1>1, <1>9 DEF Building
  <2>2. IsTree(bins, 1, storage[1].memory, storage[1].locationCounter, root[1])
    BY <1>2, <1>9 DEF Invariant, TreesOK, TreeOf
  <2>3. IsTree(bins', 1, storage'[1].memory, storage'[1].locationCounter, root'[1])
    BY <1>1, <1>5, <1>9, <2>2 DEF Trees
  <2>4. IsTree(bins', 2, storage'[2].memory, storage'[2].locationCounter, root'[2])
    BY <1>7, <1>9
  <2>5. TreesOK'
    BY <2>1, <2>3, <2>4 DEF TreesOK, TreeOf
  <2>6. BuildOK'
    BY <2>1 DEF BuildOK
  <2> QED
    BY <1>1, <1>2, <1>3, <1>6, <2>1, <2>5, <2>6 DEF Invariant, Trees
<1> QED
  BY <1>2, <1>8, <1>9 DEF Trees

-----------------------------------------------------------------------------
(* The searches.  What a tree says of the block at an address.             *)
Spans(n, top, rt, first, last) ==
  /\ top \in Nat /\ top >= n + 2 /\ rt \in n + 2 .. top - 1
  /\ first[rt] = 1 /\ last[rt] = n
  /\ \A a \in 2 .. top - 1 : first[a] \in 1 .. n /\ last[a] \in 1 .. n /\ first[a] <= last[a]

Ordered(srt, n) ==
  /\ \A p \in 1 .. n : srt[p].key \in Nat
  /\ \A p, q \in 1 .. n : p <= q => srt[p].key <= srt[q].key

Complete(srt, n) ==
  /\ \A p \in 1 .. n : srt[p].data \in 1 .. n
  /\ \A p, q \in 1 .. n : srt[p].data = srt[q].data => p = q

(* Sorted data has its keys in order.                                      *)
LEMMA SortedOrdered ==
  ASSUME InputAssumption, NEW b, NEW t, NEW n \in Nat \ {0}, n = Len(b), NEW srt, SortedData(b, t, srt)
  PROVE  Ordered(srt, n)
<1>1. Width \in Nat
  BY DEF InputAssumption
<1>2. srt \in [1 .. n -> [key : 0 .. Width - 1, data : 1 .. n]]
      /\ \A p, q \in 1 .. n : p <= q => srt[p].key <= srt[q].key
  BY DEF SortedData
<1>3. \A p \in 1 .. n : srt[p].key \in Nat
  BY <1>1, <1>2
<1> QED
  BY <1>2, <1>3 DEF Ordered

(* What a tree says of its data and places.                                *)
LEMMA TreeFacts ==
  ASSUME InputAssumption, NEW b, NEW t, NEW n \in Nat \ {0}, n = Len(b), NEW mem, NEW top, NEW rt, NEW srt,
         NEW first, NEW last, Tree(b, t, mem, top, rt, srt, first, last)
  PROVE  SortedData(b, t, srt) /\ Ordered(srt, n) /\ Spans(n, top, rt, first, last)
<1>1. SortedData(b, t, srt) /\ Shape(mem, srt, n, first, last, top) /\ rt \in n + 2 .. top - 1
      /\ first[rt] = 1 /\ last[rt] = n
  BY DEF Tree
<1>2. Places(n, first, last, top) /\ top \in Nat /\ top >= n + 2
  BY <1>1 DEF Shape
<1>3. Spans(n, top, rt, first, last)
  BY <1>1, <1>2 DEF Places, Spans
<1> QED
  BY <1>1, <1>3, SortedOrdered

(* What a tree says of a data block.                                       *)
LEMMA DataFacts ==
  ASSUME NEW b, NEW t, NEW n \in Nat \ {0}, n = Len(b), NEW mem, NEW top, NEW rt, NEW srt,
         NEW first, NEW last, Tree(b, t, mem, top, rt, srt, first, last), NEW a \in 2 .. n + 1
  PROVE  /\ mem[a] = DataBlock(srt, n, a)
         /\ first[a] = n + 2 - a /\ last[a] = n + 2 - a
BY DEF Tree, Shape, DataBlocks

(* What a tree says of a node block.                                       *)
LEMMA NodeFacts ==
  ASSUME NEW b, NEW t, NEW n \in Nat \ {0}, n = Len(b), NEW mem, NEW top, NEW rt, NEW srt,
         NEW first, NEW last, Tree(b, t, mem, top, rt, srt, first, last), NEW a \in n + 2 .. top - 1
  PROVE  NodeBlock(mem, srt, first, last, a)
BY DEF Tree, Shape, NodeBlocks

(* The type of a block says where it is.                                   *)
LEMMA BlockType ==
  ASSUME InputAssumption, NEW b, NEW t, NEW n \in Nat \ {0}, n = Len(b), NEW mem, NEW top, NEW rt, NEW srt,
         NEW first, NEW last, Tree(b, t, mem, top, rt, srt, first, last), NEW a \in 2 .. top - 1
  PROVE  /\ mem[a].type = "node" => a \in n + 2 .. top - 1
         /\ mem[a].type = "data" => a \in 2 .. n + 1
<1>1. top \in Nat /\ top >= n + 2
  <2>1. Spans(n, top, rt, first, last)
    BY TreeFacts
  <2> QED
    BY <2>1 DEF Spans
<1>2. CASE a \in 2 .. n + 1
  <2>1. mem[a] = DataBlock(srt, n, a)
    BY <1>2, DataFacts
  <2>2. mem[a].type = "data"
    BY <2>1 DEF DataBlock
  <2> QED
    BY <1>2, <2>2
<1>3. CASE a \in n + 2 .. top - 1
  <2>1. NodeBlock(mem, srt, first, last, a)
    BY <1>3, NodeFacts
  <2> QED
    BY <1>3, <2>1 DEF NodeBlock
<1> QED
  BY <1>1, <1>2, <1>3

(* From a node block to the first child whose key is not too small.        *)
Child(srt, first, last, n, top, rt, c, lo, hi, ids, m) ==
  c \in 2 .. top - 1 /\ At(srt, first, last, n, rt, c, lo, hi, ids, m)

Smaller(pairs, i, lo) == \A j \in 1 .. i - 1 : pairs[j].key < lo

(* The search is still at all it has to find.                              *)
LEMMA DescendAt ==
  ASSUME InputAssumption, NEW b, NEW t, NEW n \in Nat \ {0}, n = Len(b), NEW mem, NEW top, NEW rt, NEW srt,
         NEW first, NEW last, Tree(b, t, mem, top, rt, srt, first, last),
         NEW a \in n + 2 .. top - 1, NEW lo \in Nat, NEW hi, NEW ids, NEW m,
         At(srt, first, last, n, rt, a, lo, hi, ids, m),
         NEW i \in DOMAIN mem[a].pairs, lo <= mem[a].pairs[i].key,
         Smaller(mem[a].pairs, i, lo)
  PROVE  Child(srt, first, last, n, top, rt, mem[a].pairs[i].address, lo, hi, ids, m)
<1> DEFINE pairs == mem[a].pairs
           c == pairs[i].address
<1>0. Ordered(srt, n) /\ Spans(n, top, rt, first, last)
  BY TreeFacts
<1>01. top \in Nat /\ top >= n + 2
  BY <1>0 DEF Spans
<1>1. NodeBlock(mem, srt, first, last, a)
  BY NodeFacts
<1>2. PICK len \in 1 .. Fanout : len = Len(pairs) /\ i \in 1 .. len
  <2>1. pairs \in Seq(Pair) /\ Len(pairs) \in 1 .. Fanout
    BY <1>1 DEF NodeBlock, Chain
  <2> QED
    BY <2>1, LenProperties
<1>3. /\ \A j \in 1 .. len : /\ pairs[j].address \in 2 .. a - 1
                             /\ pairs[j].key = srt[last[pairs[j].address]].key
      /\ \A j \in 1 .. len - 1 : first[pairs[j + 1].address] = last[pairs[j].address] + 1
      /\ first[a] = first[pairs[1].address]
  BY <1>1, <1>2 DEF NodeBlock, Chain, LeadsTo, Adjoining
<1>4. a > n + 1 /\ a \in 2 .. top - 1
  BY <1>01
<1>5. (\A p \in 1 .. first[a] - 1 : srt[p].key < lo) /\ ids = {} /\ m = 0
  BY <1>4 DEF At
<1>6. c \in 2 .. a - 1 /\ c \in 2 .. top - 1 /\ lo <= srt[last[c]].key
  <2>1. c \in 2 .. a - 1 /\ pairs[i].key = srt[last[c]].key
    BY <1>2, <1>3
  <2> HIDE DEF c
  <2> QED
    BY <1>01, <1>4, <2>1
<1>7. \A p \in 1 .. first[c] - 1 : srt[p].key < lo
  <2>1. CASE i = 1
    BY <1>3, <1>5, <2>1
  <2>2. CASE i > 1
    <3>1. i - 1 \in 1 .. len /\ i - 1 \in 1 .. len - 1 /\ i - 1 \in 1 .. i - 1 /\ (i - 1) + 1 = i
      BY <1>2, <2>2
    <3> DEFINE d == pairs[i - 1].address
    <3>2. first[c] = last[d] + 1 /\ srt[last[d]].key < lo /\ d \in 2 .. top - 1
      <4>1. first[pairs[(i - 1) + 1].address] = last[d] + 1
        BY <1>3, <3>1
      <4>2. d \in 2 .. a - 1 /\ pairs[i - 1].key = srt[last[d]].key /\ pairs[i - 1].key < lo
        BY <1>3, <3>1 DEF Smaller
      <4> HIDE DEF d, pairs
      <4> QED
        BY <1>01, <1>4, <3>1, <4>1, <4>2
    <3> HIDE DEF c, d
    <3>3. last[d] \in 1 .. n /\ first[c] \in 1 .. n
      BY <1>0, <1>6, <3>2 DEF Spans
    <3>4. ASSUME NEW p \in 1 .. first[c] - 1 PROVE srt[p].key < lo
      <4>1. p \in 1 .. n /\ p <= last[d]
        BY <3>2, <3>3
      <4>2. srt[p].key <= srt[last[d]].key /\ srt[p].key \in Int /\ srt[last[d]].key \in Int
        BY <1>0, <3>3, <4>1 DEF Ordered
      <4> QED
        BY <3>2, <4>2
    <3> QED
      BY <3>4
  <2> QED
    BY <1>2, <2>1, <2>2
<1> HIDE DEF c
<1>8. At(srt, first, last, n, rt, c, lo, hi, ids, m)
  <2>1. CASE c > n + 1
    <3>1. ~ (c <= n + 1)
      BY <1>6, <2>1
    <3> QED
      BY <1>5, <1>6, <1>7, <2>1, <3>1 DEF At
  <2>2. CASE c <= n + 1
    <3>1. c \in 2 .. n + 1 /\ ~ (c > n + 1)
      BY <1>6, <2>2
    <3>2. first[c] = last[c]
      <4>1. DataBlocks(mem, srt, n, first, last)
        BY DEF Tree, Shape
      <4> QED
        BY <3>1, <4>1 DEF DataBlocks
    <3>3. first[c] \in 1 .. n
      BY <1>0, <1>6 DEF Spans
    <3>4. \A p \in 1 .. first[c] - 1 : ~ (lo <= srt[p].key)
      <4>1. ASSUME NEW p \in 1 .. first[c] - 1 PROVE ~ (lo <= srt[p].key)
        <5>1. srt[p].key \in Int /\ srt[p].key < lo
          BY <1>0, <1>7, <3>3 DEF Ordered
        <5> QED
          BY <5>1
      <4> QED
        BY <4>1
    <3>5. ids = Below(srt, first[c] - 1, lo) /\ Fit(srt, first[c] - 1, lo, hi)
      BY <1>5, <3>4 DEF Below, Fit
    <3>6. m \in 0 .. first[c] - 1
      BY <1>5, <3>3
    <3> QED
      BY <1>6, <3>1, <3>2, <3>5, <3>6 DEF At
  <2> QED
    BY <1>6, <2>1, <2>2
<1> QED
  BY <1>6, <1>8 DEF c, Child

(* The bins of a tree by their places.                                     *)
Within(srt, n, lo, hi) ==
  {srt[p].data : p \in {p \in 1 .. n : lo <= srt[p].key /\ srt[p].key <= hi}}

(* What a search is to find, by the places of the sorted data.             *)
LEMMA HitsByPlace ==
  ASSUME NEW b, NEW q, NEW t, NEW n \in Nat \ {0}, n = Len(b), NEW srt, SortedData(b, t, srt)
  PROVE  Hits(b, q, t) = Within(srt, n, SearchStart(q, t), SearchEnd(q, t))
<1>1. /\ \A p \in 1 .. n : srt[p].key = Number(Bound(b[srt[p].data], t)) /\ srt[p].data \in 1 .. n
      /\ \A x \in 1 .. n : \E p \in 1 .. n : srt[p].data = x
  BY DEF SortedData
<1> DEFINE lo == SearchStart(q, t)
           hi == SearchEnd(q, t)
           P == {p \in 1 .. n : lo <= srt[p].key /\ srt[p].key <= hi}
           H == {srt[p].data : p \in P}
<1>2. Hits(b, q, t) = {x \in 1 .. n : lo <= Number(Bound(b[x], t)) /\ Number(Bound(b[x], t)) <= hi}
  BY DEF Hits
<1> HIDE DEF lo, hi
<1>3. ASSUME NEW x \in Hits(b, q, t) PROVE x \in H
  <2>1. x \in 1 .. n /\ lo <= Number(Bound(b[x], t)) /\ Number(Bound(b[x], t)) <= hi
    BY <1>2
  <2>2. PICK p \in 1 .. n : srt[p].data = x
    BY <1>1, <2>1
  <2>3. p \in P
    BY <1>1, <2>1, <2>2
  <2> QED
    BY <2>2, <2>3
<1>4. ASSUME NEW x \in H PROVE x \in Hits(b, q, t)
  <2>1. PICK p \in P : srt[p].data = x
    OBVIOUS
  <2> QED
    BY <1>1, <1>2, <2>1, ZenonT(30)
<1> QED
  BY <1>3, <1>4 DEF lo, hi, Within

(* What is to be collected is a range of ints.                             *)
LEMMA SearchBounds ==
  ASSUME InputAssumption, NEW q \in Queries, NEW t \in Trees
  PROVE  SearchStart(q, t) \in Nat /\ SearchEnd(q, t) \in Int
<1>1. q[1] \in Int /\ q[2] \in Int /\ Width \in Nat \ {0}
  BY DEF InputAssumption
<1>2. Number(q[2] + 1) \in Nat /\ Number(q[1] - 1) \in Nat
  <2>1. ASSUME NEW x \in Int PROVE Number(x) \in Nat
    <3>1. Number(x) \in 0 .. Width - 1
      BY NumberRange
    <3> QED
      BY <1>1, <3>1
  <2>2. q[2] + 1 \in Int /\ q[1] - 1 \in Int
    BY <1>1
  <2> QED
    BY <2>1, <2>2
<1> QED
  BY <1>1, <1>2 DEF SearchStart, SearchEnd

(* All children of a node block are too small: nothing is in the range.    *)
LEMMA NothingFound ==
  ASSUME FanoutAssumption, InputAssumption, NEW q \in Queries, NEW t \in Trees,
         NEW b, NEW n \in Nat \ {0}, n = Len(b), NEW mem, NEW top, NEW rt, NEW srt,
         NEW first, NEW last, Tree(b, t, mem, top, rt, srt, first, last),
         NEW a \in n + 2 .. top - 1, NEW hi, NEW ids, NEW m,
         At(srt, first, last, n, rt, a, SearchStart(q, t), hi, ids, m),
         \A i \in DOMAIN mem[a].pairs : mem[a].pairs[i].key < SearchStart(q, t)
  PROVE  ids = {} /\ m = 0 /\ Hits(b, q, t) = {}
<1> DEFINE pairs == mem[a].pairs
<1>0. Ordered(srt, n) /\ Spans(n, top, rt, first, last) /\ SortedData(b, t, srt)
  BY TreeFacts
<1>1. PICK lo \in Nat : lo = SearchStart(q, t)
  BY SearchBounds
<1>2. NodeBlock(mem, srt, first, last, a)
  BY NodeFacts
<1>3. PICK len \in Nat \ {0} : len = Len(pairs) /\ len \in DOMAIN pairs
  <2>1. pairs \in Seq(Pair) /\ Len(pairs) \in 1 .. Fanout /\ Fanout \in Nat
    BY <1>2 DEF NodeBlock, Chain, FanoutAssumption
  <2> QED
    BY <2>1, LenProperties, SMTT(30)
<1>4. pairs[len].key = srt[last[a]].key
  <2>1. LeadsTo(pairs, srt, last, a) /\ last[a] = last[pairs[len].address]
    BY <1>2, <1>3 DEF NodeBlock, Chain
  <2>2. pairs[len].key = srt[last[pairs[len].address]].key
    <3> HIDE DEF pairs
    <3>1. len \in 1 .. Len(pairs)
      BY <1>3
    <3> QED
      BY <2>1, <3>1 DEF LeadsTo
  <2> QED
    BY <2>1, <2>2
<1>5. a > n + 1 /\ a \in 2 .. top - 1
  <2>1. top \in Nat
    BY <1>0 DEF Spans
  <2> QED
    BY <2>1
<1>6. ids = {} /\ m = 0 /\ (a = rt \/ lo <= srt[last[a]].key)
  BY <1>1, <1>5 DEF At
<1>7. last[a] \in 1 .. n /\ srt[last[a]].key \in Int /\ srt[last[a]].key < lo
  <2>1. last[a] \in 1 .. n
    BY <1>0, <1>5 DEF Spans
  <2>2. srt[last[a]].key \in Int
    BY <1>0, <2>1, SMTT(30) DEF Ordered
  <2>3. pairs[len].key < lo
    BY <1>1, <1>3
  <2> QED
    BY <1>4, <2>1, <2>2, <2>3
<1>8. last[a] = n
  <2>1. last[rt] = n
    BY <1>0 DEF Spans
  <2>2. PICK k \in Int : k = srt[last[a]].key
    BY <1>7
  <2>3. k < lo
    BY <1>7, <2>2
  <2>4. ~ (lo <= k)
    BY <1>1, <2>3
  <2> QED
    BY <1>6, <2>1, <2>2, <2>4
<1>9. \A p \in 1 .. n : ~ (lo <= srt[p].key)
  <2>1. ASSUME NEW p \in 1 .. n PROVE ~ (lo <= srt[p].key)
    <3>1. srt[p].key <= srt[n].key /\ srt[p].key \in Int /\ srt[n].key \in Int
      BY <1>0, SMTT(30) DEF Ordered
    <3>2. PICK k \in Int, l \in Int : k = srt[n].key /\ l = srt[p].key /\ l <= k
      BY <3>1
    <3>3. k < lo
      BY <1>7, <1>8, <3>2
    <3>4. ~ (lo <= l)
      <4>1. lo \in Int /\ k \in Int /\ l \in Int /\ l <= k
        BY <1>1, <3>2
      <4> HIDE <1>1, <3>2
      <4> QED
        BY <3>3, <4>1
    <3> QED
      BY <3>2, <3>4
  <2> QED
    BY <2>1
<1>10. Hits(b, q, t) = {}
  <2>2. Hits(b, q, t) = Within(srt, n, lo, SearchEnd(q, t))
    BY <1>0, <1>1, HitsByPlace
  <2> QED
    BY <1>9, <2>2 DEF Within
<1> QED
  BY <1>6, <1>10

(* Places of the sorted data.  One more place of the range: the bins found *)
(* before it and its own are those of the range up to it.                  *)
LEMMA BelowNext ==
  ASSUME NEW srt, NEW place \in Nat \ {0}, NEW lo, lo <= srt[place].key
  PROVE  Below(srt, place - 1, lo) \cup {srt[place].data} = Below(srt, place, lo)
<1>1. 1 .. place = (1 .. place - 1) \cup {place}
  OBVIOUS
<1>2. {p \in 1 .. place : lo <= srt[p].key} = {p \in 1 .. place - 1 : lo <= srt[p].key} \cup {place}
  BY <1>1
<1> QED
  BY <1>2 DEF Below

(* A bin is at one place only.                                             *)
LEMMA BelowNew ==
  ASSUME NEW srt, NEW n \in Nat, NEW place \in 1 .. n, NEW lo,
         \A p, r \in 1 .. n : srt[p].data = srt[r].data => p = r
  PROVE  srt[place].data \notin Below(srt, place - 1, lo)
<1>1. ASSUME NEW p \in 1 .. place - 1 PROVE srt[p].data # srt[place].data
  <2>1. p \in 1 .. n /\ p # place
    OBVIOUS
  <2> QED
    BY <2>1
<1> QED
  BY <1>1 DEF Below

(* One more place that is not above the range.                             *)
LEMMA FitNext ==
  ASSUME NEW srt, NEW place \in Nat \ {0}, NEW lo, NEW hi, srt[place].key <= hi,
         Fit(srt, place - 1, lo, hi)
  PROVE  Fit(srt, place, lo, hi)
<1>1. \A p \in 1 .. place : p = place \/ p \in 1 .. place - 1
  OBVIOUS
<1> QED
  BY <1>1 DEF Fit

(* The places from the first that is not too small on are not too small.   *)
LEMMA StartNext ==
  ASSUME NEW srt, NEW n \in Nat, Ordered(srt, n), NEW p \in 1 .. n, NEW r \in 1 .. n, p <= r,
         NEW lo \in Int
  PROVE  /\ lo <= srt[p].key => lo <= srt[r].key
         /\ srt[r].key <= lo => srt[p].key <= lo
<1>1. srt[p].key \in Int /\ srt[r].key \in Int /\ srt[p].key <= srt[r].key
  BY DEF Ordered
<1> QED
  BY <1>1

(* At the end of the list all that is to be found is found.                *)
LEMMA WithinAll ==
  ASSUME NEW srt, NEW n \in Nat, NEW lo, NEW hi, Fit(srt, n, lo, hi)
  PROVE  Below(srt, n, lo) = Within(srt, n, lo, hi)
<1>1. {p \in 1 .. n : lo <= srt[p].key} = {p \in 1 .. n : lo <= srt[p].key /\ srt[p].key <= hi}
  BY DEF Fit
<1> QED
  BY <1>1 DEF Below, Within

(* A place in the range is to be found.                                    *)
LEMMA WithinOne ==
  ASSUME NEW srt, NEW n \in Nat, NEW lo, NEW hi, NEW place \in 1 .. n,
         lo <= srt[place].key, srt[place].key <= hi
  PROVE  srt[place].data \in Within(srt, n, lo, hi)
BY DEF Within

(* Behind a key above the range nothing is to be found.                    *)
LEMMA WithinNoMore ==
  ASSUME NEW srt, NEW n \in Nat, Ordered(srt, n), NEW lo, NEW hi \in Int, NEW place \in 1 .. n,
         Fit(srt, place - 1, lo, hi), ~ (srt[place].key <= hi)
  PROVE  Below(srt, place - 1, lo) = Within(srt, n, lo, hi)
<1>1. ASSUME NEW p \in place .. n PROVE ~ (srt[p].key <= hi)
  <2>1. p \in 1 .. n /\ place <= p
    OBVIOUS
  <2> QED
    BY <2>1, StartNext
<1>2. (\A p \in 1 .. n : p \in 1 .. place - 1 \/ p \in place .. n) /\ \A p \in 1 .. place - 1 : p \in 1 .. n
  OBVIOUS
<1>3. {p \in 1 .. n : lo <= srt[p].key /\ srt[p].key <= hi} = {p \in 1 .. place - 1 : lo <= srt[p].key}
  BY <1>1, <1>2 DEF Fit
<1> QED
  BY <1>3 DEF Below, Within

(* The place of a data block, and the one after it.                        *)
LEMMA PlaceOf ==
  ASSUME NEW n \in Nat \ {0}, NEW a \in 2 .. n + 1
  PROVE  /\ n + 2 - a \in 1 .. n /\ ~ (a > n + 1) /\ a <= n + 1
         /\ a = 2 => n + 2 - a = n
         /\ a # 2 => /\ a - 1 \in 2 .. n + 1 /\ n + 2 - a + 1 \in 1 .. n
                     /\ n + 2 - (a - 1) = n + 2 - a + 1
OBVIOUS

(* The search is at a data block.                                          *)
AtData(srt, n, place, lo, hi, ids, m) ==
  /\ lo <= srt[place].key /\ Fit(srt, place - 1, lo, hi)
  /\ ids = Below(srt, place - 1, lo) /\ m \in 0 .. place - 1

(* The search at a data block, by its place.                               *)
LEMMA AtDataBlock ==
  ASSUME NEW b, NEW t, NEW n \in Nat \ {0}, n = Len(b), NEW mem, NEW top, NEW rt, NEW srt,
         NEW first, NEW last, Tree(b, t, mem, top, rt, srt, first, last),
         NEW a \in 2 .. n + 1, NEW lo, NEW hi, NEW ids, NEW m
  PROVE  At(srt, first, last, n, rt, a, lo, hi, ids, m) <=> AtData(srt, n, n + 2 - a, lo, hi, ids, m)
<1>1. first[a] = n + 2 - a
  <2>1. DataBlocks(mem, srt, n, first, last)
    BY DEF Tree, Shape
  <2> QED
    BY <2>1 DEF DataBlocks
<1>2. a <= n + 1 /\ ~ (a > n + 1)
  BY PlaceOf
<1> QED
  BY <1>1, <1>2 DEF At, AtData

(* It is in the range: its bin is one more that is found.                  *)
Collected(srt, n, place, lo, hi, ids, m, x) ==
  /\ x \in 1 .. n /\ x \notin ids /\ x \in Within(srt, n, lo, hi) /\ m \in 0 .. n - 1
  /\ place < n => AtData(srt, n, place + 1, lo, hi, ids \cup {x}, m + 1)
  /\ place = n => ids \cup {x} = Within(srt, n, lo, hi)

(* The bin of a data block in the range is found.                          *)
LEMMA CollectData ==
  ASSUME NEW n \in Nat \ {0}, NEW srt, Ordered(srt, n), Complete(srt, n),
         NEW place \in 1 .. n, NEW x, x = srt[place].data, NEW lo \in Int, NEW hi \in Int, NEW ids, NEW m,
         AtData(srt, n, place, lo, hi, ids, m), srt[place].key <= hi
  PROVE  Collected(srt, n, place, lo, hi, ids, m, x)
<1>1. lo <= srt[place].key /\ Fit(srt, place - 1, lo, hi) /\ ids = Below(srt, place - 1, lo) /\ m \in 0 .. place - 1
  BY DEF AtData
<1>2. x \in 1 .. n /\ x \notin ids
  BY <1>1, BelowNew DEF Complete
<1>3. x \in Within(srt, n, lo, hi)
  BY <1>1, WithinOne
<1>4. ids \cup {x} = Below(srt, place, lo) /\ Fit(srt, place, lo, hi)
  BY <1>1, BelowNext, FitNext
<1>5. ASSUME place < n PROVE AtData(srt, n, place + 1, lo, hi, ids \cup {x}, m + 1)
  <2>1. place + 1 \in 1 .. n /\ place <= place + 1 /\ (place + 1) - 1 = place
    BY <1>5
  <2>2. m + 1 \in 0 .. place
    BY <1>1
  <2>3. lo <= srt[place + 1].key
    BY <1>1, <2>1, StartNext
  <2> QED
    BY <1>4, <2>1, <2>2, <2>3 DEF AtData
<1>6. ASSUME place = n PROVE ids \cup {x} = Within(srt, n, lo, hi)
  BY <1>4, <1>6, WithinAll
<1>7. m \in 0 .. n - 1
  BY <1>1
<1> QED
  BY <1>2, <1>3, <1>5, <1>6, <1>7 DEF Collected

-----------------------------------------------------------------------------
(* What is found: one more, and no more than there are bins.               *)
LEMMA GatherOne ==
  ASSUME NEW b, NEW n \in Nat \ {0}, n = Len(b), NEW q, NEW t \in Trees, NEW ids, NEW m \in Nat, NEW found,
         Gathered(found, b, q, t, ids, m), NEW x \in 1 .. n, x \notin ids, x \in Hits(b, q, t)
  PROVE  Gathered(Append(found, x), b, q, t, ids \cup {x}, m + 1)
<1> DEFINE before == IF t = 2 THEN Hits(b, q, 1) ELSE {}
           most == IF t = 2 THEN n ELSE 0
           new == Append(found, x)
<1>1. /\ found \in Seq(1 .. n) /\ Range(found) = before \cup ids /\ Len(found) <= most + m
      /\ Apart(b, q) => Distinct(found)
  BY DEF Gathered
<1>2. PICK len \in Nat : len = Len(found)
  BY <1>1, LenProperties
<1>3. /\ new \in Seq(1 .. n) /\ Len(new) = len + 1 /\ new[len + 1] = x
      /\ \A i \in 1 .. len : new[i] = found[i]
  BY <1>1, <1>2, AppendProperties
<1> HIDE DEF new
<1>4. Range(found) = {found[i] : i \in 1 .. len} /\ Range(new) = {new[i] : i \in 1 .. len + 1}
  <2>1. DOMAIN found = 1 .. len /\ DOMAIN new = 1 .. len + 1
    BY <1>1, <1>2, <1>3, LenProperties
  <2> QED
    BY <2>1 DEF Range
<1>5. Range(new) = before \cup (ids \cup {x})
  <2>1. Range(new) = Range(found) \cup {x}
    <3>1. 1 .. len + 1 = (1 .. len) \cup {len + 1}
      OBVIOUS
    <3> QED
      BY <1>3, <1>4, <3>1
  <2> QED
    BY <1>1, <2>1
<1>6. ASSUME Apart(b, q) PROVE Distinct(new)
  <2>1. x \notin Range(found)
    <3>1. t = 2 => x \notin Hits(b, q, 1)
      BY <1>6 DEF Apart
    <3> QED
      BY <1>1, <3>1
  <2>2. Distinct(found)
    BY <1>1, <1>6
  <2>3. ASSUME NEW i \in 1 .. len + 1, NEW j \in 1 .. len + 1, new[i] = new[j] PROVE i = j
    <3>1. CASE i \in 1 .. len /\ j \in 1 .. len
      BY <1>2, <1>3, <2>2, <2>3, <3>1 DEF Distinct
    <3>2. CASE i \in 1 .. len /\ j = len + 1
      BY <1>3, <1>4, <2>1, <2>3, <3>2
    <3>3. CASE j \in 1 .. len /\ i = len + 1
      BY <1>3, <1>4, <2>1, <2>3, <3>3
    <3> QED
      BY <3>1, <3>2, <3>3
  <2> QED
    BY <1>3, <2>3 DEF Distinct
<1>7. Len(new) <= most + (m + 1)
  <2>1. most \in Nat /\ len <= most + m
    BY <1>1, <1>2
  <2> HIDE DEF most
  <2> QED
    BY <1>3, <2>1
<1> QED
  BY <1>3, <1>5, <1>6, <1>7 DEF Gathered, new

(* A search reads no more blocks than there are bins.                      *)
LEMMA GatherBound ==
  ASSUME NEW b, NEW n \in Nat \ {0}, n = Len(b), NEW q, NEW t \in Trees, NEW ids, NEW m \in 0 .. n, NEW found,
         Gathered(found, b, q, t, ids, m)
  PROVE  Gathered(found, b, q, t, ids, n)
<1> DEFINE most == IF t = 2 THEN n ELSE 0
<1>1. /\ found \in Seq(1 .. n) /\ Len(found) <= most + m
  BY DEF Gathered
<1>2. most \in Nat /\ Len(found) \in Nat
  BY <1>1, LenProperties
<1>3. Len(found) <= most + n
  <2> HIDE DEF most
  <2> QED
    BY <1>1, <1>2
<1> QED
  BY <1>3 DEF Gathered

(* The search of the first tree is over: that of the second one begins.    *)
LEMMA GatherNext ==
  ASSUME NEW b, NEW n \in Nat \ {0}, n = Len(b), NEW q, NEW found,
         Gathered(found, b, q, 1, Hits(b, q, 1), n)
  PROVE  Gathered(found, b, q, 2, {}, 0)
BY DEF Gathered

(* A search begins at the root.                                            *)
LEMMA SearchBegins ==
  ASSUME InputAssumption, NEW b, NEW n \in Nat \ {0}, n = Len(b), NEW q, NEW t \in Trees, NEW mem, NEW top,
         NEW rt, IsTree(b, t, mem, top, rt), NEW found, Gathered(found, b, q, t, {}, 0)
  PROVE  SearchAt(b, t, mem, top, rt, q, rt, found)
<1>1. PICK srt, first, last : Tree(b, t, mem, top, rt, srt, first, last)
  BY DEF IsTree
<1>2. Spans(n, top, rt, first, last)
  BY <1>1, TreeFacts
<1>3. rt \in 2 .. top - 1 /\ rt > n + 1 /\ ~ (rt <= n + 1) /\ first[rt] = 1
  <2>1. top \in Nat /\ rt \in n + 2 .. top - 1 /\ first[rt] = 1
    BY <1>2 DEF Spans
  <2> QED
    BY <2>1
<1>4. At(srt, first, last, n, rt, rt, SearchStart(q, t), SearchEnd(q, t), {}, 0)
  BY <1>3 DEF At
<1> QED
  BY <1>1, <1>3, <1>4 DEF SearchAt

-----------------------------------------------------------------------------
(* The steps of a search.  To a child.                                     *)
LEMMA SearchDescends ==
  ASSUME InputAssumption, NEW b \in Inputs, NEW q \in Queries, NEW t \in Trees, NEW mem, NEW top,
         NEW rt, NEW a, NEW found, SearchAt(b, t, mem, top, rt, q, a, found),
         mem[a].type = "node", NEW i \in DOMAIN mem[a].pairs,
         SearchStart(q, t) <= mem[a].pairs[i].key,
         \A j \in 1 .. i - 1 : mem[a].pairs[j].key < SearchStart(q, t)
  PROVE  SearchAt(b, t, mem, top, rt, q, mem[a].pairs[i].address, found)
<1>1. PICK n \in Nat \ {0} : n = Len(b)
  BY InputFacts
<1>2. PICK srt, first, last, ids, m :
        /\ Tree(b, t, mem, top, rt, srt, first, last)
        /\ a \in 2 .. top - 1
        /\ At(srt, first, last, Len(b), rt, a, SearchStart(q, t), SearchEnd(q, t), ids, m)
        /\ Gathered(found, b, q, t, ids, m)
  BY DEF SearchAt
<1>3. a \in n + 2 .. top - 1
  BY <1>1, <1>2, BlockType
<1>4. PICK lo \in Nat : lo = SearchStart(q, t)
  BY SearchBounds
<1> DEFINE hi == SearchEnd(q, t)
<1>5. /\ mem[a].pairs[i].address \in 2 .. top - 1
      /\ At(srt, first, last, n, rt, mem[a].pairs[i].address, lo, hi, ids, m)
  <2>1. /\ lo <= mem[a].pairs[i].key
        /\ Smaller(mem[a].pairs, i, lo)
        /\ At(srt, first, last, n, rt, a, lo, hi, ids, m)
    BY <1>1, <1>2, <1>4 DEF Smaller
  <2>2. Tree(b, t, mem, top, rt, srt, first, last)
    BY <1>2
  <2> HIDE DEF hi
  <2>3. Child(srt, first, last, n, top, rt, mem[a].pairs[i].address, lo, hi, ids, m)
    BY <1>1, <1>3, <1>4, <2>1, <2>2, DescendAt
  <2> QED
    BY <2>3 DEF Child
<1> QED
  BY <1>1, <1>2, <1>4, <1>5 DEF SearchAt

(* There is no child to go to.                                             *)
LEMMA SearchFails ==
  ASSUME FanoutAssumption, InputAssumption, NEW b \in Inputs, NEW q \in Queries, NEW t \in Trees,
         NEW mem, NEW top, NEW rt, NEW a, NEW found, SearchAt(b, t, mem, top, rt, q, a, found),
         mem[a].type = "node",
         \A i \in DOMAIN mem[a].pairs : mem[a].pairs[i].key < SearchStart(q, t)
  PROVE  Gathered(found, b, q, t, Hits(b, q, t), Len(b))
<1>1. PICK n \in Nat \ {0} : n = Len(b)
  BY InputFacts
<1>2. PICK srt, first, last, ids, m :
        /\ Tree(b, t, mem, top, rt, srt, first, last)
        /\ a \in 2 .. top - 1
        /\ At(srt, first, last, Len(b), rt, a, SearchStart(q, t), SearchEnd(q, t), ids, m)
        /\ Gathered(found, b, q, t, ids, m)
  BY DEF SearchAt
<1>3. a \in n + 2 .. top - 1
  BY <1>1, <1>2, BlockType
<1>4. ids = {} /\ m = 0 /\ Hits(b, q, t) = {}
  BY <1>1, <1>2, <1>3, NothingFound
<1>5. Gathered(found, b, q, t, Hits(b, q, t), 0) /\ 0 \in 0 .. n
  BY <1>2, <1>4
<1> QED
  BY <1>1, <1>5, GatherBound

(* A data block by its place.                                              *)
LEMMA SearchData ==
  ASSUME InputAssumption, NEW b \in Inputs, NEW q \in Queries, NEW t \in Trees, NEW mem, NEW top,
         NEW rt, NEW a, NEW found, SearchAt(b, t, mem, top, rt, q, a, found),
         mem[a].type = "data", NEW n, n = Len(b)
  PROVE  \E srt, first, last, ids, m :
           /\ Tree(b, t, mem, top, rt, srt, first, last)
           /\ a \in 2 .. n + 1 /\ mem[a] = DataBlock(srt, n, a)
           /\ SortedData(b, t, srt) /\ Ordered(srt, n) /\ n + 1 < top /\ top \in Nat
           /\ AtData(srt, n, n + 2 - a, SearchStart(q, t), SearchEnd(q, t), ids, m)
           /\ Gathered(found, b, q, t, ids, m)
<1>1. n \in Nat \ {0}
  BY InputFacts
<1>2. PICK srt, first, last, ids, m :
        /\ Tree(b, t, mem, top, rt, srt, first, last)
        /\ a \in 2 .. top - 1
        /\ At(srt, first, last, n, rt, a, SearchStart(q, t), SearchEnd(q, t), ids, m)
        /\ Gathered(found, b, q, t, ids, m)
  BY DEF SearchAt
<1>3. a \in 2 .. n + 1
  BY <1>1, <1>2, BlockType
<1>4. mem[a] = DataBlock(srt, n, a)
  <2>1. DataBlocks(mem, srt, n, first, last)
    BY <1>2 DEF Tree, Shape
  <2> QED
    BY <1>3, <2>1 DEF DataBlocks
<1>5. SortedData(b, t, srt) /\ Ordered(srt, n) /\ Spans(n, top, rt, first, last)
  BY <1>1, <1>2, TreeFacts
<1>6. n + 1 < top /\ top \in Nat
  BY <1>1, <1>5 DEF Spans
<1>7. AtData(srt, n, n + 2 - a, SearchStart(q, t), SearchEnd(q, t), ids, m)
  BY <1>1, <1>2, <1>3, AtDataBlock
<1> QED
  BY <1>2, <1>3, <1>4, <1>5, <1>6, <1>7

(* A data block in the range: on to the next one, if there is one.         *)
LEMMA SearchCollects ==
  ASSUME InputAssumption, NEW b \in Inputs, NEW q \in Queries, NEW t \in Trees, NEW mem, NEW top,
         NEW rt, NEW a, NEW found, SearchAt(b, t, mem, top, rt, q, a, found),
         mem[a].type = "data", mem[a].key <= SearchEnd(q, t)
  PROVE  /\ mem[a].next # EMPTY =>
              SearchAt(b, t, mem, top, rt, q, mem[a].next, Append(found, mem[a].data))
         /\ mem[a].next = EMPTY =>
              Gathered(Append(found, mem[a].data), b, q, t, Hits(b, q, t), Len(b))
<1>1. PICK n \in Nat \ {0} : n = Len(b)
  BY InputFacts
<1>2. PICK srt, first, last, ids, m :
           /\ Tree(b, t, mem, top, rt, srt, first, last)
           /\ a \in 2 .. n + 1 /\ mem[a] = DataBlock(srt, n, a)
           /\ SortedData(b, t, srt) /\ Ordered(srt, n) /\ n + 1 < top /\ top \in Nat
           /\ AtData(srt, n, n + 2 - a, SearchStart(q, t), SearchEnd(q, t), ids, m)
           /\ Gathered(found, b, q, t, ids, m)
  BY <1>1, SearchData, ZenonT(30)
<1>3. PICK place \in 1 .. n : place = n + 2 - a
  BY <1>2, PlaceOf
<1>4. PICK lo \in Nat : lo = SearchStart(q, t)
  BY SearchBounds
<1>5. PICK hi \in Int : hi = SearchEnd(q, t)
  BY SearchBounds
<1>6. /\ mem[a].key = srt[place].key /\ mem[a].data = srt[place].data
      /\ mem[a].next = IF a = 2 THEN EMPTY ELSE a - 1
  BY <1>2, <1>3 DEF DataBlock
<1> DEFINE x == srt[place].data
<1>7. /\ x \in 1 .. n /\ x \notin ids /\ x \in Within(srt, n, lo, hi) /\ m \in 0 .. n - 1
      /\ place < n => AtData(srt, n, place + 1, lo, hi, ids \cup {x}, m + 1)
      /\ place = n => ids \cup {x} = Within(srt, n, lo, hi)
  <2>1. Complete(srt, n)
    BY <1>1, <1>2 DEF SortedData, Complete
  <2>2. AtData(srt, n, place, lo, hi, ids, m) /\ srt[place].key <= hi
    BY <1>2, <1>3, <1>4, <1>5, <1>6
  <2>3. Ordered(srt, n)
    BY <1>2
  <2>4. x = srt[place].data
    OBVIOUS
  <2>5. lo \in Int /\ hi \in Int /\ place \in 1 .. n
    BY <1>3, <1>4, <1>5
  <2> HIDE DEF x
  <2>6. Collected(srt, n, place, lo, hi, ids, m, x)
    BY <1>1, <2>1, <2>2, <2>3, <2>4, <2>5, CollectData
  <2> QED
    BY <2>6 DEF Collected
<1>8. Hits(b, q, t) = Within(srt, n, lo, hi)
  BY <1>1, <1>2, <1>4, <1>5, HitsByPlace
<1>9. Gathered(Append(found, x), b, q, t, ids \cup {x}, m + 1) /\ m + 1 \in 0 .. n
  <2>0. m \in 0 .. n - 1
    BY <1>7
  <2>1. m \in Nat /\ m + 1 \in 0 .. n
    BY <2>0
  <2> HIDE DEF x
  <2> QED
    BY <1>1, <1>2, <1>7, <1>8, <2>1, GatherOne
<1> HIDE DEF x
<1>10. CASE a = 2
  <2>1. place = n /\ mem[a].next = EMPTY
    BY <1>2, <1>3, <1>6, <1>10, PlaceOf
  <2>2. ids \cup {x} = Hits(b, q, t)
    BY <1>7, <1>8, <2>1
  <2>3. Gathered(Append(found, x), b, q, t, Hits(b, q, t), n)
    BY <1>1, <1>9, <2>2, GatherBound
  <2> QED
    BY <1>1, <1>6, <2>1, <2>3 DEF x
<1>11. CASE a # 2
  <2>1. /\ a - 1 \in 2 .. n + 1 /\ place + 1 \in 1 .. n /\ n + 2 - (a - 1) = place + 1
    BY <1>2, <1>3, <1>11, PlaceOf
  <2>2. place < n /\ a - 1 \in 2 .. top - 1
    BY <1>2, <2>1
  <2>3. AtData(srt, n, n + 2 - (a - 1), lo, hi, ids \cup {x}, m + 1)
    BY <1>7, <2>1, <2>2
  <2>4. At(srt, first, last, n, rt, a - 1, lo, hi, ids \cup {x}, m + 1)
    BY <1>1, <1>2, <2>1, <2>3, AtDataBlock
  <2>5. SearchAt(b, t, mem, top, rt, q, a - 1, Append(found, x))
    BY <1>1, <1>2, <1>4, <1>5, <1>9, <2>2, <2>4 DEF SearchAt
  <2>6. mem[a].next = a - 1 /\ a - 1 # EMPTY
    BY <1>6, <1>11, <2>1 DEF EMPTY
  <2> QED
    BY <1>6, <2>5, <2>6 DEF x
<1> QED
  BY <1>10, <1>11

(* A data block out of the range: there is no more to find.                *)
LEMMA SearchLeaves ==
  ASSUME InputAssumption, NEW b \in Inputs, NEW q \in Queries, NEW t \in Trees, NEW mem, NEW top,
         NEW rt, NEW a, NEW found, SearchAt(b, t, mem, top, rt, q, a, found),
         mem[a].type = "data", ~ (SearchStart(q, t) <= mem[a].key /\ mem[a].key <= SearchEnd(q, t))
  PROVE  Gathered(found, b, q, t, Hits(b, q, t), Len(b))
<1>1. PICK n \in Nat \ {0} : n = Len(b)
  BY InputFacts
<1>2. PICK srt, first, last, ids, m :
           /\ Tree(b, t, mem, top, rt, srt, first, last)
           /\ a \in 2 .. n + 1 /\ mem[a] = DataBlock(srt, n, a)
           /\ SortedData(b, t, srt) /\ Ordered(srt, n) /\ n + 1 < top /\ top \in Nat
           /\ AtData(srt, n, n + 2 - a, SearchStart(q, t), SearchEnd(q, t), ids, m)
           /\ Gathered(found, b, q, t, ids, m)
  BY <1>1, SearchData, ZenonT(30)
<1>3. PICK place \in 1 .. n : place = n + 2 - a
  BY <1>2, PlaceOf
<1>4. PICK lo \in Nat : lo = SearchStart(q, t)
  BY SearchBounds
<1>5. PICK hi \in Int : hi = SearchEnd(q, t)
  BY SearchBounds
<1>6. mem[a].key = srt[place].key
  BY <1>2, <1>3 DEF DataBlock
<1>7. /\ lo <= srt[place].key /\ Fit(srt, place - 1, lo, hi)
      /\ ids = Below(srt, place - 1, lo) /\ m \in 0 .. place - 1
  BY <1>2, <1>3, <1>4, <1>5 DEF AtData
<1>8. ~ (srt[place].key <= hi)
  BY <1>4, <1>5, <1>6, <1>7
<1>9. ids = Hits(b, q, t)
  <2>1. Below(srt, place - 1, lo) = Within(srt, n, lo, hi)
    BY <1>2, <1>7, <1>8, WithinNoMore
  <2>2. Hits(b, q, t) = Within(srt, n, lo, hi)
    BY <1>1, <1>2, <1>4, <1>5, HitsByPlace
  <2> QED
    BY <1>7, <2>1, <2>2
<1>10. m \in 0 .. n
  BY <1>7
<1> QED
  BY <1>1, <1>2, <1>9, <1>10, GatherBound

-----------------------------------------------------------------------------
(* The built trees stay as they are.                                       *)
LEMMA AskingTrees ==
  ASSUME Invariant, pc \in Searching \cup {"idle"}, pc' \in Searching \cup {"idle"}, built' = built
  PROVE  /\ bins' = bins /\ bins \in Inputs /\ storage' = storage /\ root' = root
         /\ TreeOf(1) /\ TreeOf(2) /\ StoresOK' /\ TreesOK' /\ BuildOK'
<1>1. bins' = bins /\ storage' = storage /\ root' = root
  BY DEF built
<1>2. pc \notin Building /\ pc' \notin Building
  BY DEF Building, Searching
<1>3. TreeOf(1) /\ TreeOf(2) /\ bins \in Inputs
  BY <1>2 DEF Invariant, TreesOK
<1>4. StoresOK'
  BY <1>1 DEF Invariant, StoresOK
<1>5. TreesOK'
  BY <1>1, <1>2, <1>3 DEF TreesOK, TreeOf
<1>6. BuildOK'
  BY <1>2 DEF BuildOK, Building
<1> QED
  BY <1>1, <1>3, <1>4, <1>5, <1>6

(* Ask begins the first search.                                            *)
LEMMA AskStep ==
  ASSUME InputAssumption, Invariant, Ask
  PROVE  Invariant'
<1>1. /\ pc = "idle" /\ query' \in Queries /\ filterBins' = <<>> /\ tree' = 1
      /\ address' = root[1] /\ pc' = "search" /\ built' = built /\ allBins' = allBins
      /\ comparing' = comparing
  BY DEF Ask
<1>2. /\ bins' = bins /\ bins \in Inputs /\ storage' = storage /\ root' = root
      /\ TreeOf(1) /\ StoresOK' /\ TreesOK' /\ BuildOK'
  BY <1>1, AskingTrees DEF Searching
<1>3. QueryOK'
  BY <1>1, <1>2 DEF Invariant, QueryOK, Building, Searching, comparing
<1>4. Len(bins) \in Nat \ {0}
  BY <1>2, InputFacts
<1>5. Gathered(<<>>, bins, query', 1, {}, 0)
  BY <1>4 DEF Gathered, Distinct, Range
<1>6. SearchAt(bins, 1, storage[1].memory, storage[1].locationCounter, root[1], query', root[1], <<>>)
  BY <1>2, <1>4, <1>5, SearchBegins DEF TreeOf, Trees
<1>7. SearchOK' /\ DifferenceOK'
  BY <1>1, <1>2, <1>6 DEF SearchOK, DifferenceOK
<1> QED
  BY <1>1, <1>2, <1>3, <1>7 DEF Invariant, Trees, Searching

(* search returns.                                                         *)
LEMMA ReturnStep ==
  ASSUME InputAssumption, Invariant, pc = "search", Return, built' = built, query' = query,
         allBins' = allBins, comparing' = comparing,
         Gathered(filterBins', bins, query, tree, Hits(bins, query, tree), Len(bins))
  PROVE  Invariant'
<1>1. pc' \in {"search", "filter"} /\ tree' \in Trees
  BY DEF Return, Trees
<1>2. /\ bins' = bins /\ bins \in Inputs /\ storage' = storage /\ root' = root
      /\ TreeOf(2) /\ StoresOK' /\ TreesOK' /\ BuildOK'
  BY <1>1, AskingTrees DEF Searching
<1>3. QueryOK'
  BY <1>1, <1>2 DEF Invariant, QueryOK, Building, Searching, comparing
<1>4. Len(bins) \in Nat \ {0}
  BY <1>2, InputFacts
<1>5. SearchOK'
  <2>1. CASE tree = 1
    <3>1. tree' = 2 /\ address' = root[2] /\ pc' = "search"
      BY <2>1 DEF Return
    <3>2. Gathered(filterBins', bins, query, 2, {}, 0)
      BY <1>4, <2>1, GatherNext
    <3>3. SearchAt(bins, 2, storage[2].memory, storage[2].locationCounter, root[2], query, root[2], filterBins')
      BY <1>2, <1>4, <3>2, SearchBegins DEF TreeOf, Trees
    <3> QED
      BY <1>2, <3>1, <3>3 DEF SearchOK
  <2>2. CASE tree = 2
    <3>1. pc' = "filter"
      BY <2>2 DEF Return
    <3> QED
      BY <1>2, <2>2, <3>1 DEF SearchOK
  <2> QED
    BY <2>1, <2>2 DEF Invariant, Trees
<1>6. DifferenceOK'
  BY <1>1 DEF DifferenceOK
<1> QED
  BY <1>1, <1>2, <1>3, <1>5, <1>6 DEF Invariant, Searching

(* search goes on.                                                         *)
LEMMA SearchOnStep ==
  ASSUME InputAssumption, Invariant, pc = "search", pc' = pc, tree' = tree, built' = built, query' = query,
         allBins' = allBins, comparing' = comparing,
         SearchAt(bins, tree, storage[tree].memory, storage[tree].locationCounter, root[tree],
                  query, address', filterBins')
  PROVE  Invariant'
<1>2. /\ bins' = bins /\ bins \in Inputs /\ storage' = storage /\ root' = root
      /\ StoresOK' /\ TreesOK' /\ BuildOK'
  BY AskingTrees DEF Searching
<1>3. QueryOK'
  BY <1>2 DEF Invariant, QueryOK, Building, Searching, comparing
<1>5. SearchOK' /\ DifferenceOK'
  BY <1>2 DEF SearchOK, DifferenceOK
<1> QED
  BY <1>2, <1>3, <1>5 DEF Invariant, Searching

(* What a search knows.                                                    *)
LEMMA SearchState ==
  ASSUME Invariant, pc = "search"
  PROVE  /\ bins \in Inputs /\ query \in Queries /\ tree \in Trees
         /\ SearchAt(bins, tree, storage[tree].memory, storage[tree].locationCounter, root[tree],
                     query, address, filterBins)
         /\ Start = SearchStart(query, tree) /\ End = SearchEnd(query, tree)
<1>1. query \in Queries
  BY DEF Invariant, QueryOK, Searching
<1>2. SearchAt(bins, tree, storage[tree].memory, storage[tree].locationCounter, root[tree],
               query, address, filterBins)
  BY DEF Invariant, SearchOK
<1> QED
  BY <1>1, <1>2 DEF Invariant, Start, End, SearchStart, SearchEnd

(* Descend keeps the invariant.                                            *)
LEMMA DescendStep ==
  ASSUME FanoutAssumption, InputAssumption, Invariant, Descend
  PROVE  Invariant'
<1> DEFINE mem == storage[tree].memory
<1>1. /\ pc = "search" /\ mem[address].type = "node" /\ built' = built /\ query' = query
      /\ filterBins' = filterBins /\ allBins' = allBins /\ comparing' = comparing
  BY DEF Descend, Block
<1>2. /\ bins \in Inputs /\ query \in Queries /\ tree \in Trees
      /\ SearchAt(bins, tree, mem, storage[tree].locationCounter, root[tree], query, address, filterBins)
      /\ Start = SearchStart(query, tree)
  BY <1>1, SearchState
<1>3. CASE \E i \in DOMAIN mem[address].pairs :
             /\ Start <= mem[address].pairs[i].key
             /\ \A j \in 1 .. i - 1 : mem[address].pairs[j].key < Start
             /\ address' = mem[address].pairs[i].address
             /\ UNCHANGED <<pc, tree>>
  <2>1. PICK i \in DOMAIN mem[address].pairs :
          /\ Start <= mem[address].pairs[i].key
          /\ \A j \in 1 .. i - 1 : mem[address].pairs[j].key < Start
          /\ address' = mem[address].pairs[i].address
          /\ pc' = pc /\ tree' = tree
    BY <1>3
  <2> HIDE DEF mem
  <2>2. SearchAt(bins, tree, mem, storage[tree].locationCounter, root[tree], query, address', filterBins)
    BY <1>1, <1>2, <2>1, SearchDescends
  <2> QED
    BY <1>1, <2>1, <2>2, SearchOnStep DEF mem
<1>4. CASE (\A i \in DOMAIN mem[address].pairs : mem[address].pairs[i].key < Start) /\ Return
  <2> HIDE DEF mem
  <2>1. Gathered(filterBins, bins, query, tree, Hits(bins, query, tree), Len(bins))
    BY <1>1, <1>2, <1>4, SearchFails
  <2> QED
    BY <1>1, <1>4, <2>1, ReturnStep
<1> QED
  BY <1>3, <1>4 DEF Descend, Block

(* Collect keeps the invariant.                                            *)
LEMMA CollectStep ==
  ASSUME InputAssumption, Invariant, Collect
  PROVE  Invariant'
<1> DEFINE mem == storage[tree].memory
           block == mem[address]
<1>1. /\ pc = "search" /\ block.type = "data" /\ Start <= block.key /\ block.key <= End
      /\ filterBins' = Append(filterBins, block.data)
      /\ IF block.next = EMPTY THEN Return ELSE address' = block.next /\ pc' = pc /\ tree' = tree
      /\ built' = built /\ query' = query /\ allBins' = allBins /\ comparing' = comparing
  BY DEF Collect, Block, InRange
<1>2. /\ bins \in Inputs /\ query \in Queries /\ tree \in Trees
      /\ SearchAt(bins, tree, mem, storage[tree].locationCounter, root[tree], query, address, filterBins)
      /\ End = SearchEnd(query, tree)
  BY <1>1, SearchState
<1>3. /\ block.next # EMPTY =>
           SearchAt(bins, tree, mem, storage[tree].locationCounter, root[tree], query, block.next, filterBins')
      /\ block.next = EMPTY =>
           Gathered(filterBins', bins, query, tree, Hits(bins, query, tree), Len(bins))
  <2> HIDE DEF mem
  <2> QED
    BY <1>1, <1>2, SearchCollects
<1>4. CASE block.next # EMPTY
  BY <1>1, <1>3, <1>4, SearchOnStep
<1>5. CASE block.next = EMPTY
  BY <1>1, <1>3, <1>5, ReturnStep
<1> QED
  BY <1>4, <1>5

(* LeaveRange keeps the invariant.                                         *)
LEMMA LeaveRangeStep ==
  ASSUME InputAssumption, Invariant, LeaveRange
  PROVE  Invariant'
<1> DEFINE mem == storage[tree].memory
           block == mem[address]
<1>1. /\ pc = "search" /\ block.type = "data" /\ ~ (Start <= block.key /\ block.key <= End)
      /\ filterBins' = filterBins /\ Return
      /\ built' = built /\ query' = query /\ allBins' = allBins /\ comparing' = comparing
  BY DEF LeaveRange, Block, InRange
<1>2. /\ bins \in Inputs /\ query \in Queries /\ tree \in Trees
      /\ SearchAt(bins, tree, mem, storage[tree].locationCounter, root[tree], query, address, filterBins)
      /\ Start = SearchStart(query, tree) /\ End = SearchEnd(query, tree)
  BY <1>1, SearchState
<1>3. Gathered(filterBins, bins, query, tree, Hits(bins, query, tree), Len(bins))
  <2> HIDE DEF mem
  <2> QED
    BY <1>1, <1>2, SearchLeaves
<1> QED
  BY <1>1, <1>3, ReturnStep

-----------------------------------------------------------------------------
(* std::sort by rank.  How many of ids are smaller than x, or not larger.  *)
Lesser(ids, x) == {i \in DOMAIN ids : ids[i] < x}
NotLarger(ids, x) == {i \in DOMAIN ids : ids[i] <= x}

HasRank(ids, k, x) ==
  /\ x \in Range(ids) /\ Cardinality(Lesser(ids, x)) < k /\ Cardinality(NotLarger(ids, x)) >= k

(* A set of numbers that is not empty has a least one.                     *)
LEMMA LeastNumber ==
  ASSUME NEW T \in SUBSET Nat, T # {}
  PROVE  \E n \in T : \A m \in 0 .. n - 1 : m \notin T
<1>1. PICK n \in T : \A m \in T : ~ (<<m, n>> \in OpToRel(<, Nat))
  BY NatLessThanWellFounded, WFMin
<1>2. \A m \in T : ~ (m < n)
  BY <1>1 DEF OpToRel
<1> QED
  BY <1>2

(* Both are finite, with no more elements than ids has places.             *)
LEMMA RankSets ==
  ASSUME NEW n \in Nat, NEW ids \in Seq(1 .. n), NEW x \in Int
  PROVE  /\ IsFiniteSet(Lesser(ids, x)) /\ IsFiniteSet(NotLarger(ids, x))
         /\ Cardinality(Lesser(ids, x)) \in 0 .. Len(ids)
         /\ Cardinality(NotLarger(ids, x)) \in 0 .. Len(ids)
<1>1. Len(ids) \in Nat /\ DOMAIN ids = 1 .. Len(ids)
  BY LenProperties
<1>2. IsFiniteSet(1 .. Len(ids)) /\ Cardinality(1 .. Len(ids)) = Len(ids)
  <2>1. PICK L \in Nat : L = Len(ids)
    BY <1>1
  <2>2. IsFiniteSet(1 .. L) /\ Cardinality(1 .. L) = IF 1 > L THEN 0 ELSE L - 1 + 1
    BY FS_Interval
  <2>3. Cardinality(1 .. L) = L
    BY <2>2
  <2> QED
    BY <2>1, <2>2, <2>3
<1>3. Lesser(ids, x) \in SUBSET (1 .. Len(ids)) /\ NotLarger(ids, x) \in SUBSET (1 .. Len(ids))
  BY <1>1 DEF Lesser, NotLarger
<1>4. /\ IsFiniteSet(Lesser(ids, x)) /\ IsFiniteSet(NotLarger(ids, x))
      /\ Cardinality(Lesser(ids, x)) <= Len(ids) /\ Cardinality(NotLarger(ids, x)) <= Len(ids)
  BY <1>2, <1>3, FS_Subset
<1>5. Cardinality(Lesser(ids, x)) \in Nat /\ Cardinality(NotLarger(ids, x)) \in Nat
  BY <1>4, FS_CardinalityType
<1> QED
  BY <1>1, <1>4, <1>5

(* Every place has an element of its rank.                                 *)
LEMMA RankExists ==
  ASSUME NEW n \in Nat, NEW ids \in Seq(1 .. n), NEW k \in 1 .. Len(ids)
  PROVE  \E x : HasRank(ids, k, x)
<1>1. Len(ids) \in Nat /\ DOMAIN ids = 1 .. Len(ids) /\ \A i \in DOMAIN ids : ids[i] \in 1 .. n
  BY LenProperties
<1> DEFINE T == {x \in Nat : Cardinality(NotLarger(ids, x)) >= k}
<1>2. n \in T
  <2>1. NotLarger(ids, n) = 1 .. Len(ids)
    BY <1>1 DEF NotLarger
  <2>2. Cardinality(1 .. Len(ids)) = Len(ids)
    <3>1. PICK L \in Nat : L = Len(ids)
      BY <1>1
    <3>2. Cardinality(1 .. L) = IF 1 > L THEN 0 ELSE L - 1 + 1
      BY FS_Interval
    <3>3. Cardinality(1 .. L) = L
      BY <3>2
    <3> QED
      BY <3>1, <3>3
  <2> QED
    BY <1>1, <2>1, <2>2
<1>3. T \in SUBSET Nat /\ T # {}
  BY <1>2
<1>4. PICK x \in T : \A y \in 0 .. x - 1 : y \notin T
  <2> HIDE DEF T
  <2> QED
    BY <1>3, LeastNumber
<1>5. x \in Nat /\ Cardinality(NotLarger(ids, x)) >= k
  BY <1>4
<1>6. x # 0
  <2>1. NotLarger(ids, 0) = {}
    BY <1>1 DEF NotLarger
  <2>2. Cardinality(NotLarger(ids, 0)) = 0
    BY <2>1, FS_EmptySet
  <2> QED
    BY <1>1, <1>5, <2>2
<1>7. x - 1 \in Nat /\ Cardinality(NotLarger(ids, x - 1)) \in Int /\ ~ (Cardinality(NotLarger(ids, x - 1)) >= k)
  <2>1. x - 1 \in Nat /\ x - 1 \in 0 .. x - 1
    BY <1>5, <1>6
  <2>2. x - 1 \notin T
    BY <1>4, <2>1
  <2>3. Cardinality(NotLarger(ids, x - 1)) \in 0 .. Len(ids)
    <3>1. ASSUME NEW y \in Int PROVE Cardinality(NotLarger(ids, y)) \in 0 .. Len(ids)
      BY RankSets
    <3>2. x - 1 \in Int
      BY <2>1
    <3> QED
      BY <3>1, <3>2, Zenon
  <2> QED
    BY <1>1, <2>1, <2>2, <2>3
<1>8. NotLarger(ids, x - 1) = Lesser(ids, x)
  <2>1. ASSUME NEW i \in DOMAIN ids PROVE ids[i] <= x - 1 <=> ids[i] < x
    <3>1. ids[i] \in Int /\ x \in Int
      BY <1>1, <1>5
    <3> QED
      BY <3>1
  <2> QED
    BY <2>1 DEF NotLarger, Lesser
<1>9. Cardinality(Lesser(ids, x)) < k
  <2>1. Cardinality(NotLarger(ids, x - 1)) < k
    BY <1>1, <1>7
  <2> QED
    BY <1>8, <2>1
<1>10. x \in Range(ids)
  <2>1. SUFFICES ASSUME x \notin Range(ids) PROVE FALSE
    OBVIOUS
  <2>2. ASSUME NEW i \in DOMAIN ids PROVE ids[i] <= x <=> ids[i] < x
    <3>1. ids[i] # x /\ ids[i] \in Int /\ x \in Int
      BY <1>1, <1>5, <2>1 DEF Range
    <3> QED
      BY <3>1
  <2>3. NotLarger(ids, x) = Lesser(ids, x)
    BY <2>2 DEF NotLarger, Lesser
  <2>4. Cardinality(Lesser(ids, x)) \in 0 .. Len(ids)
    BY <1>5, RankSets
  <2> QED
    BY <1>1, <1>5, <1>9, <2>3, <2>4
<1> HIDE DEF T
<1> QED
  BY <1>5, <1>9, <1>10 DEF HasRank

(* Elements of a rank do not fall.                                         *)
LEMMA RankOrder ==
  ASSUME NEW n \in Nat, NEW ids \in Seq(1 .. n), NEW j \in Nat, NEW k \in Nat, j <= k,
         NEW x, NEW y, HasRank(ids, j, x), HasRank(ids, k, y)
  PROVE  x \in 1 .. n /\ y \in 1 .. n /\ x <= y
<1>1. x \in 1 .. n /\ y \in 1 .. n
  BY RangeOfSeq DEF HasRank
<1>2. SUFFICES ASSUME y < x PROVE FALSE
  BY <1>1
<1>3. NotLarger(ids, y) \in SUBSET Lesser(ids, x)
  <2>1. \A i \in DOMAIN ids : ids[i] \in 1 .. n
    BY LenProperties
  <2>2. ASSUME NEW i \in DOMAIN ids, ids[i] <= y PROVE ids[i] < x
    <3>1. ids[i] \in Int /\ x \in Int /\ y \in Int
      BY <1>1, <2>1
    <3> QED
      BY <1>2, <2>2, <3>1
  <2> QED
    BY <2>2 DEF NotLarger, Lesser
<1>4. IsFiniteSet(Lesser(ids, x)) /\ Cardinality(Lesser(ids, x)) \in Int /\ Cardinality(NotLarger(ids, y)) \in Int
  <2>1. Len(ids) \in Nat /\ x \in Int /\ y \in Int
    BY <1>1, LenProperties
  <2>2. /\ IsFiniteSet(Lesser(ids, x)) /\ Cardinality(Lesser(ids, x)) \in 0 .. Len(ids)
        /\ Cardinality(NotLarger(ids, y)) \in 0 .. Len(ids)
    BY <2>1, RankSets
  <2> QED
    BY <2>1, <2>2
<1>5. Cardinality(NotLarger(ids, y)) <= Cardinality(Lesser(ids, x))
  BY <1>3, <1>4, FS_Subset
<1>6. Cardinality(Lesser(ids, x)) < j /\ Cardinality(NotLarger(ids, y)) >= k
  BY DEF HasRank
<1> QED
  BY <1>4, <1>5, <1>6

(* In a list without repetition an element has one rank.                   *)
LEMMA RankOfElement ==
  ASSUME NEW n \in Nat, NEW ids \in Seq(1 .. n), Distinct(ids), NEW e \in 1 .. Len(ids)
  PROVE  /\ IsFiniteSet(Lesser(ids, ids[e]))
         /\ Cardinality(NotLarger(ids, ids[e])) = Cardinality(Lesser(ids, ids[e])) + 1
         /\ Cardinality(NotLarger(ids, ids[e])) \in 1 .. Len(ids)
         /\ HasRank(ids, Cardinality(NotLarger(ids, ids[e])), ids[e])
<1>1. Len(ids) \in Nat /\ DOMAIN ids = 1 .. Len(ids) /\ \A i \in DOMAIN ids : ids[i] \in 1 .. n
  BY LenProperties
<1> DEFINE x == ids[e]
<1>2. x \in Int /\ x \in Range(ids)
  BY <1>1 DEF Range
<1>3. /\ IsFiniteSet(Lesser(ids, x)) /\ Cardinality(Lesser(ids, x)) \in 0 .. Len(ids)
      /\ Cardinality(NotLarger(ids, x)) \in 0 .. Len(ids)
  <2> HIDE DEF x
  <2> QED
    BY <1>2, RankSets
<1>4. NotLarger(ids, x) = Lesser(ids, x) \cup {e} /\ e \notin Lesser(ids, x)
  <2>1. ASSUME NEW i \in DOMAIN ids PROVE (ids[i] <= x <=> ids[i] < x \/ i = e) /\ ~ (x < x)
    <3>1. ids[i] = x => i = e
      BY <1>1 DEF Distinct
    <3>2. ids[i] \in Int
      BY <1>1
    <3>3. i = e => ids[i] = x
      OBVIOUS
    <3> HIDE DEF x
    <3> QED
      BY <1>2, <3>1, <3>2, <3>3
  <2>2. e \in DOMAIN ids
    BY <1>1
  <2> QED
    BY <2>1, <2>2 DEF NotLarger, Lesser
<1>5. Cardinality(NotLarger(ids, x)) = Cardinality(Lesser(ids, x)) + 1
  BY <1>3, <1>4, FS_AddElement
<1> HIDE DEF x
<1>6. Cardinality(NotLarger(ids, x)) \in 1 .. Len(ids)
  BY <1>1, <1>3, <1>5
<1>7. HasRank(ids, Cardinality(NotLarger(ids, x)), x)
  BY <1>1, <1>2, <1>3, <1>5 DEF HasRank
<1> QED
  BY <1>3, <1>5, <1>6, <1>7 DEF x

(* A list without repetition becomes a rising list of the same elements.   *)
LEMMA SortedIdsRising ==
  ASSUME NEW n \in Nat, NEW ids \in Seq(1 .. n), Distinct(ids)
  PROVE  /\ Rising(SortedIds(ids)) /\ SortedIds(ids) \in Seq(1 .. n)
         /\ Range(SortedIds(ids)) = Range(ids)
<1> DEFINE s == SortedIds(ids)
<1>1. PICK L \in Nat : L = Len(ids) /\ DOMAIN ids = 1 .. L
  BY LenProperties
<1>2. DOMAIN s = 1 .. L /\ s = [k \in 1 .. L |-> s[k]]
  <2> DEFINE e(k) == CHOOSE x \in Range(ids) : /\ Cardinality({i \in DOMAIN ids : ids[i] < x}) < k
                                               /\ Cardinality({i \in DOMAIN ids : ids[i] <= x}) >= k
  <2>1. s = [k \in 1 .. L |-> e(k)]
    BY <1>1 DEF SortedIds
  <2> HIDE DEF s, e
  <2> QED
    BY <2>1
<1>3. ASSUME NEW k \in 1 .. L PROVE HasRank(ids, k, s[k])
  <2>1. s[k] = CHOOSE x \in Range(ids) : /\ Cardinality({i \in DOMAIN ids : ids[i] < x}) < k
                                         /\ Cardinality({i \in DOMAIN ids : ids[i] <= x}) >= k
    BY <1>1 DEF SortedIds
  <2>2. \E x : HasRank(ids, k, x)
    BY <1>1, RankExists
  <2> HIDE DEF s
  <2> QED
    BY <2>1, <2>2 DEF HasRank, Lesser, NotLarger
<1> HIDE DEF s
<1>4. ASSUME NEW k \in 1 .. L PROVE s[k] \in 1 .. n /\ s[k] \in Range(ids)
  <2>1. s[k] \in Range(ids)
    BY <1>3 DEF HasRank
  <2> QED
    BY <2>1, RangeOfSeq
<1>5. s \in [1 .. L -> 1 .. n]
  BY <1>2, <1>4
<1>6. s \in Seq(1 .. n) /\ Len(s) = L
  BY <1>5
<1>7. Rising(s)
  <2>1. SUFFICES ASSUME NEW j \in 1 .. L, NEW k \in 1 .. L, j < k PROVE s[j] < s[k]
    BY <1>6 DEF Rising
  <2>2. s[j] \in 1 .. n /\ s[k] \in 1 .. n /\ s[j] <= s[k]
    <3>1. HasRank(ids, j, s[j]) /\ HasRank(ids, k, s[k]) /\ j \in Nat /\ k \in Nat /\ j <= k
      BY <1>3, <2>1
    <3> QED
      BY <3>1, RankOrder
  <2>3. s[j] # s[k]
    <3>1. SUFFICES ASSUME s[j] = s[k] PROVE FALSE
      OBVIOUS
    <3>2. PICK e \in 1 .. L : s[j] = ids[e]
      BY <1>1, <1>4 DEF Range
    <3>3. /\ Cardinality(Lesser(ids, ids[e])) < j /\ Cardinality(NotLarger(ids, ids[e])) >= k
      BY <1>3, <3>1, <3>2 DEF HasRank
    <3>4. /\ Cardinality(NotLarger(ids, ids[e])) = Cardinality(Lesser(ids, ids[e])) + 1
          /\ IsFiniteSet(Lesser(ids, ids[e]))
      BY <1>1, RankOfElement
    <3>5. Cardinality(Lesser(ids, ids[e])) \in Nat
      BY <3>4, FS_CardinalityType
    <3> QED
      BY <2>1, <3>3, <3>4, <3>5
  <2> QED
    BY <2>2, <2>3
<1>8. Range(s) = Range(ids)
  <2>1. Range(s) \subseteq Range(ids)
    BY <1>2, <1>4 DEF Range
  <2>2. ASSUME NEW e \in 1 .. L PROVE ids[e] \in Range(s)
    <3>1. PICK k \in 1 .. L : k = Cardinality(NotLarger(ids, ids[e])) /\ HasRank(ids, k, ids[e])
      BY <1>1, RankOfElement
    <3>2. HasRank(ids, k, s[k]) /\ k \in Nat /\ k <= k
      BY <1>3
    <3>3. s[k] <= ids[e] /\ ids[e] <= s[k] /\ s[k] \in 1 .. n /\ ids[e] \in 1 .. n
      BY <3>1, <3>2, RankOrder
    <3>4. s[k] = ids[e]
      BY <3>3
    <3> QED
      BY <1>2, <3>4 DEF Range
  <2>3. Range(ids) \subseteq Range(s)
    BY <1>1, <2>2 DEF Range
  <2> QED
    BY <2>1, <2>3
<1> QED
  BY <1>6, <1>7, <1>8 DEF s

-----------------------------------------------------------------------------
(* A number that is no negative int is not changed by the conversion.      *)
LEMMA NumberOfInt ==
  ASSUME InputAssumption, NEW x \in Nat, 2 * x <= Width - 1
  PROVE  Number(x) = x
<1>1. Width \in Nat
  BY DEF InputAssumption
<1>2. x \in 0 .. Width - 1
  BY <1>1
<1> QED
  BY <1>2, NumberSame

(* Where the filter on ranges makes its promise, the two searches find the *)
(* bins that it leaves out, and no bin twice.                              *)
LEMMA PromisedHits ==
  ASSUME InputAssumption, NEW b \in Inputs, NEW q \in Queries, Promises(b, q)
  PROVE  Apart(b, q) /\ Hits(b, q, 1) \cup Hits(b, q, 2) = Excluded(b, q)
<1>1. PICK n \in Nat \ {0} : n = Len(b) /\ DOMAIN b = 1 .. n
  BY InputFacts
<1>2. Width \in Nat \ {0}
  BY DEF InputAssumption
<1>3. PICK lo \in Int : lo = q[1]
  BY DEF InputAssumption
<1>4. PICK hi \in Int : hi = q[2]
  BY DEF InputAssumption
<1>5. 1 <= lo /\ lo <= hi /\ \A i \in 1 .. n : b[i].start >= 0
  BY <1>1, <1>3, <1>4 DEF Promises
<1>6. 2 * (lo - 1) <= Width - 1 /\ 2 * (hi + 1) <= Width - 1
  <2>1. 2 * (q[1] - 1) \in -Width .. Width - 1 /\ 2 * (q[2] + 1) \in -Width .. Width - 1
    BY DEF InputAssumption
  <2> QED
    BY <1>2, <1>3, <1>4, <2>1
<1>7. Number(hi + 1) = hi + 1 /\ Number(lo - 1) = lo - 1
  <2>1. hi + 1 \in Nat /\ lo - 1 \in Nat
    BY <1>5
  <2> QED
    BY <1>6, <2>1, NumberOfInt
<1>8. /\ SearchStart(q, 1) = hi + 1 /\ SearchEnd(q, 1) = Width - 1
      /\ SearchStart(q, 2) = 0 /\ SearchEnd(q, 2) = lo - 1
  BY <1>3, <1>4, <1>7 DEF SearchStart, SearchEnd
<1>9. ASSUME NEW x \in 1 .. n
      PROVE  /\ x \in Hits(b, q, 1) <=> ~ (b[x].start <= hi)
             /\ x \in Hits(b, q, 2) <=> ~ (b[x].end >= lo)
             /\ b[x].start <= b[x].end /\ b[x].start \in Int /\ b[x].end \in Int
  <2>1. PICK s \in Int : s = b[x].start
    BY <1>1, InputFacts
  <2>2. PICK e \in Int : e = b[x].end
    BY <1>1, InputFacts
  <2>3. s <= e /\ 2 * s <= Width - 1 /\ 2 * e <= Width - 1
    BY <1>1, <2>1, <2>2, InputFacts
  <2>4. s >= 0
    BY <1>5, <2>1
  <2>5. s \in Nat /\ e \in Nat
    BY <2>3, <2>4
  <2>6. Number(s) = s /\ Number(e) = e
    BY <2>3, <2>5, NumberOfInt
  <2>7. Number(Bound(b[x], 1)) = s /\ Number(Bound(b[x], 2)) = e
    BY <2>1, <2>2, <2>6 DEF Bound
  <2>8. x \in Hits(b, q, 1) <=> hi + 1 <= s /\ s <= Width - 1
    BY <1>1, <1>8, <2>7 DEF Hits
  <2>9. x \in Hits(b, q, 2) <=> 0 <= e /\ e <= lo - 1
    BY <1>1, <1>8, <2>7 DEF Hits
  <2>10. (hi + 1 <= s /\ s <= Width - 1 <=> ~ (s <= hi)) /\ (0 <= e /\ e <= lo - 1 <=> ~ (e >= lo))
    BY <1>2, <2>3, <2>5, SMTT(30)
  <2> QED
    BY <2>1, <2>2, <2>3, <2>8, <2>9, <2>10
<1>10. Hits(b, q, 1) \in SUBSET (1 .. n) /\ Hits(b, q, 2) \in SUBSET (1 .. n)
  BY <1>1 DEF Hits
<1>11. Apart(b, q)
  <2>1. ASSUME NEW x \in 1 .. n, x \in Hits(b, q, 1), x \in Hits(b, q, 2) PROVE FALSE
    <3>1. PICK s \in Int : s = b[x].start
      BY <1>9
    <3>2. PICK e \in Int : e = b[x].end
      BY <1>9
    <3>3. s <= e /\ ~ (s <= hi) /\ ~ (e >= lo)
      BY <1>9, <2>1, <3>1, <3>2
    <3> QED
      BY <1>5, <3>3
  <2> QED
    BY <1>10, <2>1 DEF Apart
<1>12. Excluded(b, q) = {x \in 1 .. n : ~ (b[x].start <= hi /\ b[x].end >= lo)}
  BY <1>1, <1>3, <1>4 DEF Excluded, ByRange!Meets
<1> QED
  BY <1>9, <1>10, <1>11, <1>12

(* The two lists before they are compared.                                 *)
LEMMA KeptFirst ==
  ASSUME InputAssumption, NEW b \in Inputs, NEW q \in Queries, NEW n, n = Len(b), NEW found,
         Gathered(found, b, q, 2, Hits(b, q, 2), n)
  PROVE  Kept(Promises(b, q), SortedIds(found), 1, 1, <<>>, n, Excluded(b, q))
<1>1. n \in Nat \ {0}
  BY InputFacts
<1>2. /\ found \in Seq(1 .. n) /\ Range(found) = Hits(b, q, 1) \cup Hits(b, q, 2)
      /\ Len(found) <= n + n /\ (Apart(b, q) => Distinct(found))
  BY DEF Gathered
<1> DEFINE s == SortedIds(found)
<1>3. PICK L \in Nat : L = Len(found) /\ DOMAIN found = 1 .. L
  BY <1>2, LenProperties
<1>4. Len(s) = L /\ s = [k \in 1 .. L |-> s[k]]
  <2> DEFINE e(k) == CHOOSE x \in Range(found) : /\ Cardinality({i \in DOMAIN found : found[i] < x}) < k
                                                 /\ Cardinality({i \in DOMAIN found : found[i] <= x}) >= k
  <2>1. s = [k \in 1 .. L |-> e(k)]
    BY <1>3 DEF SortedIds
  <2> HIDE DEF s, e
  <2> QED
    BY <1>3, <2>1
<1>5. ASSUME Promises(b, q)
      PROVE  Rising(s) /\ Range(s) = Excluded(b, q) /\ s \in Seq(1 .. n)
  <2>1. Apart(b, q) /\ Hits(b, q, 1) \cup Hits(b, q, 2) = Excluded(b, q)
    BY <1>5, PromisedHits
  <2>2. n \in Nat /\ Distinct(found)
    BY <1>1, <1>2, <2>1
  <2> QED
    BY <1>2, <2>1, <2>2, SortedIdsRising
<1> HIDE DEF s
<1>6. Excluded(b, q) \in SUBSET (1 .. n)
  BY DEF Excluded
<1>7. {s[k] : k \in 1 .. 1 - 1} = {x \in Excluded(b, q) : x < 1}
  BY <1>6
<1>8. Range(<<>>) = {x \in 1 .. 1 - 1 : x \notin Excluded(b, q)}
  BY DEF Range
<1>9. <<>> \in Seq(1 .. 1 - 1) /\ Len(<<>>) < 1 /\ Rising(<<>>)
  BY EmptySeq DEF Rising
<1>10. L \in 0 .. 2 * n /\ 1 \in 1 .. n + 1 /\ 1 \in 1 .. L + 1
  BY <1>1, <1>2, <1>3, SMTT(30)
<1> QED
  BY <1>4, <1>5, <1>7, <1>8, <1>9, <1>10 DEF Kept, s

(* An element of both lists is dropped.                                    *)
LEMMA KeptDrop ==
  ASSUME NEW promised \in BOOLEAN, NEW found, NEW i1, NEW i2, NEW result, NEW n \in Nat, NEW excluded,
         Kept(promised, found, i1, i2, result, n, excluded),
         i1 <= n, i2 <= Len(found), i1 = found[i2]
  PROVE  Kept(promised, found, i1 + 1, i2 + 1, result, n, excluded)
<1>1. /\ found = [k \in 1 .. Len(found) |-> found[k]] /\ Len(found) \in 0 .. 2 * n
      /\ i1 \in 1 .. n + 1 /\ i2 \in 1 .. Len(found) + 1
      /\ result \in Seq(1 .. i1 - 1) /\ Len(result) < i1 /\ Rising(result)
  BY DEF Kept
<1>2. PICK L \in Nat : L = Len(found)
  BY <1>1
<1>3. i1 \in 1 .. n /\ i2 \in 1 .. L /\ i1 + 1 \in 1 .. n + 1 /\ i2 + 1 \in 1 .. L + 1
      /\ (i1 + 1) - 1 = i1 /\ (i2 + 1) - 1 = i2
  BY <1>1, <1>2
<1>4. result \in Seq(1 .. i1) /\ Len(result) < i1 + 1
  <2>1. 1 .. i1 - 1 \subseteq 1 .. i1
    BY <1>3
  <2>2. Len(result) \in Nat
    BY <1>1, LenProperties
  <2>3. Len(result) < i1 + 1
    BY <1>1, <1>3, <2>2
  <2> QED
    BY <1>1, <2>1, <2>3, SeqMonotonic
<1>5. ASSUME promised
      PROVE  /\ Rising(found) /\ Range(found) = excluded /\ found \in Seq(1 .. n)
             /\ {found[k] : k \in 1 .. i2} = {x \in excluded : x < i1 + 1}
             /\ Range(result) = {x \in 1 .. i1 : x \notin excluded}
  <2>1. /\ Rising(found) /\ Range(found) = excluded /\ found \in Seq(1 .. n)
        /\ {found[k] : k \in 1 .. i2 - 1} = {x \in excluded : x < i1}
        /\ Range(result) = {x \in 1 .. i1 - 1 : x \notin excluded}
    BY <1>5 DEF Kept
  <2>2. DOMAIN found = 1 .. L
    BY <1>2, <2>1, LenProperties
  <2>3. i1 \in excluded /\ \A x \in excluded : x \in 1 .. n
    <3>1. \A k \in 1 .. L : found[k] \in 1 .. n
      BY <1>2, <2>1, ElementOfSeq
    <3> QED
      BY <1>3, <2>1, <2>2, <3>1 DEF Range
  <2>4. {found[k] : k \in 1 .. i2} = {x \in excluded : x < i1 + 1}
    <3>1. 1 .. i2 = (1 .. i2 - 1) \cup {i2}
      BY <1>3
    <3>2. {found[k] : k \in 1 .. i2} = {found[k] : k \in 1 .. i2 - 1} \cup {i1}
      BY <3>1
    <3>3. {x \in excluded : x < i1 + 1} = {x \in excluded : x < i1} \cup {i1}
      <4>1. \A x \in excluded : x < i1 + 1 <=> x < i1 \/ x = i1
        BY <1>3, <2>3
      <4> QED
        BY <2>3, <4>1
    <3> QED
      BY <2>1, <3>2, <3>3
  <2>5. {x \in 1 .. i1 : x \notin excluded} = {x \in 1 .. i1 - 1 : x \notin excluded}
    <3>1. \A x : x \in 1 .. i1 <=> x \in 1 .. i1 - 1 \/ x = i1
      BY <1>3
    <3> QED
      BY <2>3, <3>1
  <2> QED
    BY <2>1, <2>4, <2>5
<1> QED
  BY <1>1, <1>2, <1>3, <1>4, <1>5 DEF Kept

(* An element that is not in the second list is kept.                      *)
LEMMA KeptKeep ==
  ASSUME NEW promised \in BOOLEAN, NEW found, NEW i1, NEW i2, NEW result, NEW n \in Nat, NEW excluded,
         Kept(promised, found, i1, i2, result, n, excluded),
         i1 <= n, i2 <= Len(found), i1 < found[i2]
  PROVE  Kept(promised, found, i1 + 1, i2, Append(result, i1), n, excluded)
<1>1. /\ found = [k \in 1 .. Len(found) |-> found[k]] /\ Len(found) \in 0 .. 2 * n
      /\ i1 \in 1 .. n + 1 /\ i2 \in 1 .. Len(found) + 1
      /\ result \in Seq(1 .. i1 - 1) /\ Len(result) < i1 /\ Rising(result)
  BY DEF Kept
<1>2. PICK L \in Nat : L = Len(found)
  BY <1>1
<1>3. i1 \in 1 .. n /\ i2 \in 1 .. L /\ i1 + 1 \in 1 .. n + 1 /\ i2 \in 1 .. L + 1
      /\ (i1 + 1) - 1 = i1
  BY <1>1, <1>2
<1>4. PICK r \in Nat : r = Len(result) /\ r < i1 /\ DOMAIN result = 1 .. r /\ \A i \in 1 .. r : result[i] \in 1 .. i1 - 1
  <2>1. Len(result) \in Nat /\ DOMAIN result = 1 .. Len(result)
    BY <1>1, LenProperties
  <2>2. \A i \in 1 .. Len(result) : result[i] \in 1 .. i1 - 1
    BY <1>1, ElementOfSeq
  <2> QED
    BY <1>1, <2>1, <2>2
<1> DEFINE new == Append(result, i1)
<1>5. /\ new \in Seq(1 .. i1) /\ Len(new) = r + 1 /\ new[r + 1] = i1 /\ DOMAIN new = 1 .. r + 1
      /\ \A i \in 1 .. r : new[i] = result[i]
  <2>1. 1 .. i1 - 1 \subseteq 1 .. i1 /\ i1 \in 1 .. i1
    BY <1>3
  <2>2. result \in Seq(1 .. i1)
    BY <1>1, <2>1, SeqMonotonic
  <2>3. /\ new \in Seq(1 .. i1) /\ Len(new) = r + 1 /\ new[r + 1] = i1
        /\ \A i \in 1 .. r : new[i] = result[i]
    BY <1>4, <2>1, <2>2, AppendProperties
  <2> HIDE DEF new
  <2> QED
    BY <2>3, LenProperties
<1> HIDE DEF new
<1>6. Rising(new)
  <2>1. SUFFICES ASSUME NEW i \in 1 .. r + 1, NEW j \in 1 .. r + 1, i < j PROVE new[i] < new[j]
    BY <1>5 DEF Rising
  <2>2. CASE j \in 1 .. r
    <3>1. i \in 1 .. r
      BY <2>1, <2>2
    <3> QED
      BY <1>1, <1>4, <1>5, <2>1, <2>2, <3>1 DEF Rising
  <2>3. CASE j = r + 1
    <3>1. i \in 1 .. r
      BY <2>1, <2>3
    <3>2. new[i] \in 1 .. i1 - 1 /\ new[j] = i1
      BY <1>4, <1>5, <2>3, <3>1
    <3> QED
      BY <1>3, <3>2
  <2> QED
    BY <2>2, <2>3
<1>7. Range(new) = Range(result) \cup {i1}
  <2>1. 1 .. r + 1 = (1 .. r) \cup {r + 1}
    OBVIOUS
  <2> QED
    BY <1>4, <1>5, <2>1 DEF Range
<1>8. ASSUME promised
      PROVE  /\ Rising(found) /\ Range(found) = excluded /\ found \in Seq(1 .. n)
             /\ {found[k] : k \in 1 .. i2 - 1} = {x \in excluded : x < i1 + 1}
             /\ Range(new) = {x \in 1 .. i1 : x \notin excluded}
  <2>1. /\ Rising(found) /\ Range(found) = excluded /\ found \in Seq(1 .. n)
        /\ {found[k] : k \in 1 .. i2 - 1} = {x \in excluded : x < i1}
        /\ Range(result) = {x \in 1 .. i1 - 1 : x \notin excluded}
    BY <1>8 DEF Kept
  <2>2. DOMAIN found = 1 .. L /\ \A k \in 1 .. L : found[k] \in 1 .. n
    BY <1>2, <2>1, LenProperties
  <2>3. \A x \in excluded : x \in 1 .. n
    BY <2>1, <2>2 DEF Range
  <2>4. i1 \notin excluded
    <3>1. SUFFICES ASSUME NEW k \in 1 .. L, found[k] = i1 PROVE FALSE
      BY <2>1, <2>2 DEF Range
    <3>2. CASE k < i2
      <4>1. k \in 1 .. i2 - 1
        BY <1>3, <3>2
      <4>2. i1 \in {x \in excluded : x < i1}
        BY <2>1, <3>1, <4>1
      <4> QED
        BY <1>3, <4>2
    <3>3. CASE k = i2
      <4>1. i1 < i1
        BY <3>1, <3>3
      <4> QED
        BY <1>3, <4>1
    <3>4. CASE k > i2
      <4>1. found[i2] < found[k] /\ found[i2] \in 1 .. n
        BY <1>2, <1>3, <2>1, <2>2, <3>4 DEF Rising
      <4> QED
        BY <1>3, <3>1, <4>1
    <3> QED
      BY <1>3, <3>2, <3>3, <3>4
  <2>5. {x \in excluded : x < i1 + 1} = {x \in excluded : x < i1}
    <3>1. \A x \in excluded : x < i1 + 1 <=> x < i1
      <4>1. ASSUME NEW x \in excluded PROVE x < i1 + 1 <=> x < i1
        <5>1. x \in Int /\ x # i1
          BY <2>3, <2>4
        <5> QED
          BY <1>3, <5>1
      <4> QED
        BY <4>1
    <3> QED
      BY <3>1
  <2>6. {x \in 1 .. i1 : x \notin excluded} = {x \in 1 .. i1 - 1 : x \notin excluded} \cup {i1}
    <3>1. \A x : x \in 1 .. i1 <=> x \in 1 .. i1 - 1 \/ x = i1
      BY <1>3
    <3> QED
      BY <2>4, <3>1
  <2> QED
    BY <1>7, <2>1, <2>5, <2>6
<1>9. Len(new) < i1 + 1
  BY <1>3, <1>4, <1>5
<1> QED
  BY <1>1, <1>2, <1>3, <1>5, <1>6, <1>8, <1>9 DEF Kept, new

(* The list of all ids from one on.                                         *)
LEMMA RestOfAll ==
  ASSUME NEW n \in Nat, NEW top \in 1 .. n + 1, NEW all, all = [i \in 1 .. n |-> i],
         NEW m \in Nat, m = (n + 1) - top, NEW rest, rest = SubSeq(all, top, n)
  PROVE  rest \in Seq(1 .. n) /\ Len(rest) = m /\ \A i \in 1 .. m : rest[i] = (top + i) - 1
<1>1. \A i \in top .. n : all[i] = i /\ all[i] \in 1 .. n
  OBVIOUS
<1>2. top \in Int /\ n \in Int /\ n - top + 1 = m
  OBVIOUS
<1>3. /\ rest \in Seq(1 .. n) /\ Len(rest) = IF top <= n THEN n - top + 1 ELSE 0
      /\ \A i \in 1 .. n - top + 1 : rest[i] = all[top + i - 1]
  BY <1>1, <1>2, SubSeqProperties
<1>4. Len(rest) = m
  BY <1>3
<1>5. ASSUME NEW i \in 1 .. m PROVE rest[i] = (top + i) - 1
  <2>1. top + i - 1 \in top .. n /\ top + i - 1 = (top + i) - 1 /\ i \in 1 .. n - top + 1
    OBVIOUS
  <2> QED
    BY <1>1, <1>3, <2>1
<1> QED
  BY <1>3, <1>4, <1>5

(* A concatenation: its length and the place of its elements.               *)
IsJoin(S, s1, s2, s, r, m) ==
  /\ s \in Seq(S) /\ Len(s) = r + m /\ DOMAIN s = 1 .. r + m
  /\ \A i \in 1 .. r : s[i] = s1[i]
  /\ \A i \in 1 .. m : s[r + i] = s2[i]

(* The place of an element in a concatenation.                              *)
LEMMA Joined ==
  ASSUME NEW S, NEW s1 \in Seq(S), NEW s2 \in Seq(S), NEW r \in Nat, r = Len(s1),
         NEW m \in Nat, m = Len(s2), NEW s, s = s1 \o s2
  PROVE  IsJoin(S, s1, s2, s, r, m)
<1>1. s \in Seq(S) /\ Len(s) = r + m
  BY ConcatProperties
<1>2. ASSUME NEW i \in 1 .. r PROVE s[i] = s1[i]
  <2>1. i \in 1 .. Len(s1) + Len(s2) /\ i <= Len(s1)
    OBVIOUS
  <2> QED
    BY <2>1, ConcatProperties
<1>3. ASSUME NEW i \in 1 .. m PROVE s[r + i] = s2[i]
  <2>1. PICK j \in 1 .. r + m : j = r + i
    OBVIOUS
  <2>2. j \in 1 .. Len(s1) + Len(s2) /\ ~ (j <= Len(s1)) /\ j - Len(s1) = i
    BY <2>1
  <2>3. s[j] = s2[j - Len(s1)]
    BY <2>2, ConcatProperties
  <2> QED
    BY <2>1, <2>2, <2>3
<1> QED
  BY <1>1, <1>2, <1>3, LenProperties DEF IsJoin

(* A rising list of numbers below top, followed by all those from top on.   *)
LEMMA RisingJoin ==
  ASSUME NEW n \in Nat, NEW top \in 1 .. n + 1, NEW s1 \in Seq(1 .. top - 1), Rising(s1),
         NEW m \in Nat, m = (n + 1) - top,
         NEW s2 \in Seq(1 .. n), Len(s2) = m, \A i \in 1 .. m : s2[i] = (top + i) - 1,
         NEW s, s = s1 \o s2
  PROVE  s \in Seq(1 .. n) /\ Rising(s) /\ \A x : x \in Range(s) <=> x \in Range(s1) \/ x \in top .. n
<1>1. PICK r \in Nat : r = Len(s1) /\ DOMAIN s1 = 1 .. r /\ \A i \in 1 .. r : s1[i] \in 1 .. top - 1
  BY LenProperties
<1>2. s1 \in Seq(1 .. n)
  <2>1. 1 .. top - 1 \subseteq 1 .. n
    OBVIOUS
  <2> QED
    BY <2>1, SeqMonotonic
<1>3. /\ s \in Seq(1 .. n) /\ Len(s) = r + m /\ DOMAIN s = 1 .. r + m
      /\ \A i \in 1 .. r : s[i] = s1[i]
      /\ \A i \in 1 .. m : s[r + i] = s2[i]
  <2>1. /\ s1 \in Seq(1 .. n) /\ s2 \in Seq(1 .. n) /\ r \in Nat /\ r = Len(s1)
        /\ m \in Nat /\ m = Len(s2) /\ s = s1 \o s2
    BY <1>1, <1>2
  <2>2. IsJoin(1 .. n, s1, s2, s, r, m)
    BY <2>1, Joined
  <2> QED
    BY <2>2 DEF IsJoin
<1>4. \A i \in 1 .. m : s[r + i] = (top + i) - 1
  BY <1>3
<1>5. \A i \in 1 .. r + m : i \in 1 .. r \/ \E j \in 1 .. m : i = r + j
  <2>1. ASSUME NEW i \in 1 .. r + m, i \notin 1 .. r PROVE i - r \in 1 .. m /\ i = r + (i - r)
    BY <1>1, <2>1
  <2> QED
    BY <2>1
<1>6. ASSUME NEW i \in 1 .. r + m, NEW j \in 1 .. r + m, i < j PROVE s[i] < s[j]
  <2>1. CASE i \in 1 .. r /\ j \in 1 .. r
    BY <1>1, <1>3, <1>6, <2>1 DEF Rising
  <2>2. CASE i \in 1 .. r /\ j \notin 1 .. r
    <3>1. PICK k \in 1 .. m : j = r + k
      BY <1>5, <2>2
    <3>2. s[i] \in 1 .. top - 1 /\ s[j] = (top + k) - 1
      BY <1>1, <1>3, <1>4, <2>2, <3>1
    <3>3. \A v \in 1 .. top - 1 : v < (top + k) - 1
      BY <3>1
    <3> QED
      BY <3>2, <3>3
  <2>3. CASE i \notin 1 .. r
    <3>1. PICK h \in 1 .. m : i = r + h
      BY <1>5, <2>3
    <3>2. j \notin 1 .. r
      BY <1>1, <1>6, <2>3
    <3>3. PICK k \in 1 .. m : j = r + k
      BY <1>5, <3>2
    <3>4. s[i] = (top + h) - 1 /\ s[j] = (top + k) - 1
      BY <1>4, <3>1, <3>3
    <3>5. h < k
      BY <1>1, <1>6, <3>1, <3>3
    <3>6. (top + h) - 1 < (top + k) - 1
      BY <3>1, <3>3, <3>5
    <3> QED
      BY <3>4, <3>6
  <2> QED
    BY <2>1, <2>2, <2>3
<1>7. Rising(s)
  BY <1>3, <1>6 DEF Rising
<1>8. ASSUME NEW x, x \in Range(s) PROVE x \in Range(s1) \/ x \in top .. n
  <2>1. PICK i \in 1 .. r + m : x = s[i]
    BY <1>3, <1>8 DEF Range
  <2>2. CASE i \in 1 .. r
    BY <1>1, <1>3, <2>1, <2>2 DEF Range
  <2>3. CASE i \notin 1 .. r
    <3>1. PICK k \in 1 .. m : i = r + k
      BY <1>5, <2>3
    <3>2. x = (top + k) - 1
      BY <1>4, <2>1, <3>1
    <3>3. (top + k) - 1 \in top .. n
      BY <3>1
    <3> QED
      BY <3>2, <3>3
  <2> QED
    BY <2>2, <2>3
<1>9. ASSUME NEW x \in Range(s1) PROVE x \in Range(s)
  <2>1. PICK i \in 1 .. r : x = s1[i]
    BY <1>1 DEF Range
  <2>2. i \in 1 .. r + m
    BY <1>1, <2>1
  <2> QED
    BY <1>3, <2>1, <2>2 DEF Range
<1>10. ASSUME NEW x \in top .. n PROVE x \in Range(s)
  <2>1. PICK k \in 1 .. m : k = (x - top) + 1
    BY <1>10
  <2>2. (top + k) - 1 = x /\ r + k \in 1 .. r + m
    BY <1>1, <1>10, <2>1
  <2>3. s[r + k] = x
    BY <1>4, <2>1, <2>2
  <2> QED
    BY <1>3, <2>2, <2>3 DEF Range
<1> QED
  BY <1>3, <1>7, <1>8, <1>9, <1>10

Chosen(promised, answer, n, excluded) ==
  /\ answer \in Seq(1 .. n) /\ Rising(answer)
  /\ promised => Range(answer) = {x \in 1 .. n : x \notin excluded}

(* The answer: what was kept, and the rest of the first list.              *)
LEMMA KeptAnswer ==
  ASSUME NEW promised \in BOOLEAN, NEW found, NEW i1, NEW i2, NEW result, NEW n \in Nat, NEW excluded,
         Kept(promised, found, i1, i2, result, n, excluded),
         i1 <= n /\ i2 <= Len(found) => i1 > found[i2],
         NEW all, all = [i \in 1 .. n |-> i], NEW answer, answer = result \o SubSeq(all, i1, n)
  PROVE  Chosen(promised, answer, n, excluded)
<1>1. /\ Len(found) \in 0 .. 2 * n /\ i1 \in 1 .. n + 1 /\ i2 \in 1 .. Len(found) + 1
      /\ result \in Seq(1 .. i1 - 1) /\ Rising(result)
  BY DEF Kept
<1>2. PICK L \in Nat : L = Len(found)
  BY <1>1
<1>4. PICK top \in 1 .. n + 1 : top = i1
  BY <1>1
<1>5. PICK m \in Nat : m = (n + 1) - top
  BY <1>4
<1>6. answer \in Seq(1 .. n) /\ Rising(answer) /\ \A x : x \in Range(answer) <=> x \in Range(result) \/ x \in top .. n
  <2> DEFINE rest == SubSeq(all, i1, n)
  <2>1. rest \in Seq(1 .. n) /\ Len(rest) = m /\ \A i \in 1 .. m : rest[i] = (top + i) - 1
    <3>1. rest = SubSeq(all, top, n)
      BY <1>4
    <3> HIDE DEF rest
    <3> QED
      BY <1>5, <3>1, RestOfAll
  <2>2. result \in Seq(1 .. top - 1) /\ answer = result \o rest
    BY <1>1, <1>4
  <2> HIDE DEF rest
  <2> QED
    BY <1>1, <1>5, <2>1, <2>2, RisingJoin
<1>12. ASSUME promised PROVE Range(answer) = {x \in 1 .. n : x \notin excluded}
  <2>1. /\ Rising(found) /\ Range(found) = excluded /\ found \in Seq(1 .. n)
        /\ {found[k] : k \in 1 .. i2 - 1} = {x \in excluded : x < i1}
        /\ Range(result) = {x \in 1 .. i1 - 1 : x \notin excluded}
    BY <1>12 DEF Kept
  <2>2. DOMAIN found = 1 .. L /\ \A k \in 1 .. L : found[k] \in 1 .. n
    BY <1>2, <2>1, LenProperties
  <2>3. \A x \in excluded : x \in 1 .. n
    BY <2>1, <2>2 DEF Range
  <2>4. \A x \in top .. n : x \notin excluded
    <3>1. CASE i2 <= L /\ top <= n
      <4>1. i2 \in 1 .. L /\ i1 > found[i2] /\ found[i2] \in 1 .. n
        BY <1>1, <1>2, <1>4, <2>2, <3>1
      <4>2. found[i2] \in {x \in excluded : x < i1}
        BY <1>4, <2>1, <2>2, <4>1 DEF Range
      <4>3. PICK k \in 1 .. i2 - 1 : found[i2] = found[k]
        BY <2>1, <4>2
      <4>4. k \in 1 .. L /\ k < i2
        BY <4>1
      <4>5. found[k] < found[i2]
        BY <1>2, <2>1, <4>1, <4>4 DEF Rising
      <4> QED
        BY <4>1, <4>3, <4>5
    <3>2. CASE i2 = L + 1
      <4>1. i2 - 1 = L
        BY <3>2
      <4>2. {found[k] : k \in 1 .. L} = {x \in excluded : x < i1}
        BY <2>1, <4>1
      <4>3. excluded = {x \in excluded : x < i1}
        BY <2>1, <2>2, <4>2 DEF Range
      <4> QED
        BY <1>4, <2>3, <4>3
    <3>3. CASE top > n
      BY <1>4, <3>3
    <3> QED
      BY <1>1, <1>2, <3>1, <3>2, <3>3
  <2>5. \A x : x \in 1 .. n <=> x \in 1 .. i1 - 1 \/ x \in top .. n
    BY <1>4
  <2> QED
    BY <1>4, <1>6, <2>1, <2>4, <2>5
<1> QED
  BY <1>6, <1>12 DEF Chosen

(* The instance counts elements as this module does.                       *)
LEMMA SameCardinality == \A T : ByRange!Cardinality(T) = Cardinality(T)
<1>1. \A T : ByRange!IsFiniteSet(T) = IsFiniteSet(T)
  BY DEF ByRange!IsFiniteSet, IsFiniteSet
<1> QED
  BY <1>1 DEF ByRange!Cardinality, Cardinality

(* A rising list of ids is the list of its elements in their order.        *)
LEMMA RisingIds ==
  ASSUME NEW n \in Nat, NEW s \in Seq(1 .. n), Rising(s)
  PROVE  s = ByRange!IdsIn(Range(s)) /\ Range(s) \in SUBSET (1 .. n)
<1> DEFINE S == Range(s)
           upTo(i) == {j \in S : j <= i}
<1>1. PICK L \in Nat : L = Len(s) /\ DOMAIN s = 1 .. L /\ \A k \in 1 .. L : s[k] \in 1 .. n
  BY LenProperties
<1>2. S \in SUBSET (1 .. n)
  BY RangeOfSeq
<1>3. \A j, k \in 1 .. L : j < k => s[j] < s[k]
  BY <1>1 DEF Rising
<1>4. \A j, k \in 1 .. L : s[j] <= s[k] <=> j <= k
  <2>1. ASSUME NEW j \in 1 .. L, NEW k \in 1 .. L PROVE s[j] <= s[k] <=> j <= k
    <3>1. s[j] \in 1 .. n /\ s[k] \in 1 .. n
      BY <1>1
    <3>2. (j < k => s[j] < s[k]) /\ (k < j => s[k] < s[j]) /\ (j = k => s[j] = s[k])
      BY <1>3
    <3> QED
      BY <3>1, <3>2
  <2> QED
    BY <2>1
<1>5. ASSUME NEW k \in 0 .. L, NEW T, T = {s[j] : j \in 1 .. k} PROVE ByRange!Cardinality(T) = k
  <2> DEFINE f == [j \in 1 .. k |-> s[j]]
  <2>1. \A j \in 1 .. k : j \in 1 .. L
    OBVIOUS
  <2>2. ASSUME NEW i \in 1 .. k, NEW j \in 1 .. k, s[i] = s[j] PROVE i = j
    <3>1. s[i] \in 1 .. n /\ s[j] \in 1 .. n /\ i \in 1 .. L /\ j \in 1 .. L
      BY <1>1, <2>1
    <3>2. (i < j => s[i] < s[j]) /\ (j < i => s[j] < s[i])
      BY <1>3, <3>1
    <3> QED
      BY <2>2, <3>1, <3>2
  <2>3. f \in Bijection(1 .. k, T)
    <3>1. f \in [1 .. k -> T] /\ \A t \in T : \E j \in 1 .. k : f[j] = t
      BY <1>5
    <3>2. \A i, j \in 1 .. k : f[i] = f[j] => i = j
      BY <2>2
    <3> HIDE DEF f
    <3> QED
      BY <3>1, <3>2 DEF Bijection, Injection, Surjection, IsInjective
  <2>4. ExistsBijection(1 .. k, T)
    BY <2>3 DEF ExistsBijection
  <2>5. k \in Nat
    OBVIOUS
  <2> QED
    BY <2>4, <2>5, FS_CountingElements, SameCardinality
<1>6. ByRange!Cardinality(S) = L
  <2>1. S = {s[j] : j \in 1 .. L} /\ L \in 0 .. L
    BY <1>1 DEF Range
  <2> HIDE DEF S
  <2> QED
    BY <1>5, <2>1
<1>7. ASSUME NEW k \in 1 .. L PROVE ByRange!Cardinality(upTo(s[k])) = k /\ s[k] \in S
  <2>1. upTo(s[k]) = {s[j] : j \in 1 .. k}
    <3>1. S = {s[j] : j \in 1 .. L} /\ \A j \in 1 .. L : j <= k <=> j \in 1 .. k
      BY <1>1 DEF Range
    <3>2. \A j \in 1 .. k : j \in 1 .. L
      OBVIOUS
    <3> HIDE DEF S
    <3> QED
      BY <1>4, <3>1, <3>2
  <2>2. k \in 0 .. L
    OBVIOUS
  <2> QED
    BY <1>1, <1>5, <2>1, <2>2 DEF Range
<1>8. ASSUME NEW k \in 1 .. L
      PROVE  (CHOOSE i \in S : ByRange!Cardinality({j \in S : j <= i}) = k) = s[k]
  <2>1. ASSUME NEW i \in S, ByRange!Cardinality(upTo(i)) = k PROVE i = s[k]
    <3>1. PICK j \in 1 .. L : i = s[j]
      BY <1>1 DEF Range
    <3>2. ByRange!Cardinality(upTo(s[j])) = j
      BY <1>7
    <3> HIDE DEF upTo
    <3> QED
      BY <2>1, <3>1, <3>2
  <2>2. ByRange!Cardinality(upTo(s[k])) = k /\ s[k] \in S
    BY <1>7
  <2> HIDE DEF S
  <2> QED
    BY <2>1, <2>2
<1>9. ByRange!IdsIn(S) = [k \in 1 .. L |-> s[k]]
  <2> HIDE DEF S
  <2>1. ByRange!IdsIn(S) = [k \in 1 .. ByRange!Cardinality(S) |-> CHOOSE i \in S : ByRange!Cardinality({j \in S : j <= i}) = k]
    BY DEF ByRange!IdsIn
  <2> QED
    BY <1>6, <1>8, <2>1
<1>10. s = [k \in 1 .. L |-> s[k]]
  BY <1>1
<1> QED
  BY <1>2, <1>9, <1>10

-----------------------------------------------------------------------------
(* The comparison of the two lists goes on.                                *)
LEMMA DifferenceOn ==
  ASSUME Invariant, pc \in {"filter", "difference"}, pc' = "difference", tree' = tree,
         built' = built, query' = query, allBins' = [i \in 1 .. Len(bins) |-> i],
         Kept(Promises(bins, query), filterBins', it1', it2', resultSet', Len(bins),
              Excluded(bins, query))
  PROVE  Invariant'
<1>1. /\ bins' = bins /\ bins \in Inputs /\ storage' = storage /\ root' = root
      /\ StoresOK' /\ TreesOK' /\ BuildOK'
  BY AskingTrees DEF Searching
<1>2. QueryOK'
  BY <1>1 DEF Invariant, QueryOK, Building, Searching
<1>3. SearchOK'
  BY DEF SearchOK
<1>4. DifferenceOK'
  BY <1>1 DEF DifferenceOK
<1> QED
  BY <1>1, <1>2, <1>3, <1>4 DEF Invariant, Searching

(* Filter begins the comparison.                                           *)
LEMMA FilterStep ==
  ASSUME InputAssumption, Invariant, Filter
  PROVE  Invariant'
<1>1. /\ pc = "filter" /\ filterBins' = SortedIds(filterBins)
      /\ allBins' = (IF allBins = <<>> THEN [i \in DOMAIN bins |-> i] ELSE allBins)
      /\ it1' = 1 /\ it2' = 1 /\ resultSet' = <<>> /\ pc' = "difference"
      /\ built' = built /\ tree' = tree /\ query' = query
  BY DEF Filter
<1>2. bins \in Inputs /\ DOMAIN bins = 1 .. Len(bins)
  BY InputFacts DEF Invariant
<1>3. query \in Queries /\ allBins \in {<<>>, [i \in 1 .. Len(bins) |-> i]}
  BY <1>1 DEF Invariant, QueryOK, Searching
<1>4. allBins' = [i \in 1 .. Len(bins) |-> i]
  BY <1>1, <1>2, <1>3
<1>5. Gathered(filterBins, bins, query, 2, Hits(bins, query, 2), Len(bins))
  BY <1>1 DEF Invariant, SearchOK
<1>6. Kept(Promises(bins, query), SortedIds(filterBins), 1, 1, <<>>, Len(bins), Excluded(bins, query))
  BY <1>2, <1>3, <1>5, KeptFirst
<1> QED
  BY <1>1, <1>4, <1>6, DifferenceOn

(* What the comparison knows.                                              *)
LEMMA DifferenceState ==
  ASSUME InputAssumption, Invariant, pc = "difference"
  PROVE  /\ bins \in Inputs /\ query \in Queries /\ Len(bins) \in Nat /\ DOMAIN bins = 1 .. Len(bins)
         /\ allBins = [i \in 1 .. Len(bins) |-> i] /\ Len(allBins) = Len(bins)
         /\ Promises(bins, query) \in BOOLEAN
         /\ Kept(Promises(bins, query), filterBins, it1, it2, resultSet, Len(bins),
                 Excluded(bins, query))
         /\ it1 \in 1 .. Len(bins) + 1 /\ (it1 <= Len(bins) => allBins[it1] = it1)
<1>1. bins \in Inputs /\ Len(bins) \in Nat /\ DOMAIN bins = 1 .. Len(bins)
  BY InputFacts DEF Invariant
<1>2. query \in Queries
  BY DEF Invariant, QueryOK, Searching
<1>3. /\ allBins = [i \in 1 .. Len(bins) |-> i]
      /\ Kept(Promises(bins, query), filterBins, it1, it2, resultSet, Len(bins),
              Excluded(bins, query))
  BY DEF Invariant, DifferenceOK
<1>4. it1 \in 1 .. Len(bins) + 1
  BY <1>3 DEF Kept
<1>5. Len(allBins) = Len(bins)
  BY <1>1, <1>3
<1>6. it1 <= Len(bins) => allBins[it1] = it1
  BY <1>1, <1>3, <1>4
<1>7. Promises(bins, query) \in BOOLEAN
  BY DEF Promises
<1> QED
  BY <1>1, <1>2, <1>3, <1>4, <1>5, <1>6, <1>7

(* Drop goes on with the comparison.                                       *)
LEMMA DropStep ==
  ASSUME InputAssumption, Invariant, Drop
  PROVE  Invariant'
<1>1. /\ pc = "difference" /\ it1 <= Len(allBins) /\ it2 <= Len(filterBins)
      /\ allBins[it1] = filterBins[it2] /\ it1' = it1 + 1 /\ it2' = it2 + 1
      /\ built' = built /\ pc' = pc /\ tree' = tree /\ query' = query
      /\ filterBins' = filterBins /\ allBins' = allBins /\ resultSet' = resultSet
  BY DEF Drop, Both
<1>2. /\ allBins = [i \in 1 .. Len(bins) |-> i] /\ Len(allBins) = Len(bins) /\ Len(bins) \in Nat
      /\ Promises(bins, query) \in BOOLEAN
      /\ Kept(Promises(bins, query), filterBins, it1, it2, resultSet, Len(bins),
              Excluded(bins, query))
      /\ (it1 <= Len(bins) => allBins[it1] = it1)
  BY <1>1, DifferenceState
<1>3. it1 <= Len(bins) /\ it1 = filterBins[it2]
  BY <1>1, <1>2
<1>4. Kept(Promises(bins, query), filterBins, it1 + 1, it2 + 1, resultSet, Len(bins),
           Excluded(bins, query))
  BY <1>1, <1>2, <1>3, KeptDrop
<1> QED
  BY <1>1, <1>2, <1>4, DifferenceOn

(* Keep goes on with the comparison.                                       *)
LEMMA KeepStep ==
  ASSUME InputAssumption, Invariant, Keep
  PROVE  Invariant'
<1>1. /\ pc = "difference" /\ it1 <= Len(allBins) /\ it2 <= Len(filterBins)
      /\ allBins[it1] < filterBins[it2] /\ it1' = it1 + 1 /\ it2' = it2
      /\ built' = built /\ pc' = pc /\ tree' = tree /\ query' = query
      /\ filterBins' = filterBins /\ allBins' = allBins
      /\ resultSet' = Append(resultSet, allBins[it1])
  BY DEF Keep, Both
<1>2. /\ allBins = [i \in 1 .. Len(bins) |-> i] /\ Len(allBins) = Len(bins) /\ Len(bins) \in Nat
      /\ Promises(bins, query) \in BOOLEAN
      /\ Kept(Promises(bins, query), filterBins, it1, it2, resultSet, Len(bins),
              Excluded(bins, query))
      /\ (it1 <= Len(bins) => allBins[it1] = it1)
  BY <1>1, DifferenceState
<1>3. it1 <= Len(bins) /\ it1 < filterBins[it2] /\ allBins[it1] = it1
  BY <1>1, <1>2
<1>4. Kept(Promises(bins, query), filterBins, it1 + 1, it2, Append(resultSet, it1), Len(bins),
           Excluded(bins, query))
  BY <1>1, <1>2, <1>3, KeptKeep
<1> QED
  BY <1>1, <1>2, <1>3, <1>4, DifferenceOn

(* Answer ends the query.                                                  *)
LEMMA AnswerStep ==
  ASSUME InputAssumption, Invariant, Answer
  PROVE  Invariant'
<1>1. /\ pc = "difference" /\ pc' = "idle" /\ filterBins' = <<>> /\ query' = <<>>
      /\ it1' = 1 /\ it2' = 1 /\ resultSet' = <<>>
      /\ built' = built /\ tree' = tree /\ allBins' = allBins
  BY DEF Answer
<1>2. /\ bins' = bins /\ bins \in Inputs /\ StoresOK' /\ TreesOK' /\ BuildOK'
  BY <1>1, AskingTrees DEF Searching
<1>3. QueryOK'
  BY <1>1, <1>2 DEF Invariant, QueryOK, Building, Searching
<1>4. SearchOK' /\ DifferenceOK'
  BY <1>1 DEF SearchOK, DifferenceOK
<1> QED
  BY <1>1, <1>2, <1>3, <1>4 DEF Invariant

(* A step that changes nothing.                                            *)
LEMMA StutterStep ==
  ASSUME Invariant, UNCHANGED vars
  PROVE  Invariant'
<1>1. /\ bins' = bins /\ storage' = storage /\ root' = root /\ pc' = pc /\ tree' = tree
      /\ data' = data /\ layer' = layer /\ query' = query /\ address' = address
      /\ filterBins' = filterBins /\ allBins' = allBins /\ it1' = it1 /\ it2' = it2
      /\ resultSet' = resultSet
  BY DEF vars
<1>2. StoresOK' /\ TreesOK'
  BY <1>1 DEF Invariant, StoresOK, TreesOK, TreeOf
<1>3. BuildOK'
  BY <1>1 DEF Invariant, BuildOK
<1>4. QueryOK'
  BY <1>1 DEF Invariant, QueryOK
<1>5. SearchOK' /\ DifferenceOK'
  BY <1>1 DEF Invariant, SearchOK, DifferenceOK
<1> QED
  BY <1>1, <1>2, <1>3, <1>4, <1>5 DEF Invariant

(* The invariant is inductive: the trees that are built, the search under  *)
(* way and the comparison of the lists are what the code means them to be. *)
LEMMA InvariantStep ==
  ASSUME FanoutAssumption, InputAssumption, Invariant, [Next]_vars
  PROVE  Invariant'
<1>1. CASE Build
  BY <1>1, SortStep, CreateDataBlockStep, PushLayerStep, SetRootStep DEF Build
<1>2. CASE Ask
  BY <1>2, AskStep
<1>3. CASE Select
  BY <1>3, DescendStep, CollectStep, LeaveRangeStep, FilterStep, DropStep, KeepStep, AnswerStep DEF Select
<1>4. CASE UNCHANGED vars
  BY <1>4, StutterStep
<1> QED
  BY <1>1, <1>2, <1>3, <1>4 DEF Next

(* In every reachable state.                                               *)
THEOREM InvariantHolds == Spec => []Invariant
<1>1. Init => Invariant
  BY InputAssumption, InitInvariant
<1>2. Invariant /\ [Next]_vars => Invariant'
  BY FanoutAssumption, InputAssumption, InvariantStep
<1> QED
  BY <1>1, <1>2, PTL DEF Spec

-----------------------------------------------------------------------------
(* What TypeOK and Consistent say of one memory.                           *)
BlockTyped(mem, n, a) ==
  \/ /\ mem[a].type = "data"
     /\ mem[a].data \in 1 .. n
     /\ mem[a].next \in META + 1 .. a - 1 \cup {EMPTY}
  \/ /\ mem[a].type = "node"
     /\ Len(mem[a].pairs) \in 1 .. Fanout
     /\ \A i \in DOMAIN mem[a].pairs : mem[a].pairs[i].address \in META + 1 .. a - 1

Rises(pairs) == \A i, j \in DOMAIN pairs : i <= j => pairs[i].key <= pairs[j].key

BlockConsistent(mem, a) ==
  /\ mem[a].type = "data" /\ mem[a].next # EMPTY => mem[a].key <= mem[mem[a].next].key
  /\ mem[a].type = "node" =>
       /\ Rises(mem[a].pairs)
       /\ \A i \in DOMAIN mem[a].pairs : mem[a].pairs[i].key = KeyOf(mem[mem[a].pairs[i].address])

Memory(mem, n, top) ==
  /\ top \in Nat /\ top >= 2 /\ DOMAIN mem = 1 .. top - 1
  /\ \A a \in 2 .. top - 1 : BlockTyped(mem, n, a) /\ BlockConsistent(mem, a)

DataUpTo(mem, srt, n, m) == \A a \in 2 .. m + 1 : mem[a] = DataBlock(srt, n, a)

(* The data blocks are linked in the order of their keys.                  *)
LEMMA DataMemory ==
  ASSUME NEW b, NEW t, NEW n \in Nat \ {0}, n = Len(b), NEW srt, SortedData(b, t, srt),
         NEW mem, NEW m \in 0 .. n, DataUpTo(mem, srt, n, m),
         NEW a \in 2 .. m + 1
  PROVE  BlockTyped(mem, n, a) /\ BlockConsistent(mem, a)
<1>1. /\ srt \in [1 .. n -> [key : 0 .. Width - 1, data : 1 .. n]]
      /\ \A p, q \in 1 .. n : p <= q => srt[p].key <= srt[q].key
  BY DEF SortedData
<1>2. PICK p \in 1 .. n : p = n + 2 - a
  BY SMTT(30)
<1>3. /\ mem[a].type = "data" /\ mem[a].key = srt[p].key /\ mem[a].data = srt[p].data
      /\ mem[a].next = IF a = 2 THEN EMPTY ELSE a - 1
  <2>1. mem[a] = [type |-> "data", key |-> srt[p].key, data |-> srt[p].data,
                  next |-> IF a = 2 THEN EMPTY ELSE a - 1]
    BY <1>2 DEF DataBlock, DataUpTo
  <2> QED
    BY <2>1
<1>4. mem[a].data \in 1 .. n
  BY <1>1, <1>3
<1>5. mem[a].next \in META + 1 .. a - 1 \cup {EMPTY}
  BY <1>3 DEF META, EMPTY
<1>6. ASSUME mem[a].next # EMPTY PROVE mem[a].key <= mem[mem[a].next].key
  <2>1. mem[a].next = a - 1 /\ a - 1 \in 2 .. m + 1 /\ p + 1 \in 1 .. n /\ p + 1 = n + 2 - (a - 1)
    BY <1>2, <1>3, <1>6
  <2>2. mem[a - 1] = [type |-> "data", key |-> srt[p + 1].key, data |-> srt[p + 1].data,
                      next |-> IF a - 1 = 2 THEN EMPTY ELSE (a - 1) - 1]
    BY <2>1 DEF DataBlock, DataUpTo
  <2>3. mem[a - 1].key = srt[p + 1].key
    BY <2>2
  <2>4. srt[p].key <= srt[p + 1].key
    BY <1>1, <2>1, SMTT(30)
  <2> QED
    BY <1>3, <2>1, <2>3, <2>4
<1> QED
  BY <1>3, <1>4, <1>5, <1>6 DEF BlockTyped, BlockConsistent

NodeOf(mem, srt, first, last, a) ==
  /\ mem[a].type = "node" /\ Len(mem[a].pairs) \in 1 .. Fanout
  /\ DOMAIN mem[a].pairs = 1 .. Len(mem[a].pairs)
  /\ \A i \in DOMAIN mem[a].pairs : /\ mem[a].pairs[i].address \in 2 .. a - 1
                                    /\ mem[a].pairs[i].key = srt[last[mem[a].pairs[i].address]].key
  /\ last[a] = last[mem[a].pairs[Len(mem[a].pairs)].address]
  /\ InTurn(mem[a].pairs, first, last)

(* The pairs of a node block.                                              *)
LEMMA NodePairs ==
  ASSUME NEW b, NEW t, NEW n \in Nat \ {0}, n = Len(b), NEW srt, SortedData(b, t, srt),
         NEW mem, NEW first, NEW last, NEW top, Shape(mem, srt, n, first, last, top),
         NEW a \in n + 2 .. top - 1
  PROVE  NodeOf(mem, srt, first, last, a)
<1>1. NodeBlock(mem, srt, first, last, a)
  BY DEF Shape, NodeBlocks
<1>2. mem[a].pairs \in Seq(Pair)
  BY <1>1 DEF NodeBlock, Chain
<1>3. DOMAIN mem[a].pairs = 1 .. Len(mem[a].pairs)
  BY <1>2, LenProperties
<1> QED
  BY <1>1, <1>3 DEF NodeBlock, Chain, LeadsTo, NodeOf

EndsAt(mem, srt, last, c) == KeyOf(mem[c]) = srt[last[c]].key

(* The key of a block is that of the last place that it stands for.        *)
LEMMA KeyOfBlock ==
  ASSUME FanoutAssumption, NEW b, NEW t, NEW n \in Nat \ {0}, n = Len(b), NEW srt, SortedData(b, t, srt),
         NEW mem, NEW first, NEW last, NEW top, Shape(mem, srt, n, first, last, top),
         NEW c \in 2 .. top - 1
  PROVE  EndsAt(mem, srt, last, c)
<1>1. top \in Nat /\ top >= n + 2
  BY DEF Shape
<1>2. CASE c \in 2 .. n + 1
  <2>1. mem[c] = DataBlock(srt, n, c) /\ last[c] = n + 2 - c
    BY <1>2 DEF Shape, DataBlocks
  <2>2. mem[c].type = "data" /\ mem[c].key = srt[n + 2 - c].key
    BY <2>1 DEF DataBlock
  <2> QED
    BY <2>1, <2>2 DEF KeyOf, EndsAt
<1>3. CASE c \in n + 2 .. top - 1
  <2> DEFINE pairs == mem[c].pairs
  <2>0. NodeOf(mem, srt, first, last, c)
    BY <1>3, NodePairs
  <2>1. /\ mem[c].type = "node" /\ Len(pairs) \in 1 .. Fanout /\ DOMAIN pairs = 1 .. Len(pairs)
        /\ \A i \in DOMAIN pairs : pairs[i].key = srt[last[pairs[i].address]].key
        /\ last[c] = last[pairs[Len(pairs)].address]
    BY <2>0 DEF NodeOf
  <2>2. KeyOf(mem[c]) = pairs[Len(pairs)].key
    BY <2>1 DEF KeyOf
  <2> HIDE DEF pairs
  <2>3. Len(pairs) \in DOMAIN pairs
    BY <2>1, FanoutAssumption DEF FanoutAssumption
  <2> QED
    BY <2>1, <2>2, <2>3 DEF EndsAt
<1> QED
  BY <1>1, <1>2, <1>3

(* The keys of a node block do not fall.                                   *)
LEMMA NodeRises ==
  ASSUME FanoutAssumption, NEW b, NEW t, NEW n \in Nat \ {0}, n = Len(b), NEW srt, SortedData(b, t, srt),
         NEW mem, NEW first, NEW last, NEW top, Shape(mem, srt, n, first, last, top),
         NEW a \in n + 2 .. top - 1
  PROVE  Rises(mem[a].pairs)
<1> DEFINE pairs == mem[a].pairs
<1>0. top \in Nat
  BY DEF Shape
<1>01. NodeOf(mem, srt, first, last, a)
  BY NodePairs
<1>1. PICK len \in 1 .. Fanout : len = Len(pairs) /\ DOMAIN pairs = 1 .. len
  BY <1>01 DEF NodeOf
<1>2. /\ \A i \in 1 .. len : /\ pairs[i].address \in 2 .. a - 1
                             /\ pairs[i].key = srt[last[pairs[i].address]].key
      /\ InTurn(pairs, first, last)
  BY <1>01, <1>1 DEF NodeOf
<1>3. \A c \in 2 .. top - 1 : first[c] \in 1 .. n /\ last[c] \in 1 .. n /\ first[c] <= last[c]
  BY DEF Shape, Places
<1>4. \A p, q \in 1 .. n : p <= q => srt[p].key <= srt[q].key
  BY DEF SortedData
<1> HIDE DEF pairs
<1>5. ASSUME NEW i \in 1 .. len, NEW j \in 1 .. len, i <= j PROVE pairs[i].key <= pairs[j].key
  <2>1. PICK c \in 2 .. top - 1 : c = pairs[i].address
    BY <1>0, <1>2
  <2>2. PICK d \in 2 .. top - 1 : d = pairs[j].address
    BY <1>0, <1>2
  <2>3. last[c] <= last[d]
    <3>1. CASE i = j
      BY <1>3, <2>1, <2>2, <3>1
    <3>2. CASE i < j
      <4>1. last[c] < first[d]
        BY <1>1, <1>2, <2>1, <2>2, <3>2 DEF InTurn
      <4>2. first[d] \in 1 .. n /\ last[d] \in 1 .. n /\ first[d] <= last[d] /\ last[c] \in 1 .. n
        BY <1>3
      <4> QED
        BY <4>1, <4>2
    <3> QED
      BY <1>5, <3>1, <3>2
  <2>4. last[c] \in 1 .. n /\ last[d] \in 1 .. n
    BY <1>3
  <2> QED
    BY <1>2, <1>4, <2>1, <2>2, <2>3, <2>4
<1> QED
  BY <1>1, <1>5 DEF Rises, pairs

(* A tree in the making, and one that is built.                            *)
LEMMA ShapeMemory ==
  ASSUME FanoutAssumption, NEW b, NEW t, NEW n \in Nat \ {0}, n = Len(b), NEW srt, SortedData(b, t, srt),
         NEW mem, NEW first, NEW last, NEW top, Shape(mem, srt, n, first, last, top)
  PROVE  Memory(mem, n, top)
<1>1. /\ top \in Nat /\ top >= n + 2 /\ DOMAIN mem = 1 .. top - 1
      /\ \A a \in 2 .. n + 1 : mem[a] = DataBlock(srt, n, a)
  BY DEF Shape, DataBlocks
<1>2. ASSUME NEW a \in 2 .. n + 1 PROVE BlockTyped(mem, n, a) /\ BlockConsistent(mem, a)
  <2>1. n \in 0 .. n /\ DataUpTo(mem, srt, n, n)
    BY <1>1 DEF DataUpTo
  <2> QED
    BY <1>1, <2>1, DataMemory
<1>3. ASSUME NEW a \in n + 2 .. top - 1 PROVE BlockTyped(mem, n, a) /\ BlockConsistent(mem, a)
  <2>1. /\ mem[a].type = "node" /\ Len(mem[a].pairs) \in 1 .. Fanout
        /\ \A i \in DOMAIN mem[a].pairs : /\ mem[a].pairs[i].address \in 2 .. a - 1
                                          /\ mem[a].pairs[i].key = srt[last[mem[a].pairs[i].address]].key
    <3>1. NodeOf(mem, srt, first, last, a)
      BY NodePairs
    <3> QED
      BY <3>1 DEF NodeOf
  <2>2. BlockTyped(mem, n, a)
    BY <2>1 DEF BlockTyped, META
  <2>3. ASSUME NEW i \in DOMAIN mem[a].pairs
        PROVE  mem[a].pairs[i].key = KeyOf(mem[mem[a].pairs[i].address])
    <3>1. PICK c \in 2 .. top - 1 : c = mem[a].pairs[i].address
      BY <1>1, <2>1
    <3>2. EndsAt(mem, srt, last, c)
      BY KeyOfBlock
    <3> QED
      BY <2>1, <3>1, <3>2 DEF EndsAt
  <2>4. Rises(mem[a].pairs)
    BY NodeRises
  <2> QED
    BY <2>1, <2>2, <2>3, <2>4 DEF BlockConsistent
<1>4. \A a \in 2 .. top - 1 : a \in 2 .. n + 1 \/ a \in n + 2 .. top - 1
  BY <1>1
<1> QED
  BY <1>1, <1>2, <1>3, <1>4 DEF Memory

(* A tree before its first data block.                                     *)
LEMMA NewMemory ==
  ASSUME NEW n
  PROVE  Memory(NewStorage.memory, n, NewStorage.locationCounter) /\ NewStorage.memory[META] = EMPTY
<1>1. NewStorage.locationCounter = 2 /\ DOMAIN NewStorage.memory = 1 .. 1 /\ NewStorage.memory[META] = EMPTY
  BY DEF NewStorage, META
<1>2. \A a : a \notin 2 .. 2 - 1
  OBVIOUS
<1> QED
  BY <1>1, <1>2 DEF Memory

(* A tree whose data layer is begun.                                       *)
LEMMA PartMemory ==
  ASSUME NEW b, NEW t, NEW n \in Nat \ {0}, n = Len(b), NEW srt, SortedData(b, t, srt),
         NEW mem, NEW top, NEW k \in 0 .. n - 1, DataOK(mem, top, srt, n, k)
  PROVE  Memory(mem, n, top)
<1>1. top = k + 2 /\ DOMAIN mem = 1 .. k + 1 /\ DataUpTo(mem, srt, n, k) /\ k \in 0 .. n
  BY DEF DataOK, DataUpTo
<1>2. top \in Nat /\ top >= 2 /\ DOMAIN mem = 1 .. top - 1 /\ top - 1 = k + 1
  BY <1>1
<1>3. ASSUME NEW a \in 2 .. top - 1 PROVE BlockTyped(mem, n, a) /\ BlockConsistent(mem, a)
  BY <1>1, <1>2, DataMemory
<1> QED
  BY <1>2, <1>3 DEF Memory

(* A tree whose node layers are begun.                                     *)
LEMMA LayeredMemory ==
  ASSUME FanoutAssumption, NEW b, NEW t, NEW n \in Nat \ {0}, n = Len(b), NEW srt, SortedData(b, t, srt),
         NEW mem, NEW top, NEW pairs, Layered(mem, srt, n, top, pairs)
  PROVE  Memory(mem, n, top)
<1>1. PICK first, last : Shape(mem, srt, n, first, last, top)
  BY DEF Layered
<1> QED
  BY <1>1, ShapeMemory

(* A tree that is built.                                                   *)
LEMMA TreeMemory ==
  ASSUME FanoutAssumption, NEW b, NEW t, NEW n \in Nat \ {0}, n = Len(b), NEW mem, NEW top, NEW rt,
         IsTree(b, t, mem, top, rt)
  PROVE  Memory(mem, n, top) /\ mem[META] = rt /\ rt \in 2 .. top - 1
<1>1. PICK srt, first, last : Tree(b, t, mem, top, rt, srt, first, last)
  BY DEF IsTree
<1>2. /\ SortedData(b, t, srt) /\ Shape(mem, srt, n, first, last, top)
      /\ rt \in n + 2 .. top - 1 /\ mem[META] = rt
  BY <1>1 DEF Tree
<1>3. Memory(mem, n, top)
  BY <1>2, ShapeMemory
<1>4. top \in Nat
  BY <1>2 DEF Shape
<1> QED
  BY <1>2, <1>3, <1>4

Rooted(t) ==
  /\ Memory(storage[t].memory, Len(bins), storage[t].locationCounter)
  /\ storage[t].memory[META] = root[t]
  /\ root[t] \in 2 .. storage[t].locationCounter - 1 \cup {EMPTY}

(* A tree that is being built, up to its last step.                        *)
LEMMA BuildingMemory ==
  ASSUME FanoutAssumption, InputAssumption, Invariant, pc \in Building
  PROVE  Rooted(tree)
<1>1. /\ bins \in Inputs /\ Len(bins) \in Nat \ {0}
  BY InputFacts DEF Invariant
<1>2. root[tree] = EMPTY /\ storage[tree].memory[META] = EMPTY
  BY DEF Invariant, TreesOK
<1>3. Memory(storage[tree].memory, Len(bins), storage[tree].locationCounter)
  <2>1. CASE pc = "sort"
    <3>1. storage[tree] = NewStorage
      BY <2>1 DEF Invariant, BuildOK
    <3> QED
      BY <3>1, NewMemory
  <2>2. CASE pc = "data"
    <3>1. SortedData(bins, tree, data)
      BY <2>2 DEF Invariant, BuildOK
    <3>2. PICK k \in 0 .. Len(bins) - 1 :
            DataOK(storage[tree].memory, storage[tree].locationCounter, data, Len(bins), k)
      BY <2>2 DEF Invariant, BuildOK
    <3> QED
      BY <1>1, <3>1, <3>2, PartMemory
  <2>3. CASE pc \in {"push", "root"}
    <3>1. /\ SortedData(bins, tree, data)
          /\ Layered(storage[tree].memory, data, Len(bins), storage[tree].locationCounter, layer)
      BY <2>3 DEF Invariant, BuildOK
    <3> QED
      BY <1>1, <3>1, LayeredMemory
  <2> QED
    BY <2>1, <2>2, <2>3 DEF Building
<1> QED
  BY <1>2, <1>3 DEF Rooted

(* Both trees.                                                             *)
LEMMA Memories ==
  ASSUME FanoutAssumption, InputAssumption, Invariant, NEW t \in Trees
  PROVE  Rooted(t)
<1>1. /\ bins \in Inputs /\ Len(bins) \in Nat \ {0} /\ tree \in {1, 2} /\ t \in {1, 2}
  BY InputFacts DEF Invariant, Trees
<1>2. ASSUME TreeOf(t) PROVE Rooted(t)
  <2>1. IsTree(bins, t, storage[t].memory, storage[t].locationCounter, root[t])
    BY <1>2 DEF TreeOf
  <2> QED
    BY <1>1, <2>1, TreeMemory DEF Rooted
<1>3. CASE pc \in Building
  <2>1. CASE t = tree
    BY <1>3, <2>1, BuildingMemory
  <2>2. CASE t = 1 /\ tree = 2
    <3>1. TreeOf(t)
      BY <1>3, <2>2 DEF Invariant, TreesOK
    <3> QED
      BY <1>2, <3>1
  <2>3. CASE t = 2 /\ tree = 1
    <3>1. storage[t] = NewStorage /\ root[t] = EMPTY
      BY <1>3, <2>3 DEF Invariant, TreesOK
    <3> QED
      BY <3>1, NewMemory DEF Rooted
  <2> QED
    BY <1>1, <2>1, <2>2, <2>3
<1>4. CASE pc \notin Building
  <2>1. TreeOf(t)
    BY <1>1, <1>4 DEF Invariant, TreesOK
  <2> QED
    BY <1>2, <2>1
<1> QED
  BY <1>3, <1>4

(* The invariant says that the blocks are consistent.                      *)
LEMMA InvariantConsistent ==
  ASSUME FanoutAssumption, InputAssumption, Invariant
  PROVE  Consistent
<1>1. ASSUME NEW t \in Trees, NEW a \in DOMAIN storage[t].memory \ {META}
      PROVE  BlockConsistent(storage[t].memory, a)
  <2>1. Memory(storage[t].memory, Len(bins), storage[t].locationCounter)
    BY Memories DEF Rooted
  <2>2. a \in 2 .. storage[t].locationCounter - 1
    BY <2>1 DEF Memory, META
  <2> QED
    BY <2>1, <2>2 DEF Memory
<1> QED
  BY <1>1 DEF Consistent, BlockConsistent, Rises

(* No more bins are found than two searches can find.                      *)
LEMMA FoundBound ==
  ASSUME InputAssumption, Invariant, pc = "search"
  PROVE  /\ Len(filterBins) <= 2 * Len(bins)
         /\ address \in 2 .. storage[tree].locationCounter - 1
<1>1. PICK n \in Nat \ {0} : n = Len(bins)
  BY InputFacts DEF Invariant
<1> DEFINE top == storage[tree].locationCounter
<1>2. SearchAt(bins, tree, storage[tree].memory, top, root[tree], query, address, filterBins)
  BY DEF Invariant, SearchOK
<1>3. PICK srt, first, last, ids, m :
        /\ Tree(bins, tree, storage[tree].memory, top, root[tree], srt, first, last)
        /\ address \in 2 .. top - 1
        /\ At(srt, first, last, Len(bins), root[tree], address, SearchStart(query, tree), SearchEnd(query, tree), ids, m)
        /\ Gathered(filterBins, bins, query, tree, ids, m)
  BY <1>2 DEF SearchAt
<1>4. Spans(n, top, root[tree], first, last)
  BY <1>1, <1>3, TreeFacts
<1> HIDE DEF top
<1>5. m \in 0 .. n
  <2>1. first[address] \in 1 .. n /\ address \in Int
    BY <1>3, <1>4 DEF Spans
  <2>2. (address > n + 1 => m = 0) /\ (address <= n + 1 => m \in 0 .. first[address] - 1)
    BY <1>1, <1>3 DEF At
  <2> QED
    BY <2>1, <2>2
<1>6. /\ filterBins \in Seq(1 .. Len(bins))
      /\ Len(filterBins) <= (IF tree = 2 THEN Len(bins) ELSE 0) + m
  BY <1>3 DEF Gathered
<1>7. PICK len \in Nat : len = Len(filterBins)
  BY <1>6, LenProperties
<1> QED
  BY <1>1, <1>3, <1>5, <1>6, <1>7 DEF top

(* The invariant says that all variables have their types.                 *)
LEMMA InvariantType ==
  ASSUME FanoutAssumption, InputAssumption, Invariant
  PROVE  TypeOK
<1>1. /\ bins \in Inputs /\ Len(bins) \in Nat \ {0} /\ DOMAIN bins = 1 .. Len(bins)
      /\ tree \in Trees /\ pc \in Building \cup Searching \cup {"idle"}
  BY InputFacts DEF Invariant
<1>2. pc \in {"sort", "data", "push", "root", "idle", "search", "filter", "difference"}
  BY <1>1 DEF Building, Searching
<1>3. query \in Queries \cup {<<>>} /\ (allBins = <<>> \/ allBins = [i \in DOMAIN bins |-> i])
  BY <1>1 DEF Invariant, QueryOK
<1>4. ASSUME NEW t \in Trees
      PROVE  /\ DOMAIN storage[t].memory = META .. storage[t].locationCounter - 1
             /\ root[t] \in DOMAIN storage[t].memory \cup {EMPTY}
             /\ storage[t].memory[META] = root[t]
             /\ \A a \in DOMAIN storage[t].memory \ {META} : BlockTyped(storage[t].memory, Len(bins), a)
  <2>1. /\ Memory(storage[t].memory, Len(bins), storage[t].locationCounter)
        /\ storage[t].memory[META] = root[t]
        /\ root[t] \in 2 .. storage[t].locationCounter - 1 \cup {EMPTY}
    BY Memories DEF Rooted
  <2>2. DOMAIN storage[t].memory = 1 .. storage[t].locationCounter - 1 /\ storage[t].locationCounter \in Nat
    BY <2>1 DEF Memory
  <2>3. \A a \in 2 .. storage[t].locationCounter - 1 : BlockTyped(storage[t].memory, Len(bins), a)
    BY <2>1 DEF Memory
  <2>4. DOMAIN storage[t].memory \ {META} = 2 .. storage[t].locationCounter - 1
    BY <2>2 DEF META
  <2> QED
    BY <2>1, <2>2, <2>3, <2>4 DEF META
<1>5. pc = "search" => address \in DOMAIN storage[tree].memory \ {META}
  <2>1. ASSUME pc = "search" PROVE address \in DOMAIN storage[tree].memory \ {META}
    <3>1. address \in 2 .. storage[tree].locationCounter - 1
      BY <2>1, FoundBound
    <3>2. DOMAIN storage[tree].memory = 1 .. storage[tree].locationCounter - 1
      BY <1>1, <1>4 DEF META
    <3> QED
      BY <3>1, <3>2 DEF META
  <2> QED
    BY <2>1
<1>6. Len(filterBins) \in Nat /\ Len(filterBins) <= 2 * Len(bins)
  <2>1. CASE pc \in Building \cup {"idle"}
    <3>1. filterBins = <<>>
      BY <2>1 DEF Invariant, QueryOK
    <3> QED
      BY <1>1, <3>1
  <2>2. CASE pc = "search"
    <3>1. Len(filterBins) <= 2 * Len(bins)
      BY <2>2, FoundBound
    <3>2. filterBins \in Seq(1 .. Len(bins))
      BY <2>2 DEF Invariant, SearchOK, SearchAt, Gathered
    <3> QED
      BY <3>1, <3>2, LenProperties
  <2>3. CASE pc = "filter"
    <3>1. filterBins \in Seq(1 .. Len(bins)) /\ Len(filterBins) <= Len(bins) + Len(bins)
      BY <2>3 DEF Invariant, SearchOK, Gathered
    <3>2. Len(filterBins) \in Nat
      BY <3>1, LenProperties
    <3> QED
      BY <1>1, <3>1, <3>2
  <2>4. CASE pc = "difference"
    <3>1. Len(filterBins) \in 0 .. 2 * Len(bins)
      BY <2>4, DifferenceState DEF Kept
    <3> QED
      BY <1>1, <3>1
  <2> QED
    BY <1>1, <2>1, <2>2, <2>3, <2>4 DEF Searching
<1>7. it1 \in 1 .. Len(bins) + 1 /\ it2 \in 1 .. Len(filterBins) + 1 /\ Len(resultSet) < it1
  <2>1. CASE pc # "difference"
    <3>1. it1 = 1 /\ it2 = 1 /\ resultSet = <<>>
      BY <2>1 DEF Invariant, QueryOK
    <3> QED
      BY <1>1, <1>6, <3>1
  <2>2. CASE pc = "difference"
    BY <2>2, DifferenceState DEF Kept
  <2> QED
    BY <2>1, <2>2
<1> QED
  BY <1>1, <1>2, <1>3, <1>4, <1>5, <1>6, <1>7 DEF TypeOK, BlockTyped

(* A bin index is well typed in every reachable state: the blocks of a     *)
(* tree lead to blocks that were stored before them, a search is at one of *)
(* them, and it1 and it2 do not run past the ends of their lists.          *)
THEOREM TypeCorrect == Spec => []TypeOK
<1>1. Invariant => TypeOK
  BY FanoutAssumption, InputAssumption, InvariantType
<1> QED
  BY <1>1, InvariantHolds, PTL

(* checkConsistency holds for every block of every tree.                   *)
THEOREM AlwaysConsistent == Spec => []Consistent
<1>1. Invariant => Consistent
  BY FanoutAssumption, InputAssumption, InvariantConsistent
<1> QED
  BY <1>1, InvariantHolds, PTL

-----------------------------------------------------------------------------
(* The filter on ranges.  An answer is the list of a set of bins; where a  *)
(* promise is made, they are those whose range meets the query's.          *)
LEMMA AnswerFilters ==
  ASSUME InputAssumption, Invariant, Answer
  PROVE  ByRange!Answer
<1>1. /\ pc = "difference" /\ (Both => allBins[it1] > filterBins[it2])
      /\ selectedBins' = resultSet \o SubSeq(allBins, it1, Len(allBins))
      /\ query' = <<>> /\ bins' = bins
  BY DEF Answer, built
<1>2. /\ bins \in Inputs /\ query \in Queries /\ Len(bins) \in Nat /\ DOMAIN bins = 1 .. Len(bins)
      /\ allBins = [i \in 1 .. Len(bins) |-> i] /\ Len(allBins) = Len(bins)
      /\ Promises(bins, query) \in BOOLEAN
      /\ Kept(Promises(bins, query), filterBins, it1, it2, resultSet, Len(bins), Excluded(bins, query))
      /\ it1 \in 1 .. Len(bins) + 1 /\ (it1 <= Len(bins) => allBins[it1] = it1)
  BY <1>1, DifferenceState
<1>3. it1 <= Len(bins) /\ it2 <= Len(filterBins) => it1 > filterBins[it2]
  BY <1>1, <1>2 DEF Both
<1>4. selectedBins' = resultSet \o SubSeq(allBins, it1, Len(bins))
  BY <1>1, <1>2
<1>5. /\ selectedBins' \in Seq(1 .. Len(bins)) /\ Rising(selectedBins')
      /\ Promises(bins, query) => Range(selectedBins') = {x \in 1 .. Len(bins) : x \notin Excluded(bins, query)}
  <2>1. Chosen(Promises(bins, query), selectedBins', Len(bins), Excluded(bins, query))
    BY <1>2, <1>3, <1>4, KeptAnswer
  <2> QED
    BY <2>1 DEF Chosen
<1>6. selectedBins' = ByRange!IdsIn(Range(selectedBins')) /\ Range(selectedBins') \in SUBSET DOMAIN bins
  BY <1>2, <1>5, RisingIds
<1>7. {x \in 1 .. Len(bins) : x \notin Excluded(bins, query)} = {i \in DOMAIN bins : ByRange!Meets(bins[i], query)}
  BY <1>2 DEF Excluded
<1>8. ByRange!Promised(query) => Range(selectedBins') = {i \in DOMAIN bins : ByRange!Meets(bins[i], query)}
  BY <1>5, <1>7 DEF ByRange!Promised, Promises
<1>9. query # <<>>
  BY <1>2 DEF InputAssumption
<1> QED
  BY <1>1, <1>6, <1>8, <1>9 DEF ByRange!Answer, ByRange!NoQuery

(* A query is asked when none is.                                          *)
LEMMA AskFilters ==
  ASSUME Invariant, Ask
  PROVE  ByRange!Ask
<1>1. pc = "idle" /\ query' \in Queries /\ bins' = bins /\ selectedBins' = selectedBins
  BY DEF Ask, built
<1>2. query = <<>>
  BY <1>1 DEF Invariant, QueryOK
<1> QED
  BY <1>1, <1>2 DEF ByRange!Ask, ByRange!NoQuery

(* Every other step is one that the filter on ranges does not see.         *)
LEMMA StepFilters ==
  ASSUME InputAssumption, Invariant, [Next]_vars
  PROVE  [ByRange!Next]_ByRange!vars
<1>1. CASE Build
  <2>1. bins' = bins /\ query' = query /\ selectedBins' = selectedBins
    BY <1>1 DEF Build, Sort, CreateDataBlock, PushLayer, SetRoot, asking
  <2> QED
    BY <2>1 DEF ByRange!vars
<1>2. CASE Ask
  BY <1>2, AskFilters DEF ByRange!Next
<1>3. CASE Descend \/ Collect \/ LeaveRange \/ Filter \/ Drop \/ Keep
  <2>1. bins' = bins /\ query' = query /\ selectedBins' = selectedBins
    BY <1>3 DEF Descend, Collect, LeaveRange, Filter, Drop, Keep, built
  <2> QED
    BY <2>1 DEF ByRange!vars
<1>4. CASE Answer
  BY <1>4, AnswerFilters DEF ByRange!Next
<1>5. CASE UNCHANGED vars
  BY <1>5 DEF vars, ByRange!vars
<1> QED
  BY <1>1, <1>2, <1>3, <1>4, <1>5 DEF Next, Select

(* The index implements the filter on ranges: whatever the order of equal  *)
(* keys in the trees, idxSelect leaves out no bin with a record that can   *)
(* qualify and returns none without.                                       *)
THEOREM IndexFilters == Spec => ByRange!Answers
<1>1. Init => ByRange!Init
  BY DEF Init, ByRange!Init, ByRange!NoQuery
<1>2. Invariant /\ [Next]_vars => [ByRange!Next]_ByRange!vars
  BY InputAssumption, StepFilters
<1> QED
  BY <1>1, <1>2, InvariantHolds, PTL DEF Spec, ByRange!Answers
=============================================================================
