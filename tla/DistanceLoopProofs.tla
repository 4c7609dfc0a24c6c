------------------------ MODULE DistanceLoopProofs -------------------------
(***************************************************************************)
(* The loops that move rows by powers of two are correct: compactMeta with *)
(* its variants (Compaction) and expand (Expansion).                       *)
(***************************************************************************)
EXTENDS Compaction, Expansion, TLAPS

-----------------------------------------------------------------------------
(* Division with remainder.                                                *)
LEMMA Quotient ==
  ASSUME NEW d \in Nat, NEW m \in Nat \ {0}
  PROVE  \E q \in Nat : d = m * q + (d % m) /\ d % m \in 0 .. m - 1
<1>1. d = m * (d \div m) + (d % m) /\ d \div m \in Nat /\ d % m \in 0 .. m - 1
  OBVIOUS
<1> QED
  BY <1>1

LEMMA Remainder ==
  ASSUME NEW m \in Nat \ {0}, NEW q \in Nat, NEW r \in 0 .. m - 1
  PROVE  (m * q + r) % m = r
OBVIOUS

-----------------------------------------------------------------------------
(***************************************************************************)
(* Compaction is correct for an array of any size and any set of marked    *)
(* rows.  The argument follows a marked row through the levels: while it   *)
(* moves, the difference between its position and its remaining distance,  *)
(* the place it is going to, never changes.  Two marked rows never meet,   *)
(* because places and distances are both ordered as positions are: when    *)
(* row j has to move `step' and another marked row p lies less than that   *)
(* to its left, their distances differ by less than `step', while one is   *)
(* an odd and the other an even multiple of it.                            *)
(***************************************************************************)
-----------------------------------------------------------------------------
(* Remainders by a power of two and by the next one.                       *)

(* A multiple of 2 * s is a multiple of s.                                 *)
LEMMA EvenMultiple ==
  ASSUME NEW d \in Nat, NEW s \in Nat \ {0}, d % (2 * s) = 0
  PROVE  d % s = 0
<1>1. 2 * s \in Nat \ {0}
  OBVIOUS
<1>2. PICK q \in Nat : d = (2 * s) * q + (d % (2 * s))
  BY <1>1, Quotient
<1>3. d = s * (2 * q) + 0
  BY <1>2
<1>4. 2 * q \in Nat /\ 0 \in 0 .. s - 1
  OBVIOUS
<1>5. (s * (2 * q) + 0) % s = 0
  BY <1>4, Remainder
<1> QED
  BY <1>3, <1>5

(* A multiple of s is an even or an odd one.                               *)
LEMMA EvenOrOdd ==
  ASSUME NEW d \in Nat, NEW s \in Nat \ {0}, d % s = 0
  PROVE  d % (2 * s) = 0 \/ d % (2 * s) = s
<1>1. 2 * s \in Nat \ {0} /\ 0 \in 0 .. 2 * s - 1 /\ s \in 0 .. 2 * s - 1
  OBVIOUS
<1>2. PICK q \in Nat : d = s * q + (d % s)
  BY Quotient
<1>3. PICK h \in Nat : q = 2 * h \/ q = 2 * h + 1
  <2> WITNESS q \div 2 \in Nat
  <2> QED
    OBVIOUS
<1>4. CASE q = 2 * h
  <2>1. d = (2 * s) * h + 0
    BY <1>2, <1>4
  <2>2. ((2 * s) * h + 0) % (2 * s) = 0
    BY <1>1, Remainder
  <2> QED
    BY <2>1, <2>2
<1>5. CASE q = 2 * h + 1
  <2>1. d = s * (2 * h + 1)
    BY <1>2, <1>5
  <2>2. d = (2 * s) * h + s
    BY <2>1
  <2>3. ((2 * s) * h + s) % (2 * s) = s
    BY <1>1, Remainder
  <2> QED
    BY <2>2, <2>3
<1> QED
  BY <1>3, <1>4, <1>5

(* An odd multiple loses its lowest bit when s is taken away.              *)
LEMMA OddMultiple ==
  ASSUME NEW d \in Nat, NEW s \in Nat \ {0}, d % (2 * s) = s
  PROVE  d >= s /\ (d - s) % (2 * s) = 0
<1>1. 2 * s \in Nat \ {0} /\ 0 \in 0 .. 2 * s - 1
  OBVIOUS
<1>2. PICK q \in Nat : d = (2 * s) * q + (d % (2 * s))
  BY <1>1, Quotient
<1>3. d - s = (2 * s) * q + 0
  BY <1>2
<1>4. (2 * s) * q >= 0
  BY <1>1
<1>5. ((2 * s) * q + 0) % (2 * s) = 0
  BY <1>1, Remainder
<1> QED
  BY <1>3, <1>4, <1>5

(* A multiple of s below s is zero.                                        *)
LEMMA SmallMultiple ==
  ASSUME NEW d \in Nat, NEW s \in Nat \ {0}, d % s = 0, d < s
  PROVE  d = 0
OBVIOUS

(* An odd multiple that is not below an even one is at least s above it.   *)
LEMMA OddAboveEven ==
  ASSUME NEW a \in Nat, NEW b \in Nat, NEW s \in Nat \ {0},
         a % (2 * s) = s, b % (2 * s) = 0, a >= b
  PROVE  a - b >= s
<1>1. 2 * s \in Nat \ {0}
  OBVIOUS
<1>2. PICK p \in Nat : a = (2 * s) * p + (a % (2 * s))
  BY <1>1, Quotient
<1>3. PICK q \in Nat : b = (2 * s) * q + (b % (2 * s))
  BY <1>1, Quotient
<1>4. ASSUME NEW w \in Nat \ {0}, NEW n \in Nat, n < w, w * p + n >= w * q
      PROVE  p >= q
  <2> SUFFICES ASSUME p < q PROVE FALSE
    OBVIOUS
  <2>1. q - p - 1 \in Nat
    OBVIOUS
  <2>2. w * (q - p - 1) >= 0
    BY <2>1
  <2>3. w * (q - p - 1) = w * q - w * p - w
    OBVIOUS
  <2> QED
    BY <1>4, <2>2, <2>3
<1>5. p - q \in Nat
  BY <1>1, <1>2, <1>3, <1>4, s < 2 * s
<1>6. (2 * s) * (p - q) >= 0
  BY <1>1, <1>5
<1>7. (2 * s) * (p - q) = (2 * s) * p - (2 * s) * q
  BY <1>1
<1> QED
  BY <1>2, <1>3, <1>6, <1>7
-----------------------------------------------------------------------------
(* The parts of the inductive invariant while the loops run.               *)
Working ==
  /\ MeasuringPass
  /\ TargetsAreTheFirst
  /\ TravellersInOrder
  /\ OthersStay
  /\ LevelsDone
  /\ NoRowLost
  /\ out1 = NoRows /\ out2 = NoRows

Inv ==
  /\ TypeOK
  /\ phase # "done" => Working
  /\ CallerGetsMarked

(* What the type invariant says while the loops run.                       *)
LEMMA TypeFacts ==
  ASSUME TypeOK, phase # "done"
  PROVE  /\ mem \in [Index -> Index] /\ dist \in [Index -> Nat]
         /\ counter \in Nat /\ counter <= N /\ index \in Nat
         /\ step \in Nat \ {0} /\ marked \subseteq Index /\ N \in Nat
BY SizeAssumption DEF TypeOK

LEMMA InitInv == Init => Inv
<1> USE SizeAssumption
<1> SUFFICES ASSUME Init PROVE Inv
  OBVIOUS
<1>1. TypeOK
  <2>1. mem \in [Index -> Index] /\ dist \in [Index -> Nat] /\ phase # "done"
    BY DEF Init, Index
  <2>2. NoRows \in [0 .. 0 - 1 -> Index \cup {Zero}] /\ 0 \in 0 .. MaxSize
    BY DEF NoRows
  <2>3. IsArray(NoRows)
    BY <2>2 DEF IsArray
  <2>4. counter \in 0 .. N /\ step \in Nat \ {0} /\ index \in Nat
    BY DEF Init
  <2>5. marked \subseteq Index /\ out1 = NoRows /\ out2 = NoRows /\ phase = "measure"
    BY DEF Init
  <2> QED
    BY <2>1, <2>3, <2>4, <2>5 DEF TypeOK
<1>2. Working
  BY DEF Init, Working, MeasuringPass, TargetsAreTheFirst, TravellersInOrder,
         OthersStay, LevelsDone, NoRowLost, Measured, Travellers, Index
<1>3. CallerGetsMarked
  BY DEF Init, CallerGetsMarked
<1> QED
  BY <1>1, <1>2, <1>3 DEF Inv

LEMMA MeasureMarkedInv == Inv /\ MeasureMarked => Inv'
<1> SUFFICES ASSUME Inv, MeasureMarked PROVE Inv'
  OBVIOUS
<1> USE DEF Index
<1>1. /\ TypeOK /\ phase = "measure" /\ phase' = "measure" /\ Working
      /\ mem[index] \in marked /\ index < N /\ index' = index + 1 /\ counter' = counter + 1
      /\ mem' = mem /\ marked' = marked /\ step' = step
      /\ out1' = out1 /\ out2' = out2
      /\ dist' = [dist EXCEPT ![index] = index - counter]
  BY DEF Inv, MeasureMarked
<1>2. /\ mem \in [Index -> Index] /\ dist \in [Index -> Nat] /\ N \in Nat
      /\ counter \in Nat /\ index \in Nat /\ index \in Index
  BY <1>1, TypeFacts
<1>3. counter <= index /\ mem[index] = index /\ step = 1 /\ index - counter \in Nat
  BY <1>1, <1>2 DEF Working, MeasuringPass
<1>4. dist' \in [Index -> Nat]
  BY <1>1, <1>2, <1>3
<1>5. \A p \in Index : dist'[p] = IF p = index THEN index - counter ELSE dist[p]
  BY <1>1, <1>2
<1>6. TypeOK'
  <2>1. (index + 1) \in Nat /\ (counter + 1) \in 0 .. N
    BY <1>1, <1>2, <1>3
  <2> QED
    BY <2>1, <1>1, <1>4 DEF TypeOK, IsArray
<1>7. Travellers' = Travellers \cup {index} /\ Measured' = Measured \cup {index}
  BY <1>1, <1>2 DEF Travellers, Measured
<1>8. \A p \in Travellers : /\ p \in Index /\ p < index /\ mem[p] = p
                           /\ dist[p] <= p /\ dist[p] <= index - counter
                           /\ p - dist[p] < counter /\ dist'[p] = dist[p]
  BY <1>1, <1>2, <1>5
     DEF Travellers, Measured, Working, MeasuringPass, TargetsAreTheFirst
<1>9. dist'[index] = index - counter /\ index - dist'[index] = counter
  BY <1>2, <1>5
<1>10. MeasuringPass'
  <2>1. \A p \in Travellers' : dist'[p] <= index' - counter'
    <3>1. index' - counter' = index - counter
      BY <1>1, <1>2
    <3>2. dist'[index] <= index - counter
      BY <1>9, <1>3
    <3> QED
      BY <3>1, <3>2, <1>7, <1>8
  <2> QED
    BY <2>1, <1>1, <1>2, <1>3 DEF Working, MeasuringPass
<1>11. TargetsAreTheFirst'
  <2>1. ASSUME NEW p \in Travellers'
        PROVE  dist'[p] <= p /\ p - dist'[p] < counter'
    <3>1. CASE p = index
      BY <3>1, <1>1, <1>2, <1>9
    <3>2. CASE p \in Travellers
      <4>1. /\ p \in Index /\ dist'[p] = dist[p] /\ dist[p] \in Nat
            /\ dist[p] <= p /\ p - dist[p] < counter
        BY <3>2, <1>2, <1>8
      <4> QED
        BY <4>1, <1>1, <1>2
    <3> QED
      BY <1>7, <3>1, <3>2
  <2>2. ASSUME NEW c \in 0 .. counter' - 1
        PROVE  \E p \in Travellers' : p - dist'[p] = c
    <3>1. CASE c = counter
      BY <3>1, <1>7, <1>9
    <3>2. CASE c \in 0 .. counter - 1
      <4>1. PICK p \in Travellers : p - dist[p] = c
        BY <3>2, <1>1 DEF Working, TargetsAreTheFirst
      <4> QED
        BY <4>1, <1>7, <1>8
    <3> QED
      BY <1>1, <1>2, <3>1, <3>2
  <2> QED
    BY <2>1, <2>2 DEF TargetsAreTheFirst
<1>12. TravellersInOrder'
  <2> SUFFICES ASSUME NEW p \in Travellers', NEW q \in Travellers', p < q
               PROVE  /\ mem[p] < mem[q]
                      /\ dist'[p] <= dist'[q]
                      /\ p - dist'[p] < q - dist'[q]
    BY <1>1 DEF TravellersInOrder
  <2>1. p # index /\ p \in Travellers
    <3>1. q \in Index /\ q <= index
      BY <1>2, <1>7, <1>8
    <3>2. p \in Travellers \cup {index} /\ Travellers \subseteq Index
      BY <1>7, <1>8
    <3>3. p # index
      BY <3>1, <1>2
    <3> QED
      BY <3>2, <3>3
  <2>2. CASE q = index
    BY <2>1, <2>2, <1>2, <1>3, <1>8, <1>9
  <2>3. CASE q \in Travellers
    BY <2>1, <2>3, <1>1, <1>8 DEF Working, TravellersInOrder
  <2> QED
    BY <2>2, <2>3, <1>7
<1>13. OthersStay'
  BY <1>1, <1>5, <1>7 DEF Working, OthersStay, Measured
<1>14. LevelsDone' /\ NoRowLost' /\ out1' = NoRows /\ out2' = NoRows
  BY <1>1 DEF Working, LevelsDone, NoRowLost
<1>15. CallerGetsMarked'
  BY <1>1 DEF CallerGetsMarked
<1> QED
  BY <1>6, <1>10, <1>11, <1>12, <1>13, <1>14, <1>15 DEF Inv, Working

LEMMA MeasureOtherInv == Inv /\ MeasureOther => Inv'
<1> SUFFICES ASSUME Inv, MeasureOther PROVE Inv'
  OBVIOUS
<1> USE DEF Index
<1>1. /\ TypeOK /\ phase = "measure" /\ phase' = "measure" /\ Working
      /\ mem[index] \notin marked /\ index < N /\ index' = index + 1 /\ counter' = counter
      /\ mem' = mem /\ marked' = marked /\ step' = step
      /\ out1' = out1 /\ out2' = out2
      /\ dist' = [dist EXCEPT ![index] = 0]
  BY DEF Inv, MeasureOther
<1>2. /\ mem \in [Index -> Index] /\ dist \in [Index -> Nat] /\ N \in Nat
      /\ counter \in Nat /\ index \in Nat /\ index \in Index
  BY <1>1, TypeFacts
<1>3. dist' \in [Index -> Nat]
  BY <1>1, <1>2
<1>4. \A p \in Index : dist'[p] = IF p = index THEN 0 ELSE dist[p]
  BY <1>1, <1>2
<1>5. TypeOK'
  <2>1. /\ marked' \subseteq Index /\ mem' \in [Index -> Index]
        /\ counter' \in 0 .. N /\ step' \in Nat \ {0}
        /\ IsArray(out1)' /\ IsArray(out2)'
    BY <1>1, <1>2 DEF TypeOK, IsArray
  <2>2. index' \in Nat
    BY <1>1, <1>2
  <2> QED
    BY <1>1, <1>3, <2>1, <2>2 DEF TypeOK
<1>6. Travellers' = Travellers /\ Measured' = Measured \cup {index}
  <2>1. Measured' = Measured \cup {index}
    BY <1>1, <1>2 DEF Measured
  <2>2. Travellers' = Travellers
    BY <1>1, <2>1 DEF Travellers
  <2> QED
    BY <2>1, <2>2
<1>7. \A p \in Travellers : p \in Index /\ p < index /\ dist'[p] = dist[p]
  BY <1>1, <1>2, <1>4 DEF Travellers, Measured
<1>8. MeasuringPass'
  <2>1. \A p \in Travellers : dist'[p] <= index' - counter'
    BY <1>1, <1>2, <1>7 DEF Working, MeasuringPass
  <2> QED
    BY <2>1, <1>1, <1>2, <1>6 DEF Working, MeasuringPass
<1>9. TargetsAreTheFirst'
  BY <1>1, <1>6, <1>7 DEF Working, TargetsAreTheFirst
<1>10. TravellersInOrder'
  BY <1>1, <1>6, <1>7 DEF Working, TravellersInOrder
<1>11. OthersStay'
  BY <1>1, <1>4, <1>6 DEF Working, OthersStay, Measured
<1>12. LevelsDone' /\ NoRowLost' /\ out1' = NoRows /\ out2' = NoRows
  BY <1>1 DEF Working, LevelsDone, NoRowLost
<1>13. CallerGetsMarked'
  BY <1>1 DEF CallerGetsMarked
<1> QED
  BY <1>5, <1>8, <1>9, <1>10, <1>11, <1>12, <1>13 DEF Inv, Working

LEMMA EndMeasureInv == Inv /\ EndMeasure => Inv'
<1> SUFFICES ASSUME Inv, EndMeasure PROVE Inv'
  OBVIOUS
<1> USE DEF Index
<1>1. /\ TypeOK /\ Working /\ phase = "measure" /\ phase' = "compact" /\ index = N
      /\ step' = step /\ index' = 1 /\ dist' = dist /\ mem' = mem
      /\ counter' = counter /\ marked' = marked
      /\ out1' = out1 /\ out2' = out2
  BY DEF Inv, EndMeasure
<1>2. step = 1 /\ dist \in [Index -> Nat] /\ N \in Nat
  BY <1>1, TypeFacts DEF Working, MeasuringPass
<1>3. TypeOK'
  BY <1>1 DEF TypeOK
<1>4. Measured = Index /\ Measured' = Index /\ Travellers' = Travellers
  <2>1. Measured = Index
    BY <1>1, <1>2 DEF Measured
  <2>2. Measured' = Index
    BY <1>1 DEF Measured
  <2> QED
    BY <1>1, <2>1, <2>2 DEF Travellers
<1>5. MeasuringPass'
  BY <1>1 DEF MeasuringPass
<1>6. TargetsAreTheFirst' /\ TravellersInOrder'
  BY <1>1, <1>4 DEF Working, TargetsAreTheFirst, TravellersInOrder
<1>7. OthersStay' /\ NoRowLost' /\ out1' = NoRows /\ out2' = NoRows
  BY <1>1, <1>4 DEF Working, OthersStay, NoRowLost
<1>8. LevelsDone'
  <2> SUFFICES ASSUME NEW p \in Travellers
               PROVE  dist[p] % 1 = 0 /\ (p < 1 => dist[p] % (2 * 1) = 0)
    BY <1>1, <1>2, <1>4 DEF LevelsDone
  <2>1. p \in Index /\ dist[p] \in Nat /\ dist[p] <= p
    BY <1>1, <1>2 DEF Working, TargetsAreTheFirst, Travellers, Measured
  <2> QED
    BY <2>1
<1>9. CallerGetsMarked'
  BY <1>1 DEF CallerGetsMarked
<1> QED
  BY <1>3, <1>5, <1>6, <1>7, <1>8, <1>9 DEF Inv, Working

(* A row that is about to move is marked, has at least step to go, and all *)
(* the rows it jumps over, the one it is exchanged with included, are      *)
(* unmarked.                                                               *)
LEMMA SwapIsSafe ==
  ASSUME Inv, Swap
  PROVE  /\ index \in Travellers
         /\ Offset(dist[index]) = step
         /\ dist[index] - step \in Nat
         /\ (dist[index] - step) % (2 * step) = 0
         /\ \A p \in Travellers : p < index => /\ p < index - step
                                         /\ dist[p] <= dist[index] - step
<1> USE DEF Index
<1>1. /\ TypeOK /\ phase = "compact" /\ Working /\ index < N
      /\ Offset(dist[index]) > 0
  BY DEF Inv, Swap
<1>2. /\ mem \in [Index -> Index] /\ dist \in [Index -> Nat] /\ N \in Nat
      /\ step \in Nat \ {0} /\ index \in Index /\ dist[index] \in Nat
  BY <1>1, TypeFacts
<1>3. Measured = Index /\ Travellers \subseteq Index
  BY <1>1 DEF Measured, Travellers
<1>4. index \in Travellers
  <2>1. 0 % (2 * step) = 0
    BY <1>2
  <2>2. dist[index] # 0
    BY <1>1, <2>1 DEF Offset
  <2> QED
    BY <1>1, <1>2, <1>3, <2>2 DEF Working, OthersStay, Travellers
<1>5. dist[index] % step = 0
  BY <1>1, <1>4 DEF Working, LevelsDone
<1>6. dist[index] % (2 * step) = step /\ Offset(dist[index]) = step
  <2>1. dist[index] % (2 * step) = 0 \/ dist[index] % (2 * step) = step
    BY <1>2, <1>5, EvenOrOdd
  <2>2. Offset(dist[index]) = dist[index] % (2 * step)
    BY DEF Offset
  <2> QED
    BY <1>1, <2>1, <2>2
<1>7. dist[index] >= step /\ (dist[index] - step) % (2 * step) = 0
  BY <1>2, <1>6, OddMultiple
<1>8. ASSUME NEW p \in Travellers, p < index
      PROVE  p < index - step /\ dist[p] <= dist[index] - step
  <2>1. p \in Index /\ dist[p] \in Nat
    BY <1>2, <1>3
  <2>2. dist[p] % (2 * step) = 0
    BY <1>1, <1>8 DEF Working, LevelsDone
  <2>3. dist[p] <= dist[index] /\ p - dist[p] < index - dist[index]
    BY <1>1, <1>4, <1>8 DEF Working, TravellersInOrder
  <2>4. dist[index] - dist[p] >= step
    BY <1>2, <1>6, <2>1, <2>2, <2>3, OddAboveEven
  <2> QED
    BY <1>2, <2>1, <2>3, <2>4
<1>9. dist[index] - step \in Nat
  <2>1. dist[index] \in Nat /\ step \in Nat /\ dist[index] >= step
    BY <1>2, <1>7
  <2> QED
    BY <2>1
<1> QED
  BY <1>4, <1>6, <1>7, <1>8, <1>9

LEMMA SwapInv == Inv /\ Swap => Inv'
<1> SUFFICES ASSUME Inv, Swap PROVE Inv'
  OBVIOUS
<1> USE DEF Index
<1> DEFINE goal == index - step
<1>1. /\ TypeOK /\ phase = "compact" /\ phase' = "compact" /\ Working /\ index < N
      /\ index' = index + 1 /\ counter' = counter /\ step' = step /\ marked' = marked
      /\ out1' = out1 /\ out2' = out2
      /\ mem' = [mem EXCEPT ![index] = mem[goal], ![goal] = mem[index]]
      /\ dist' = [dist EXCEPT ![index] = 0, ![goal] = dist[index] - Offset(dist[index])]
  BY DEF Inv, Swap, Exchange
<1>2. /\ mem \in [Index -> Index] /\ dist \in [Index -> Nat] /\ N \in Nat
      /\ step \in Nat \ {0} /\ index \in Index /\ counter \in Nat
  BY <1>1, TypeFacts
<1>3. Measured = Index /\ Measured' = Index /\ Travellers \subseteq Index
  BY <1>1 DEF Measured, Travellers
<1>4. /\ index \in Travellers /\ Offset(dist[index]) = step /\ dist[index] - step \in Nat
      /\ (dist[index] - step) % (2 * step) = 0
      /\ \A p \in Travellers : p < index => /\ p < goal
                                      /\ dist[p] <= dist[index] - step
  BY SwapIsSafe
<1>5. index >= step /\ goal \in Index /\ goal < index /\ index - goal = step
  BY <1>1, <1>2 DEF Working, LevelsDone
<1> HIDE DEF goal
<1>6. mem[goal] \notin marked /\ mem[index] \in marked
  BY <1>3, <1>4, <1>5, <1>2 DEF Travellers
<1>7. \A p \in Index :
        /\ mem'[p] = IF p = goal THEN mem[index] ELSE IF p = index THEN mem[goal] ELSE mem[p]
        /\ dist'[p] = IF p = goal THEN dist[index] - step ELSE IF p = index THEN 0 ELSE dist[p]
  BY <1>1, <1>2, <1>4, <1>5
<1>8. mem' \in [Index -> Index] /\ dist' \in [Index -> Nat]
  BY <1>1, <1>2, <1>4, <1>5
<1>9. TypeOK'
  <2>1. index + 1 \in Nat
    BY <1>2
  <2>2. IsArray(out1)' /\ IsArray(out2)'
    BY <1>1 DEF TypeOK, IsArray
  <2> QED
    BY <2>1, <2>2, <1>1, <1>8 DEF TypeOK
<1>10. /\ goal \in Travellers' /\ index \notin Travellers'
       /\ \A p \in Index \ {goal, index} : p \in Travellers' <=> p \in Travellers
       /\ Travellers' \subseteq Index
  BY <1>1, <1>3, <1>5, <1>6, <1>7, <1>2 DEF Travellers
<1>11. \A p \in Travellers' : p # goal =>
         p \in Travellers /\ p # index /\ mem'[p] = mem[p] /\ dist'[p] = dist[p]
  BY <1>7, <1>10
<1>12. /\ mem'[goal] = mem[index] /\ dist'[goal] = dist[index] - step
       /\ goal - dist'[goal] = index - dist[index]
  <2>1. mem'[goal] = mem[index] /\ dist'[goal] = dist[index] - step
    BY <1>5, <1>7
  <2>2. dist[index] \in Nat /\ goal \in Nat
    BY <1>2, <1>5
  <2> QED
    BY <2>1, <2>2, <1>2, <1>5
<1>13. MeasuringPass'
  BY <1>1 DEF MeasuringPass
<1>14. TargetsAreTheFirst'
  <2>1. ASSUME NEW p \in Travellers'
        PROVE  dist'[p] <= p /\ p - dist'[p] < counter
    <3>1. CASE p = goal
      BY <3>1, <1>1, <1>2, <1>4, <1>5, <1>12 DEF Working, TargetsAreTheFirst
    <3>2. CASE p # goal
      BY <3>2, <1>1, <1>11 DEF Working, TargetsAreTheFirst
    <3> QED
      BY <3>1, <3>2
  <2>2. ASSUME NEW c \in 0 .. counter - 1
        PROVE  \E p \in Travellers' : p - dist'[p] = c
    <3>1. PICK p \in Travellers : p - dist[p] = c
      BY <1>1 DEF Working, TargetsAreTheFirst
    <3>2. CASE p = index
      BY <3>1, <3>2, <1>10, <1>12
    <3>3. CASE p # index
      <4>1. p # goal /\ p \in Index
        BY <1>3, <1>6 DEF Travellers
      <4>2. p \in Travellers' /\ dist'[p] = dist[p]
        BY <3>3, <4>1, <1>10, <1>7
      <4> QED
        BY <3>1, <4>2
    <3> QED
      BY <3>2, <3>3
  <2> QED
    BY <2>1, <2>2, <1>1 DEF TargetsAreTheFirst
<1>15. TravellersInOrder'
  <2> SUFFICES ASSUME NEW p \in Travellers', NEW q \in Travellers', p < q
               PROVE  /\ mem'[p] < mem'[q]
                      /\ dist'[p] <= dist'[q]
                      /\ p - dist'[p] < q - dist'[q]
    BY DEF TravellersInOrder
  <2>0. p \in Index /\ q \in Index
    BY <1>10
  <2>1. CASE q = goal
    <3>0. p # goal /\ p < index
      BY <2>0, <2>1, <1>2, <1>5
    <3>1. p \in Travellers /\ p < index /\ mem'[p] = mem[p] /\ dist'[p] = dist[p]
      BY ONLY p \in Travellers', <3>0, <1>11
    <3>2. mem[p] < mem[index] /\ p - dist[p] < index - dist[index] /\ dist[p] <= dist[index] - step
      BY <3>1, <1>1, <1>4 DEF Working, TravellersInOrder
    <3> QED
      BY <2>1, <3>1, <3>2, <1>12
  <2>2. CASE p = goal
    <3>0. q # goal
      BY <2>0, <2>2
    <3>1. q \in Travellers /\ q # index /\ mem'[q] = mem[q] /\ dist'[q] = dist[q]
      BY ONLY q \in Travellers', <3>0, <1>11
    <3>2. index < q
      BY <2>0, <2>2, <3>1, <1>2, <1>4, <1>5
    <3>3. mem[index] < mem[q] /\ dist[index] <= dist[q] /\ index - dist[index] < q - dist[q]
      BY <3>1, <3>2, <1>1, <1>4 DEF Working, TravellersInOrder
    <3>4. dist[q] \in Nat /\ dist[index] \in Nat
      BY <2>0, <1>2
    <3> QED
      BY <2>2, <3>1, <3>3, <3>4, <1>2, <1>12
  <2>3. CASE p # goal /\ q # goal
    BY <2>3, <1>1, <1>11 DEF Working, TravellersInOrder
  <2> QED
    BY <2>1, <2>2, <2>3
<1>16. OthersStay'
  <2> SUFFICES ASSUME NEW p \in Index, mem'[p] \notin marked PROVE dist'[p] = 0
    BY <1>1, <1>3 DEF OthersStay
  <2>1. p # goal
    BY <1>6, <1>7
  <2>2. CASE p = index
    BY <2>1, <2>2, <1>7
  <2>3. CASE p # index
    BY <2>1, <2>3, <1>1, <1>3, <1>7 DEF Working, OthersStay
  <2> QED
    BY <2>2, <2>3
<1>17. LevelsDone'
  <2>1. index' >= step'
    BY <1>1, <1>2, <1>5
  <2>2. ASSUME NEW p \in Travellers'
        PROVE  dist'[p] % step = 0 /\ (p < index + 1 => dist'[p] % (2 * step) = 0)
    <3>1. CASE p = goal
      BY <3>1, <1>2, <1>4, <1>12, EvenMultiple
    <3>2. CASE p # goal
      <4>1. p \in Index /\ p \in Travellers /\ p # index /\ dist'[p] = dist[p]
        BY <3>2, <1>10, <1>11
      <4>2. p < index + 1 => p < index
        BY <4>1, <1>2
      <4> QED
        BY <4>1, <4>2, <1>1 DEF Working, LevelsDone
    <3> QED
      BY <3>1, <3>2
  <2> QED
    BY <2>1, <2>2, <1>1 DEF LevelsDone
<1>18. NoRowLost'
  <2> SUFFICES ASSUME NEW r \in Index PROVE \E k \in Index : mem'[k] = r
    BY DEF NoRowLost
  <2>1. PICK k \in Index : mem[k] = r
    BY <1>1 DEF Working, NoRowLost
  <2>2. CASE k = index
    BY <2>1, <2>2, <1>5, <1>7
  <2>3. CASE k = goal
    BY <2>1, <2>3, <1>2, <1>5, <1>7
  <2>4. CASE k # index /\ k # goal
    BY <2>1, <2>4, <1>7
  <2> QED
    BY <2>2, <2>3, <2>4
<1>19. CallerGetsMarked' /\ out1' = NoRows /\ out2' = NoRows
  BY <1>1 DEF CallerGetsMarked, Working
<1> QED
  BY <1>9, <1>13, <1>14, <1>15, <1>16, <1>17, <1>18, <1>19, <1>1 DEF Inv, Working

LEMMA KeepInv == Inv /\ Keep => Inv'
<1> SUFFICES ASSUME Inv, Keep PROVE Inv'
  OBVIOUS
<1> USE DEF Index
<1>1. /\ TypeOK /\ phase = "compact" /\ phase' = "compact" /\ Working
      /\ Offset(dist[index]) = 0 /\ index < N /\ index' = index + 1 /\ mem' = mem
      /\ dist' = dist /\ counter' = counter /\ step' = step
      /\ marked' = marked /\ out1' = out1 /\ out2' = out2
  BY DEF Inv, Keep
<1>2. /\ index \in Nat /\ step \in Nat \ {0} /\ N \in Nat
  BY <1>1, TypeFacts
<1>3. TypeOK'
  <2>1. index + 1 \in Nat
    BY <1>2
  <2>2. IsArray(out1)' /\ IsArray(out2)'
    BY <1>1 DEF TypeOK, IsArray
  <2> QED
    BY <2>1, <2>2, <1>1 DEF TypeOK
<1>4. Measured = Index /\ Measured' = Index /\ Travellers' = Travellers
  <2>1. Measured = Index /\ Measured' = Index
    BY <1>1 DEF Measured
  <2> QED
    BY <1>1, <2>1 DEF Travellers
<1>5. MeasuringPass' /\ NoRowLost' /\ out1' = NoRows /\ out2' = NoRows
  BY <1>1 DEF Working, MeasuringPass, NoRowLost
<1>6. TargetsAreTheFirst' /\ TravellersInOrder' /\ OthersStay'
  BY <1>1, <1>4 DEF Working, TargetsAreTheFirst, TravellersInOrder, OthersStay
<1>7. LevelsDone'
  <2> SUFFICES ASSUME NEW p \in Travellers, p < index + 1
               PROVE  dist[p] % (2 * step) = 0
    BY <1>1, <1>2, <1>4 DEF Working, LevelsDone
  <2>1. p \in Nat
    BY <1>4 DEF Travellers
  <2>2. CASE p = index
    BY <2>2, <1>1 DEF Offset
  <2>3. CASE p < index
    BY <2>3, <1>1 DEF Working, LevelsDone
  <2> QED
    BY <2>1, <2>2, <2>3, <1>2
<1>8. CallerGetsMarked'
  BY <1>1 DEF CallerGetsMarked
<1> QED
  BY <1>3, <1>5, <1>6, <1>7, <1>8 DEF Inv, Working

LEMMA NextLevelInv == Inv /\ NextLevel => Inv'
<1> SUFFICES ASSUME Inv, NextLevel PROVE Inv'
  OBVIOUS
<1> USE DEF Index
<1>1. /\ TypeOK /\ phase = "compact" /\ phase' = "compact" /\ Working
      /\ index >= N /\ index' = 2 * step /\ step' = 2 * step /\ mem' = mem
      /\ dist' = dist /\ counter' = counter
      /\ marked' = marked /\ out1' = out1 /\ out2' = out2
  BY DEF Inv, NextLevel
<1>2. /\ index \in Nat /\ step \in Nat \ {0} /\ N \in Nat /\ dist \in [Index -> Nat]
      /\ 2 * step \in Nat \ {0}
  BY <1>1, TypeFacts
<1>3. TypeOK'
  <2>1. IsArray(out1)' /\ IsArray(out2)'
    BY <1>1 DEF TypeOK, IsArray
  <2> QED
    BY <2>1, <1>1, <1>2 DEF TypeOK
<1>4. Measured = Index /\ Measured' = Index /\ Travellers' = Travellers
  <2>1. Measured = Index /\ Measured' = Index
    BY <1>1 DEF Measured
  <2> QED
    BY <1>1, <2>1 DEF Travellers
<1>5. MeasuringPass' /\ NoRowLost' /\ out1' = NoRows /\ out2' = NoRows
  BY <1>1 DEF Working, MeasuringPass, NoRowLost
<1>6. TargetsAreTheFirst' /\ TravellersInOrder' /\ OthersStay'
  BY <1>1, <1>4 DEF Working, TargetsAreTheFirst, TravellersInOrder, OthersStay
<1>7. LevelsDone'
  <2> SUFFICES ASSUME NEW p \in Travellers
               PROVE  /\ dist[p] % (2 * step) = 0
                      /\ p < 2 * step => dist[p] % (2 * (2 * step)) = 0
    BY <1>1, <1>2, <1>4 DEF LevelsDone
  <2>1. p \in Index /\ dist[p] \in Nat /\ dist[p] <= p
    BY <1>1, <1>2, <1>4 DEF Travellers, Working, TargetsAreTheFirst
  <2>2. dist[p] % (2 * step) = 0
    BY <2>1, <1>1, <1>2 DEF Working, LevelsDone
  <2>3. ASSUME p < 2 * step PROVE dist[p] % (2 * (2 * step)) = 0
    <3>1. dist[p] = 0
      BY <2>1, <2>2, <2>3, <1>2, SmallMultiple
    <3>2. 0 % (2 * (2 * step)) = 0
      BY <1>2
    <3> QED
      BY <3>1, <3>2
  <2> QED
    BY <2>2, <2>3
<1>8. CallerGetsMarked'
  BY <1>1 DEF CallerGetsMarked
<1> QED
  BY <1>3, <1>5, <1>6, <1>7, <1>8 DEF Inv, Working

(* After the last level every distance is zero, so every marked row is at  *)
(* its place: the first counter rows are the marked ones, in order.        *)
LEMMA CompactAtTheEnd ==
  ASSUME Inv, phase = "compact", step >= N
  PROVE  /\ HoldsMarkedInOrder(mem, counter)
         /\ \A p \in Index : p >= counter => mem[p] \notin marked
<1> USE DEF Index
<1>1. TypeOK /\ Working
  BY DEF Inv
<1>2. /\ mem \in [Index -> Index] /\ dist \in [Index -> Nat] /\ N \in Nat
      /\ counter \in Nat /\ counter <= N /\ step \in Nat \ {0}
      /\ marked \subseteq Index
  BY <1>1, TypeFacts
<1>3. Measured = Index /\ Travellers = {p \in Index : mem[p] \in marked}
  BY DEF Measured, Travellers
<1>4. \A p \in Travellers : p \in Index /\ dist[p] = 0 /\ p < counter
  <2> SUFFICES ASSUME NEW p \in Travellers
               PROVE  p \in Index /\ dist[p] = 0 /\ p < counter
    OBVIOUS
  <2>1. /\ p \in Index /\ dist[p] \in Nat /\ dist[p] <= p
        /\ p - dist[p] < counter /\ dist[p] % step = 0
    BY <1>1, <1>2, <1>3 DEF Working, TargetsAreTheFirst, LevelsDone
  <2>2. dist[p] < step
    BY <2>1, <1>2
  <2>3. dist[p] = 0
    BY <2>1, <2>2, <1>2, SmallMultiple
  <2> QED
    BY <2>1, <2>3
<1>5. \A k \in 0 .. counter - 1 : k \in Travellers
  <2> SUFFICES ASSUME NEW k \in 0 .. counter - 1 PROVE k \in Travellers
    OBVIOUS
  <2>1. PICK p \in Travellers : p - dist[p] = k
    BY <1>1 DEF Working, TargetsAreTheFirst
  <2>2. p = k
    BY <2>1, <1>4
  <2> QED
    BY <2>2
<1>6. \A k \in 0 .. counter - 1 : mem[k] \in marked
  BY <1>3, <1>5
<1>7. \A k, l \in 0 .. counter - 1 : k < l => mem[k] < mem[l]
  BY <1>1, <1>5 DEF Working, TravellersInOrder
<1>8. \A r \in marked : \E k \in 0 .. counter - 1 : mem[k] = r
  <2> SUFFICES ASSUME NEW r \in marked PROVE \E k \in 0 .. counter - 1 : mem[k] = r
    OBVIOUS
  <2>1. PICK k \in Index : mem[k] = r
    BY <1>1, <1>2 DEF Working, NoRowLost
  <2>2. k \in 0 .. counter - 1
    BY <2>1, <1>2, <1>3, <1>4
  <2> QED
    BY <2>1, <2>2
<1>9. \A p \in Index : p >= counter => mem[p] \notin marked
  BY <1>2, <1>3, <1>4
<1> QED
  BY <1>6, <1>7, <1>8, <1>9 DEF HoldsMarkedInOrder

LEMMA SplitInv == Inv /\ Split => Inv'
<1> SUFFICES ASSUME Inv, Split PROVE Inv'
  OBVIOUS
<1> USE DEF Index
<1>1. /\ TypeOK /\ Working /\ phase = "compact" /\ phase' = "done" /\ step >= N
      /\ marked' = marked /\ mem' = mem /\ dist' = dist
      /\ counter' = counter /\ step' = step /\ index' = index
      /\ out1' = [k \in 0 .. counter - 1 |-> mem[k]]
      /\ out2' = [k \in 0 .. N - counter - 1 |-> mem[counter + k]]
  BY DEF Inv, Split
<1>2. /\ mem \in [Index -> Index] /\ counter \in Nat /\ counter <= N
      /\ N \in Nat /\ MaxSize \in Nat /\ N <= MaxSize /\ marked \subseteq Index
  BY <1>1, TypeFacts, SizeAssumption
<1>3. /\ HoldsMarkedInOrder(mem, counter)
      /\ \A p \in Index : p >= counter => mem[p] \notin marked
  BY <1>1, CompactAtTheEnd
<1>4. TypeOK'
  <2>1. mem \in [0 .. N - 1 -> Index \cup {Zero}] /\ N \in 0 .. MaxSize
    BY <1>2
  <2>2. out1' \in [0 .. counter - 1 -> Index \cup {Zero}] /\ counter \in 0 .. MaxSize
    BY <1>1, <1>2
  <2>3. /\ out2' \in [0 .. (N - counter) - 1 -> Index \cup {Zero}]
        /\ N - counter \in 0 .. MaxSize
    BY <1>1, <1>2
  <2>4. IsArray(mem)
    BY <2>1 DEF IsArray
  <2>5. IsArray(out1)' /\ IsArray(out2)'
    BY <2>2, <2>3 DEF IsArray
  <2> QED
    BY <2>4, <2>5, <1>1 DEF TypeOK, IsArray
<1>5. HoldsMarkedInOrder(out1, counter)'
  BY <1>1, <1>3 DEF HoldsMarkedInOrder
<1>6. ASSUME NEW r \in Index \ marked
      PROVE  \E k \in 0 .. N - counter - 1 : out2'[k] = r
  <2>1. PICK p \in Index : mem[p] = r
    BY <1>1 DEF Working, NoRowLost
  <2>2. ~(p < counter)
    BY <2>1, <1>3, <1>2 DEF HoldsMarkedInOrder
  <2>3. p - counter \in 0 .. N - counter - 1 /\ counter + (p - counter) = p
    BY <2>2, <1>2
  <2>4. out2'[p - counter] = mem[p]
    BY <2>3, <1>1
  <2> QED
    BY <2>1, <2>3, <2>4
<1>7. CallerGetsMarked'
  BY <1>1, <1>5, <1>6 DEF CallerGetsMarked
<1> QED
  BY <1>1, <1>4, <1>7 DEF Inv

LEMMA ResizeInv ==
  ASSUME Inv, NEW size \in counter .. MaxSize, Resize(size)
  PROVE  Inv'
<1> USE DEF Index
<1>1. /\ TypeOK /\ Working /\ phase = "compact" /\ phase' = "done" /\ step >= N
      /\ marked' = marked /\ dist' = dist
      /\ counter' = counter /\ step' = step /\ index' = index
      /\ out1' = out1 /\ out2' = out2
      /\ mem' = [k \in 0 .. size - 1 |-> IF k < N THEN mem[k] ELSE Zero]
  BY DEF Inv, Resize
<1>2. /\ mem \in [Index -> Index] /\ counter \in Nat /\ counter <= N
      /\ N \in Nat /\ MaxSize \in Nat /\ marked \subseteq Index
  BY <1>1, TypeFacts, SizeAssumption
<1>3. HoldsMarkedInOrder(mem, counter)
  BY <1>1, CompactAtTheEnd
<1>4. TypeOK'
  <2>1. mem' \in [0 .. size - 1 -> Index \cup {Zero}] /\ size \in 0 .. MaxSize
    BY <1>1, <1>2
  <2>2. IsArray(mem)'
    BY <2>1 DEF IsArray
  <2>3. IsArray(out1)' /\ IsArray(out2)'
    BY <1>1 DEF TypeOK, IsArray
  <2> QED
    BY <2>2, <2>3, <1>1 DEF TypeOK
<1>5. \A k \in 0 .. counter - 1 : mem'[k] = mem[k]
  BY <1>1, <1>2
<1>6. HoldsMarkedInOrder(mem, counter)'
  <2>1. counter' = counter /\ marked' = marked
    BY <1>1
  <2>2. \A k \in 0 .. counter - 1 : mem'[k] \in marked
    BY <1>3, <1>5 DEF HoldsMarkedInOrder
  <2>3. \A k, l \in 0 .. counter - 1 : k < l => mem'[k] < mem'[l]
    BY <1>3, <1>5 DEF HoldsMarkedInOrder
  <2>4. \A r \in marked : \E k \in 0 .. counter - 1 : mem'[k] = r
    BY <1>3, <1>5 DEF HoldsMarkedInOrder
  <2> QED
    BY <2>1, <2>2, <2>3, <2>4 DEF HoldsMarkedInOrder
<1>7. CallerGetsMarked'
  BY <1>1, <1>6 DEF CallerGetsMarked, Working
<1> QED
  BY <1>1, <1>4, <1>7 DEF Inv

LEMMA NextInv == Inv /\ [Next]_vars => Inv'
<1> SUFFICES ASSUME Inv, [Next]_vars PROVE Inv'
  OBVIOUS
<1>1. ASSUME UNCHANGED vars PROVE Inv'
  BY <1>1 DEF vars, Inv, TypeOK, IsArray, Working, CallerGetsMarked,
     HoldsMarkedInOrder, MeasuringPass, TargetsAreTheFirst, TravellersInOrder,
     OthersStay, LevelsDone, NoRowLost, Travellers, Measured
<1> QED
  BY <1>1, MeasureMarkedInv, MeasureOtherInv, EndMeasureInv, SwapInv, KeepInv,
     NextLevelInv, SplitInv, ResizeInv DEF Next

LEMMA Invariance == Spec => []Inv
BY InitInv, NextInv, PTL DEF Spec

-----------------------------------------------------------------------------
(* The variables keep their types, for an array of any size.               *)
THEOREM TypeCorrect == Spec => []TypeOK
BY Invariance, PTL DEF Inv

(* Every marked row has its own place among the first counter ones, and    *)
(* its distance is what is left to travel to it (the distance arrays of    *)
(* compactMeta, compactMetaVector and enclaveCompact).                     *)
THEOREM DistancesCorrect == Spec => []DistancesLeadHome
<1>1. Inv => DistancesLeadHome
  BY DEF Inv, Working, DistancesLeadHome
<1> QED
  BY <1>1, Invariance, PTL

(* The caller gets exactly the marked rows, first and in input order, for  *)
(* an array of any size, any marks, and whichever result it asked for.     *)
THEOREM CompactionCorrect == Spec => []CallerGetsMarked
BY Invariance, PTL DEF Inv

(* No exchange of the level loop ever moves a marked row to the right.     *)
THEOREM MarkedNeverDisplaced == Spec => MarkedMoveLeft
<1>1. ASSUME Inv, [Next]_vars, phase' # "done", NEW k \in Index, mem[k] \in marked
      PROVE  \E l \in 0 .. k : mem'[l] = mem[k]
  <2>1. k \in 0 .. k
    BY SizeAssumption DEF Index
  <2>2. CASE Swap
    <3> DEFINE goal == index - step
    <3>1. /\ mem' = [mem EXCEPT ![index] = mem[goal], ![goal] = mem[index]]
          /\ phase = "compact" /\ index < N /\ TypeOK /\ Working
      BY <2>2, <1>1 DEF Swap, Exchange, Inv
    <3>2. /\ mem \in [Index -> Index] /\ N \in Nat /\ index \in Nat /\ step \in Nat \ {0}
      BY <3>1, TypeFacts
    <3>3. index \in Index /\ goal \in Index /\ goal < index /\ goal \in 0 .. index
      BY <3>1, <3>2 DEF Working, LevelsDone, Index
    <3>4. index \in Travellers /\ \A p \in Travellers : p < index => p < goal
      BY <2>2, <1>1, SwapIsSafe
    <3>5. k # goal
      <4>1. k \in Travellers
        BY <1>1, <3>1 DEF Travellers, Measured
      <4> QED
        BY <3>3, <3>4, <4>1, <3>2 DEF Index
    <3>6. CASE k = index
      BY <3>1, <3>2, <3>3, <3>6
    <3>7. CASE k # index
      BY <2>1, <3>1, <3>2, <3>5, <3>7, <1>1
    <3> QED
      BY <3>6, <3>7
  <2>3. CASE mem' = mem
    BY <2>1, <2>3
  <2> QED
    BY <1>1, <2>2, <2>3
       DEF Next, vars, MeasureMarked, MeasureOther, EndMeasure, Keep, NextLevel,
           Split, Resize
<1>2. Inv /\ [Next]_vars =>
        [phase' # "done" => \A k \in Index : mem[k] \in marked =>
           \E l \in 0 .. k : mem'[l] = mem[k]]_vars
  BY <1>1
<1> QED
  BY <1>2, Invariance, PTL DEF Spec, MarkedMoveLeft

-----------------------------------------------------------------------------
(***************************************************************************)
(* Expansion is correct for an array of any size and any slots that the    *)
(* callers may ask for.  The ways of the items grow with their indices, so *)
(* the parts of the ways already travelled, which are the ways rounded     *)
(* down to a multiple of j, grow too: two items are never at one index.    *)
(* That the halving loop visits every bit of a way rests on j being a      *)
(* power of two, said here without exponents: every divisor of j but 1 is  *)
(* even.                                                                   *)
(***************************************************************************)
IsPowerOfTwo(y) ==
  /\ y \in Nat \ {0}
  /\ \A d, k \in Nat : y = d * k => d = 1 \/ d % 2 = 0

(* One is a power of two.                                                  *)
LEMMA OneIsPower == IsPowerOfTwo(1)
<1> SUFFICES ASSUME NEW d \in Nat, NEW k \in Nat, 1 = d * k PROVE d = 1
  BY DEF IsPowerOfTwo
<1>1. d # 0 /\ k # 0
  <2>1. 0 * k = 0 /\ d * 0 = 0
    OBVIOUS
  <2> QED
    BY <2>1
<1>2. SUFFICES ASSUME d >= 2 PROVE FALSE
  BY <1>1
<1>3. (d - 1) * k >= 0 /\ (d - 2) * k >= 0
  BY <1>1, <1>2
<1>4. d * k = (d - 2) * k + 2 * k
  OBVIOUS
<1> QED
  BY <1>1, <1>3, <1>4

(* Twice a power of two is one.                                            *)
LEMMA DoubleIsPower == ASSUME NEW y, IsPowerOfTwo(y) PROVE IsPowerOfTwo(2 * y)
<1>1. y \in Nat \ {0} /\ 2 * y \in Nat \ {0}
  BY DEF IsPowerOfTwo
<1> SUFFICES ASSUME NEW d \in Nat, NEW k \in Nat, 2 * y = d * k, d % 2 # 0
             PROVE  d = 1
  BY <1>1 DEF IsPowerOfTwo
<1>2. PICK c \in Nat : d = 2 * c + 1
  <2> WITNESS d \div 2 \in Nat
  <2> QED
    OBVIOUS
<1>3. d * k = 2 * (c * k) + k
  BY <1>2
<1>4. c * k \in Nat
  OBVIOUS
<1>5. PICK h \in Nat : k = 2 * h
  <2>1. k = 2 * (y - c * k)
    BY <1>1, <1>3, <1>4
  <2>2. y - c * k \in Nat
    BY <2>1, <1>1, <1>4
  <2> QED
    BY <2>1, <2>2
<1>6. y = d * h
  <2>1. d * k = 2 * (d * h)
    BY <1>5
  <2>2. d * h \in Nat
    OBVIOUS
  <2> QED
    BY <2>1, <2>2, <1>1
<1> QED
  BY <1>6 DEF IsPowerOfTwo

(* Half a power of two is one again, until one is left.                    *)
LEMMA HalfIsPower ==
  ASSUME NEW y, IsPowerOfTwo(y), y # 1
  PROVE  y = 2 * (y \div 2) /\ IsPowerOfTwo(y \div 2)
<1>1. y \in Nat \ {0}
  BY DEF IsPowerOfTwo
<1>2. y % 2 = 0
  <2>1. y = y * 1
    BY <1>1
  <2> QED
    BY <1>1, <2>1 DEF IsPowerOfTwo
<1>3. PICK h \in Nat : y = 2 * h /\ y \div 2 = h
  BY <1>1, <1>2
<1>4. h \in Nat \ {0}
  BY <1>1, <1>3
<1>5. ASSUME NEW d \in Nat, NEW k \in Nat, h = d * k
      PROVE  d = 1 \/ d % 2 = 0
  <2>1. y = d * (2 * k) /\ 2 * k \in Nat
    BY <1>3, <1>5
  <2> QED
    BY <2>1 DEF IsPowerOfTwo
<1> QED
  BY <1>3, <1>4, <1>5 DEF IsPowerOfTwo

-----------------------------------------------------------------------------
(* The part of a way that is over: a multiple of m, and what it becomes    *)
(* when m is halved.                                                       *)

LEMMA SmallRemainder ==
  ASSUME NEW d \in Nat, NEW m \in Nat \ {0}, d < m
  PROVE  d % m = d
OBVIOUS

(* Rounding down to a multiple of m keeps the order.                       *)
LEMMA RoundedInOrder ==
  ASSUME NEW a \in Nat, NEW b \in Nat, NEW m \in Nat \ {0}, a <= b
  PROVE  a - (a % m) <= b - (b % m)
<1>1. PICK p \in Nat : a = m * p + (a % m) /\ a % m \in 0 .. m - 1
  BY Quotient
<1>2. PICK q \in Nat : b = m * q + (b % m) /\ b % m \in 0 .. m - 1
  BY Quotient
<1>3. p <= q
  <2> SUFFICES ASSUME q < p PROVE FALSE
    OBVIOUS
  <2>1. p - q - 1 \in Nat
    OBVIOUS
  <2>2. m * (p - q - 1) >= 0
    BY <2>1
  <2>3. m * (p - q - 1) = m * p - m * q - m
    OBVIOUS
  <2> QED
    BY <1>1, <1>2, <2>2, <2>3
<1>4. m * (q - p) >= 0
  BY <1>3
<1>5. m * (q - p) = m * q - m * p
  OBVIOUS
<1> QED
  BY <1>1, <1>2, <1>4, <1>5

(* The remainder by m is the remainder by 2 * m, less m if that is set.    *)
LEMMA HalvedRemainder ==
  ASSUME NEW d \in Nat, NEW m \in Nat \ {0}
  PROVE  /\ d % (2 * m) < m => d % m = d % (2 * m)
         /\ d % (2 * m) >= m => d % m = (d % (2 * m)) - m
<1>1. 2 * m \in Nat \ {0}
  OBVIOUS
<1>2. PICK q \in Nat : d = (2 * m) * q + (d % (2 * m)) /\ d % (2 * m) \in 0 .. 2 * m - 1
  BY <1>1, Quotient
<1>3. ASSUME NEW r \in 0 .. 2 * m - 1, d = (2 * m) * q + r
      PROVE  /\ r < m => d % m = r
             /\ r >= m => d % m = r - m
  <2>1. CASE r < m
    <3>1. d = m * (2 * q) + r /\ 2 * q \in Nat /\ r \in 0 .. m - 1
      BY <1>3, <2>1
    <3>2. (m * (2 * q) + r) % m = r
      BY <3>1, Remainder
    <3> QED
      BY <2>1, <3>1, <3>2
  <2>2. CASE r >= m
    <3>1. d = m * (2 * q) + m + (r - m)
      BY <1>3, <2>2
    <3>2. m * (2 * q + 1) = m * (2 * q) + m
      OBVIOUS
    <3>3. d = m * (2 * q + 1) + (r - m) /\ 2 * q + 1 \in Nat /\ r - m \in 0 .. m - 1
      BY <3>1, <3>2, <2>2
    <3>4. (m * (2 * q + 1) + (r - m)) % m = r - m
      BY <3>3, Remainder
    <3> QED
      BY <2>2, <3>3, <3>4
  <2> QED
    BY <2>1, <2>2
<1> QED
  BY <1>2, <1>3

-----------------------------------------------------------------------------
(* The invariant, in named parts.                                          *)

ItemsInOrder ==
  /\ \A r, s \in Items : r < s => Travel(r) <= Travel(s)
  /\ \A r \in Slots \ Items : dest[r] <= 0

Doubling ==
  pc = "prev_pow_two" =>
    /\ IsPowerOfTwo(j)
    /\ j = 1 \/ j \div 2 < M
    /\ \A p \in Slots : data[p] = p
    /\ fillIn = None

Levels ==
  pc = "levels" =>
    /\ j = 0 \/ IsPowerOfTwo(j)
    /\ i + j < M
    /\ data \in [Slots -> Slots]
    /\ \A p, q \in Slots : data[p] = data[q] => p = q
    /\ fillIn = None

\* x is what FilledIn wants in slot s.
Owner(s, x) ==
  /\ \A r \in Items :
       /\ dest[r] <= s
       /\ \A q \in Items : dest[q] <= s => dest[q] <= dest[r]
       => x = r
  /\ (\A r \in Items : dest[r] > s) => x \notin Items

FillPass ==
  pc = "fill" =>
    /\ i >= 0
    /\ \A p \in Slots : p >= i => data[p] \in Slots
    /\ \A r \in Items : dest[r] >= i => data[dest[r]] = r
    /\ \A p \in Slots : p < i => Owner(p, data[p])
    /\ Owner(i - 1, fillIn)

ExpandInv ==
  /\ ExpandTypeOK
  /\ ItemsInOrder
  /\ Doubling
  /\ Levels
  /\ WayLeft
  /\ Placed
  /\ FillPass
  /\ FilledIn

(* A step of the loops leaves the ways alone.                              *)
LEMMA ItemsFixed ==
  ASSUME UNCHANGED dest
  PROVE  /\ Items' = Items
         /\ \A r : Travel(r)' = Travel(r)
         /\ \A s, x : Owner(s, x)' <=> Owner(s, x)
         /\ ItemsInOrder' <=> ItemsInOrder
BY DEF Items, Travel, Owner, ItemsInOrder, Slots

(* The way of an item is a natural number below M.                         *)
LEMMA TravelType ==
  ASSUME ExpandTypeOK, NEW r \in Items
  PROVE  r \in Slots /\ dest[r] \in Slots /\ Travel(r) \in Nat /\ Travel(r) = dest[r] - r
BY ExpandAssumption DEF ExpandTypeOK, Items, Travel, Slots

LEMMA ExpandInitInv == ExpandInit => ExpandInv
<1> SUFFICES ASSUME ExpandInit PROVE ExpandInv
  OBVIOUS
<1>1. ExpandTypeOK
  BY ExpandAssumption DEF ExpandInit, ExpandTypeOK, Slots, None
<1>2. ItemsInOrder
  <2>1. PICK len \in 0 .. M, placeholder \in {-1, 0} :
          /\ \A k \in 0 .. len - 1 : dest[k] >= k
          /\ \A k, l \in 0 .. len - 1 : k < l => dest[l] - dest[k] >= l - k
          /\ \A k \in len .. M - 1 : dest[k] = placeholder
    BY DEF ExpandInit, Expandable
  <2>2. \A r \in Items : r \in 0 .. len - 1 \/ (r = 0 /\ len = 0)
    BY <2>1, ExpandAssumption DEF Items, Slots
  <2>3. ASSUME NEW r \in Items, NEW s \in Items, r < s
        PROVE  Travel(r) <= Travel(s)
    <3>1. r \in 0 .. len - 1 /\ s \in 0 .. len - 1
      BY <2>2, <2>3
    <3>2. dest[s] - dest[r] >= s - r /\ dest[s] \in Int /\ dest[r] \in Int
      BY <3>1, <2>1, <2>3, <1>1 DEF ExpandTypeOK, Items
    <3> QED
      BY <3>1, <3>2 DEF Travel
  <2>4. \A r \in Slots \ Items : dest[r] <= 0
    BY <2>1, ExpandAssumption DEF Items, Slots
  <2> QED
    BY <2>3, <2>4 DEF ItemsInOrder
<1> QED
  BY <1>1, <1>2, OneIsPower
     DEF ExpandInit, ExpandInv, Doubling, Levels, WayLeft, Placed, FillPass, FilledIn

-----------------------------------------------------------------------------
(* The steps that reach the level loop and that lead from level to level.  *)

LEMMA DoublePowerInv == ExpandInv /\ DoublePower => ExpandInv'
<1> SUFFICES ASSUME ExpandInv, DoublePower PROVE ExpandInv'
  OBVIOUS
<1>1. /\ pc = "prev_pow_two" /\ j < M /\ j' = 2 * j
      /\ UNCHANGED <<dest, data, i, fillIn, pc>>
  BY DEF DoublePower
<1>2. j \in Nat /\ IsPowerOfTwo(j)
  BY <1>1 DEF ExpandInv, ExpandTypeOK, Doubling
<1>3. ExpandTypeOK'
  BY <1>1, <1>2 DEF ExpandInv, ExpandTypeOK, Slots
<1>4. IsPowerOfTwo(j')
  BY <1>1, <1>2, DoubleIsPower
<1>5. Doubling'
  <2>1. IsPowerOfTwo(j)'
    BY <1>4 DEF IsPowerOfTwo
  <2>2. j' \div 2 < M
    BY <1>1, <1>2, ExpandAssumption
  <2>3. \A p \in Slots : data'[p] = p
    BY <1>1 DEF ExpandInv, Doubling
  <2> QED
    BY <1>1, <2>1, <2>2, <2>3 DEF ExpandInv, Doubling, Slots
<1>6. ItemsInOrder'
  BY <1>1, ItemsFixed DEF ExpandInv
<1> QED
  BY <1>1, <1>3, <1>5, <1>6 DEF ExpandInv, Levels, WayLeft, Placed, FillPass, FilledIn

LEMMA StartLevelsInv == ExpandInv /\ StartLevels => ExpandInv'
<1> SUFFICES ASSUME ExpandInv, StartLevels PROVE ExpandInv'
  OBVIOUS
<1>1. /\ pc = "prev_pow_two" /\ j >= M /\ j' = j \div 2 /\ i' = M - j' - 1
      /\ pc' = "levels" /\ UNCHANGED <<dest, data, fillIn>>
  BY DEF StartLevels
<1>2. /\ j \in Nat \ {0} /\ IsPowerOfTwo(j) /\ M \in Nat
      /\ j = 1 \/ j \div 2 < M
      /\ \A p \in Slots : data[p] = p
      /\ fillIn = None
  BY <1>1, ExpandAssumption DEF ExpandInv, ExpandTypeOK, Doubling, IsPowerOfTwo
<1>3. j' \in Nat /\ i' \in -1 .. M - 1 /\ i' + j' < M
  BY <1>1, <1>2
<1>4. ExpandTypeOK'
  BY <1>1, <1>3, ExpandAssumption DEF ExpandInv, ExpandTypeOK, Slots
<1>5. j' = 0 \/ (j = 2 * j' /\ IsPowerOfTwo(j'))
  <2>1. CASE j = 1
    BY <1>1, <2>1
  <2>2. CASE j # 1
    BY <1>1, <1>2, <2>2, HalfIsPower
  <2> QED
    BY <2>1, <2>2
<1>6. Levels'
  <2>1. j' = 0 \/ IsPowerOfTwo(j)'
    BY <1>5 DEF IsPowerOfTwo
  <2>2. data' \in [Slots -> Slots]
    BY <1>1, <1>2, <1>4 DEF ExpandTypeOK
  <2>3. \A p, q \in Slots : data'[p] = data'[q] => p = q
    BY <1>1, <1>2
  <2> QED
    BY <1>1, <1>2, <1>3, <2>1, <2>2, <2>3 DEF Levels, Slots
<1>7. ASSUME NEW p \in Slots, p \in Items
      PROVE  dest[p] - p = IF j' = 0 THEN 0
                           ELSE IF p > i' THEN Travel(p) % j'
                           ELSE Travel(p) % (2 * j')
  <2>1. dest[p] \in 0 .. M - 1 /\ p \in 0 .. M - 1 /\ Travel(p) \in Nat /\ Travel(p) = dest[p] - p
    BY <1>7, TravelType DEF ExpandInv, Slots
  <2>2. CASE j' = 0
    BY <1>1, <1>2, <2>1, <2>2
  <2>3. CASE j' # 0
    <3>1. j = 2 * j' /\ Travel(p) < 2 * j' /\ 2 * j' \in Nat \ {0} /\ j' \in Nat \ {0}
      BY <1>1, <1>2, <1>3, <1>5, <2>1, <2>3
    <3>2. Travel(p) % (2 * j') = Travel(p)
      BY <3>1, <2>1, SmallRemainder
    <3>3. p > i' => Travel(p) < j'
      BY <1>1, <1>2, <1>3, <2>1
    <3>4. p > i' => Travel(p) % j' = Travel(p)
      BY <3>1, <3>3, <2>1, SmallRemainder
    <3> QED
      BY <2>1, <2>3, <3>2, <3>4
  <2> QED
    BY <2>2, <2>3
<1>8. WayLeft'
  <2>1. \A r \in Slots : \E p \in Slots : data'[p] = r
    BY <1>1, <1>2
  <2> QED
    BY <1>1, <1>2, <1>7, <2>1, ItemsFixed DEF WayLeft, Slots
<1>9. ItemsInOrder'
  BY <1>1, ItemsFixed DEF ExpandInv
<1> QED
  BY <1>1, <1>4, <1>6, <1>8, <1>9 DEF ExpandInv, Doubling, Placed, FillPass, FilledIn

(* A level is over: the lower bit of the ways is the next one to go.       *)
LEMMA NextStrideInv == ExpandInv /\ NextStride => ExpandInv'
<1> SUFFICES ASSUME ExpandInv, NextStride PROVE ExpandInv'
  OBVIOUS
<1>1. /\ pc = "levels" /\ j >= 1 /\ i < 0 /\ j' = j \div 2 /\ i' = M - j' - 1
      /\ UNCHANGED <<dest, data, fillIn, pc>>
  BY DEF NextStride
<1>2. /\ j \in Nat \ {0} /\ IsPowerOfTwo(j) /\ M \in Nat /\ i = -1 /\ j <= M
      /\ data \in [Slots -> Slots]
  BY <1>1, ExpandAssumption DEF ExpandInv, ExpandTypeOK, Levels
<1>3. j' \in Nat /\ i' \in -1 .. M - 1 /\ i' + j' < M
  BY <1>1, <1>2
<1>4. ExpandTypeOK'
  <2>1. /\ dest' \in [Slots -> -1 .. M - 1] /\ data' \in [Slots -> Slots \cup {None}]
        /\ fillIn' \in Slots \cup {None} /\ pc' = "levels"
    BY <1>1 DEF ExpandInv, ExpandTypeOK
  <2>2. i' \in -1 .. M
    BY <1>2, <1>3
  <2> QED
    BY <1>3, <2>1, <2>2 DEF ExpandTypeOK
<1>5. (j = 1 /\ j' = 0) \/ (j = 2 * j' /\ IsPowerOfTwo(j'))
  BY <1>1, <1>2, HalfIsPower
<1>6. Levels'
  <2>1. j' = 0 \/ IsPowerOfTwo(j)'
    BY <1>5 DEF IsPowerOfTwo
  <2> QED
    BY <1>1, <1>3, <2>1 DEF ExpandInv, Levels, Slots
<1>7. ASSUME NEW p \in Slots, data[p] \in Items
      PROVE  dest[data[p]] - p = IF j' = 0 THEN 0
                                 ELSE IF p > i' THEN Travel(data[p]) % j'
                                 ELSE Travel(data[p]) % (2 * j')
  <2> DEFINE way == Travel(data[p])
  <2>1. dest[data[p]] \in 0 .. M - 1 /\ way \in Nat
    BY <1>7, TravelType DEF ExpandInv, Slots
  <2>2. p \in 0 .. M - 1 /\ p > i
    BY <1>2 DEF Slots
  <2>3. dest[data[p]] - p = way % j
    BY <1>1, <1>2, <1>7, <2>2 DEF ExpandInv, WayLeft
  <2> HIDE DEF way
  <2>4. CASE j = 1 /\ j' = 0
    <3>1. way % j = 0
      BY <2>1, <2>4
    <3> QED
      BY <2>3, <2>4, <3>1
  <2>5. CASE j = 2 * j' /\ IsPowerOfTwo(j')
    <3>1. j' \in Nat \ {0}
      BY <2>5 DEF IsPowerOfTwo
    <3>2. p > i' => way % (2 * j') < j'
      <4>1. p > i' => dest[data[p]] - p < j'
        BY <1>1, <1>2, <1>3, <2>1, <2>2
      <4> QED
        BY <4>1, <2>3, <2>5
    <3>3. p > i' => way % j' = way % (2 * j')
      BY <3>1, <3>2, <2>1, HalvedRemainder
    <3>4. dest[data[p]] - p = IF p > i' THEN way % j' ELSE way % (2 * j')
      BY <2>3, <2>5, <3>3
    <3> QED
      BY <3>1, <3>4 DEF way
  <2> QED
    BY <1>5, <2>4, <2>5
<1>8. WayLeft'
  <2>1. \A r \in Slots : \E p \in Slots : data'[p] = r
    BY <1>1 DEF ExpandInv, WayLeft
  <2> QED
    BY <1>1, <1>7, <2>1, ItemsFixed DEF WayLeft, Slots
<1>9. ItemsInOrder'
  BY <1>1, ItemsFixed DEF ExpandInv
<1> QED
  BY <1>1, <1>4, <1>6, <1>8, <1>9 DEF ExpandInv, Doubling, Placed, FillPass, FilledIn

-----------------------------------------------------------------------------
(* The steps within a level.                                               *)

(* Two items that have the same part of their way to go are not one index  *)
(* apart from it.                                                          *)
LEMMA ItemsNeverMeet ==
  ASSUME ExpandInv, NEW m \in Nat \ {0}, NEW r \in Items, NEW s \in Items,
         r + (Travel(r) - (Travel(r) % m)) = s + (Travel(s) - (Travel(s) % m))
  PROVE  r = s
<1>1. \A x \in Items : x \in Nat /\ Travel(x) \in Nat
  BY ExpandAssumption, TravelType DEF ExpandInv, Slots
<1>2. \A x \in Items : Travel(x) % m \in 0 .. m - 1
  BY <1>1
<1>3. ASSUME NEW x \in Items, NEW y \in Items, x < y
      PROVE  x + (Travel(x) - (Travel(x) % m)) < y + (Travel(y) - (Travel(y) % m))
  <2>1. Travel(x) <= Travel(y)
    BY <1>3 DEF ExpandInv, ItemsInOrder
  <2>2. Travel(x) - (Travel(x) % m) <= Travel(y) - (Travel(y) % m)
    BY <1>1, <2>1, RoundedInOrder
  <2> QED
    BY <1>1, <1>2, <1>3, <2>2
<1>4. ~(r < s) /\ ~(s < r)
  BY <1>1, <1>2, <1>3
<1> QED
  BY <1>1, <1>4

(* What data[i] and data[i + j] are when an item has to move: the item at  *)
(* i has the bit j of its way to go, and no item is at i + j.              *)
LEMMA MoverFacts ==
  ASSUME ExpandInv, pc = "levels", j >= 1, i >= 0, MustMove
  PROVE  /\ i \in Slots /\ i + j \in Slots
         /\ data[i] \in Items /\ data[i + j] \notin Items
         /\ dest[data[i]] - (i + j) = Travel(data[i]) % j
<1>1. j \in Nat \ {0} /\ M \in Nat /\ i \in Nat /\ i + j < M
  BY ExpandAssumption DEF ExpandInv, ExpandTypeOK, Levels
<1>2. i \in Slots /\ i + j \in Slots /\ data[i] \in Slots /\ data[i + j] \in Slots
  <2>1. i \in Slots /\ i + j \in Slots
    BY <1>1 DEF Slots
  <2>2. data \in [Slots -> Slots]
    BY DEF ExpandInv, Levels
  <2> QED
    BY <2>1, <2>2
<1> DEFINE r == data[i]
           s == data[i + j]
<1>3. dest[r] >= i + j
  BY DEF MustMove
<1>4. r \in Items
  <2>1. dest[r] \in Int
    <3>1. dest \in [Slots -> Int]
      BY <1>1 DEF ExpandInv, ExpandTypeOK
    <3> QED
      BY <1>2, <3>1
  <2>2. ~(dest[r] <= 0)
    BY <1>1, <1>3, <2>1
  <2> QED
    BY <1>2, <2>2 DEF ExpandInv, ItemsInOrder
<1>5. r \in Int /\ dest[r] \in Int /\ Travel(r) \in Nat /\ Travel(r) = dest[r] - r
  BY <1>1, <1>4, TravelType DEF ExpandInv, Slots
<1>6. dest[r] - i = Travel(r) % (2 * j)
  BY <1>1, <1>2, <1>4 DEF ExpandInv, WayLeft
<1> HIDE DEF r, s
<1>7. dest[r] - (i + j) = Travel(r) % j
  <2>1. Travel(r) % (2 * j) >= j
    BY <1>1, <1>3, <1>5, <1>6
  <2>2. Travel(r) % j = (Travel(r) % (2 * j)) - j
    BY <1>1, <1>5, <2>1, HalvedRemainder
  <2> QED
    BY <1>1, <1>5, <1>6, <2>2
<1>8. ASSUME s \in Items PROVE FALSE
  <2>1. dest[s] - (i + j) = Travel(s) % j
    BY <1>1, <1>2, <1>8 DEF ExpandInv, WayLeft, s
  <2>2. s \in Int /\ dest[s] \in Int /\ Travel(s) \in Nat /\ Travel(s) = dest[s] - s
    BY <1>1, <1>8, TravelType DEF ExpandInv, Slots
  <2>3. Travel(r) % j \in Nat /\ Travel(s) % j \in Nat
    BY <1>1, <1>5, <2>2
  <2>4. r + (Travel(r) - (Travel(r) % j)) = s + (Travel(s) - (Travel(s) % j))
    BY <1>1, <1>5, <1>7, <2>1, <2>2, <2>3
  <2>5. r = s
    BY <1>1, <1>4, <1>8, <2>4, ItemsNeverMeet
  <2>6. i = i + j
    BY <1>2, <2>5 DEF ExpandInv, Levels, r, s
  <2> QED
    BY <1>1, <2>6
<1> QED
  BY <1>2, <1>4, <1>7, <1>8 DEF r, s

LEMMA MoveInv == ExpandInv /\ Move => ExpandInv'
<1> SUFFICES ASSUME ExpandInv, Move PROVE ExpandInv'
  OBVIOUS
<1>1. /\ pc = "levels" /\ j >= 1 /\ i >= 0 /\ MustMove /\ i' = i - 1
      /\ data' = [data EXCEPT ![i] = data[i + j], ![i + j] = data[i]]
      /\ UNCHANGED <<dest, j, fillIn, pc>>
  BY DEF Move
<1>2. /\ i \in Slots /\ i + j \in Slots /\ data[i] \in Items /\ data[i + j] \notin Items
      /\ dest[data[i]] - (i + j) = Travel(data[i]) % j
  BY <1>1, MoverFacts
<1>3. /\ j \in Nat \ {0} /\ M \in Nat /\ i \in Nat /\ i + j < M
      /\ IsPowerOfTwo(j)
      /\ data \in [Slots -> Slots]
      /\ \A p, q \in Slots : data[p] = data[q] => p = q
      /\ fillIn = None
  BY <1>1, ExpandAssumption DEF ExpandInv, ExpandTypeOK, Levels
<1>4. i # i + j /\ Slots \subseteq Int
  BY <1>3 DEF Slots
<1>5. /\ data' \in [Slots -> Slots]
      /\ data'[i] = data[i + j] /\ data'[i + j] = data[i]
      /\ \A p \in Slots \ {i, i + j} : data'[p] = data[p]
  BY <1>1, <1>2, <1>3, <1>4
<1>6. i' \in -1 .. M /\ i' + j' < M
  BY <1>1, <1>3
<1>7. ExpandTypeOK'
  BY <1>1, <1>5, <1>6 DEF ExpandInv, ExpandTypeOK, Slots
<1>8. Levels'
  <2>1. IsPowerOfTwo(j)'
    BY <1>1, <1>3 DEF IsPowerOfTwo
  <2>2. \A p, q \in Slots : data'[p] = data'[q] => p = q
    BY <1>2, <1>3, <1>4, <1>5
  <2> QED
    BY <1>1, <1>3, <1>5, <1>6, <2>1, <2>2 DEF Levels, Slots
<1>9. ASSUME NEW p \in Slots, data'[p] \in Items
      PROVE  dest[data'[p]] - p = IF p > i' THEN Travel(data'[p]) % j
                                  ELSE Travel(data'[p]) % (2 * j)
  <2>1. p # i
    BY <1>2, <1>5, <1>9
  <2>2. CASE p = i + j
    <3>1. p > i'
      BY <1>1, <1>3, <2>2
    <3> QED
      BY <1>2, <1>5, <2>2, <3>1
  <2>3. CASE p # i + j
    <3>1. data'[p] = data[p]
      BY <1>5, <2>1, <2>3
    <3>2. p > i' <=> p > i
      BY <1>1, <1>3, <1>4, <2>1
    <3> QED
      BY <1>1, <1>3, <1>9, <3>1, <3>2 DEF ExpandInv, WayLeft
  <2> QED
    BY <2>2, <2>3
<1>10. ASSUME NEW r \in Slots PROVE \E p \in Slots : data'[p] = r
  <2>1. PICK p \in Slots : data[p] = r
    BY <1>1 DEF ExpandInv, WayLeft
  <2> QED
    BY <1>2, <1>5, <2>1
<1>11. WayLeft'
  BY <1>1, <1>3, <1>9, <1>10, ItemsFixed DEF WayLeft, Slots
<1>12. ItemsInOrder'
  BY <1>1, ItemsFixed DEF ExpandInv
<1> QED
  BY <1>1, <1>7, <1>8, <1>11, <1>12 DEF ExpandInv, Doubling, Placed, FillPass, FilledIn

LEMMA StayInv == ExpandInv /\ Stay => ExpandInv'
<1> SUFFICES ASSUME ExpandInv, Stay PROVE ExpandInv'
  OBVIOUS
<1>1. /\ pc = "levels" /\ j >= 1 /\ i >= 0 /\ ~MustMove /\ i' = i - 1
      /\ UNCHANGED <<dest, data, j, fillIn, pc>>
  BY DEF Stay
<1>2. /\ j \in Nat \ {0} /\ M \in Nat /\ i \in Nat /\ i + j < M
      /\ IsPowerOfTwo(j)
      /\ data \in [Slots -> Slots]
  BY <1>1, ExpandAssumption DEF ExpandInv, ExpandTypeOK, Levels
<1>3. i' \in -1 .. M /\ i' + j' < M
  BY <1>1, <1>2
<1>4. ExpandTypeOK'
  BY <1>1, <1>3 DEF ExpandInv, ExpandTypeOK, Slots
<1>5. Levels'
  <2>1. IsPowerOfTwo(j)'
    BY <1>1, <1>2 DEF IsPowerOfTwo
  <2> QED
    BY <1>1, <1>3, <2>1 DEF ExpandInv, Levels, Slots
<1>6. ASSUME NEW p \in Slots, data[p] \in Items
      PROVE  dest[data[p]] - p = IF p > i' THEN Travel(data[p]) % j
                                 ELSE Travel(data[p]) % (2 * j)
  <2>1. dest[data[p]] - p = IF p > i THEN Travel(data[p]) % j
                            ELSE Travel(data[p]) % (2 * j)
    BY <1>1, <1>2, <1>6 DEF ExpandInv, WayLeft
  <2>2. CASE p # i
    <3>1. p > i' <=> p > i
      BY <1>1, <1>2, <2>2 DEF Slots
    <3> QED
      BY <2>1, <3>1
  <2>3. CASE p = i
    <3>1. dest[data[p]] \in Slots /\ Travel(data[p]) \in Nat
      BY <1>6, TravelType DEF ExpandInv
    <3>2. dest[data[p]] \in Int /\ dest[data[p]] < i + j
      <4>1. dest[data[p]] \in Int
        <5>1. Slots \subseteq Int
          BY DEF Slots
        <5> QED
          BY <3>1, <5>1
      <4>2. ~(dest[data[p]] >= i + j)
        BY <1>1, <2>3 DEF MustMove
      <4> QED
        BY <1>2, <4>1, <4>2
    <3>6. dest[data[p]] - p = Travel(data[p]) % (2 * j)
      BY <1>2, <2>1, <2>3
    <3>3. Travel(data[p]) % (2 * j) < j
      BY <1>2, <2>3, <3>2, <3>6
    <3>4. Travel(data[p]) % j = Travel(data[p]) % (2 * j)
      BY <1>2, <3>1, <3>3, HalvedRemainder
    <3>5. p > i'
      BY <1>1, <1>2, <2>3
    <3> QED
      BY <3>4, <3>5, <3>6
  <2> QED
    BY <2>2, <2>3
<1>7. WayLeft'
  <2>1. \A r \in Slots : \E p \in Slots : data'[p] = r
    BY <1>1 DEF ExpandInv, WayLeft
  <2> QED
    BY <1>1, <1>2, <1>6, <2>1, ItemsFixed DEF WayLeft, Slots
<1>8. ItemsInOrder'
  BY <1>1, ItemsFixed DEF ExpandInv
<1> QED
  BY <1>1, <1>4, <1>5, <1>7, <1>8 DEF ExpandInv, Doubling, Placed, FillPass, FilledIn

-----------------------------------------------------------------------------
(* After the last level every item is at home, and the fill pass keeps the *)
(* owner of the slot it has just left in fillIn.                           *)

LEMMA AtHome ==
  ASSUME ExpandInv, pc = "levels", j = 0
  PROVE  \A r \in Items : data[dest[r]] = r
<1> SUFFICES ASSUME NEW r \in Items PROVE data[dest[r]] = r
  OBVIOUS
<1>1. r \in Slots /\ dest[r] \in Int
  BY ExpandAssumption, TravelType DEF ExpandInv, Slots
<1>2. PICK p \in Slots : data[p] = r
  BY <1>1 DEF ExpandInv, WayLeft
<1>3. dest[r] - p = 0
  BY <1>2 DEF ExpandInv, WayLeft
<1>4. p \in Int
  BY ExpandAssumption DEF Slots
<1>5. dest[r] = p
  BY <1>1, <1>3, <1>4
<1> QED
  BY <1>2, <1>5

LEMMA ReturnInv == ExpandInv /\ Return => ExpandInv'
<1> SUFFICES ASSUME ExpandInv, Return PROVE ExpandInv'
  OBVIOUS
<1>1. /\ pc = "levels" /\ j = 0 /\ pc' = "placed"
      /\ UNCHANGED <<dest, data, j, i, fillIn>>
  BY DEF Return
<1>2. ExpandTypeOK' /\ ItemsInOrder'
  BY <1>1, ItemsFixed DEF ExpandInv, ExpandTypeOK, Slots
<1>3. Placed'
  BY <1>1, AtHome, ItemsFixed DEF Placed
<1> QED
  BY <1>1, <1>2, <1>3 DEF ExpandInv, Doubling, Levels, WayLeft, FillPass, FilledIn

LEMMA StartFillInv == ExpandInv /\ StartFill => ExpandInv'
<1> SUFFICES ASSUME ExpandInv, StartFill PROVE ExpandInv'
  OBVIOUS
<1>1. /\ pc = "levels" /\ j = 0 /\ i' = 0 /\ pc' = "fill"
      /\ UNCHANGED <<dest, data, j, fillIn>>
  BY DEF StartFill
<1>2. ExpandTypeOK' /\ ItemsInOrder'
  BY <1>1, ExpandAssumption, ItemsFixed DEF ExpandInv, ExpandTypeOK, Slots
<1>3. data \in [Slots -> Slots] /\ fillIn = None /\ \A p \in Slots : ~(p < 0)
  BY <1>1, ExpandAssumption DEF ExpandInv, Levels, Slots
<1>4. Owner(i' - 1, fillIn)
  <2>1. \A r \in Items : dest[r] \in Int /\ dest[r] > -1
    BY ExpandAssumption, TravelType DEF ExpandInv, Slots
  <2>2. None \notin Items
    BY ExpandAssumption DEF Items, Slots, None
  <2>3. i' - 1 = -1
    BY <1>1
  <2>4. \A r \in Items : ~(dest[r] <= -1)
    BY <2>1
  <2> QED
    BY <1>3, <2>2, <2>3, <2>4 DEF Owner
<1>5. FillPass'
  <2>1. Owner(i - 1, fillIn)'
    BY <1>1, <1>4 DEF Owner, Items, Slots
  <2>2. \A r \in Items' : (dest[r] >= i => data[dest[r]] = r)'
    BY <1>1, AtHome, ItemsFixed
  <2>3. (\A p \in Slots : p < i => Owner(p, data[p]))'
    BY <1>1, <1>3 DEF Slots
  <2> QED
    BY <1>1, <1>3, <2>1, <2>2, <2>3 DEF FillPass, Slots
<1> QED
  BY <1>1, <1>2, <1>5 DEF ExpandInv, Doubling, Levels, WayLeft, Placed, FilledIn

(* The pass goes on when what is in slot i, and in fillIn, owns slot i.    *)
LEMMA FillStep ==
  ASSUME ExpandInv, pc = "fill", i < M, i' = i + 1, UNCHANGED <<dest, j, pc>>,
         fillIn' \in Slots \cup {None}, data' \in [Slots -> Slots \cup {None}],
         \A p \in Slots \ {i} : data'[p] = data[p],
         data'[i] = fillIn', Owner(i, fillIn')
  PROVE  ExpandInv'
<1>1. i \in Nat /\ M \in Nat /\ i \in Slots
  BY ExpandAssumption DEF ExpandInv, ExpandTypeOK, FillPass, Slots
<1>2. ExpandTypeOK' /\ ItemsInOrder'
  BY <1>1, ItemsFixed DEF ExpandInv, ExpandTypeOK, Slots
<1>3. \A p \in Slots : p \in Int
  BY <1>1 DEF Slots
<1>4. ASSUME NEW p \in Slots, p >= i' PROVE data'[p] \in Slots
  <2>1. p # i /\ p >= i
    BY <1>1, <1>3, <1>4
  <2> QED
    BY <2>1 DEF ExpandInv, FillPass
<1>5. ASSUME NEW r \in Items, dest[r] >= i' PROVE data'[dest[r]] = r
  <2>1. dest[r] \in Slots
    BY TravelType DEF ExpandInv
  <2>2. dest[r] \in Int
    BY <1>3, <2>1
  <2>3. dest[r] # i /\ dest[r] >= i
    BY <1>1, <1>5, <2>2
  <2> QED
    BY <2>1, <2>3 DEF ExpandInv, FillPass
<1>6. ASSUME NEW p \in Slots, p < i' PROVE Owner(p, data'[p])
  <2>1. CASE p = i
    BY <2>1
  <2>2. CASE p # i
    <3>1. p < i
      BY <1>1, <1>3, <1>6, <2>2
    <3> QED
      BY <2>2, <3>1 DEF ExpandInv, FillPass
  <2> QED
    BY <2>1, <2>2
<1>7. i' - 1 = i /\ i' >= 0
  BY <1>1
<1>8. FillPass'
  <2>1. \A s, x : Owner(s, x)' <=> Owner(s, x)
    BY ItemsFixed
  <2>2. Owner(i - 1, fillIn)'
    BY <1>7 DEF Owner, Items, Slots
  <2>3. (\A p \in Slots : p < i => Owner(p, data[p]))'
    BY <1>6 DEF Owner, Items, Slots
  <2>4. (\A r \in Items : dest[r] >= i => data[dest[r]] = r)'
    BY <1>5, ItemsFixed
  <2> QED
    BY <1>4, <1>7, <2>2, <2>3, <2>4 DEF FillPass, Slots
<1> QED
  BY <1>2, <1>8 DEF ExpandInv, Doubling, Levels, WayLeft, Placed, FilledIn

LEMMA TakeItemInv == ExpandInv /\ TakeItem => ExpandInv'
<1> SUFFICES ASSUME ExpandInv, TakeItem PROVE ExpandInv'
  OBVIOUS
<1>1. /\ pc = "fill" /\ i < M /\ dest[data[i]] = i
      /\ fillIn' = data[i] /\ i' = i + 1
      /\ UNCHANGED <<dest, data, j, pc>>
  BY DEF TakeItem
<1>2. i \in Nat /\ M \in Nat /\ i \in Slots
  BY <1>1, ExpandAssumption DEF ExpandInv, ExpandTypeOK, FillPass, Slots
<1>3. data[i] \in Slots
  BY <1>1, <1>2 DEF ExpandInv, FillPass
<1>4. \A r \in Items : dest[r] \in Int
  BY <1>2, TravelType DEF ExpandInv, Slots
<1>5. \A r \in Items : dest[r] = i => r = data[i]
  BY <1>1, <1>2 DEF ExpandInv, FillPass
<1>6. Owner(i, data[i])
  <2>1. CASE data[i] \in Items
    <3>1. ASSUME NEW r \in Items, dest[r] <= i, dest[data[i]] <= i => dest[data[i]] <= dest[r]
          PROVE  data[i] = r
      <4>1. dest[r] = i
        BY <1>1, <1>2, <1>4, <3>1
      <4> QED
        BY <1>5, <4>1
    <3>2. ~(dest[data[i]] > i)
      BY <1>1, <1>2
    <3> QED
      BY <2>1, <3>1, <3>2 DEF Owner
  <2>2. CASE data[i] \notin Items
    <3>1. i = 0
      <4>1. dest[data[i]] <= 0
        BY <1>3, <2>2 DEF ExpandInv, ItemsInOrder
      <4> QED
        BY <1>1, <1>2, <4>1
    <3>2. \A r \in Items : dest[r] # 0
      BY <1>5, <2>2, <3>1
    <3>3. \A r \in Items : dest[r] >= 0
      BY ExpandAssumption, TravelType DEF ExpandInv, Slots
    <3>4. \A r \in Items : ~(dest[r] <= i)
      BY <1>4, <3>1, <3>2, <3>3
    <3> QED
      BY <2>2, <3>4 DEF Owner
  <2> QED
    BY <2>1, <2>2
<1>7. data \in [Slots -> Slots \cup {None}]
  BY DEF ExpandInv, ExpandTypeOK
<1> QED
  BY <1>1, <1>3, <1>6, <1>7, FillStep

LEMMA CopyItemInv == ExpandInv /\ CopyItem => ExpandInv'
<1> SUFFICES ASSUME ExpandInv, CopyItem PROVE ExpandInv'
  OBVIOUS
<1>1. /\ pc = "fill" /\ i < M /\ dest[data[i]] # i
      /\ data' = [data EXCEPT ![i] = fillIn] /\ i' = i + 1
      /\ UNCHANGED <<dest, j, fillIn, pc>>
  BY DEF CopyItem
<1>2. i \in Nat /\ M \in Nat /\ i \in Slots
  BY <1>1, ExpandAssumption DEF ExpandInv, ExpandTypeOK, FillPass, Slots
<1>3. data \in [Slots -> Slots \cup {None}] /\ fillIn \in Slots \cup {None}
  BY DEF ExpandInv, ExpandTypeOK
<1>4. \A r \in Items : dest[r] \in Int
  BY <1>2, TravelType DEF ExpandInv, Slots
<1>5. \A r \in Items : dest[r] # i
  BY <1>1, <1>2 DEF ExpandInv, FillPass
<1>6. \A r \in Items : (dest[r] <= i <=> dest[r] <= i - 1) /\ (dest[r] > i <=> dest[r] > i - 1)
  BY <1>2, <1>4, <1>5
<1>7. Owner(i - 1, fillIn)
  BY <1>1 DEF ExpandInv, FillPass
<1>8. Owner(i, fillIn)
  BY <1>6, <1>7 DEF Owner
<1>9. /\ data' \in [Slots -> Slots \cup {None}] /\ data'[i] = fillIn
      /\ \A p \in Slots \ {i} : data'[p] = data[p]
  BY <1>1, <1>2, <1>3
<1> QED
  BY <1>1, <1>3, <1>8, <1>9, FillStep

LEMMA EndFillInv == ExpandInv /\ EndFill => ExpandInv'
<1> SUFFICES ASSUME ExpandInv, EndFill PROVE ExpandInv'
  OBVIOUS
<1>1. /\ pc = "fill" /\ i = M /\ pc' = "filled"
      /\ UNCHANGED <<dest, data, j, i, fillIn>>
  BY DEF EndFill
<1>2. ExpandTypeOK' /\ ItemsInOrder'
  BY <1>1, ItemsFixed DEF ExpandInv, ExpandTypeOK, Slots
<1>3. \A s \in Slots : Owner(s, data[s])
  <2>1. \A s \in Slots : s < i
    BY <1>1, ExpandAssumption DEF Slots
  <2> QED
    BY <1>1, <2>1 DEF ExpandInv, FillPass
<1>4. FilledIn'
  BY <1>1, <1>3, ItemsFixed DEF FilledIn, Owner, Slots
<1> QED
  BY <1>1, <1>2, <1>4 DEF ExpandInv, Doubling, Levels, WayLeft, Placed, FillPass

-----------------------------------------------------------------------------
LEMMA StutterInv == ExpandInv /\ UNCHANGED expandVars => ExpandInv'
<1> SUFFICES ASSUME ExpandInv, UNCHANGED expandVars PROVE ExpandInv'
  OBVIOUS
<1>1. UNCHANGED <<dest, data, j, i, fillIn, pc>>
  BY DEF expandVars
<1> QED
  BY <1>1 DEF ExpandInv, ExpandTypeOK, ItemsInOrder, Doubling, Levels, WayLeft, Placed,
              FillPass, FilledIn, Owner, Items, Travel, Slots, IsPowerOfTwo

LEMMA ExpandNextInv == ExpandInv /\ [ExpandNext]_expandVars => ExpandInv'
BY DoublePowerInv, StartLevelsInv, MoveInv, StayInv, NextStrideInv, ReturnInv,
   StartFillInv, TakeItemInv, CopyItemInv, EndFillInv, StutterInv DEF ExpandNext

(* The invariant holds in every reachable state.                           *)
THEOREM ExpandInvariance == ExpandSpec => []ExpandInv
<1> QED
  BY ExpandInitInv, ExpandNextInv, PTL DEF ExpandSpec

(* The variables of expand keep their ranges: no index leaves the array.   *)
THEOREM ExpandTypeCorrect == ExpandSpec => []ExpandTypeOK
<1>1. ExpandInv => ExpandTypeOK
  BY DEF ExpandInv
<1> QED
  BY <1>1, ExpandInvariance, PTL

(* What an item still has to travel is the remainder of its way, in every  *)
(* iteration of the level loop.                                            *)
THEOREM WaysShrink == ExpandSpec => []WayLeft
<1>1. ExpandInv => WayLeft
  BY DEF ExpandInv
<1> QED
  BY <1>1, ExpandInvariance, PTL

(* expand without fill puts every item into the slot it is destined for.   *)
THEOREM ExpansionCorrect == ExpandSpec => []Placed
<1>1. ExpandInv => Placed
  BY DEF ExpandInv
<1> QED
  BY <1>1, ExpandInvariance, PTL

(* expand with fill gives every slot the last item destined for it or for  *)
(* a slot before it.                                                       *)
THEOREM FillCorrect == ExpandSpec => []FilledIn
<1>1. ExpandInv => FilledIn
  BY DEF ExpandInv
<1> QED
  BY <1>1, ExpandInvariance, PTL

(* The assertion that expand carries as a comment: the element an item     *)
(* changes places with is a placeholder.                                   *)
THEOREM OnlyPlaceholdersDisplaced == ExpandSpec => OnlyPlaceholdersMoveBack
<1> DEFINE Step == pc = "levels" =>
       \A p, q \in Slots : (q < p /\ data[p] # data'[p] /\ data'[q] = data[p])
                             => data[p] \notin Items
<1>1. ExpandInv /\ [ExpandNext]_expandVars => [Step]_expandVars
  <2> SUFFICES ASSUME ExpandInv, ExpandNext, pc = "levels",
                      NEW p \in Slots, NEW q \in Slots,
                      q < p, data[p] # data'[p], data'[q] = data[p]
               PROVE  data[p] \notin Items
    OBVIOUS
  <2>1. CASE Move
    <3>1. /\ j >= 1 /\ i >= 0 /\ MustMove
          /\ data' = [data EXCEPT ![i] = data[i + j], ![i + j] = data[i]]
      BY <2>1 DEF Move
    <3>2. i \in Slots /\ i + j \in Slots /\ data[i + j] \notin Items
      BY <3>1, MoverFacts
    <3>7. j \in Nat \ {0} /\ i \in Nat /\ p \in Int /\ q \in Int
      BY <3>1, ExpandAssumption DEF ExpandInv, ExpandTypeOK, Slots
    <3>8. /\ data \in [Slots -> Slots]
          /\ \A a, b \in Slots : data[a] = data[b] => a = b
      BY DEF ExpandInv, Levels
    <3>3. /\ j \in Nat \ {0} /\ i \in Nat /\ p \in Int /\ q \in Int
          /\ data \in [Slots -> Slots]
          /\ \A a, b \in Slots : data[a] = data[b] => a = b
      BY <3>7, <3>8
    <3>4. CASE q \notin {i, i + j}
      <4>1. data'[q] = data[q]
        BY <3>1, <3>3, <3>4
      <4> QED
        BY <3>3, <4>1
    <3>5. CASE q = i + j
      <4>1. data'[q] = data[i]
        BY <3>1, <3>2, <3>3, <3>5
      <4>2. p = i
        BY <3>2, <3>3, <4>1
      <4> QED
        BY <3>3, <3>5, <4>2
    <3>6. CASE q = i
      <4>1. data'[q] = data[i + j]
        BY <3>1, <3>2, <3>3, <3>6
      <4> QED
        BY <3>2, <4>1
    <3> QED
      BY <3>4, <3>5, <3>6
  <2>2. CASE ~Move
    <3>1. UNCHANGED data
      BY <2>2 DEF ExpandNext, DoublePower, StartLevels, Stay, NextStride, Return,
                  StartFill, TakeItem, CopyItem, EndFill
    <3> QED
      BY <3>1
  <2> QED
    BY <2>1, <2>2
<1> QED
  BY <1>1, ExpandInvariance, PTL DEF ExpandSpec, OnlyPlaceholdersMoveBack
=============================================================================
