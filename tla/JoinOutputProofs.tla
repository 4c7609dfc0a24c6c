-------------------------- MODULE JoinOutputProofs --------------------------
(***************************************************************************)
(* The output of a general join: the counters that live across queries are *)
(* those of the query, and the rows that selected_count names are brought  *)
(* in front and reach the host.                                            *)
(***************************************************************************)
EXTENDS JoinOutput, BlockProofs, FiniteSetTheorems

OutputRow == (0 .. MaxPairs - 1) \cup {Dummy, Zero}

-----------------------------------------------------------------------------
(* The rows of the output at each point of a query.                        *)
OutputOK ==
  /\ pc = "idle" => joinOutput = NoRows /\ count = 0
  /\ pc = "join" => joinOutput \in [0 .. crossProductSize - 1 -> OutputRow]
  /\ pc = "compact" => \E size \in 0 .. crossProductSize : joinOutput \in [0 .. size - 1 -> OutputRow]
  /\ pc \in {"write", "crashed"} => joinOutput \in [0 .. noisyOutputSize - 1 -> OutputRow]

(* selected_count goes up by at most one from an entry to the next.  The   *)
(* entry of a pair is written before the pair is counted, so that the last *)
(* entry may be one below realMatches.                                     *)
CountsOK ==
  /\ pc = "idle" => /\ selectedCountIdx = 1 /\ realMatches = 0
                    /\ selectedCount = [k \in {0} |-> 0]
  /\ pc # "idle" =>
       /\ selectedCountIdx = pair + 1
       /\ selectedCount \in [0 .. crossProductSize -> 0 .. MaxPairs]
       /\ selectedCount[0] = 0
       /\ Steps(selectedCount, 0, pair)
       /\ realMatches - selectedCount[pair] \in {0, 1}
       /\ realMatches \in 0 .. pair
       /\ realMatches = Cardinality(matches)
       /\ pc # "join" => pair = crossProductSize
  /\ pc \in {"compact", "write"} => realMatches <= noisyOutputSize

(* The host: what has been handed over is in place unless a call was lost. *)
HostOK ==
  /\ Rows(hostBin) \in Nat /\ DOMAIN hostBin = 0 .. Rows(hostBin) - 1
  /\ pc \in {"join", "compact"} => start = 0
  /\ pc = "write" /\ ~lost =>
       \A k \in 0 .. start - 1 : k \in DOMAIN hostBin /\ hostBin[k] = joinOutput[k]

Invariant ==
  /\ crossProductSize \in 0 .. MaxPairs /\ pair \in 0 .. crossProductSize
  /\ count \in 0 .. pair
  /\ noisyOutputSize \in Nat /\ start \in 0 .. noisyOutputSize
  /\ lost \in BOOLEAN
  /\ matches \subseteq 0 .. pair - 1
  /\ pc \in {"idle", "join", "compact", "write", "crashed"}
  /\ OutputOK
  /\ CountsOK
  /\ HostOK

-----------------------------------------------------------------------------
(* The number of rows of an array on 0 .. n - 1.                           *)
LEMMA RowsOf ==
  ASSUME NEW n \in Nat, NEW f, DOMAIN f = 0 .. n - 1
  PROVE  Rows(f) = n
<1>1. Cardinality(0 .. n - 1) = n
  <2>1. 0 \in Int /\ n - 1 \in Int
    OBVIOUS
  <2>2. Cardinality(0 .. n - 1) = IF 0 > n - 1 THEN 0 ELSE n - 1 - 0 + 1
    BY <2>1, FS_Interval, Zenon
  <2> QED
    BY <2>2
<1> QED
  BY <1>1 DEF Rows

(* The entry that is written for a pair.                                   *)
LEMMA PushedCount ==
  ASSUME JoinAssumption, Invariant, NextPair, PushCount, realMatches' \in {realMatches, realMatches + 1}
  PROVE  /\ selectedCountIdx' = pair' + 1
         /\ selectedCount' \in [0 .. crossProductSize' -> 0 .. MaxPairs]
         /\ selectedCount'[0] = 0
         /\ Steps(selectedCount', 0, pair')
         /\ realMatches' - selectedCount'[pair'] \in {0, 1}
         /\ realMatches' \in 0 .. pair'
<1>1. /\ pc = "join" /\ pair \in Nat /\ pair < crossProductSize /\ crossProductSize \in Nat
      /\ crossProductSize <= MaxPairs /\ MaxPairs \in Nat
      /\ crossProductSize' = crossProductSize /\ pair' = pair + 1
  BY DEF Invariant, NextPair, JoinAssumption
<1>2. /\ selectedCountIdx = pair + 1
      /\ selectedCount \in [0 .. crossProductSize -> 0 .. MaxPairs]
      /\ selectedCount[0] = 0
      /\ Steps(selectedCount, 0, pair)
      /\ realMatches - selectedCount[pair] \in {0, 1}
      /\ realMatches \in 0 .. pair
  BY <1>1 DEF Invariant, CountsOK
<1>3. /\ selectedCountIdx' = pair + 2
      /\ selectedCount' = [selectedCount EXCEPT ![pair + 1] = realMatches]
  BY <1>1, <1>2 DEF PushCount
<1>4. /\ selectedCount' \in [0 .. crossProductSize -> 0 .. MaxPairs]
      /\ selectedCount'[pair + 1] = realMatches
      /\ \A k \in 0 .. pair : selectedCount'[k] = selectedCount[k]
  BY <1>1, <1>2, <1>3
<1>5. Steps(selectedCount', 0, pair')
  <2>1. SUFFICES ASSUME NEW k \in 0 .. pair
                 PROVE  /\ selectedCount'[k] \in Int /\ selectedCount'[k + 1] \in Int
                        /\ selectedCount'[k + 1] - selectedCount'[k] \in {0, 1}
    BY <1>1 DEF Steps
  <2>2. CASE k < pair
    <3>1. k \in 0 .. pair - 1 /\ k + 1 \in 0 .. pair
      BY <1>1, <2>2
    <3> QED
      BY <1>2, <1>4, <3>1 DEF Steps
  <2>3. CASE k = pair
    BY <1>1, <1>2, <1>4, <2>3
  <2> QED
    BY <1>1, <2>2, <2>3
<1>6. realMatches' - selectedCount'[pair'] \in {0, 1}
  <2>1. selectedCount'[pair'] = realMatches /\ realMatches \in Int
    BY <1>1, <1>2, <1>4
  <2>2. PICK r \in Int : r = realMatches
    BY <2>1
  <2>3. realMatches' = r \/ realMatches' = r + 1
    BY <2>2
  <2>4. realMatches' - r \in {0, 1}
    BY <2>3
  <2> QED
    BY <2>1, <2>2, <2>4
<1>7. realMatches' \in 0 .. pair'
  BY <1>1, <1>2
<1>8. selectedCountIdx' = pair' + 1 /\ selectedCount'[0] = 0
  BY <1>1, <1>2, <1>3, <1>4
<1> QED
  BY <1>1, <1>4, <1>5, <1>6, <1>7, <1>8

(* A session starts in the invariant.                                      *)
LEMMA InitInvariant ==
  ASSUME JoinAssumption, Init
  PROVE  Invariant
<1>1. Rows(NoRows) = 0 /\ DOMAIN NoRows = 0 .. 0 - 1
  <2>1. 0 \in Nat /\ DOMAIN NoRows = 0 .. 0 - 1
    BY DEF NoRows
  <2> QED
    BY <2>1, RowsOf
<1>2. MaxPairs \in Nat
  BY DEF JoinAssumption
<1> QED
  BY <1>1, <1>2 DEF Init, Invariant, OutputOK, CountsOK, HostOK

(* A query starts with counters that were put back.                        *)
LEMMA StartJoinInvariant ==
  ASSUME JoinAssumption, Invariant, StartJoin
  PROVE  Invariant'
<1>0. MaxPairs \in Nat
  BY DEF JoinAssumption
<1>1. /\ pc = "idle" /\ pc' = "join" /\ crossProductSize' \in 0 .. MaxPairs /\ pair' = 0 /\ count' = 0
      /\ matches' = {} /\ start' = 0 /\ lost' = FALSE
      /\ noisyOutputSize' = noisyOutputSize /\ noisyOutputSize \in Nat
      /\ selectedCountIdx' = selectedCountIdx /\ realMatches' = realMatches
  BY DEF StartJoin, Invariant
<1>2. OutputOK'
  BY <1>1 DEF StartJoin, OutputOK, OutputRow
<1>3. CountsOK'
  <2>1. selectedCountIdx = 1 /\ realMatches = 0
    BY <1>1 DEF Invariant, CountsOK
  <2>2. selectedCount' = [k \in 0 .. crossProductSize' |-> 0]
    BY DEF StartJoin
  <2>3. Cardinality({}) = 0
    BY FS_EmptySet
  <2>4. Steps(selectedCount', 0, 0)
    BY DEF Steps
  <2> QED
    BY <1>0, <1>1, <2>1, <2>2, <2>3, <2>4 DEF CountsOK
<1>4. HostOK'
  <2>1. Rows(hostBin) \in Nat /\ DOMAIN hostBin = 0 .. Rows(hostBin) - 1 /\ DOMAIN hostBin' = DOMAIN hostBin
    BY DEF StartJoin, Invariant, HostOK
  <2>2. Rows(hostBin') = Rows(hostBin)
    BY <2>1 DEF Rows
  <2> QED
    BY <1>1, <2>1, <2>2 DEF HostOK
<1>5. /\ pair' \in 0 .. crossProductSize' /\ count' \in 0 .. pair' /\ start' \in 0 .. noisyOutputSize'
      /\ matches' \subseteq 0 .. pair' - 1
  BY <1>0, <1>1
<1> QED
  BY <1>1, <1>2, <1>3, <1>4, <1>5 DEF Invariant

(* A pair is joined: its row, if it has one, comes after those before it.  *)
LEMMA JoinPairInvariant ==
  ASSUME JoinAssumption, Invariant, Match \/ OutOfRange \/ NoMatch
  PROVE  Invariant'
<1>1. NextPair /\ PushCount /\ realMatches' \in {realMatches, realMatches + 1}
  BY DEF Match, OutOfRange, NoMatch
<1>2. /\ pc = "join" /\ pc' = "join" /\ pair \in Nat /\ pair < crossProductSize /\ crossProductSize \in Nat
      /\ crossProductSize <= MaxPairs /\ MaxPairs \in Nat
      /\ crossProductSize' = crossProductSize /\ pair' = pair + 1
      /\ noisyOutputSize' = noisyOutputSize /\ start' = start /\ lost' = lost /\ hostBin' = hostBin
  BY <1>1 DEF NextPair, Invariant, JoinAssumption, hostVars
<1>3. count \in 0 .. pair /\ joinOutput \in [0 .. crossProductSize - 1 -> OutputRow]
  BY <1>2 DEF Invariant, OutputOK
<1>4. joinOutput' \in [0 .. crossProductSize' - 1 -> OutputRow] /\ count' \in 0 .. pair'
  <2>1. pair \in OutputRow /\ Dummy \in OutputRow
    BY <1>2 DEF OutputRow
  <2>2. CASE \E row \in OutputRow : AppendRow(row)
    BY <1>2, <1>3, <2>2 DEF AppendRow
  <2>3. CASE joinOutput' = joinOutput /\ count' = count
    BY <1>2, <1>3, <2>3
  <2> QED
    BY <2>1, <2>2, <2>3 DEF Match, OutOfRange, NoMatch
<1>5. matches \subseteq 0 .. pair - 1
  BY DEF Invariant
<1>6. matches' \subseteq 0 .. pair' - 1
  <2>1. matches' = matches \/ matches' = matches \cup {pair}
    BY DEF Match, OutOfRange, NoMatch
  <2>2. \A m \in matches : m \in 0 .. pair
    BY <1>2, <1>5
  <2>3. pair' - 1 = pair
    BY <1>2
  <2> QED
    BY <1>2, <2>1, <2>2, <2>3
<1>7. realMatches' = Cardinality(matches')
  <2>1. realMatches = Cardinality(matches)
    BY <1>2 DEF Invariant, CountsOK
  <2>2. CASE Match
    <3>1. IsFiniteSet(0 .. pair - 1)
      <4>1. 0 \in Int /\ pair - 1 \in Int
        BY <1>2
      <4> QED
        BY <4>1, FS_Interval
    <3>2. IsFiniteSet(matches)
      BY <1>5, <3>1, FS_Subset
    <3>3. pair \notin matches
      BY <1>2, <1>5
    <3>4. Cardinality(matches \cup {pair}) = Cardinality(matches) + 1
      BY <3>2, <3>3, FS_AddElement
    <3> QED
      BY <2>1, <2>2, <3>4 DEF Match
  <2>3. CASE OutOfRange \/ NoMatch
    BY <2>1, <2>3 DEF OutOfRange, NoMatch
  <2> QED
    BY <2>2, <2>3
<1>8. OutputOK'
  BY <1>2, <1>4 DEF OutputOK
<1>9. CountsOK'
  BY <1>1, <1>2, <1>7, PushedCount DEF CountsOK
<1>10. HostOK'
  BY <1>2 DEF Invariant, HostOK, Rows
<1> QED
  BY <1>2, <1>4, <1>6, <1>8, <1>9, <1>10 DEF Invariant

(* The end of a join draws the size of its output.                         *)
LEMMA EndJoinInvariant ==
  ASSUME JoinAssumption, Invariant, EndJoin
  PROVE  Invariant'
<1>1. /\ pc = "join" /\ pc' = "compact" /\ pair = crossProductSize /\ crossProductSize \in Nat
      /\ crossProductSize' = crossProductSize /\ pair' = pair /\ count' = count /\ matches' = matches
      /\ start' = start /\ lost' = lost /\ hostBin' = hostBin
      /\ selectedCount' = selectedCount /\ selectedCountIdx' = selectedCountIdx /\ realMatches' = realMatches
  BY DEF EndJoin, Invariant, hostVars
<1>2. realMatches \in Nat
  BY <1>1 DEF Invariant, CountsOK
<1>3. noisyOutputSize' \in Nat /\ realMatches <= noisyOutputSize'
  <2>1. PICK noise \in Noise : noisyOutputSize' = realMatches + noise
    BY DEF EndJoin
  <2> QED
    BY <1>2, <2>1 DEF JoinAssumption
<1>4. start = 0
  BY <1>1 DEF Invariant, HostOK
<1>5. OutputOK'
  <2>1. PICK size \in {count, crossProductSize} : joinOutput' = [k \in 0 .. size - 1 |-> joinOutput[k]]
    BY DEF EndJoin
  <2>2. count \in 0 .. crossProductSize
    BY <1>1 DEF Invariant
  <2>3. size \in 0 .. crossProductSize
    BY <1>1, <2>2
  <2>4. joinOutput \in [0 .. crossProductSize - 1 -> OutputRow]
    BY <1>1 DEF Invariant, OutputOK
  <2>5. joinOutput' \in [0 .. size - 1 -> OutputRow]
    BY <1>1, <2>1, <2>3, <2>4
  <2> QED
    BY <1>1, <2>3, <2>5 DEF OutputOK
<1>6. CountsOK'
  BY <1>1, <1>3 DEF Invariant, CountsOK
<1>7. HostOK'
  BY <1>1, <1>4 DEF Invariant, HostOK, Rows
<1> QED
  BY <1>1, <1>3, <1>4, <1>5, <1>6, <1>7 DEF Invariant

(* The counts of the rows that are compacted are right, and so none of     *)
(* them is past the matches.                                               *)
LEMMA CountsOfOutput ==
  ASSUME Invariant, pc = "compact", NEW size \in 0 .. crossProductSize
  PROVE  /\ Steps(selectedCount, 0, size)
         /\ \A k \in 0 .. size - 1 : Selected(selectedCount, k) => selectedCount[k] < noisyOutputSize
<1>1. /\ crossProductSize \in Nat /\ pair = crossProductSize /\ Steps(selectedCount, 0, pair)
      /\ selectedCount \in [0 .. crossProductSize -> 0 .. MaxPairs]
      /\ realMatches - selectedCount[pair] \in {0, 1} /\ realMatches \in Nat
      /\ noisyOutputSize \in Nat /\ realMatches <= noisyOutputSize
  BY DEF Invariant, CountsOK
<1>2. Steps(selectedCount, 0, size)
  <2>1. \A k \in 0 .. size - 1 : k \in 0 .. pair - 1
    BY <1>1
  <2> QED
    BY <1>1, <2>1 DEF Steps
<1>3. ASSUME NEW k \in 0 .. size - 1, Selected(selectedCount, k)
      PROVE  selectedCount[k] < noisyOutputSize
  <2>1. 0 \in Int /\ pair \in Int /\ k \in 0 .. pair /\ pair \in 0 .. pair /\ k < pair
    BY <1>1
  <2>2. selectedCount[k] < selectedCount[pair]
    BY <1>1, <1>3, <2>1, SelectedBelow
  <2>3. selectedCount[k] \in Int /\ selectedCount[pair] \in Int
    BY <1>1, <2>1, StepsBound
  <2> QED
    BY <1>1, <2>2, <2>3
<1> QED
  BY <1>2, <1>3

(* joinCompact arranges the rows and cuts them off.                        *)
LEMMA JoinCompactInvariant ==
  ASSUME JoinAssumption, Invariant, JoinCompact
  PROVE  Invariant'
<1>1. /\ pc = "compact" /\ pc' = "write" /\ crossProductSize' = crossProductSize /\ pair' = pair
      /\ count' = count /\ matches' = matches /\ start' = start /\ lost' = lost /\ hostBin' = hostBin
      /\ selectedCount' = selectedCount /\ selectedCountIdx' = selectedCountIdx
      /\ realMatches' = realMatches /\ noisyOutputSize' = noisyOutputSize
  BY DEF JoinCompact, hostVars
<1>2. PICK size \in 0 .. crossProductSize : joinOutput \in [0 .. size - 1 -> OutputRow]
  BY <1>1 DEF Invariant, OutputOK
<1>3. size \in Nat /\ noisyOutputSize \in Nat /\ start = 0
  BY <1>1 DEF Invariant, HostOK
<1>4. Rows(joinOutput) = size
  BY <1>2, <1>3, RowsOf
<1>5. noisyOutputSize < size
  BY <1>4 DEF JoinCompact
<1>6. Min({size, noisyOutputSize}) = noisyOutputSize
  <2>1. PICK m \in Int : m = size
    BY <1>3
  <2>2. PICK n \in Int : n = noisyOutputSize
    BY <1>3
  <2>3. Min({m, n}) \in {m, n} /\ Min({m, n}) <= n
    BY MinOfTwo, Zenon
  <2> QED
    BY <1>5, <2>1, <2>2, <2>3
<1>7. PICK from : /\ Arrangement(from, size)
                  /\ joinOutput' = FirstRows(joinOutput, from, noisyOutputSize)
  <2>1. Steps(selectedCount, 0, size)
    BY <1>1, CountsOfOutput
  <2>2. Steps(selectedCount, 0, size - 1)
    BY <1>3, <2>1 DEF Steps
  <2>0. joinOutput' = ORCompact(joinOutput, size, selectedCount, noisyOutputSize)
    BY <1>4 DEF JoinCompact
  <2>3. \E from : /\ Arrangement(from, size)
                  /\ ORCompact(joinOutput, size, selectedCount, noisyOutputSize) =
                       FirstRows(joinOutput, from, Min({size, noisyOutputSize}))
    BY <1>3, <2>0, <2>2, CompactedAreRows
  <2> QED
    BY <1>6, <2>0, <2>3
<1>8. joinOutput' \in [0 .. noisyOutputSize - 1 -> OutputRow]
  <2>1. \A k \in 0 .. noisyOutputSize - 1 : from[k] \in 0 .. size - 1
    BY <1>3, <1>5, <1>7 DEF Arrangement
  <2> QED
    BY <1>2, <1>7, <2>1 DEF FirstRows
<1>9. OutputOK'
  BY <1>1, <1>8 DEF OutputOK
<1>10. CountsOK'
  BY <1>1 DEF Invariant, CountsOK
<1>11. HostOK'
  BY <1>1, <1>3 DEF Invariant, HostOK, Rows
<1> QED
  BY <1>1, <1>9, <1>10, <1>11 DEF Invariant

(* A block of the output reaches the host or does not.                     *)
LEMMA WriteBlockInvariant ==
  ASSUME JoinAssumption, Invariant, WriteBlock
  PROVE  Invariant'
<1> DEFINE writeNum == Min({noisyOutputSize - start, OCALL_MAXSIZE})
           dblock == [k \in 0 .. writeNum - 1 |-> joinOutput[start + k]]
           h == Rows(hostBin)
<1>1. /\ pc = "write" /\ crossProductSize' = crossProductSize /\ pair' = pair
      /\ count' = count /\ matches' = matches /\ joinOutput' = joinOutput
      /\ selectedCount' = selectedCount /\ selectedCountIdx' = selectedCountIdx
      /\ realMatches' = realMatches /\ noisyOutputSize' = noisyOutputSize
      /\ start < noisyOutputSize /\ start \in Nat /\ noisyOutputSize \in Nat
  BY DEF WriteBlock, Invariant
<1>2. \/ /\ start <= h /\ hostBin' = WriteDataBlock(start, dblock) /\ start' = start + writeNum
         /\ lost' = lost /\ pc' = pc
      \/ /\ pc' = "crashed" /\ hostBin' = hostBin /\ start' = start /\ lost' = lost
      \/ /\ lost' = TRUE /\ start' = start + writeNum /\ hostBin' = hostBin /\ pc' = pc
  BY DEF WriteBlock, hostVars
<1>3. writeNum \in Nat \ {0} /\ start + writeNum <= noisyOutputSize
  <2>1. PICK m \in Int : m = noisyOutputSize - start
    BY <1>1
  <2>2. OCALL_MAXSIZE \in Int /\ OCALL_MAXSIZE > 0
    BY DEF JoinAssumption
  <2>3. Min({m, OCALL_MAXSIZE}) \in {m, OCALL_MAXSIZE} /\ Min({m, OCALL_MAXSIZE}) <= m
    BY <2>2, MinOfTwo, Zenon
  <2> QED
    BY <1>1, <2>1, <2>2, <2>3
<1>4. h \in Nat /\ DOMAIN hostBin = 0 .. h - 1
  BY DEF Invariant, HostOK
<1>5. Rows(dblock) = writeNum
  <2>1. DOMAIN dblock = 0 .. writeNum - 1
    OBVIOUS
  <2> HIDE DEF dblock, writeNum
  <2> QED
    BY <1>3, <2>1, RowsOf
<1>6. start' \in 0 .. noisyOutputSize' /\ lost' \in BOOLEAN /\ pc' \in {"write", "crashed"}
  <2> HIDE DEF writeNum, dblock, h
  <2>1. lost \in BOOLEAN
    BY DEF Invariant
  <2>2. start + writeNum \in 0 .. noisyOutputSize /\ start \in 0 .. noisyOutputSize
    BY <1>1, <1>3
  <2> QED
    BY <1>1, <1>2, <2>1, <2>2
<1>7. OutputOK'
  BY <1>1, <1>6 DEF Invariant, OutputOK
<1>8. CountsOK'
  BY <1>1, <1>6 DEF Invariant, CountsOK
<1>9. HostOK'
  <2>1. CASE hostBin' = hostBin /\ pc' = "crashed"
    BY <2>1 DEF Invariant, HostOK, Rows
  <2>2. CASE hostBin' = hostBin /\ lost' = TRUE /\ pc' = pc
    BY <1>1, <2>2 DEF Invariant, HostOK, Rows
  <2>3. CASE start <= h /\ hostBin' = WriteDataBlock(start, dblock) /\ start' = start + writeNum /\ lost' = lost /\ pc' = pc
    <3> HIDE DEF writeNum
    <3>1. hostBin' = [k \in 0 .. h - 1 \cup start .. start + writeNum - 1 |->
                        IF k \in start .. start + writeNum - 1 THEN dblock[k - start] ELSE hostBin[k]]
      <4> HIDE DEF h, dblock
      <4> QED
        BY <1>4, <1>5, <2>3 DEF WriteDataBlock
    <3> DEFINE g == IF h <= start + writeNum THEN start + writeNum ELSE h
    <3>2. g \in Nat /\ 0 .. h - 1 \cup start .. start + writeNum - 1 = 0 .. g - 1
      <4> HIDE DEF h
      <4> QED
        BY <1>1, <1>3, <1>4, <2>3
    <3>3. DOMAIN hostBin' = 0 .. g - 1
      <4> HIDE DEF g, h, dblock
      <4> QED
        BY <3>1, <3>2
    <3>4. Rows(hostBin') = g
      <4> HIDE DEF g
      <4> QED
        BY <3>2, <3>3, RowsOf
    <3>5. ASSUME ~ lost', NEW k \in 0 .. start' - 1
          PROVE  k \in DOMAIN hostBin' /\ hostBin'[k] = joinOutput'[k]
      <4>1. k \in 0 .. start + writeNum - 1 /\ k \in DOMAIN hostBin'
        <5> HIDE DEF h, dblock
        <5> QED
          BY <1>1, <1>3, <1>4, <2>3, <3>2, <3>3
      <4>2. CASE k < start
        <5>1. k \in 0 .. start - 1 /\ k \notin start .. start + writeNum - 1
          BY <1>1, <1>3, <4>1, <4>2
        <5>2. k \in DOMAIN hostBin /\ hostBin[k] = joinOutput[k]
          BY <1>1, <2>3, <3>5, <5>1 DEF Invariant, HostOK
        <5>3. hostBin'[k] = hostBin[k]
          <6> HIDE DEF h, dblock
          <6> QED
            BY <1>4, <3>1, <5>1, <5>2
        <5> QED
          BY <1>1, <4>1, <5>2, <5>3
      <4>3. CASE ~ k < start
        <5>1. k \in start .. start + writeNum - 1 /\ k - start \in 0 .. writeNum - 1 /\ start + (k - start) = k
          BY <1>1, <1>3, <4>1, <4>3
        <5>2. dblock[k - start] = joinOutput[k]
          BY <5>1
        <5>3. hostBin'[k] = dblock[k - start]
          <6> HIDE DEF h, dblock
          <6> QED
            BY <3>1, <5>1
        <5> QED
          BY <1>1, <4>1, <5>2, <5>3
      <4> QED
        BY <4>2, <4>3
    <3> QED
      BY <1>1, <2>3, <3>2, <3>3, <3>4, <3>5 DEF HostOK
  <2> QED
    BY <1>2, <2>1, <2>2, <2>3
<1> QED
  BY <1>1, <1>6, <1>7, <1>8, <1>9 DEF Invariant

(* The end of a query puts the counters back.                              *)
LEMMA EndQueryInvariant ==
  ASSUME JoinAssumption, Invariant, EndQuery
  PROVE  Invariant'
<1>1. /\ pc' = "idle" /\ crossProductSize' = crossProductSize /\ pair' = pair /\ matches' = matches
      /\ noisyOutputSize' = noisyOutputSize /\ start' = start /\ lost' = lost /\ hostBin' = hostBin
      /\ selectedCountIdx' = 1 /\ realMatches' = 0
      /\ joinOutput' = NoRows /\ count' = 0 /\ selectedCount' = [k \in {0} |-> 0]
  BY DEF EndQuery, ResetCounters, hostVars
<1>2. pair \in Nat
  BY DEF Invariant
<1>3. OutputOK' /\ CountsOK'
  BY <1>1 DEF OutputOK, CountsOK
<1>4. HostOK'
  BY <1>1 DEF Invariant, HostOK, Rows
<1> QED
  BY <1>1, <1>2, <1>3, <1>4 DEF Invariant

(* Every step of a session preserves the invariant.                        *)
LEMMA NextInvariant ==
  ASSUME JoinAssumption, Invariant, [Next]_vars
  PROVE  Invariant'
<1>1. CASE UNCHANGED vars
  BY <1>1 DEF vars, hostVars, Invariant, OutputOK, CountsOK, HostOK, Rows
<1> QED
  BY <1>1, StartJoinInvariant, JoinPairInvariant, EndJoinInvariant, JoinCompactInvariant,
     WriteBlockInvariant, EndQueryInvariant DEF Next

-----------------------------------------------------------------------------
(* The invariant is inductive: it holds in every state of a session.       *)
THEOREM SessionInvariant == Spec => []Invariant
<1>1. Init => Invariant
  BY JoinAssumption, InitInvariant
<1>2. Invariant /\ [Next]_vars => Invariant'
  BY JoinAssumption, NextInvariant
<1> QED
  BY <1>1, <1>2, PTL DEF Spec

(* Types and ranges: a counter of the session never outgrows the pairs.    *)
THEOREM OutputTyped == Spec => []TypeOK
<1>1. Invariant => TypeOK
  <2> SUFFICES ASSUME Invariant PROVE TypeOK
    OBVIOUS
  <2>0. MaxPairs \in Nat
    BY JoinAssumption DEF JoinAssumption
  <2>1. \A k \in DOMAIN joinOutput : joinOutput[k] \in OutputRow
    BY DEF Invariant, OutputOK, NoRows
  <2>2. \A k \in DOMAIN selectedCount : selectedCount[k] \in 0 .. MaxPairs
    BY <2>0 DEF Invariant, CountsOK
  <2>3. realMatches \in 0 .. MaxPairs
    BY <2>0 DEF Invariant, CountsOK
  <2> QED
    BY <2>0, <2>1, <2>2, <2>3 DEF TypeOK, Invariant, HostOK, OutputRow
<1> QED
  BY <1>1, SessionInvariant, PTL

(* The counters that live across queries are those of this query.          *)
THEOREM CountersPutBack == Spec => []CountersOfThisQuery
<1>1. Invariant => CountersOfThisQuery
  <2> SUFFICES ASSUME Invariant, pc # "idle"
               PROVE  /\ selectedCountIdx = pair + 1
                      /\ realMatches = Cardinality(matches)
                      /\ \A k \in 1 .. pair : selectedCount[k] - selectedCount[k - 1] \in {0, 1}
                      /\ count <= pair
    BY DEF CountersOfThisQuery
  <2>1. pair \in Nat /\ count <= pair
    BY DEF Invariant
  <2>2. Steps(selectedCount, 0, pair) /\ selectedCountIdx = pair + 1 /\ realMatches = Cardinality(matches)
    BY DEF Invariant, CountsOK
  <2>3. ASSUME NEW k \in 1 .. pair PROVE selectedCount[k] - selectedCount[k - 1] \in {0, 1}
    <3>1. k - 1 \in 0 .. pair - 1 /\ (k - 1) + 1 = k
      BY <2>1
    <3> QED
      BY <2>2, <3>1 DEF Steps
  <2> QED
    BY <2>1, <2>2, <2>3
<1> QED
  BY <1>1, SessionInvariant, PTL

(* The rows that selected_count names come first in the compacted output,  *)
(* and what the host has at the end of a query is the compacted output,    *)
(* whatever the numbers of pairs and matches, the noise and the size of    *)
(* the blocks are.                                                         *)
THEOREM CountedRowsStored == Spec => CountedRowsFirst
<1>1. ASSUME Invariant, [Next]_vars, pc = "compact", pc' = "write",
             NEW k \in DOMAIN joinOutput, Selected(selectedCount, k)
      PROVE  joinOutput'[selectedCount[k]] = joinOutput[k]
  <2>1. JoinCompact
    BY <1>1 DEF Next, vars, StartJoin, Match, OutOfRange, NoMatch, NextPair, EndJoin, WriteBlock, EndQuery
  <2>2. PICK size \in 0 .. crossProductSize : joinOutput \in [0 .. size - 1 -> OutputRow]
    BY <1>1 DEF Invariant, OutputOK
  <2>3. size \in Nat /\ noisyOutputSize \in Nat /\ selectedCount[0] = 0 /\ k \in 0 .. size - 1
    BY <1>1, <2>2 DEF Invariant, CountsOK
  <2>4. Rows(joinOutput) = size
    BY <2>2, <2>3, RowsOf
  <2>5. Steps(selectedCount, 0, size) /\ selectedCount[k] < noisyOutputSize
    BY <1>1, <2>3, CountsOfOutput
  <2>6. selectedCount[k] \in Int /\ selectedCount[k] - selectedCount[0] = selectedCount[k]
    BY <2>3, <2>5 DEF Steps
  <2>7. ORCompact(joinOutput, size, selectedCount, noisyOutputSize)[selectedCount[k] - selectedCount[0]] = joinOutput[k]
    BY <1>1, <2>3, <2>5, <2>6, SelectedRowsFirst
  <2> QED
    BY <2>1, <2>4, <2>6, <2>7 DEF JoinCompact
<1>2. ASSUME Invariant, [Next]_vars, pc = "write", pc' = "idle", ~ lost, NEW k \in 0 .. noisyOutputSize - 1
      PROVE  hostBin[k] = joinOutput[k]
  <2>1. start >= noisyOutputSize
    BY <1>2 DEF Next, vars, StartJoin, Match, OutOfRange, NoMatch, NextPair, EndJoin, JoinCompact, WriteBlock, EndQuery
  <2>2. k \in 0 .. start - 1
    BY <1>2, <2>1 DEF Invariant
  <2> QED
    BY <1>2, <2>2 DEF Invariant, HostOK
<1> DEFINE Stored == /\ pc = "compact" /\ pc' = "write" =>
                          \A k \in DOMAIN joinOutput :
                            Selected(selectedCount, k) => joinOutput'[selectedCount[k]] = joinOutput[k]
                     /\ pc = "write" /\ pc' = "idle" /\ ~lost =>
                          \A k \in 0 .. noisyOutputSize - 1 : hostBin[k] = joinOutput[k]
<1>3. Invariant /\ [Next]_vars => [Stored]_vars
  BY <1>1, <1>2
<1> QED
  BY <1>3, SessionInvariant, PTL DEF Spec, CountedRowsFirst
=============================================================================
