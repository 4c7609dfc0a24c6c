----------------------------- MODULE JoinOutput -----------------------------
(***************************************************************************)
(* The output of a general join: crossProduct (Enclave/Enclave-utility.cpp) *)
(* row by row, the ends of PrivTree::join, PrivTree::selectJoin and        *)
(* HTree::bucketCrossProduct, innerJoin and joinCompact                    *)
(* (Enclave/do-algorithms.cpp), over the queries of a session.             *)
(*                                                                         *)
(* A query joins the pairs of rows of all bin pairs, one output row and    *)
(* one entry of selected_count for each, compacts the output and writes as *)
(* many rows as there are matches plus noise to bin 0 of the host, in      *)
(* blocks of OCALL_MAXSIZE rows: writeDataBlock_Wrapper, the OCALL stub of *)
(* Enclave_t.c and the handler of App.cpp.  Only the output that is kept   *)
(* in the enclave is modelled (useOCALL is false, us_size is 0).           *)
(*                                                                         *)
(* A matching row is named by the number of its pair.                      *)
(***************************************************************************)
EXTENDS Integers, FiniteSets, TightCompact

CONSTANTS
  MaxPairs,    \* bound on crossProductSize
  Noise,       \* what TGeom may add to the number of matches
  OCALL_MAXSIZE

ASSUME JoinAssumption ==
  MaxPairs \in Nat /\ Noise \subseteq Nat /\ OCALL_MAXSIZE \in Nat \ {0}

Dummy == -1    \* a row that carries INT_MAX
Zero == -2     \* a row that was never written
Old == -3      \* a row of the host that an earlier query has left there

VARIABLES
  crossProductSize,
  pair,                 \* pairs that have been joined
  joinOutput, count,    \* joinOutput->mem and joinOutput->count
  selectedCount, selectedCountIdx,
  realMatches,
  noisyOutputSize,
  matches,              \* the pairs that match and satisfy the predicate
  hostBin,              \* the rows of untrustedBinStorage[0]
  start,                \* rows that writeDataBlock_Wrapper has handed over
  lost,                 \* an OCALL of the query came back without having run
  pc

hostVars == <<hostBin, start, lost>>
vars == <<crossProductSize, pair, joinOutput, count, selectedCount, selectedCountIdx,
          realMatches, noisyOutputSize, matches, hostVars, pc>>

NoRows == [k \in {} |-> Zero]

Init ==
  /\ crossProductSize = 0 /\ pair = 0
  /\ joinOutput = NoRows /\ count = 0
  /\ selectedCount = [k \in {0} |-> 0] /\ selectedCountIdx = 1
  /\ realMatches = 0 /\ noisyOutputSize = 0
  /\ matches = {}
  /\ hostBin = NoRows /\ start = 0 /\ lost = FALSE
  /\ pc = "idle"

\* joinOutput and selected_count are allocated for the pairs of all bins.
StartJoin ==
  /\ pc = "idle"
  /\ crossProductSize' \in 0 .. MaxPairs
  /\ joinOutput' = [k \in 0 .. crossProductSize' - 1 |-> Zero]
  /\ count' = 0
  /\ selectedCount' = [k \in 0 .. crossProductSize' |-> 0]
  /\ pair' = 0
  /\ matches' = {}
  /\ start' = 0
  /\ lost' = FALSE
  /\ hostBin' = [k \in DOMAIN hostBin |-> Old]
  /\ pc' = "join"
  /\ UNCHANGED <<selectedCountIdx, realMatches, noisyOutputSize>>

\* selected_count[selected_count_idx++] = realMatches
PushCount ==
  /\ selectedCount' = [selectedCount EXCEPT ![selectedCountIdx] = realMatches]
  /\ selectedCountIdx' = selectedCountIdx + 1

\* joinOutput->write(joinRow)
AppendRow(row) ==
  /\ joinOutput' = [joinOutput EXCEPT ![count] = row]
  /\ count' = count + 1

NextPair ==
  /\ pc = "join"
  /\ pair < crossProductSize
  /\ pair' = pair + 1
  /\ UNCHANGED <<crossProductSize, noisyOutputSize, hostVars, pc>>

Match ==
  /\ NextPair
  /\ PushCount
  /\ realMatches' = realMatches + 1
  /\ AppendRow(pair)
  /\ matches' = matches \cup {pair}

\* The pair matches but its row is outside the range of the query: continue.
OutOfRange ==
  /\ NextPair
  /\ PushCount
  /\ UNCHANGED <<joinOutput, count, realMatches, matches>>

NoMatch ==
  /\ NextPair
  /\ PushCount
  /\ AppendRow(Dummy)
  /\ UNCHANGED <<realMatches, matches>>

\* PrivTree::join resizes joinOutput to its count, the other joins do not.
EndJoin ==
  /\ pc = "join"
  /\ pair = crossProductSize
  /\ \E size \in {count, crossProductSize} : joinOutput' = [k \in 0 .. size - 1 |-> joinOutput[k]]
  /\ \E noise \in Noise : noisyOutputSize' = realMatches + noise
  /\ pc' = "compact"
  /\ UNCHANGED <<crossProductSize, pair, count, selectedCount, selectedCountIdx, realMatches, matches, hostVars>>

\* Mutants: a counter is not put back.
KeepIdxMutant == UNCHANGED selectedCountIdx /\ realMatches' = 0
KeepMatchesMutant == selectedCountIdx' = 1 /\ UNCHANGED realMatches
ResetCounters == selectedCountIdx' = 1 /\ realMatches' = 0

Rows(array) == Cardinality(DOMAIN array)

(* us_size is 0: the output is compacted if that makes it shorter.         *)
JoinCompact ==
  /\ pc = "compact"
  /\ noisyOutputSize < Rows(joinOutput)
  /\ joinOutput' = ORCompact(joinOutput, Rows(joinOutput), selectedCount, noisyOutputSize)
  /\ pc' = "write"
  /\ UNCHANGED <<crossProductSize, pair, count, selectedCount, selectedCountIdx, realMatches,
                 noisyOutputSize, matches, hostVars>>

\* Mutant: a block is written from the end of the bin on.
WriteDataBlockMutant(pos, dblock) ==
  [k \in 0 .. Rows(hostBin) + Rows(dblock) - 1 |->
     IF k < Rows(hostBin) THEN hostBin[k] ELSE dblock[k - Rows(hostBin)]]

(* The handler: rows in place or, past the end of the bin, one more        *)
(* location for each row; rows after the block stay.                       *)
WriteDataBlock(pos, dblock) ==
  [k \in DOMAIN hostBin \cup pos .. pos + Rows(dblock) - 1 |->
     IF k \in pos .. pos + Rows(dblock) - 1 THEN dblock[k - pos] ELSE hostBin[k]]

(* One round of writeDataBlock_Wrapper.  The stub copies the block out of  *)
(* the enclave and makes the call, or returns an error that the wrapper    *)
(* does not look at.  A block whose first location is past the end of the  *)
(* bin, because the one before it was lost, makes set throw in the host.   *)
WriteBlock ==
  /\ pc = "write"
  /\ start < noisyOutputSize
  /\ LET writeNum == Min({noisyOutputSize - start, OCALL_MAXSIZE})
         dblock == [k \in 0 .. writeNum - 1 |-> joinOutput[start + k]]
     IN \/ /\ start <= Rows(hostBin)
           /\ hostBin' = WriteDataBlock(start, dblock)
           /\ start' = start + writeNum
           /\ UNCHANGED <<lost, pc>>
        \/ /\ start > Rows(hostBin)
           /\ pc' = "crashed"
           /\ UNCHANGED hostVars
        \/ /\ lost' = TRUE
           /\ start' = start + writeNum
           /\ UNCHANGED <<hostBin, pc>>
  /\ UNCHANGED <<crossProductSize, pair, joinOutput, count, selectedCount, selectedCountIdx,
                 realMatches, noisyOutputSize, matches>>

(* The end of joinCompact, also when there was nothing to write.           *)
EndQuery ==
  /\ \/ pc = "write" /\ start >= noisyOutputSize
     \/ pc = "compact" /\ noisyOutputSize >= Rows(joinOutput)
  /\ ResetCounters
  /\ joinOutput' = NoRows /\ count' = 0
  /\ selectedCount' = [k \in {0} |-> 0]
  /\ pc' = "idle"
  /\ UNCHANGED <<crossProductSize, pair, noisyOutputSize, matches, hostVars>>

Next ==
  \/ StartJoin
  \/ Match \/ OutOfRange \/ NoMatch
  \/ EndJoin \/ JoinCompact \/ WriteBlock \/ EndQuery

Spec == Init /\ [][Next]_vars

-----------------------------------------------------------------------------
TypeOK ==
  /\ pair \in 0 .. crossProductSize /\ crossProductSize \in 0 .. MaxPairs
  /\ \A k \in DOMAIN joinOutput : joinOutput[k] \in (0 .. MaxPairs - 1) \cup {Dummy, Zero}
  /\ \A k \in DOMAIN selectedCount : selectedCount[k] \in 0 .. MaxPairs
  /\ realMatches \in 0 .. MaxPairs
  /\ matches \subseteq 0 .. MaxPairs - 1
  /\ DOMAIN hostBin = 0 .. Rows(hostBin) - 1
  /\ start \in 0 .. noisyOutputSize
  /\ pc \in {"idle", "join", "compact", "write", "crashed"}

(* The counters that live across queries have been put back when the next  *)
(* query starts: every pair has its own entry within selected_count, the   *)
(* entries never fall, and realMatches, from which the size of the output  *)
(* is made, counts the matches of this query only.                         *)
CountersOfThisQuery ==
  pc # "idle" =>
    /\ selectedCountIdx = pair + 1
    /\ realMatches = Cardinality(matches)
    /\ \A k \in 1 .. pair : selectedCount[k] - selectedCount[k - 1] \in {0, 1}
    /\ count <= pair

(* ORCompact puts the rows that selected_count steps up at in front, in    *)
(* their order; and when the query ends the host has them at these places, *)
(* whatever older outputs its bin had and however many blocks were needed, *)
(* unless an OCALL was lost.                                               *)
CountedRowsFirst ==
  [][/\ pc = "compact" /\ pc' = "write" =>
          \A k \in DOMAIN joinOutput :
            Selected(selectedCount, k) => joinOutput'[selectedCount[k]] = joinOutput[k]
     /\ pc = "write" /\ pc' = "idle" /\ ~lost =>
          \A k \in 0 .. noisyOutputSize - 1 : hostBin[k] = joinOutput[k]]_vars

(* What is stored holds every match of the query: the output is cut to no  *)
(* less than the number of matches, and compaction is there to bring the   *)
(* matches in front of the rows that are cut off.                          *)
MatchesStored ==
  pc = "idle" /\ start > 0 /\ ~lost =>
    \A m \in matches : \E k \in 0 .. start - 1 : hostBin[k] = m
=============================================================================
