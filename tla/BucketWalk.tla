----------------------------- MODULE BucketWalk -----------------------------
(***************************************************************************)
(* The walk of HTree::bucketCrossProduct (Enclave/htree.cpp) over the      *)
(* buckets of two tables.                                                  *)
(*                                                                         *)
(* The walk is made twice: the first pass adds up the size of joinOutput,  *)
(* the second joins the pairs of buckets and writes their rows into it.    *)
(* Of the two buckets it looks at, the walk leaves behind the one whose    *)
(* keys end first.                                                         *)
(***************************************************************************)
EXTENDS Integers, Sequences

VARIABLES
  buckets,         \* the buckets of table 1 and of table 2
  request,         \* qs, qe and jattr of the query
  i, j,            \* the buckets of table 1 and 2 the walk has reached
  pass,            \* "idle", "measure", "join", "joined"
  xprodsize,       \* the number of rows joinOutput has room for
  written,         \* the number of rows crossProduct has put into joinOutput: its count
  selectedCountIdx,\* the entry of selected_count that crossProduct sets next
  joined,          \* the pairs of buckets that have been joined
  bucketNoisyMax   \* the largest bucket, of the last query when there was one

walkVars == <<request, i, j, pass, xprodsize, written, selectedCountIdx, joined, bucketNoisyMax>>

\* A bucket of numData rows for the keys from keyMin to keyMax.
Bucket(keyMin, keyMax, numData) == [keyMin |-> keyMin, keyMax |-> keyMax, numData |-> numData]

Larger(m, n) == IF m >= n THEN m ELSE n

Left == buckets[1][i]
Right == buckets[2][j]

Outside(bucket) ==
  request.jattr /\ (bucket.keyMax < request.qs \/ bucket.keyMin > request.qe)

WalkInit ==
  /\ request = [qs |-> 0, qe |-> 0, jattr |-> FALSE]
  /\ i = 1 /\ j = 1
  /\ pass = "idle"
  /\ xprodsize = 0 /\ written = 0 /\ selectedCountIdx = 1
  /\ joined = {}

-----------------------------------------------------------------------------
(* The query begins: its range is for the join attribute or for another    *)
(* one.  joinCompact has put selected_count_idx back after the one before. *)
StartWalk(qs, qe, jattr) ==
  /\ pass \in {"idle", "joined"}
  /\ request' = [qs |-> qs, qe |-> qe, jattr |-> jattr]
  /\ i' = 1 /\ j' = 1
  /\ pass' = "measure"
  /\ xprodsize' = 0 /\ written' = 0 /\ selectedCountIdx' = 1
  /\ joined' = {}
  /\ bucketNoisyMax' = 0
  /\ UNCHANGED buckets

Walking == pass \in {"measure", "join"} /\ i <= Len(buckets[1]) /\ j <= Len(buckets[2])

SkipLeft == Left.keyMax < Right.keyMin \/ Outside(Left)

SkipRight == ~SkipLeft /\ (Left.keyMin > Right.keyMax \/ Outside(Right))

\* Mutant: the walk leaves behind the bucket whose keys end last.
NextLeftMutant == Right.keyMax <= Left.keyMax
\* Whether the walk goes on to the next bucket of table 1.
NextLeft == Right.keyMax >= Left.keyMax

\* Whether it goes on to the next bucket of table 2.
NextRight == Left.keyMax >= Right.keyMax

\* Mutant: a bucket of table 2 that is outside the range is looked at for ever.
SkipMutant ==
  /\ Walking
  /\ SkipLeft /\ i' = i + 1 /\ j' = j
  /\ UNCHANGED <<buckets, request, pass, xprodsize, written, selectedCountIdx, joined, bucketNoisyMax>>

Skip ==
  /\ Walking
  /\ \/ SkipLeft /\ i' = i + 1 /\ j' = j
     \/ SkipRight /\ j' = j + 1 /\ i' = i
  /\ UNCHANGED <<buckets, request, pass, xprodsize, written, selectedCountIdx, joined, bucketNoisyMax>>

Advance ==
  /\ i' = IF NextLeft THEN i + 1 ELSE i
  /\ j' = IF NextRight THEN j + 1 ELSE j

\* Mutant: the size is that of the last pair only.
MeasurePairMutant ==
  /\ Walking /\ pass = "measure" /\ ~SkipLeft /\ ~SkipRight
  /\ xprodsize' = Left.numData * Right.numData
  /\ bucketNoisyMax' = Larger(bucketNoisyMax, Larger(Left.numData, Right.numData))
  /\ Advance
  /\ UNCHANGED <<buckets, request, pass, written, selectedCountIdx, joined>>

MeasurePair ==
  /\ Walking /\ pass = "measure" /\ ~SkipLeft /\ ~SkipRight
  /\ xprodsize' = xprodsize + Left.numData * Right.numData
  /\ bucketNoisyMax' = Larger(bucketNoisyMax, Larger(Left.numData, Right.numData))
  /\ Advance
  /\ UNCHANGED <<buckets, request, pass, written, selectedCountIdx, joined>>

\* The pairs of rows of the two buckets.
PairSize == Left.numData * Right.numData

\* Mutant: two buckets that end with the same key are not left behind.
JoinPairMutant ==
  /\ Walking /\ pass = "join" /\ ~SkipLeft /\ ~SkipRight
  /\ selectedCountIdx' = selectedCountIdx + PairSize
  /\ \E skipped \in 0 .. PairSize : written' = written + PairSize - skipped
  /\ joined' = joined \cup {<<i, j>>}
  /\ i' = IF Right.keyMax > Left.keyMax THEN i + 1 ELSE i
  /\ j' = IF Left.keyMax > Right.keyMax THEN j + 1 ELSE j
  /\ UNCHANGED <<buckets, request, pass, xprodsize, bucketNoisyMax>>

(* crossProduct sets an entry of selected_count for every pair of rows and *)
(* writes a row for it, except for matches outside qs..qe ("continue").    *)
(* How many these are depends on the rows, which this module does not have.*)
JoinPair ==
  /\ Walking /\ pass = "join" /\ ~SkipLeft /\ ~SkipRight
  /\ selectedCountIdx' = selectedCountIdx + PairSize
  /\ \E skipped \in 0 .. PairSize : written' = written + PairSize - skipped
  /\ joined' = joined \cup {<<i, j>>}
  /\ Advance
  /\ UNCHANGED <<buckets, request, pass, xprodsize, bucketNoisyMax>>

\* joinOutput and selected_count are allocated between the passes.
EndPass ==
  /\ pass \in {"measure", "join"} /\ (i > Len(buckets[1]) \/ j > Len(buckets[2]))
  /\ pass' = IF pass = "measure" THEN "join" ELSE "joined"
  /\ i' = IF pass = "measure" THEN 1 ELSE i
  /\ j' = IF pass = "measure" THEN 1 ELSE j
  /\ UNCHANGED <<buckets, request, xprodsize, written, selectedCountIdx, joined, bucketNoisyMax>>

WalkStep == Skip \/ MeasurePair \/ JoinPair \/ EndPass

-----------------------------------------------------------------------------
(* The buckets of a table in the order of their keys.                      *)
InOrder(list) ==
  \A k \in 1 .. Len(list) :
    /\ list[k].keyMin <= list[k].keyMax
    /\ \A l \in 1 .. Len(list) : k < l => list[k].keyMax < list[l].keyMin

Ranged == [keyMin : Int, keyMax : Int, numData : Nat]

(* The walk alone, over buckets that are there when it begins.             *)
WalkSpec ==
  /\ WalkInit
  /\ buckets \in [{1, 2} -> Seq(Ranged)]
  /\ \A t \in {1, 2} : InOrder(buckets[t])
  /\ [][WalkStep \/ \E qs, qe \in Int, jattr \in BOOLEAN : StartWalk(qs, qe, jattr)]_<<buckets, walkVars>>

(* Two buckets that share a key the query may be about.                    *)
Meet(a, b) ==
  /\ buckets[1][a].keyMin <= buckets[2][b].keyMax
  /\ buckets[2][b].keyMin <= buckets[1][a].keyMax
  /\ ~Outside(buckets[1][a]) /\ ~Outside(buckets[2][b])

Pairs == (1 .. Len(buckets[1])) \X (1 .. Len(buckets[2]))

(* When the walk is over, the pairs it has joined are those that may hold  *)
(* matching rows, and no other.                                            *)
EveryPairJoined == pass = "joined" => joined = {p \in Pairs : Meet(p[1], p[2])}

(* No pair is joined a second time: its matches would be in the output     *)
(* twice.                                                                  *)
JoinedOnce == [][selectedCountIdx' > selectedCountIdx => joined' # joined]_<<buckets, walkVars>>

(* joinOutput has room for every row that is written, and selected_count,  *)
(* which is not initialised, for every count; when the walk is over none   *)
(* of the counts that the compaction reads has been left unset, though     *)
(* rows of joinOutput may be: those of matches outside the range.          *)
RoomForEveryRow ==
  /\ pass \in {"join", "joined"} => written < selectedCountIdx /\ selectedCountIdx <= xprodsize + 1
  /\ pass = "joined" => selectedCountIdx = xprodsize + 1
=============================================================================
