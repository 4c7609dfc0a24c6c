------------------------------ MODULE Session -------------------------------
(* A run of the program: main (App/App.cpp) makes the ECALLs of its usage  *)
(* one after the other; an ECALL (Enclave/do-algorithms.cpp) is what it    *)
(* does at once and the requests it makes to the host.  An ECALL with      *)
(* buffers may fail, a request may be lost, and the enclave or the process *)
(* may die; main and the wrappers of the OCALLs look at no status, so that *)
(* all of them go on with what they have.                                  *)
(*                                                                         *)
(* A row is <<table, rank of its key>>.  What an ECALL computes is in the  *)
(* modules of the components; here it is a choice: the dummies, the number *)
(* of bins, the sizes of the buckets, the bins of an answer, the size of   *)
(* an output.                                                              *)
EXTENDS HostStorage, Bridge, SequencesExt

CONSTANTS
  Usages,           \* [op, jt, pf]: the command lines
  MaxQueries,
  TableSize,        \* rows by table id, 0 or 1
  TreeNoise,        \* what a tree or the sparse bins may add to a table
  BucketNoise,      \* what the buckets may add to a table
  OutputSizes,      \* sizes of an output, with noise or without
  MaxBins,          \* bins of a structure, per table
  OCALL_MAXSIZE, IO_BLOCKSIZE,
  MaxFaults         \* bound on failures of the bridge

ASSUME SessionAssumption ==
  /\ Usages \subseteq [op : {"select", "join", "select-join"}, jt : {"DO", "HTree", "CZSC21"},
                       pf : BOOLEAN]
  /\ \A u \in Usages :       \* those of README.md
       /\ u.op = "select" => u.jt # "CZSC21" /\ ~u.pf
       /\ u.op = "select-join" => u.jt = "HTree"
  /\ TableSize \in [0 .. 1 -> Nat \ {0}]
  /\ TreeNoise \subseteq Nat /\ BucketNoise \subseteq Nat /\ OutputSizes \subseteq Nat
  /\ {MaxQueries, MaxFaults} \subseteq Nat
  /\ {MaxBins, OCALL_MAXSIZE, IO_BLOCKSIZE} \subseteq Nat \ {0}

VARIABLES
  usage,
  calls, call,    \* ECALLs to come, and the one that runs, if one does
  steps,          \* what it has still to do
  up,             \* the enclave is alive
  meta, tdata,     \* tables with metadata, and the rows read of each
  dblock,         \* the rows the last block of a wrapper had
  parts,          \* per table, for each bin the rows up to its end
  pds,            \* the structure that is ready: "none" before
  indexed,
  noisyOutputSize, outputSize,
  main,           \* main's numBins, numSelectedBins, s_bins, s_records
  answer,         \* what the body of idxSelect answered last, to which query
  taken,          \* the query main has an answer to, and whether one came
  faults, failed, lost   \* failures; an ECALL failed; a request was lost

enclaveVars == <<meta, tdata, dblock, parts, pds, indexed, noisyOutputSize, outputSize>>
mainVars == <<main, taken>>
faultVars == <<faults, failed, lost>>
sessionVars == <<usage, calls, call, steps, up, enclaveVars, mainVars, answer, faultVars, hostVars>>

-----------------------------------------------------------------------------
Ecall(name, arg) == [name |-> name, arg |-> arg]
NoCall == Ecall("none", 0)

SelectCalls(jt, queries) ==
  (IF jt = "DO" THEN <<Ecall("extractMeta", 0), Ecall("createPDS", 0)>>
   ELSE <<Ecall("extractData", 0), Ecall("initHTree", 0), Ecall("createJoinBuckets", 0)>>)
  \o <<Ecall("buildIndex", 0)>> \o [q \in 1 .. queries |-> Ecall("idxSelect", q)]

(* A general join compacts after every query; the others have one query.   *)
JoinCalls(jt, pf, queries) ==
  (CASE jt = "DO" -> <<Ecall("initJoinPDS", 0), Ecall("createJoinPDS", 0)>>
     [] jt = "HTree" -> <<Ecall("extractData", 0), Ecall("extractData", 1),
                          Ecall("initHTree", 0), Ecall("createJoinBuckets", 0)>>
     [] jt = "CZSC21" -> <<Ecall("createCZSC", 0)>>)
  \o IF pf THEN <<Ecall(IF jt = "CZSC21" THEN "czscJoin" ELSE "pfJoin", 1)>>
     ELSE [k \in 1 .. 2 * (IF jt = "CZSC21" THEN 1 ELSE queries) |->
             IF k % 2 = 0 THEN Ecall("joinCompact", k \div 2)
             ELSE Ecall(IF jt = "CZSC21" THEN "czscJoin" ELSE "innerJoin", (k + 1) \div 2)]

(* Tables are loaded as their files have them, here by falling keys.       *)
LoadedTable(tableID) ==
  [k \in 1 .. TableSize[tableID] |-> <<tableID, TableSize[tableID] + 1 - k>>]

TableIDs == IF usage.op = "select" THEN {0} ELSE {0, 1}

SessionInit ==
  /\ usage \in Usages
  /\ \E queries \in 1 .. MaxQueries :
       calls = IF usage.op = "select" THEN SelectCalls(usage.jt, queries)
               ELSE JoinCalls(usage.jt, usage.pf, IF usage.op = "join" THEN 1 ELSE queries)
  /\ call = NoCall /\ steps = <<>> /\ up = TRUE
  /\ meta = {} /\ tdata = [t \in 0 .. 1 |-> <<>>] /\ dblock = <<>>
  /\ parts = [t \in 0 .. 1 |-> <<>>] /\ pds = "none" /\ indexed = FALSE
  /\ noisyOutputSize = 0 /\ outputSize = 0
  /\ main = [numBins |-> 0, numSelectedBins |-> 0, s_bins |-> <<>>, s_records |-> 0]
  /\ answer = [query |-> 0, bins |-> <<>>, records |-> 0]
  /\ taken = [query |-> 0, came |-> FALSE]
  /\ faults = 0 /\ failed = FALSE /\ lost = FALSE
  /\ untrustedTableStorage = [t \in 0 .. 1 |-> IF t \in TableIDs THEN With(NoStorage, 0, LoadedTable(t)) ELSE NoStorage]
  /\ untrustedBinStorage = NoStorage /\ indexFile = FALSE /\ died = FALSE

-----------------------------------------------------------------------------
(* The wrappers of the OCALLs: blocks of OCALL_MAXSIZE rows, and one block *)
(* for no rows.                                                            *)
Blocks(size) == IF size = 0 THEN 1 ELSE (size + OCALL_MAXSIZE - 1) \div OCALL_MAXSIZE
BlockLength(size, k) == Min({OCALL_MAXSIZE, size - (k - 1) * OCALL_MAXSIZE})

\* Mutant: every block is read from the same place.
ReadSamePlaceMutant(tableID) ==
  [k \in 1 .. Blocks(TableSize[tableID]) |->
     readDataBlock_OCALL(tableID, 0, 0, BlockLength(TableSize[tableID], k))]
ReadDataBlock_Wrapper(tableID) ==
  [k \in 1 .. Blocks(TableSize[tableID]) |->
     readDataBlock_OCALL(tableID, 0, (k - 1) * OCALL_MAXSIZE, BlockLength(TableSize[tableID], k))]

\* Mutant: the position is that of the next block.
WriteNextPlaceMutant(writeBinID, rows) ==
  [k \in 1 .. Blocks(Len(rows)) |->
     LET pos == (k - 1) * OCALL_MAXSIZE IN
     writeDataBlock_OCALL(writeBinID, k * OCALL_MAXSIZE,
                          SubSeq(rows, pos + 1, pos + BlockLength(Len(rows), k)))]
WriteDataBlock_Wrapper(writeBinID, rows) ==
  [k \in 1 .. Blocks(Len(rows)) |->
     LET pos == (k - 1) * OCALL_MAXSIZE IN
     writeDataBlock_OCALL(writeBinID, pos, SubSeq(rows, pos + 1, pos + BlockLength(Len(rows), k)))]

(* Steps inside the enclave: the sort of extractData; the distribution to  *)
(* buckets, each of them, and the end of it; an abort.                     *)
obliSort(tableID) == [op |-> "obliSort", tableID |-> tableID]
moveData(tableID) == [op |-> "moveData", tableID |-> tableID]
writeBucket(tableID, i) == [op |-> "writeBucket", tableID |-> tableID, bucket |-> i]
freeSpace(tableID) == [op |-> "freeSpace", tableID |-> tableID]
abort == [op |-> "abort"]

(* noiseSum dummies in blocks of blockSize.                                *)
ExpandTable(tableID, noiseSum, blockSize) ==
  [k \in 1 .. (noiseSum + blockSize - 1) \div blockSize |->
     expand_table_OCALL(tableID, Min({blockSize, noiseSum - (k - 1) * blockSize}))]

(* augmentInput, then binning and collectBins of a tree whose bins do not  *)
(* fit: with one leaf there is nothing to divide, with several binning     *)
(* follows bin1 of the root, which is never set.                           *)
TreeSteps(tableID, noiseSum, numLeaves) ==
  LET size == TableSize[tableID] + noiseSum IN
  IF size <= IO_BLOCKSIZE THEN ReadDataBlock_Wrapper(tableID)
  ELSE ExpandTable(tableID, noiseSum, OCALL_MAXSIZE) \o
       <<initBinStorage_OCALL(tableID, 0),
         IF numLeaves = 1 THEN collect_resize_bins_OCALL(tableID, 0, size) ELSE abort>>

(* expandJoinTables for one table.                                         *)
SparseSteps(tableID, noiseSum) ==
  IF TableSize[tableID] + noiseSum <= IO_BLOCKSIZE THEN ReadDataBlock_Wrapper(tableID)
  ELSE ExpandTable(tableID, noiseSum, 2 * IO_BLOCKSIZE)

(* createBins: compactMetaVector divides the metadata only, so that of     *)
(* several bins none but the first is ever at the host, and that is        *)
(* deleted.                                                                *)
CreateBinsSteps(tableID, noiseSum, numBins) ==
  LET size == TableSize[tableID] + noiseSum IN
  IF size <= IO_BLOCKSIZE THEN <<>>
  ELSE <<initBinStorage_OCALL(tableID, 0)>> \o
       IF numBins = 1 THEN <<move_resize_bin_totable_OCALL(tableID, 0, 0, size)>>
       ELSE <<delete_bin_OCALL(0), move_resize_bin_totable_OCALL(tableID, 1, 0, size \div 2)>>

-----------------------------------------------------------------------------
(* An ECALL is entered, and its body runs.                                 *)
Enter(name) ==
  /\ up /\ ~died
  /\ call = NoCall /\ calls # <<>>
  /\ Head(calls).name = name
  /\ call' = Head(calls)
  /\ calls' = Tail(calls)
  /\ UNCHANGED <<usage, up, mainVars, faultVars, hostVars>>

ExtractMeta ==
  /\ Enter("extractMeta")
  /\ meta' = meta \cup {call'.arg}
  /\ steps' = <<>>
  /\ UNCHANGED <<tdata, dblock, parts, pds, indexed, noisyOutputSize, outputSize, answer>>

ExtractData ==
  /\ Enter("extractData")
  /\ steps' = Append(ReadDataBlock_Wrapper(call'.arg), obliSort(call'.arg))
  /\ meta' = meta \cup {call'.arg}
  /\ UNCHANGED <<tdata, dblock, parts, pds, indexed, noisyOutputSize, outputSize, answer>>

(* Without metadata the domain is empty and PrivTree reads its first       *)
(* interval.                                                               *)
CreatePDS ==
  /\ Enter("createPDS")
  /\ \E noiseSum \in TreeNoise, numLeaves \in 1 .. MaxBins :
       /\ steps' = IF meta = {} THEN <<abort>> ELSE TreeSteps(0, noiseSum, numLeaves)
       /\ parts' = [parts EXCEPT ![0] = [k \in 1 .. numLeaves |-> 0]]
  /\ pds' = "PrivTree"
  /\ UNCHANGED <<meta, tdata, dblock, indexed, noisyOutputSize, outputSize, answer>>

(* No join extracts metadata before: the domain is empty.                  *)
InitJoinPDS ==
  /\ Enter("initJoinPDS")
  /\ steps' = IF meta = {} THEN <<abort>> ELSE <<>>
  /\ UNCHANGED <<enclaveVars, answer>>

(* The ends of n buckets: they hold all rows and the noise.                *)
Partitions(tableID, n) ==
  UNION {{ends \in [1 .. n -> 0 .. size] :
            ends[n] = size /\ \A i, j \in 1 .. n : i < j => ends[i] <= ends[j]} :
           size \in {TableSize[tableID] + noise : noise \in BucketNoise}}
BinStart(tableID, i) == IF i = 1 THEN 0 ELSE parts[tableID][i - 1]
NumData(tableID, i) == parts[tableID][i] - BinStart(tableID, i)

(* For a pf-join the histogram of table 1 is empty and is read.            *)
InitHTree ==
  /\ Enter("initHTree")
  /\ steps' = IF usage.pf THEN <<abort>> ELSE <<>>
  /\ \E n \in 1 .. MaxBins : \E p1 \in Partitions(0, n), p2 \in Partitions(1, n) :
       parts' = [t \in 0 .. 1 |-> IF t \notin TableIDs THEN <<>> ELSE IF t = 0 THEN p1 ELSE p2]
  /\ pds' = "HTree"
  /\ UNCHANGED <<meta, tdata, dblock, indexed, noisyOutputSize, outputSize, answer>>

(* For one table moveData reads it once more and sorts it.                 *)
CreateJoinBuckets ==
  /\ Enter("createJoinBuckets")
  /\ steps' = IF pds # "HTree" THEN <<abort>>
              ELSE IF usage.op = "select" THEN
                Append(Append(ReadDataBlock_Wrapper(0), obliSort(0)), moveData(0))
              ELSE <<moveData(0), moveData(1)>>
  /\ UNCHANGED <<enclaveVars, answer>>

CreateCZSC ==
  /\ Enter("createCZSC")
  /\ meta' = {0, 1}
  /\ \E noise1, noise2 \in TreeNoise, numBins \in 1 .. MaxBins :
       /\ steps' = SparseSteps(0, noise1) \o SparseSteps(1, noise2) \o
                   CreateBinsSteps(0, noise1, numBins) \o CreateBinsSteps(1, noise2, numBins)
       /\ parts' = [t \in 0 .. 1 |-> [k \in 1 .. numBins |-> 0]]
  /\ pds' = "CZSC"
  /\ UNCHANGED <<tdata, dblock, indexed, noisyOutputSize, outputSize, answer>>

BuildIndex ==
  /\ Enter("buildIndex")
  /\ steps' = <<IF pds = "none" THEN abort ELSE write_index_OCALL>>
  /\ indexed' = TRUE
  /\ UNCHANGED <<meta, tdata, dblock, parts, pds, noisyOutputSize, outputSize, answer>>

(* The bins of a query in their order, and how many rows they have.        *)
Selections(numBins) ==
  UNION {{bins \in [1 .. n -> 1 .. numBins] : \A k, l \in 1 .. n : k < l => bins[k] < bins[l]} :
           n \in 0 .. numBins}

IdxSelect ==
  /\ Enter("idxSelect")
  /\ steps' = IF indexed THEN <<>> ELSE <<abort>>
  /\ \E bins \in Selections(Len(parts[0])) :
       answer' = [query |-> call'.arg, bins |-> bins,
                  records |-> FoldSeq(+, 0, [k \in DOMAIN bins |-> NumData(0, bins[k])])]
  /\ UNCHANGED enclaveVars

(* innerJoin of an HTree: all matches are kept in the enclave.             *)
InnerJoin ==
  /\ Enter("innerJoin")
  /\ steps' = <<>>
  /\ outputSize' \in OutputSizes /\ noisyOutputSize' \in OutputSizes
  /\ UNCHANGED <<meta, tdata, dblock, parts, pds, indexed, answer>>

(* czsc_join is null when createCZSC failed, selected_count for a pf-join. *)
CZSCJoinCall ==
  /\ Enter("czscJoin")
  /\ steps' = IF pds # "CZSC" \/ usage.pf THEN <<abort>> ELSE <<>>
  /\ outputSize' \in OutputSizes /\ noisyOutputSize' \in OutputSizes
  /\ UNCHANGED <<meta, tdata, dblock, parts, pds, indexed, answer>>

(* Bin 0 of the host gets the output, whatever it had.                     *)
JoinCompactCall ==
  /\ Enter("joinCompact")
  /\ steps' = IF noisyOutputSize >= outputSize THEN <<>>
              ELSE WriteDataBlock_Wrapper(0, [k \in 1 .. noisyOutputSize |-> <<2, call'.arg>>])
  /\ outputSize' = 0
  /\ UNCHANGED <<meta, tdata, dblock, parts, pds, indexed, noisyOutputSize, answer>>

-----------------------------------------------------------------------------
(* The next step of the body; a request is served or lost.                 *)
InBody(op) == up /\ ~died /\ steps # <<>> /\ Head(steps).op = op
Request(op) ==
  /\ InBody(op)
  /\ steps' = Tail(steps)
  /\ UNCHANGED <<usage, calls, call, up, meta, parts, pds, indexed, noisyOutputSize, outputSize,
                 mainVars, answer, faultVars>>
Writing(op) == Request(op) /\ UNCHANGED <<tdata, dblock>>

(* A wrapper starts with an empty block, and appends what it reads.        *)
Appended(tableID, pos, rows) ==
  [tdata EXCEPT ![tableID] = (IF pos = 0 THEN <<>> ELSE @) \o rows]

ReadStep ==
  /\ Request("readDataBlock")
  /\ LET s == Head(steps)
         storages == untrustedTableStorage[s.tableID]
     IN IF s.binID \notin DOMAIN storages THEN Die /\ UNCHANGED <<tdata, dblock>>
        ELSE /\ dblock' = DataBlock(storages[s.binID], s.pos, s.numData)
             /\ tdata' = Appended(s.tableID, s.pos, dblock')
             /\ UNCHANGED hostVars

(* The block has what it had: the rows before or, when it has just been    *)
(* allocated, those of a freed one or nothing that decrypts.               *)
LostRead ==
  /\ InBody("readDataBlock") /\ faults < MaxFaults
  /\ LET s == Head(steps) IN
     \E left \in IF s.pos = 0 THEN {<<>>, dblock} ELSE {dblock} :
       tdata' = Appended(s.tableID, s.pos, DataBlock(left, 0, s.numData))
  /\ steps' = Tail(steps)
  /\ faults' = faults + 1 /\ lost' = TRUE
  /\ UNCHANGED <<usage, calls, call, up, meta, dblock, parts, pds, indexed, noisyOutputSize,
                 outputSize, mainVars, answer, failed, hostVars>>

LostRequest ==
  /\ up /\ ~died /\ steps # <<>> /\ faults < MaxFaults
  /\ Head(steps).op \in Dispatched \ {"readDataBlock"}
  /\ steps' = Tail(steps)
  /\ faults' = faults + 1 /\ lost' = TRUE
  /\ UNCHANGED <<usage, calls, call, up, enclaveVars, mainVars, answer, failed, hostVars>>

WriteStep ==
  /\ Writing("writeDataBlock")
  /\ HandleWriteDataBlock(Head(steps).binID, Head(steps).pos, Head(steps).dblock)
ExpandStep ==
  /\ Writing("expand_table")
  /\ HandleExpandTable(Head(steps).tableID, Head(steps).noiseSum)
InitBinStep ==
  /\ Writing("initBinStorage")
  /\ HandleInitBinStorage(Head(steps).tableID, Head(steps).binID)
DeleteBinStep ==
  /\ Writing("delete_bin")
  /\ HandleDeleteBin(Head(steps).binID)
DeleteTableStep ==
  /\ Writing("delete_table")
  /\ HandleDeleteTable(Head(steps).tableID)
MoveBinStep ==
  /\ Writing("move_resize_bin_totable")
  /\ HandleMoveResizeBinToTable(Head(steps).tableID, Head(steps).srcBinID, Head(steps).destBinID,
                                Head(steps).size)
CollectStep ==
  /\ Writing("collect_resize_bins")
  /\ HandleCollectResizeBins(Head(steps).tableID, Head(steps).leaf, Head(steps).size)
WriteIndexStep ==
  /\ Writing("write_index")
  /\ HandleWriteIndex

(* A row that could not be decrypted has key 0 and comes first.            *)
Permuted(rows, perm) == [k \in DOMAIN rows |-> rows[perm[k]]]
Sorted(rows) == \A k, l \in DOMAIN rows : k < l => rows[k][2] <= rows[l][2]

SortStep ==
  /\ Request("obliSort")
  /\ LET t == Head(steps).tableID
         Places == DOMAIN (tdata[t])
     IN \E perm \in Bijection(Places, Places) :
          /\ Sorted(Permuted(tdata[t], perm))
          /\ tdata' = [tdata EXCEPT ![t] = Permuted(@, perm)]
  /\ UNCHANGED <<dblock, hostVars>>

(* The id of the first bucket of a table: those of table 2 follow on.      *)
FirstBucketMutant(tableID) == 0
FirstBucket(tableID) == IF tableID = 0 THEN 0 ELSE Len(parts[0])

(* moveData: the rows in their order with the dummies anywhere among them. *)
(* The table at the host goes before the buckets are written.              *)
Padded(rows, places, size) ==
  [k \in 1 .. size |-> IF k \in places THEN rows[Cardinality(places \cap 1 .. k)] ELSE Dummy]

MoveDataStep ==
  /\ InBody("moveData")
  /\ LET t    == Head(steps).tableID
         size == Last(parts[t])
     IN /\ \E places \in kSubset(Len(tdata[t]), 1 .. size) :
             tdata' = [tdata EXCEPT ![t] = Padded(@, places, size)]
        /\ steps' = <<delete_table_OCALL(t)>> \o
                      [i \in DOMAIN (parts[t]) |-> writeBucket(t, i)] \o
                      <<freeSpace(t)>> \o Tail(steps)
  /\ UNCHANGED <<usage, calls, call, up, meta, dblock, parts, pds, indexed, noisyOutputSize,
                 outputSize, mainVars, answer, faultVars, hostVars>>

(* A bucket gets the rows from binStart on.                                *)
WriteBucketStep ==
  /\ InBody("writeBucket")
  /\ LET t == Head(steps).tableID
         i == Head(steps).bucket
     IN steps' = WriteDataBlock_Wrapper(FirstBucket(t) + i - 1,
                   [j \in 1 .. NumData(t, i) |-> tdata[t][BinStart(t, i) + j]]) \o Tail(steps)
  /\ UNCHANGED <<usage, calls, call, up, enclaveVars, mainVars, answer, faultVars, hostVars>>

FreeStep ==
  /\ Request("freeSpace")
  /\ tdata' = [tdata EXCEPT ![Head(steps).tableID] = <<>>]
  /\ UNCHANGED <<dblock, hostVars>>

-----------------------------------------------------------------------------
(* numSelectedBins is set to 0 before every call of idxSelect.             *)
NumSelectedBinsMutant == main.numSelectedBins
NumSelectedBins == 0

(* What main has after an ECALL.  s_bins and s_records are copied out as a *)
(* whole, or left as they were.                                            *)
Received(name, status, ms_retval, reply) ==
  CASE name = "buildIndex" ->
         [main EXCEPT !.numBins = Assigned(name, status, @, ms_retval)]
    [] name = "idxSelect" ->
         [main EXCEPT
            !.numSelectedBins = Assigned(name, status, NumSelectedBins, ms_retval),
            !.s_bins = IF status # SGX_SUCCESS THEN @
                       ELSE [k \in 1 .. main.numBins |->
                               IF k <= Len(reply.bins) THEN reply.bins[k] ELSE 0],
            !.s_records = IF status # SGX_SUCCESS THEN @ ELSE reply.records]
    [] OTHER -> main

Taken(ecall, came) ==
  IF ecall.name = "idxSelect" THEN [query |-> ecall.arg, came |-> came] ELSE taken

ReturnEcall ==
  /\ up /\ ~died /\ call # NoCall /\ steps = <<>>
  /\ main' = Received(call.name, SGX_SUCCESS,
                      IF call.name = "idxSelect" THEN Len(answer.bins)
                      ELSE Len(parts[0]) + Len(parts[1]), answer)
  /\ taken' = Taken(call, TRUE)
  /\ call' = NoCall
  /\ UNCHANGED <<usage, calls, steps, up, enclaveVars, answer, faultVars, hostVars>>

(* ms_retval, a local of the wrapper, is not initialised.                  *)
Unset == -1
Refused(ecall) ==
  /\ main' = Received(ecall.name, SGX_ERROR, Unset, answer)
  /\ taken' = Taken(ecall, FALSE)
  /\ UNCHANGED <<usage, enclaveVars, answer, lost, hostVars>>

(* The body aborts: the enclave is lost, and so is this ECALL.             *)
AbortStep ==
  /\ InBody("abort")
  /\ Refused(call)
  /\ up' = FALSE /\ steps' = <<>> /\ call' = NoCall
  /\ UNCHANGED <<calls, faults, failed>>

(* No memory for the buffers of an ECALL, or no enclave to call.           *)
FailedEcall ==
  /\ ~died /\ call = NoCall /\ calls # <<>>
  /\ \/ up /\ Buffers(Head(calls).name) # {} /\ faults < MaxFaults /\ faults' = faults + 1
     \/ ~up /\ UNCHANGED faults
  /\ Refused(Head(calls))
  /\ failed' = (failed \/ up)
  /\ calls' = Tail(calls)
  /\ UNCHANGED <<call, steps, up>>

Body ==
  \/ ExtractMeta \/ ExtractData \/ CreatePDS \/ InitJoinPDS \/ InitHTree \/ CreateJoinBuckets
  \/ CreateCZSC \/ BuildIndex \/ IdxSelect \/ InnerJoin \/ CZSCJoinCall \/ JoinCompactCall
Steps ==
  \/ ReadStep \/ LostRead \/ LostRequest \/ WriteStep \/ ExpandStep \/ InitBinStep \/ DeleteBinStep
  \/ DeleteTableStep \/ MoveBinStep \/ CollectStep \/ WriteIndexStep \/ SortStep \/ MoveDataStep
  \/ WriteBucketStep \/ FreeStep \/ AbortStep
SessionNext == Body \/ Steps \/ ReturnEcall \/ FailedEcall

SessionSpec == SessionInit /\ [][SessionNext]_sessionVars

SessionOver == died \/ (calls = <<>> /\ call = NoCall)

-----------------------------------------------------------------------------
(* What main takes for the answer to a query is the answer to that query:  *)
(* after a call of idxSelect that failed, whether or not one succeeded     *)
(* before, no bins, and never more than s_bins has.                        *)
AnswerOfThisQuery ==
  /\ taken.came /\ call = NoCall =>
       /\ answer.query = taken.query
       /\ main.numSelectedBins <= Len(main.s_bins)
       /\ SubSeq(main.s_bins, 1, main.numSelectedBins) = answer.bins
       /\ main.s_records = answer.records
  /\ ~taken.came => main.numSelectedBins = 0

RowsOf(tableID) == {tableID} \X (1 .. TableSize[tableID])

(* A wrapper that reads a table block by block has every row of it once    *)
(* when it is done, as far as no request was lost.                         *)
RowsRead ==
  ~lost => \A t \in TableIDs :
    /\ \A k \in DOMAIN tdata[t] : tdata[t][k] \in RowsOf(t) \cup {Dummy}
    /\ \A k, l \in DOMAIN tdata[t] :
         tdata[t][k] = tdata[t][l] => k = l \/ tdata[t][k] = Dummy
    /\ call = NoCall /\ tdata[t] # <<>> => {tdata[t][k] : k \in DOMAIN tdata[t]} = RowsOf(t)

(* Where the host has a row: in a table or, for -1, a bin, its id, and the *)
(* position.                                                               *)
Map(place) == IF place = -1 THEN untrustedBinStorage ELSE untrustedTableStorage[place]
Copies(row) ==
  UNION {UNION {{<<place, id, k>> : k \in {k \in DOMAIN (Map(place)[id]) : Map(place)[id][k] = row}} :
                  id \in DOMAIN (Map(place))} : place \in -1 .. 1}

OutputWritten ==
  0 \in DOMAIN untrustedBinStorage
    /\ \E k \in DOMAIN untrustedBinStorage[0] : untrustedBinStorage[0][k][1] = 2

(* Between two ECALLs the host has every row of every table once, in the   *)
(* table or in one bin, as far as no request was lost: tables are read,    *)
(* deleted, moved and written back bin by bin and block by block.  The     *)
(* output of a join goes to bin 0 and may replace rows of table 1, but     *)
(* doubles none.                                                           *)
RowsKept ==
  ~lost /\ ~died /\ call = NoCall =>
    \A t \in TableIDs : \A row \in RowsOf(t) :
      IF OutputWritten /\ t = 0 THEN Cardinality(Copies(row)) <= 1
      ELSE Cardinality(Copies(row)) = 1

(* The usages that cannot work: a DO join, whose metadata nobody extracts, *)
(* a pf-join, a selection over a tree with several leaves and sparse bins  *)
(* that are several, the last two if the table does not fit.               *)
Hopeless ==
  \/ usage.op # "select" /\ usage.jt = "DO"
  \/ usage.op # "select" /\ usage.pf
  \/ usage.jt = "DO" /\ Len(parts[0]) > 1
SeveralSparseBins == usage.jt = "CZSC21" /\ Len(parts[0]) > 1

(* The enclave is lost only in a session that had an ECALL fail before or  *)
(* cannot work: every structure is there before it is used.  The host dies *)
(* only after a request was lost, or for sparse bins that are several:     *)
(* blocks are written to a bin from its start on and without a gap, and no *)
(* handler follows a null pointer.                                         *)
StaysUp ==
  /\ ~up => failed \/ Hopeless
  /\ died => lost \/ SeveralSparseBins
=============================================================================
