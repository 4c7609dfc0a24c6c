---------------------------- MODULE HostStorage -----------------------------
(* The untrusted side (App/App.cpp, App/app-storage.cpp): the tables and   *)
(* bins at the host, and the handlers of the OCALLs that work on them.  A  *)
(* storage is the sequence of its rows: the k-th is at location META + k.  *)
(* An id that a map of storages does not have stands for a null pointer;   *)
(* a handler that follows one, or that makes the storage throw, ends the   *)
(* process.                                                                *)
EXTENDS Integers, Sequences

VARIABLES
  untrustedTableStorage,  \* per table its storages by bin id
  untrustedBinStorage,    \* the storages of the bins being made, by id
  indexFile,              \* write_index_OCALL has written its file
  died                    \* the process has ended

hostVars == <<untrustedTableStorage, untrustedBinStorage, indexFile, died>>

Blank == <<-1, 0>>        \* zeros, or what decrypts to zeros: no row
Dummy == <<-2, 0>>        \* a row of noise

NoStorage == [id \in {} |-> <<>>]
With(map, id, storage) ==
  [other \in DOMAIN map \cup {id} |-> IF other = id THEN storage ELSE map[other]]
Without(map, id) == [other \in DOMAIN map \ {id} |-> map[other]]
Size(storage) == Len(storage)

Die == died' = TRUE /\ UNCHANGED <<untrustedTableStorage, untrustedBinStorage, indexFile>>

(* resize: rows are erased from an unordered_map, from the first one past  *)
(* the size on in the order of its iteration, which may take others along. *)
Resized(storage, size) ==
  IF Size(storage) <= size THEN {storage}
  ELSE {[k \in 1 .. size |-> IF k \in erased THEN Blank ELSE storage[k]] :
          erased \in SUBSET (1 .. size)}

(* The answer to readDataBlock on a table: it ends with the table, and the *)
(* stub has zeroed the rest.                                               *)
DataBlock(storage, pos, numData) ==
  [k \in 1 .. numData |-> IF pos + k <= Size(storage) THEN storage[pos + k] ELSE Blank]

(* writeDataBlock: in place or, past the end, at one more location per row.*)
Stored(storage, pos, dblock) ==
  SubSeq(storage, 1, pos) \o dblock \o SubSeq(storage, pos + Len(dblock) + 1, Size(storage))

HandleWriteDataBlock(writeBinID, pos, dblock) ==
  LET storage == IF writeBinID \in DOMAIN untrustedBinStorage
                 THEN untrustedBinStorage[writeBinID] ELSE <<>>
  IN IF pos > Size(storage) THEN Die
     ELSE /\ untrustedBinStorage' = With(untrustedBinStorage, writeBinID, Stored(storage, pos, dblock))
          /\ UNCHANGED <<untrustedTableStorage, indexFile, died>>

HandleExpandTable(tableID, noiseSum) ==
  IF 0 \notin DOMAIN untrustedTableStorage[tableID] THEN Die
  ELSE /\ untrustedTableStorage' =
            [untrustedTableStorage EXCEPT ![tableID][0] = @ \o [k \in 1 .. noiseSum |-> Dummy]]
       /\ UNCHANGED <<untrustedBinStorage, indexFile, died>>

(* The bins of an earlier table go; the table becomes a bin.               *)
HandleInitBinStorage(tableID, binID) ==
  LET table == untrustedTableStorage[tableID] IN
  /\ untrustedBinStorage' = [id \in {binID} \cap DOMAIN table |-> table[id]]
  /\ untrustedTableStorage' = [untrustedTableStorage EXCEPT ![tableID] = Without(@, binID)]
  /\ UNCHANGED <<indexFile, died>>

HandleDeleteBin(binID) ==
  /\ untrustedBinStorage' = Without(untrustedBinStorage, binID)
  /\ UNCHANGED <<untrustedTableStorage, indexFile, died>>

HandleDeleteTable(tableID) ==
  /\ untrustedTableStorage' = [untrustedTableStorage EXCEPT ![tableID] = NoStorage]
  /\ UNCHANGED <<untrustedBinStorage, indexFile, died>>

HandleMoveResizeBinToTable(tableID, srcBinID, destBinID, size) ==
  IF srcBinID \notin DOMAIN untrustedBinStorage THEN Die
  ELSE /\ \E storage \in Resized(untrustedBinStorage[srcBinID], size) :
            untrustedTableStorage' = [untrustedTableStorage EXCEPT ![tableID] = With(@, destBinID, storage)]
       /\ untrustedBinStorage' = Without(untrustedBinStorage, srcBinID)
       /\ UNCHANGED <<indexFile, died>>

(* One leaf: with several the enclave does not come this far.              *)
HandleCollectResizeBins(tableID, leaf, size) ==
  IF leaf \notin DOMAIN untrustedBinStorage THEN Die
  ELSE /\ \E storage \in Resized(untrustedBinStorage[leaf], size) :
            untrustedTableStorage' = [untrustedTableStorage EXCEPT ![tableID] = With(@, leaf, storage)]
       /\ untrustedBinStorage' = NoStorage
       /\ UNCHANGED <<indexFile, died>>

HandleWriteIndex ==
  /\ indexFile' = TRUE
  /\ UNCHANGED <<untrustedTableStorage, untrustedBinStorage, died>>
=============================================================================
