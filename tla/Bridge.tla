------------------------------- MODULE Bridge -------------------------------
(* The bridge between the host and the enclave that edger8r generates from *)
(* Enclave.edl (Enclave/Enclave_t.c, App/Enclave_u.c): which calls copy    *)
(* buffers and can fail, which give a result back, and what a request to   *)
(* the host carries.  Pointers are checked, sizes are added up without     *)
(* overflow, and a size that is not a multiple of one byte does not occur; *)
(* what is left to go wrong is that no memory can be had.                  *)
EXTENDS Integers, Sequences

SGX_SUCCESS == "success"
SGX_ERROR == "error"

-----------------------------------------------------------------------------
(* Trusted stubs of the ECALLs: the buffers that they malloc for the       *)
(* arguments.  If that fails, the body is not run.                         *)
ExtractMetaBuffers == {"encryptedData", "sensitiveAttr"}
CreateCZSCBuffers == {"eData_t1", "eData_t2"}
BuildIndexBuffers == {"str"}
IdxSelectBuffers == {"s_bins", "s_records"}       \* zeroed, copied out
StructuresWithoutBuffers ==
  {"extractData", "createPDS", "initJoinPDS", "initHTree", "createJoinPDS", "createJoinBuckets"}
JoinsWithoutBuffers == {"innerJoin", "pfJoin", "czscJoin", "joinCompact"}

Buffers(ecall) ==
  CASE ecall = "extractMeta" -> ExtractMetaBuffers
    [] ecall = "createCZSC" -> CreateCZSCBuffers
    [] ecall = "buildIndex" -> BuildIndexBuffers
    [] ecall = "idxSelect" -> IdxSelectBuffers
    [] ecall \in StructuresWithoutBuffers \cup JoinsWithoutBuffers -> {}

(* Untrusted wrappers: these give *retval a value, and only after success. *)
StructuresWithResult == {"createPDS", "initJoinPDS", "initHTree"}
AnswersWithResult == {"buildIndex", "idxSelect", "innerJoin", "pfJoin", "czscJoin"}

Assigned(ecall, status, old, ms_retval) ==
  IF ecall \in StructuresWithResult \cup AnswersWithResult /\ status = SGX_SUCCESS
  THEN ms_retval ELSE old

-----------------------------------------------------------------------------
(* Trusted stubs of the OCALLs: what is copied out of the enclave.         *)
expand_table_OCALL(tableID, noiseSum) ==
  [op |-> "expand_table", tableID |-> tableID, noiseSum |-> noiseSum]
readDataBlock_OCALL(tableID, readBinID, pos, numData) ==
  [op |-> "readDataBlock", tableID |-> tableID, binID |-> readBinID, pos |-> pos, numData |-> numData]
writeDataBlock_OCALL(writeBinID, pos, dblock) ==
  [op |-> "writeDataBlock", binID |-> writeBinID, pos |-> pos, dblock |-> dblock]
move_resize_bin_totable_OCALL(tableID, srcBinID, destBinID, size) ==
  [op |-> "move_resize_bin_totable", tableID |-> tableID, srcBinID |-> srcBinID,
   destBinID |-> destBinID, size |-> size]
initBinStorage_OCALL(tableID, binID) ==
  [op |-> "initBinStorage", tableID |-> tableID, binID |-> binID]
delete_bin_OCALL(binID) == [op |-> "delete_bin", binID |-> binID]
delete_table_OCALL(tableID) == [op |-> "delete_table", tableID |-> tableID]
collect_resize_bins_OCALL(tableID, leaf, size) ==
  [op |-> "collect_resize_bins", tableID |-> tableID, leaf |-> leaf, size |-> size]
write_index_OCALL == [op |-> "write_index"]

(* The dispatchers call the handler and return SGX_SUCCESS: a request is   *)
(* lost only where sgx_ocalloc has no room for it.                         *)
Dispatched ==
  {"expand_table", "readDataBlock", "writeDataBlock", "move_resize_bin_totable",
   "initBinStorage", "delete_bin", "delete_table", "collect_resize_bins", "write_index"}
=============================================================================
