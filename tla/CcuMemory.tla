------------------------------ MODULE CcuMemory ------------------------------
(***************************************************************************)
(* The memory commands of ccu: get_dev*_mem, dump_dev*_mem, set_dev*_mem   *)
(* and fill_dev*_mem (client_utility/ccu_cswp.cpp), from the validation of *)
(* their arguments (client_utility/ccu_in.cpp) to the exit of the process. *)
(*                                                                         *)
(* A dump or a fill is cut into chunks, a chunk into sub-requests whose    *)
(* size is a multiple of one access size, and several sub-requests travel  *)
(* as one batch that stops at the first error.  The data is abstracted to  *)
(* addresses: place k of rw_values holds the byte of device address        *)
(* rw_values[k], or for a write has been acknowledged for that address.    *)
(* The buffers of the CSWP client are counted, not stored.                 *)
(*                                                                         *)
(* The server and the transport are external: a command succeeds, or fails *)
(* and with it the rest of the batch.  A successful read may return fewer  *)
(* bytes than it was asked for, which neither the client nor ccu objects   *)
(* to; the places behind them keep what they held.                         *)
(***************************************************************************)
EXTENDS Integers, Sequences

CONSTANTS
    MEM_MAX_RW_SZ,             \* bytes of a chunk
    CSWP_REQ_RSP_BUFFER_SIZE,  \* of the client's request and response buffers
    DEV0_MEM_MAX_BIN_SZ,       \* most bytes of a dump or fill of device 0,
    DEV1_MEM_MAX_BIN_SZ,       \*   and of device 1
    GET_MAX_SZ,                \* most bytes of a get (ccu_in.cpp:112)
    Missing,                   \* bytes the answer to a read may lack
    Address,                   \* the addresses the user may give,
    Size                       \*   and the sizes

MAX_NUM_SUBREQ == 4
MEM_MAX_BIN_SZ == DEV1_MEM_MAX_BIN_SZ

ASSUME ConstantsAssumption ==
    /\ MEM_MAX_RW_SZ \in Nat \ {0} /\ MEM_MAX_RW_SZ % 8 = 0
    /\ GET_MAX_SZ \in Nat /\ GET_MAX_SZ % 4 = 0
    /\ GET_MAX_SZ <= MEM_MAX_RW_SZ
    /\ DEV0_MEM_MAX_BIN_SZ \in Nat /\ DEV0_MEM_MAX_BIN_SZ % 4 = 0
    /\ DEV1_MEM_MAX_BIN_SZ \in Nat
    /\ DEV0_MEM_MAX_BIN_SZ <= DEV1_MEM_MAX_BIN_SZ
    /\ MEM_MAX_RW_SZ <= DEV1_MEM_MAX_BIN_SZ /\ 8 <= DEV1_MEM_MAX_BIN_SZ
    /\ CSWP_REQ_RSP_BUFFER_SIZE \in Nat
    /\ MEM_MAX_RW_SZ + 32 <= CSWP_REQ_RSP_BUFFER_SIZE /\ 96 <= CSWP_REQ_RSP_BUFFER_SIZE
    /\ Address \subseteq Nat
    /\ Size \subseteq Nat
    /\ Missing \subseteq Nat

VARIABLES
    pc,             \* "args", "setup", "chunk", "split", "encode", "execute", "report", "cleanup", "done"
    op,             \* "get", "dump", "set", "fill"
    devID,          \* the fields of mem_cmd_t
    start_addr,
    total_bytes,
    rw_values,
    subreqs,
    rw_values_idx,  \* rd_values_idx, wr_values_idx: what the finished chunks hold
    saddr,          \* the variables of create_mem_subreqs
    buf_idx,
    num_bytes,
    i,              \* the sub-request that is encoded, or executed, next
    req_used,       \* bytes in priv->cmd
    rsp_used,       \* bytes the response to it has
    res             \* "none", "ok", or the error ccu exits with

memVars == <<op, devID, start_addr, total_bytes, rw_values_idx>>
splitVars == <<subreqs, saddr, buf_idx, num_bytes>>
bufVars == <<i, req_used, rsp_used>>
vars == <<pc, memVars, rw_values, splitVars, bufVars, res>>

Reads == op \in {"get", "dump"}
Chunked == op \in {"dump", "fill"}

-----------------------------------------------------------------------------
(* Validation of the arguments. *)

is_valid_get_mem_rd_sz(size, op_type_dump) == op_type_dump \/ size <= GET_MAX_SZ

is_valid_set_mem_wr_sz(size, dev) == size \in {1, 2, 4, 8} /\ (dev = 0 => size = 4)

start_addr_of_3_bytes_unchecked(dev, addr, total, op_type_fill) ==
    /\ dev = 0 => addr % 4 = 0
    /\ dev = 1 =>
           IF op_type_fill THEN addr % 8 = 0
           ELSE /\ total = 2 => addr % 2 = 0
                /\ total = 4 => addr % 4 = 0
                /\ total > 4 => addr % 8 = 0
is_mem_start_addr_aligned(dev, addr, total, op_type_fill) ==
    /\ dev = 0 => addr % 4 = 0
    /\ dev = 1 =>
           IF op_type_fill THEN addr % 8 = 0
           ELSE /\ total = 2 => addr % 2 = 0
                /\ total \in {3, 4} => addr % 4 = 0
                /\ total > 4 => addr % 8 = 0

MaxBinSize(dev) == IF dev = 0 THEN DEV0_MEM_MAX_BIN_SZ ELSE DEV1_MEM_MAX_BIN_SZ

is_fill_data_ok(dev, file_sz) ==
    /\ file_sz <= MaxBinSize(dev)
    /\ IF dev = 0 THEN file_sz > 4 /\ file_sz % 4 = 0 ELSE file_sz > 8

(* Device 0 is read in words. *)
WholeWords(dev, size) == IF dev = 0 /\ size % 4 # 0 THEN size + (4 - (size % 4)) ELSE size

(* The arguments are accepted, with `total` bytes to move, or the process  *)
(* exits.                                                                  *)
Extract(name, dev, addr, valid, total) ==
    /\ pc = "args"
    /\ IF valid
         THEN /\ pc' = "setup"
              /\ op' = name
              /\ devID' = dev
              /\ start_addr' = addr
              /\ total_bytes' = total
              /\ UNCHANGED <<rw_values_idx, res>>
         ELSE /\ pc' = "done"
              /\ res' = "CCU_BAD_CMD_ARG"
              /\ UNCHANGED memVars
    /\ UNCHANGED <<rw_values, splitVars, bufVars>>

extract_get_dev_mem_param ==
    \E dev \in {0, 1}, addr \in Address, size \in Size :
        Extract("get", dev, addr,
                /\ is_valid_get_mem_rd_sz(size, FALSE)
                /\ is_mem_start_addr_aligned(dev, addr, size, FALSE),
                WholeWords(dev, size))

extract_dump_dev_mem_param ==
    \E dev \in {0, 1}, addr \in Address, size \in Size :
        Extract("dump", dev, addr,
                /\ is_valid_get_mem_rd_sz(size, TRUE)
                /\ is_mem_start_addr_aligned(dev, addr, size, FALSE)
                /\ size <= MaxBinSize(dev),
                WholeWords(dev, size))

extract_set_dev_mem_param ==
    \E dev \in {0, 1}, addr \in Address, size \in Size :
        Extract("set", dev, addr,
                /\ is_valid_set_mem_wr_sz(size, dev)
                /\ is_mem_start_addr_aligned(dev, addr, size, FALSE),
                size)

extract_fill_dev_mem_param ==
    \E dev \in {0, 1}, addr \in Address, file_sz \in Size :
        Extract("fill", dev, addr,
                /\ is_mem_start_addr_aligned(dev, addr, 0, TRUE)
                /\ is_fill_data_ok(dev, file_sz),
                file_sz)

-----------------------------------------------------------------------------
(* The result is kept until the process exits. *)
Leave(result) == pc' = "cleanup" /\ res' = result

setup_cdebug ==
    /\ pc = "setup"
    /\ \/ pc' = "chunk" /\ UNCHANGED res
       \/ pc' = "done" /\ res' = "connect"
    /\ UNCHANGED <<memVars, rw_values, splitVars, bufVars>>

(* The head of the loop of dump and fill; get and set are one chunk.       *)
WholeTransfer(total) == total
ChunkSize(total) ==
    IF Chunked /\ total >= MEM_MAX_RW_SZ THEN MEM_MAX_RW_SZ ELSE total

next_chunk ==
    /\ pc = "chunk"
    /\ Chunked => total_bytes > 0
    /\ pc' = "split"
    /\ saddr' = start_addr
    /\ buf_idx' = rw_values_idx
    /\ num_bytes' = ChunkSize(total_bytes)
    /\ subreqs' = <<>>
    /\ UNCHANGED <<memVars, rw_values, bufVars, res>>

(* One iteration of create_mem_subreqs. *)
OneAccess(dev, n) == IF n >= 8 /\ dev = 1 THEN 8 ELSE IF n >= 4 THEN 4 ELSE IF n >= 2 THEN 2 ELSE 1
SubreqSize(dev, n) ==
    IF n >= 8 THEN IF dev = 0 THEN (n \div 4) * 4 ELSE (n \div 8) * 8
    ELSE IF n >= 4 THEN (n \div 4) * 4
    ELSE IF n >= 2 THEN (n \div 2) * 2
    ELSE 1
AccessSize(dev, n) ==   \* in bytes
    IF n >= 8 THEN IF dev = 0 THEN 4 ELSE 8
    ELSE IF n >= 4 THEN 4
    ELSE IF n >= 2 THEN 2
    ELSE 1

create_mem_subreqs ==
    /\ pc = "split"
    /\ num_bytes > 0
    /\ LET size == SubreqSize(devID, num_bytes)
       IN  /\ subreqs' = Append(subreqs, [saddr |-> saddr, buf_idx |-> buf_idx, size |-> size,
                                          acc_sz |-> AccessSize(devID, num_bytes)])
           /\ saddr' = saddr + size
           /\ buf_idx' = buf_idx + size
           /\ num_bytes' = num_bytes - size
    /\ UNCHANGED <<pc, memVars, rw_values, bufVars, res>>

(* The chunk is split: the first command clears the request buffer and     *)
(* leaves room for the header; the response has one of its own.            *)
CSWP_REQ_HEADER_SIZE == 15
CSWP_RSP_HEADER_SIZE == 5
batch_begin ==
    /\ pc = "split"
    /\ num_bytes = 0
    /\ pc' = "encode"
    /\ i' = 1
    /\ req_used' = CSWP_REQ_HEADER_SIZE
    /\ rsp_used' = CSWP_RSP_HEADER_SIZE
    /\ UNCHANGED <<memVars, rw_values, splitVars, res>>

VarintLen(n) == IF n < 128 THEN 1 ELSE IF n < 16384 THEN 2 ELSE 3
(* Command, device, address, size, access size, flags; command, result,    *)
(* size.                                                                   *)
RequestLen(size) == 2 + 1 + 8 + VarintLen(size) + 1 + 1 + (IF Reads THEN 0 ELSE size)
ResponseLen(size) == 2 + 1 + (IF Reads THEN VarintLen(size) + size ELSE 0)

(* cswp_device_mem_read or cswp_device_mem_write encodes a sub-request.    *)
encode_subreq ==
    /\ pc = "encode"
    /\ i <= Len(subreqs)
    /\ LET size == subreqs[i].size
       IN  IF req_used + RequestLen(size) > CSWP_REQ_RSP_BUFFER_SIZE
             THEN /\ Leave("CSWP_BUFFER_FULL")
                  /\ UNCHANGED bufVars
             ELSE /\ i' = i + 1
                  /\ req_used' = req_used + RequestLen(size)
                  /\ rsp_used' = rsp_used + ResponseLen(size)
                  /\ UNCHANGED <<pc, res>>
    /\ UNCHANGED <<memVars, rw_values, splitVars>>

(* The request is sent.  A response that is longer than its buffer is an   *)
(* error, whatever the server did.                                         *)
transact ==
    /\ pc = "encode"
    /\ i > Len(subreqs)
    /\ IF rsp_used > CSWP_REQ_RSP_BUFFER_SIZE
         THEN Leave("CSWP_RESPONSE_SIZE_ERR")
         ELSE pc' = "execute" /\ UNCHANGED res
    /\ i' = 1
    /\ UNCHANGED <<memVars, rw_values, splitVars, req_used, rsp_used>>

(* The server executes the next command, and the data of a read is copied  *)
(* from its response: the bytesRead of it that came.  The places behind    *)
(* them are served too, and keep what they held (Left).  Or the command    *)
(* fails and the batch is aborted; the bytes of a read that failed because *)
(* it returned too many were copied before.                                *)
Left == -1
Place(s) == s.buf_idx .. s.buf_idx + s.size - 1
Copied(s, n) ==
    [k \in DOMAIN rw_values \cup Place(s) |->
        IF k \notin Place(s) THEN rw_values[k]
        ELSE IF k < s.buf_idx + n THEN s.saddr + (k - s.buf_idx)
        ELSE Left]
bytesRead(size) == {IF missing < size THEN size - missing ELSE 0 : missing \in Missing}

execute_subreq ==
    /\ pc = "execute"
    /\ i <= Len(subreqs)
    /\ LET s == subreqs[i]
       IN  \/ /\ \E n \in {s.size} \cup (IF Reads THEN bytesRead(s.size) ELSE {}) :
                     rw_values' = Copied(s, n)
              /\ i' = i + 1
              /\ UNCHANGED <<pc, res>>
           \/ /\ Leave("failed")
              /\ UNCHANGED <<rw_values, i>>
           \/ /\ Reads
              /\ Leave("CSWP_OUTPUT_BUFFER_OVERFLOW")
              /\ rw_values' = Copied(s, s.size)
              /\ UNCHANGED i
    /\ UNCHANGED <<memVars, splitVars, req_used, rsp_used>>

PlaceKept(n) ==
    /\ start_addr' = start_addr + n
    /\ total_bytes' = total_bytes - n
    /\ UNCHANGED rw_values_idx
Advance(n) ==
    /\ start_addr' = start_addr + n
    /\ rw_values_idx' = rw_values_idx + n
    /\ total_bytes' = total_bytes - n

(* Everything was executed (ops_completed = num_subreqs).  A dump or fill  *)
(* goes on behind the chunk.                                               *)
batch_end ==
    /\ pc = "execute"
    /\ i > Len(subreqs)
    /\ IF Chunked
         THEN /\ pc' = "chunk"
              /\ Advance(ChunkSize(total_bytes))
         ELSE /\ pc' = "report"
              /\ UNCHANGED <<start_addr, rw_values_idx, total_bytes>>
    /\ UNCHANGED <<op, devID, rw_values, splitVars, bufVars, res>>

(* The loop ends. *)
end_chunks ==
    /\ pc = "chunk"
    /\ Chunked
    /\ total_bytes = 0
    /\ pc' = "report"
    /\ UNCHANGED <<memVars, rw_values, splitVars, bufVars, res>>

(* process_*_dev_mem_out prints the data, or saves it. *)
report ==
    /\ pc = "report"
    /\ Leave("ok")
    /\ UNCHANGED <<memVars, rw_values, splitVars, bufVars>>

(* An error of the cleanup is the result of a command that had none. *)
cleanup_cdebug ==
    /\ pc = "cleanup"
    /\ pc' = "done"
    /\ \/ UNCHANGED res
       \/ res' = (IF res = "ok" THEN "disconnect" ELSE res)
    /\ UNCHANGED <<memVars, rw_values, splitVars, bufVars>>

exited == pc = "done" /\ UNCHANGED vars

-----------------------------------------------------------------------------
Init ==
    /\ pc = "args"
    /\ op = "get"
    /\ devID = 0
    /\ start_addr = 0
    /\ total_bytes = 0
    /\ rw_values = [k \in {} |-> 0]
    /\ subreqs = <<>>
    /\ rw_values_idx = 0
    /\ saddr = 0
    /\ buf_idx = 0
    /\ num_bytes = 0
    /\ i = 1
    /\ req_used = 0
    /\ rsp_used = 0
    /\ res = "none"

Next ==
    \/ extract_get_dev_mem_param \/ extract_dump_dev_mem_param
    \/ extract_set_dev_mem_param \/ extract_fill_dev_mem_param
    \/ setup_cdebug \/ next_chunk \/ create_mem_subreqs \/ batch_begin
    \/ encode_subreq \/ transact \/ execute_subreq \/ batch_end
    \/ end_chunks \/ report \/ cleanup_cdebug \/ exited

Spec == Init /\ [][Next]_vars
-----------------------------------------------------------------------------
(***************************************************************************)
(* Properties.                                                             *)
(***************************************************************************)

Results ==
    {"none", "ok", "CCU_BAD_CMD_ARG", "connect", "failed", "disconnect",
     "CSWP_BUFFER_FULL", "CSWP_RESPONSE_SIZE_ERR", "CSWP_OUTPUT_BUFFER_OVERFLOW"}
Subreq == [saddr : Nat, buf_idx : Nat, size : Nat \ {0}, acc_sz : {1, 2, 4, 8}]

(* The type of every variable. *)
TypeOK ==
    /\ pc \in {"args", "setup", "chunk", "split", "encode", "execute", "report",
               "cleanup", "done"}
    /\ op \in {"get", "dump", "set", "fill"}
    /\ devID \in {0, 1}
    /\ start_addr \in Nat /\ total_bytes \in Nat /\ rw_values_idx \in Nat
    /\ saddr \in Nat /\ buf_idx \in Nat /\ num_bytes \in Nat
    /\ subreqs \in Seq(Subreq)
    /\ i \in Nat \ {0} /\ req_used \in Nat /\ rsp_used \in Nat
    /\ res \in Results

(* The sub-requests of create_mem_subreqs cover the chunk without a gap or *)
(* an overlap, each byte at its own place of rw_values, never beyond its   *)
(* end, and there are never more of them than mem_cmd_t has room for       *)
(* ("worse case req is (8*n byte)+ 4 byte + 2 byte + 1 byte = 4").         *)
SubreqsTile ==
    /\ Len(subreqs) <= MAX_NUM_SUBREQ
    /\ \A k \in DOMAIN subreqs :
          LET next == IF k = Len(subreqs) THEN [saddr |-> saddr, buf_idx |-> buf_idx]
                      ELSE subreqs[k + 1]
          IN  /\ subreqs[k].saddr + subreqs[k].size = next.saddr
              /\ subreqs[k].buf_idx + subreqs[k].size = next.buf_idx
    /\ buf_idx + num_bytes <= MEM_MAX_BIN_SZ

(* Every sub-request is a whole number of aligned accesses, and device 0   *)
(* is accessed in words only ("dev0 reqs will not ever fall here", says    *)
(* the splitting loop of its 16 bit and 8 bit branches): what the checks   *)
(* of the arguments guarantee of the first byte holds after every chunk    *)
(* and after every sub-request.                                            *)
AccessAligned ==
    \A k \in DOMAIN subreqs :
        /\ subreqs[k].size % subreqs[k].acc_sz = 0
        /\ subreqs[k].saddr % subreqs[k].acc_sz = 0
        /\ devID = 0 => subreqs[k].acc_sz = 4

TooLong == {"CSWP_BUFFER_FULL", "CSWP_RESPONSE_SIZE_ERR"}

(* get, dump and set never fail because a request or its response exceeds  *)
(* the client's buffers: a chunk leaves room for the headers of up to four *)
(* commands.                                                               *)
ReadsFit == res \in TooLong => op = "fill"

(* Neither does fill: "CCU must send multiple of such batch/single reqs to *)
(* ensure user can write upto 265kB with 1 CCU command" (fill_dev_mem).    *)
FillFits == res \notin TooLong

Transfer == INSTANCE MemTransfer WITH
    reading <- Reads,
    base <- start_addr - rw_values_idx,
    total <- total_bytes + rw_values_idx,
    image <- rw_values,
    status <- IF pc = "args" THEN "idle"
              ELSE IF pc # "done" THEN "busy"
              ELSE IF res = "ok" THEN "ok" ELSE "error"

(* A memory command is one transfer: whatever the chunks and the batches   *)
(* are, the range is served in order, each byte moved between its own      *)
(* address and its own place, and the command succeeds only when all of it *)
(* was served: a set or fill has then moved every byte, and of a get or    *)
(* dump the only bytes missing are the last ones of a sub-request that the *)
(* server answered short (bytesRead, which execute_get_dev_mem_out does    *)
(* not look at).  An error leaves a served prefix.                         *)
ImplementsTransfer == Transfer!TransferSpec
=============================================================================
