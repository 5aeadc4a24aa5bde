-------------------------- MODULE CcuMemory_proofs --------------------------
(***************************************************************************)
(* Proofs about CcuMemory, for all chunk and buffer sizes that satisfy     *)
(* ConstantsAssumption, and for all addresses and sizes a user can give.   *)
(*                                                                         *)
(* The inductive invariant Inv says that the alignment the arguments were  *)
(* checked for holds of what is left to do, of the command (ArgsOK) and of *)
(* the chunk (SplitOK); how much of a chunk k sub-requests can leave; that *)
(* addresses and places advance together; and that the places in front of  *)
(* the next one, and no others, have been served, each with its own byte   *)
(* or, by a read that was answered short, without one (ImageOK).           *)
(***************************************************************************)
EXTENDS CcuMemory, TLAPS

(* Command o has served the first n places of f, from address b on. *)
IsImage(f, o, b, n) ==
    /\ DOMAIN f = 0 .. n - 1
    /\ \A k \in 0 .. n - 1 : f[k] = b + k \/ (o \in {"get", "dump"} /\ f[k] = Left)

Base == start_addr - rw_values_idx
Total == total_bytes + rw_values_idx
Pos(k) == IF k <= Len(subreqs) THEN subreqs[k].buf_idx ELSE buf_idx
Splitting == pc \in {"split", "encode", "execute"}

(* n bytes from addr on can be accessed as SubreqSize and AccessSize say.  *)
Accessible(dev, addr, n) ==
    /\ dev = 0 => addr % 4 = 0 /\ n % 4 = 0
    /\ dev = 1 => /\ n = 2 => addr % 2 = 0
                  /\ n \in {3, 4} => addr % 4 = 0
                  /\ n > 4 => addr % 8 = 0

ArgsOK ==
    /\ Accessible(devID, start_addr, total_bytes)
    /\ Total <= MEM_MAX_BIN_SZ
    /\ ~Chunked => rw_values_idx = 0 /\ total_bytes <= MEM_MAX_RW_SZ
    /\ op = "set" => total_bytes <= 8
    /\ pc \in {"args", "setup"} => rw_values_idx = 0

SplitOK ==
    /\ Accessible(devID, saddr, num_bytes)
    /\ \A k \in DOMAIN subreqs : subreqs[k].buf_idx + subreqs[k].size <= buf_idx
    /\ Len(subreqs) <= 4
    /\ Len(subreqs) >= 1 => num_bytes < 8
    /\ Len(subreqs) >= 2 => num_bytes < 4
    /\ Len(subreqs) >= 3 => num_bytes < 2
    /\ Len(subreqs) >= 4 => num_bytes = 0
    /\ pc \in {"encode", "execute"} => num_bytes = 0
    /\ pc = "args" => subreqs = <<>> /\ saddr = 0 /\ num_bytes = 0

ChunkOK ==
    Splitting =>
        /\ buf_idx + num_bytes = rw_values_idx + ChunkSize(total_bytes)
        /\ saddr - buf_idx = Base
        /\ Pos(1) = rw_values_idx
        /\ \A k \in DOMAIN subreqs : subreqs[k].saddr - subreqs[k].buf_idx = Base
        /\ Chunked => total_bytes > 0

BuffersOK ==
    /\ pc = "encode" =>
           /\ i <= Len(subreqs) + 1
           /\ req_used <= 15 + 16 * (i - 1) + (IF Reads THEN 0 ELSE Pos(i) - rw_values_idx)
           /\ rsp_used <= 5 + 6 * (i - 1) + (Pos(i) - rw_values_idx)
    /\ pc = "execute" => i <= Len(subreqs) + 1

ImageOK ==
    /\ pc \in {"args", "setup", "chunk", "split", "encode"} =>
           IsImage(rw_values, op, Base, rw_values_idx)
    /\ pc = "execute" => IsImage(rw_values, op, Base, Pos(i))
    /\ pc = "report" \/ res = "ok" => IsImage(rw_values, op, Base, Total)
    /\ res # "none" => pc \in {"cleanup", "done"}
    /\ pc \in {"cleanup", "done"} => res # "none"

Inv ==
    /\ TypeOK
    /\ ArgsOK
    /\ SplitOK
    /\ SubreqsTile
    /\ AccessAligned
    /\ ChunkOK
    /\ BuffersOK
    /\ ImageOK
    /\ ReadsFit

-----------------------------------------------------------------------------
(* Arithmetic. *)

(* A multiple of 8 behind an aligned address is as well aligned. *)
LEMMA Multiples ==
    ASSUME NEW a \in Nat, NEW n \in Nat
    PROVE  /\ a % 8 = 0 => a % 4 = 0 /\ a % 2 = 0
           /\ a % 4 = 0 => a % 2 = 0
           /\ a % 8 = 0 /\ n % 8 = 0 => (a + n) % 8 = 0
           /\ a % 4 = 0 /\ n % 4 = 0 => (a + n) % 4 = 0
  OBVIOUS

(* One iteration of the splitting loop on n bytes at a: the sub-request is *)
(* not empty, is made of aligned accesses, and what it leaves is shorter   *)
(* and accessible again.                                                   *)
LEMMA SubreqFacts ==
    ASSUME NEW dev \in {0, 1}, NEW a \in Nat, NEW n \in Nat \ {0}, Accessible(dev, a, n),
           NEW size, size = SubreqSize(dev, n),
           NEW acc, acc = AccessSize(dev, n)
    PROVE  /\ size \in Nat \ {0} /\ size <= n
           /\ acc \in {1, 2, 4, 8}
           /\ size % acc = 0 /\ a % acc = 0
           /\ dev = 0 => acc = 4
           /\ Accessible(dev, a + size, n - size)
           /\ n - size < 8
           /\ n < 8 => n - size < 4
           /\ n < 4 => n - size < 2
           /\ n < 2 => n - size = 0
<1>1. CASE dev = 0 /\ n >= 8
  BY <1>1 DEF Accessible, SubreqSize, AccessSize
<1>2. CASE dev = 1 /\ n >= 8
  BY <1>2 DEF Accessible, SubreqSize, AccessSize
<1>3. CASE dev = 0 /\ n < 8
  BY <1>3 DEF Accessible, SubreqSize, AccessSize
<1>4. CASE dev = 1 /\ n < 8
  BY <1>4 DEF Accessible, SubreqSize, AccessSize
<1> QED
  BY <1>1, <1>2, <1>3, <1>4

-----------------------------------------------------------------------------
(* The steps, grouped by what they leave alone. *)

Extraction ==
    \/ extract_get_dev_mem_param \/ extract_dump_dev_mem_param
    \/ extract_set_dev_mem_param \/ extract_fill_dev_mem_param

(* What an accepted command line has been checked for: the arguments of    *)
(* each of the four commands, with the sizes device 0 is read in.          *)
LEMMA Extracted ==
    ASSUME TypeOK, ArgsOK, Extraction
    PROVE  /\ pc = "args"
           /\ UNCHANGED <<rw_values, splitVars, bufVars, rw_values_idx>>
           /\ \/ /\ pc' = "setup"
                 /\ op' \in {"get", "dump", "set", "fill"}
                 /\ devID' \in {0, 1}
                 /\ start_addr' \in Nat
                 /\ total_bytes' \in Nat
                 /\ Accessible(devID', start_addr', total_bytes')
                 /\ total_bytes' <= MEM_MAX_BIN_SZ
                 /\ op' \in {"get", "set"} => total_bytes' <= MEM_MAX_RW_SZ
                 /\ op' = "set" => total_bytes' <= 8
                 /\ res' = res
              \/ /\ pc' = "done"
                 /\ res' = "CCU_BAD_CMD_ARG"
                 /\ UNCHANGED memVars
<1> USE ConstantsAssumption DEF Extract, is_mem_start_addr_aligned, Accessible,
        MEM_MAX_BIN_SZ, MaxBinSize, memVars
<1>0. \A dev \in {0, 1}, size \in Nat :
          /\ WholeWords(dev, size) \in Nat
          /\ dev = 0 => WholeWords(dev, size) % 4 = 0
          /\ dev = 1 => WholeWords(dev, size) = size
          /\ \A m \in Nat : m % 4 = 0 /\ size <= m => WholeWords(dev, size) <= m
  BY DEF WholeWords
<1>1. CASE extract_get_dev_mem_param
  <2>1. PICK dev \in {0, 1}, addr \in Address, size \in Size :
            Extract("get", dev, addr,
                    /\ is_valid_get_mem_rd_sz(size, FALSE)
                    /\ is_mem_start_addr_aligned(dev, addr, size, FALSE),
                    WholeWords(dev, size))
    BY <1>1 DEF extract_get_dev_mem_param
  <2>2. addr \in Nat /\ size \in Nat
    OBVIOUS
  <2>3. /\ WholeWords(dev, size) \in Nat
        /\ dev = 0 => WholeWords(dev, size) % 4 = 0
        /\ dev = 1 => WholeWords(dev, size) = size
        /\ size <= GET_MAX_SZ => WholeWords(dev, size) <= GET_MAX_SZ
    BY <1>0, <2>2
  <2> QED
    BY <2>1, <2>2, <2>3 DEF is_valid_get_mem_rd_sz
<1>2. CASE extract_dump_dev_mem_param
  <2>1. PICK dev \in {0, 1}, addr \in Address, size \in Size :
            Extract("dump", dev, addr,
                    /\ is_valid_get_mem_rd_sz(size, TRUE)
                    /\ is_mem_start_addr_aligned(dev, addr, size, FALSE)
                    /\ size <= MaxBinSize(dev),
                    WholeWords(dev, size))
    BY <1>2 DEF extract_dump_dev_mem_param
  <2>2. addr \in Nat /\ size \in Nat
    OBVIOUS
  <2>3. /\ WholeWords(dev, size) \in Nat
        /\ dev = 0 => WholeWords(dev, size) % 4 = 0
        /\ dev = 1 => WholeWords(dev, size) = size
        /\ dev = 0 /\ size <= DEV0_MEM_MAX_BIN_SZ => WholeWords(dev, size) <= DEV0_MEM_MAX_BIN_SZ
    BY <1>0, <2>2
  <2> QED
    BY <2>1, <2>2, <2>3 DEF is_valid_get_mem_rd_sz
<1>3. CASE extract_set_dev_mem_param
  <2>1. PICK dev \in {0, 1}, addr \in Address, size \in Size :
            Extract("set", dev, addr,
                    /\ is_valid_set_mem_wr_sz(size, dev)
                    /\ is_mem_start_addr_aligned(dev, addr, size, FALSE),
                    size)
    BY <1>3 DEF extract_set_dev_mem_param
  <2>2. addr \in Nat /\ size \in Nat
    OBVIOUS
  <2>3. 8 <= MEM_MAX_RW_SZ
    OBVIOUS
  <2> QED
    BY <2>1, <2>2, <2>3 DEF is_valid_set_mem_wr_sz
<1>4. CASE extract_fill_dev_mem_param
  <2>1. PICK dev \in {0, 1}, addr \in Address, file_sz \in Size :
            Extract("fill", dev, addr,
                    /\ is_mem_start_addr_aligned(dev, addr, 0, TRUE)
                    /\ is_fill_data_ok(dev, file_sz),
                    file_sz)
    BY <1>4 DEF extract_fill_dev_mem_param
  <2>2. addr \in Nat /\ file_sz \in Nat
    OBVIOUS
  <2> QED
    BY <2>1, <2>2 DEF is_fill_data_ok
<1> QED
  BY <1>1, <1>2, <1>3, <1>4 DEF Extraction

(* A chunk is no longer than what is left, and what lies behind it is      *)
(* accessible again.                                                       *)
LEMMA ChunkFacts ==
    ASSUME TypeOK, ArgsOK, NEW n, n = ChunkSize(total_bytes)
    PROVE  /\ n \in Nat
           /\ n <= total_bytes
           /\ n <= MEM_MAX_RW_SZ
           /\ total_bytes > 0 => n > 0
           /\ ~Chunked => n = total_bytes
           /\ Accessible(devID, start_addr, n)
           /\ Chunked => Accessible(devID, start_addr + n, total_bytes - n)
<1> USE ConstantsAssumption DEF TypeOK, ArgsOK
<1>1. CASE Chunked /\ total_bytes >= MEM_MAX_RW_SZ
  <2>1. n = MEM_MAX_RW_SZ /\ n \in Nat /\ n % 8 = 0 /\ n >= 8
    BY <1>1 DEF ChunkSize
  <2>2. n % 4 = 0
    BY <2>1
  <2>3. devID = 0 => start_addr % 4 = 0 /\ (start_addr + n) % 4 = 0
                        /\ (total_bytes - n) % 4 = 0
    BY <1>1, <2>1, <2>2 DEF Accessible
  <2>4. devID = 1 => start_addr % 8 = 0 /\ (start_addr + n) % 8 = 0
    BY <1>1, <2>1 DEF Accessible
  <2>5. devID = 1 => (start_addr + n) % 4 = 0 /\ (start_addr + n) % 2 = 0
    BY <2>1, <2>4
  <2> QED
    BY <1>1, <2>1, <2>2, <2>3, <2>4, <2>5 DEF Accessible
<1>2. CASE ~(Chunked /\ total_bytes >= MEM_MAX_RW_SZ)
  <2>1. n = total_bytes
    BY <1>2 DEF ChunkSize
  <2>2. devID = 0 => (start_addr + n) % 4 = 0 /\ (total_bytes - n) % 4 = 0
    BY <2>1 DEF Accessible
  <2> QED
    BY <1>2, <2>1, <2>2 DEF Accessible
<1> QED
  BY <1>1, <1>2
-----------------------------------------------------------------------------
(* Inv is inductive: one lemma for each step. *)

(* The initial state satisfies the invariant. *)
LEMMA InitInv == Init => Inv
<1> SUFFICES ASSUME Init PROVE Inv
  OBVIOUS
<1> USE ConstantsAssumption DEF Init
<1>1. TypeOK
  BY DEF TypeOK, Results
<1>2. ArgsOK
  BY DEF ArgsOK, Accessible, Total, Chunked, MEM_MAX_BIN_SZ
<1>3. SplitOK /\ AccessAligned
  BY DEF SplitOK, Accessible, AccessAligned
<1>4. SubreqsTile
  BY DEF SubreqsTile, MAX_NUM_SUBREQ, MEM_MAX_BIN_SZ
<1>5. ChunkOK /\ BuffersOK
  BY DEF ChunkOK, BuffersOK, Splitting
<1>6. ImageOK
  BY DEF ImageOK, IsImage, Base
<1>7. ReadsFit
  BY DEF ReadsFit, TooLong
<1> QED
  BY <1>1, <1>2, <1>3, <1>4, <1>5, <1>6, <1>7 DEF Inv

(* Accepting or refusing the arguments preserves it. *)
LEMMA ExtractionStep == ASSUME Inv, Extraction PROVE Inv'
<1> USE ConstantsAssumption DEF Inv
<1>0. /\ pc = "args"
      /\ UNCHANGED <<rw_values, subreqs, saddr, buf_idx, num_bytes, i, req_used, rsp_used, rw_values_idx>>
      /\ \/ /\ pc' = "setup"
            /\ op' \in {"get", "dump", "set", "fill"}
            /\ devID' \in {0, 1}
            /\ start_addr' \in Nat
            /\ total_bytes' \in Nat
            /\ Accessible(devID', start_addr', total_bytes')
            /\ total_bytes' <= MEM_MAX_BIN_SZ
            /\ op' \in {"get", "set"} => total_bytes' <= MEM_MAX_RW_SZ
            /\ op' = "set" => total_bytes' <= 8
            /\ res' = res
         \/ /\ pc' = "done"
            /\ res' = "CCU_BAD_CMD_ARG"
            /\ UNCHANGED <<op, devID, start_addr, total_bytes, rw_values_idx>>
  BY Extracted DEF splitVars, bufVars, memVars
<1>1. subreqs = <<>> /\ num_bytes = 0 /\ saddr = 0 /\ rw_values_idx = 0
  BY <1>0 DEF SplitOK, ArgsOK
<1>2. TypeOK'
  BY <1>0 DEF TypeOK, Results
<1>3. ArgsOK'
  BY <1>0, <1>1 DEF TypeOK, ArgsOK, Total, Chunked
<1>4. SplitOK' /\ AccessAligned'
  BY <1>0, <1>1, <1>2 DEF TypeOK, SplitOK, Accessible, AccessAligned
<1>5. SubreqsTile'
  BY <1>0, <1>1 DEF SubreqsTile
<1>6. ChunkOK' /\ BuffersOK'
  BY <1>0 DEF ChunkOK, BuffersOK, Splitting
<1>7. DOMAIN rw_values = {}
  BY <1>0, <1>1 DEF ImageOK, IsImage
<1>8. ImageOK'
  BY <1>0, <1>1, <1>7 DEF ImageOK, IsImage
<1>9. ReadsFit'
  BY <1>0 DEF ReadsFit, TooLong, ImageOK
<1> QED
  BY <1>2, <1>3, <1>4, <1>5, <1>6, <1>8, <1>9

(* The steps that change neither the command nor its sub-requests. *)
LEMMA SetupStep == ASSUME Inv, setup_cdebug PROVE Inv'
<1> USE DEF Inv, setup_cdebug, memVars, splitVars, bufVars
<1>1. TypeOK'
  BY DEF TypeOK, Results
<1>2. ArgsOK' /\ SplitOK'
  BY DEF ArgsOK, Total, Chunked, SplitOK
<1>3. SubreqsTile' /\ AccessAligned'
  BY DEF SubreqsTile, AccessAligned
<1>4. ChunkOK' /\ BuffersOK'
  BY DEF ChunkOK, BuffersOK, Splitting
<1>5. ImageOK'
  BY DEF ImageOK, Base
<1>6. ReadsFit'
  BY DEF ReadsFit, TooLong
<1> QED
  BY <1>1, <1>2, <1>3, <1>4, <1>5, <1>6

(* So does the end of the loop of dump and fill. *)
LEMMA EndChunksStep == ASSUME Inv, end_chunks PROVE Inv'
<1> USE DEF Inv, end_chunks, memVars, splitVars, bufVars
<1>1. TypeOK'
  BY DEF TypeOK
<1>2. ArgsOK' /\ SplitOK'
  BY DEF ArgsOK, Total, Chunked, SplitOK
<1>3. SubreqsTile' /\ AccessAligned'
  BY DEF SubreqsTile, AccessAligned
<1>4. ChunkOK' /\ BuffersOK'
  BY DEF ChunkOK, BuffersOK, Splitting
<1>5. ImageOK'
  BY DEF ImageOK, Base, Total, TypeOK
<1>6. ReadsFit'
  BY DEF ReadsFit
<1> QED
  BY <1>1, <1>2, <1>3, <1>4, <1>5, <1>6

(* So does printing or saving the data. *)
LEMMA ReportStep == ASSUME Inv, report PROVE Inv'
<1> USE DEF Inv, report, Leave, memVars, splitVars, bufVars
<1>1. TypeOK'
  BY DEF TypeOK, Results
<1>2. ArgsOK' /\ SplitOK'
  BY DEF ArgsOK, Total, Chunked, SplitOK
<1>3. SubreqsTile' /\ AccessAligned'
  BY DEF SubreqsTile, AccessAligned
<1>4. ChunkOK' /\ BuffersOK'
  BY DEF ChunkOK, BuffersOK, Splitting
<1>5. ImageOK'
  BY DEF ImageOK, Base, Total
<1>6. ReadsFit'
  BY DEF ReadsFit, TooLong
<1> QED
  BY <1>1, <1>2, <1>3, <1>4, <1>5, <1>6

(* So does the end of the process. *)
LEMMA CleanupStep == ASSUME Inv, cleanup_cdebug PROVE Inv'
<1> USE DEF Inv, cleanup_cdebug, memVars, splitVars, bufVars
<1>0. res # "none"
  BY DEF ImageOK
<1>1. TypeOK'
  BY DEF TypeOK, Results
<1>2. ArgsOK' /\ SplitOK'
  BY DEF ArgsOK, Total, Chunked, SplitOK
<1>3. SubreqsTile' /\ AccessAligned'
  BY DEF SubreqsTile, AccessAligned
<1>4. ChunkOK' /\ BuffersOK'
  BY DEF ChunkOK, BuffersOK, Splitting
<1>5. ImageOK'
  BY <1>0 DEF ImageOK, Base, Total
<1>6. ReadsFit'
  BY DEF ReadsFit, TooLong
<1> QED
  BY <1>1, <1>2, <1>3, <1>4, <1>5, <1>6

(* Sending the request: the response of a get, dump or set fits. *)
LEMMA TransactStep == ASSUME Inv, transact PROVE Inv'
<1> USE DEF Inv, transact, Leave, memVars, splitVars
<1>0. rsp_used <= CSWP_REQ_RSP_BUFFER_SIZE
  <2>1. /\ i \in Nat \ {0} /\ i > Len(subreqs) /\ i <= Len(subreqs) + 1
        /\ rsp_used <= 5 + 6 * (i - 1) + (Pos(i) - rw_values_idx)
    BY DEF TypeOK, BuffersOK
  <2>2. Len(subreqs) \in Nat /\ Len(subreqs) <= 4
    BY DEF TypeOK, SplitOK
  <2>3. Pos(i) = buf_idx
    BY <2>1, <2>2 DEF Pos
  <2>4. buf_idx \in Nat /\ rw_values_idx \in Nat /\ rsp_used \in Nat
    BY DEF TypeOK
  <2>5. buf_idx - rw_values_idx <= MEM_MAX_RW_SZ
    <3>1. buf_idx + 0 = rw_values_idx + ChunkSize(total_bytes)
      BY DEF ChunkOK, Splitting, SplitOK
    <3>2. ChunkSize(total_bytes) \in Nat /\ ChunkSize(total_bytes) <= MEM_MAX_RW_SZ
      BY ChunkFacts
    <3> QED
      BY <3>1, <3>2, <2>4, ConstantsAssumption
  <2> QED
    BY <2>1, <2>2, <2>3, <2>4, <2>5, ConstantsAssumption
<1>1. TypeOK'
  BY DEF TypeOK, Results
<1>2. ArgsOK' /\ SplitOK'
  BY <1>0 DEF ArgsOK, Total, Chunked, SplitOK, TypeOK
<1>3. SubreqsTile' /\ AccessAligned'
  BY DEF SubreqsTile, AccessAligned
<1>4. ChunkOK'
  BY DEF ChunkOK, Splitting, ChunkSize, Chunked, Base, Pos
<1>5. BuffersOK'
  BY <1>0 DEF BuffersOK, TypeOK, ConstantsAssumption
<1>6. ImageOK'
  <2>1. Pos(1) = rw_values_idx
    BY DEF ChunkOK, Splitting
  <2> QED
    BY <1>0, <2>1, ConstantsAssumption DEF ImageOK, Base, Total, Pos, TypeOK
<1>7. ReadsFit'
  BY <1>0, ConstantsAssumption DEF ReadsFit, TypeOK
<1> QED
  BY <1>1, <1>2, <1>3, <1>4, <1>5, <1>6, <1>7

(* Beginning a batch, when the chunk is split. *)
LEMMA BatchBeginStep == ASSUME Inv, batch_begin PROVE Inv'
<1> USE DEF Inv, batch_begin, memVars, splitVars
<1>1. TypeOK'
  BY DEF TypeOK, CSWP_REQ_HEADER_SIZE, CSWP_RSP_HEADER_SIZE
<1>2. ArgsOK' /\ SplitOK'
  BY DEF ArgsOK, Total, Chunked, SplitOK
<1>3. SubreqsTile' /\ AccessAligned'
  BY DEF SubreqsTile, AccessAligned
<1>4. ChunkOK'
  BY DEF ChunkOK, Splitting, ChunkSize, Chunked, Base, Pos
<1>5. BuffersOK'
  <2>1. Pos(1) = rw_values_idx
    BY DEF ChunkOK, Splitting
  <2> QED
    BY <2>1 DEF BuffersOK, Pos, Reads, TypeOK, CSWP_REQ_HEADER_SIZE, CSWP_RSP_HEADER_SIZE
<1>6. ImageOK'
  BY DEF ImageOK, Base, Total
<1>7. ReadsFit'
  BY DEF ReadsFit
<1> QED
  BY <1>1, <1>2, <1>3, <1>4, <1>5, <1>6, <1>7

(* Beginning a chunk: it starts behind the bytes moved so far. *)
LEMMA NextChunkStep == ASSUME Inv, next_chunk PROVE Inv'
<1> USE DEF Inv, next_chunk, memVars, bufVars
<1>0. /\ num_bytes' \in Nat /\ num_bytes' <= total_bytes
      /\ Accessible(devID, start_addr, num_bytes')
  BY ChunkFacts
<1>1. TypeOK'
  BY <1>0 DEF TypeOK
<1>2. ArgsOK'
  BY DEF ArgsOK, Total, Chunked
<1>3. SplitOK' /\ AccessAligned'
  BY <1>0 DEF SplitOK, AccessAligned
<1>4. SubreqsTile'
  BY <1>0, ConstantsAssumption DEF SubreqsTile, ArgsOK, Total, TypeOK, MAX_NUM_SUBREQ, MEM_MAX_BIN_SZ
<1>5. ChunkOK'
  BY DEF ChunkOK, Splitting, ChunkSize, Chunked, Base, Pos, TypeOK
<1>6. BuffersOK'
  BY DEF BuffersOK
<1>7. ImageOK' /\ ReadsFit'
  BY DEF ImageOK, Base, Total, ReadsFit
<1> QED
  BY <1>1, <1>2, <1>3, <1>4, <1>5, <1>6, <1>7

(* One iteration of create_mem_subreqs. *)
LEMMA SplitStep == ASSUME Inv, create_mem_subreqs PROVE Inv'
<1> DEFINE size == SubreqSize(devID, num_bytes)
           acc == AccessSize(devID, num_bytes)
           new == [saddr |-> saddr, buf_idx |-> buf_idx, size |-> size, acc_sz |-> acc]
           n == Len(subreqs)
<1>1. /\ pc = "split" /\ num_bytes > 0
      /\ subreqs' = Append(subreqs, new)
      /\ saddr' = saddr + size
      /\ buf_idx' = buf_idx + size
      /\ num_bytes' = num_bytes - size
      /\ UNCHANGED <<pc, op, devID, start_addr, total_bytes, rw_values_idx,
                     rw_values, i, req_used, rsp_used, res>>
  BY DEF create_mem_subreqs, memVars, bufVars
<1>2. /\ devID \in {0, 1} /\ saddr \in Nat /\ buf_idx \in Nat /\ num_bytes \in Nat \ {0}
      /\ start_addr \in Nat /\ total_bytes \in Nat /\ rw_values_idx \in Nat
      /\ subreqs \in Seq(Subreq) /\ n \in Nat
  BY <1>1 DEF Inv, TypeOK
<1>3. /\ size \in Nat \ {0} /\ size <= num_bytes
      /\ acc \in {1, 2, 4, 8}
      /\ size % acc = 0 /\ saddr % acc = 0
      /\ devID = 0 => acc = 4
      /\ Accessible(devID, saddr + size, num_bytes - size)
      /\ num_bytes - size < 8
      /\ num_bytes < 8 => num_bytes - size < 4
      /\ num_bytes < 4 => num_bytes - size < 2
      /\ num_bytes < 2 => num_bytes - size = 0
  BY <1>2, SubreqFacts DEF Inv, SplitOK
<1> HIDE DEF size, acc
<1>4. new \in Subreq
  BY <1>2, <1>3 DEF Subreq
<1>5. /\ Len(subreqs') = n + 1
      /\ subreqs'[n + 1] = new
      /\ \A k \in 1 .. n : subreqs'[k] = subreqs[k]
      /\ DOMAIN subreqs' = 1 .. n + 1
      /\ DOMAIN subreqs = 1 .. n
      /\ subreqs' \in Seq(Subreq)
      /\ \A k \in 1 .. n : subreqs[k] \in Subreq
  BY <1>1, <1>2, <1>4
<1> HIDE DEF new
<1>6. /\ new.saddr = saddr /\ new.buf_idx = buf_idx /\ new.size = size /\ new.acc_sz = acc
  BY DEF new
<1>7. TypeOK'
  BY <1>1, <1>2, <1>3, <1>5 DEF Inv, TypeOK
<1>8. ArgsOK'
  BY <1>1 DEF Inv, ArgsOK, Total, Chunked
<1>9. SplitOK'
  <2>1. \A k \in 1 .. n : subreqs[k].buf_idx + subreqs[k].size <= buf_idx
    BY <1>5 DEF Inv, SplitOK
  <2>2. \A k \in DOMAIN subreqs' : subreqs'[k].buf_idx + subreqs'[k].size <= buf_idx'
    <3> SUFFICES ASSUME NEW k \in 1 .. n + 1
                 PROVE  subreqs'[k].buf_idx + subreqs'[k].size <= buf_idx'
      BY <1>5
    <3>1. CASE k = n + 1
      BY <3>1, <1>1, <1>2, <1>3, <1>5, <1>6
    <3>2. CASE k \in 1 .. n
      <4>1. subreqs[k].buf_idx \in Nat /\ subreqs[k].size \in Nat
        BY <3>2, <1>5 DEF Subreq
      <4>2. /\ subreqs'[k] = subreqs[k]
            /\ buf_idx \in Nat /\ buf_idx' \in Nat /\ buf_idx <= buf_idx'
        BY <3>2, <1>1, <1>2, <1>3, <1>5
      <4> QED
        BY <3>2, <4>1, <4>2, <2>1
    <3> QED
      BY <1>2, <3>1, <3>2
  <2>3. /\ n <= 4
        /\ n >= 1 => num_bytes < 8
        /\ n >= 2 => num_bytes < 4
        /\ n >= 3 => num_bytes < 2
        /\ n >= 4 => num_bytes = 0
    BY DEF Inv, SplitOK
  <2>4. /\ Len(subreqs') <= 4
        /\ Len(subreqs') >= 1 => num_bytes' < 8
        /\ Len(subreqs') >= 2 => num_bytes' < 4
        /\ Len(subreqs') >= 3 => num_bytes' < 2
        /\ Len(subreqs') >= 4 => num_bytes' = 0
    BY <2>3, <1>1, <1>2, <1>3, <1>5
  <2> QED
    BY <1>1, <1>3, <2>2, <2>4 DEF SplitOK
<1>10. SubreqsTile'
  <2>1. \A k \in 1 .. n :
            LET next == IF k = n THEN [saddr |-> saddr, buf_idx |-> buf_idx]
                        ELSE subreqs[k + 1]
            IN  /\ subreqs[k].saddr + subreqs[k].size = next.saddr
                /\ subreqs[k].buf_idx + subreqs[k].size = next.buf_idx
    BY <1>5 DEF Inv, SubreqsTile
  <2>2. ASSUME NEW k \in 1 .. n + 1
        PROVE  LET next == IF k = n + 1 THEN [saddr |-> saddr', buf_idx |-> buf_idx']
                           ELSE subreqs'[k + 1]
               IN  /\ subreqs'[k].saddr + subreqs'[k].size = next.saddr
                   /\ subreqs'[k].buf_idx + subreqs'[k].size = next.buf_idx
    <3>1. CASE k = n + 1
      BY <3>1, <1>1, <1>5, <1>6
    <3>2. CASE k \in 1 .. n /\ k = n
      BY <3>2, <2>1, <1>2, <1>5, <1>6
    <3>3. CASE k \in 1 .. n - 1
      <4>1. k \in 1 .. n /\ k + 1 \in 1 .. n /\ k # n /\ k # n + 1
        BY <3>3, <1>2
      <4> QED
        BY <4>1, <2>1, <1>5
    <3> QED
      BY <1>2, <3>1, <3>2, <3>3
  <2>3. buf_idx' + num_bytes' = buf_idx + num_bytes
    BY <1>1, <1>2, <1>3
  <2>4. Len(subreqs') <= 4
    BY <1>9 DEF SplitOK
  <2> QED
    BY <1>5, <2>2, <2>3, <2>4 DEF Inv, SubreqsTile, MAX_NUM_SUBREQ
<1>11. AccessAligned'
  <2> SUFFICES ASSUME NEW k \in 1 .. n + 1
               PROVE  /\ subreqs'[k].size % subreqs'[k].acc_sz = 0
                      /\ subreqs'[k].saddr % subreqs'[k].acc_sz = 0
                      /\ devID = 0 => subreqs'[k].acc_sz = 4
    BY <1>1, <1>5 DEF AccessAligned
  <2>1. CASE k = n + 1
    BY <2>1, <1>3, <1>5, <1>6
  <2>2. CASE k \in 1 .. n
    BY <2>2, <1>5 DEF Inv, AccessAligned
  <2> QED
    BY <1>2, <2>1, <2>2
<1>12. ChunkOK'
  <2>1. /\ buf_idx + num_bytes = rw_values_idx + ChunkSize(total_bytes)
        /\ saddr - buf_idx = Base
        /\ Pos(1) = rw_values_idx
        /\ \A k \in 1 .. n : subreqs[k].saddr - subreqs[k].buf_idx = Base
        /\ Chunked => total_bytes > 0
    BY <1>1, <1>5 DEF Inv, ChunkOK, Splitting
  <2>2. Base' = Base /\ Chunked' = Chunked /\ ChunkSize(total_bytes)' = ChunkSize(total_bytes)
    BY <1>1 DEF Base, Chunked, ChunkSize
  <2>3. Pos(1)' = rw_values_idx
    <3>1. CASE n = 0
      BY <3>1, <2>1, <1>5, <1>6 DEF Pos
    <3>2. CASE n >= 1
      BY <3>2, <2>1, <1>2, <1>5 DEF Pos
    <3> QED
      BY <1>2, <3>1, <3>2
  <2>4. \A k \in 1 .. n + 1 : subreqs'[k].saddr - subreqs'[k].buf_idx = Base
    BY <2>1, <1>2, <1>5, <1>6
  <2>5. buf_idx' + num_bytes' = buf_idx + num_bytes /\ saddr' - buf_idx' = saddr - buf_idx
    BY <1>1, <1>2, <1>3
  <2> QED
    BY <1>1, <1>5, <2>1, <2>2, <2>3, <2>4, <2>5 DEF ChunkOK
<1>13. BuffersOK'
  BY <1>1 DEF BuffersOK
<1>14. ImageOK' /\ ReadsFit'
  BY <1>1 DEF Inv, ImageOK, Base, Total, ReadsFit
<1> QED
  BY <1>7, <1>8, <1>9, <1>10, <1>11, <1>12, <1>13, <1>14 DEF Inv

(* Sub-request i starts where i - 1 of them end, and ends in the chunk.    *)
LEMMA NextPos ==
    ASSUME Inv, pc \in {"encode", "execute"}, i <= Len(subreqs)
    PROVE  /\ subreqs[i] \in Subreq
           /\ Pos(i) = subreqs[i].buf_idx
           /\ Pos(i + 1) = Pos(i) + subreqs[i].size
           /\ Pos(i + 1) <= rw_values_idx + ChunkSize(total_bytes)
           /\ subreqs[i].saddr = Base + subreqs[i].buf_idx
           /\ i + 1 <= Len(subreqs) + 1 /\ i <= 4
<1>1. /\ i \in Nat \ {0} /\ Len(subreqs) \in Nat /\ i \in DOMAIN subreqs
      /\ subreqs \in Seq(Subreq) /\ DOMAIN subreqs = 1 .. Len(subreqs)
  BY DEF Inv, TypeOK
<1>2. subreqs[i] \in Subreq
  BY <1>1
<1>3. Pos(i) = subreqs[i].buf_idx
  BY DEF Pos
<1>4. Pos(i + 1) = Pos(i) + subreqs[i].size
  <2>1. subreqs[i].buf_idx + subreqs[i].size =
            (IF i = Len(subreqs) THEN [saddr |-> saddr, buf_idx |-> buf_idx]
             ELSE subreqs[i + 1]).buf_idx
    BY <1>1 DEF Inv, SubreqsTile
  <2>2. CASE i = Len(subreqs)
    BY <1>1, <1>3, <2>1, <2>2 DEF Pos
  <2>3. CASE i # Len(subreqs)
    <3>1. i + 1 <= Len(subreqs)
      <4>1. i \in Nat /\ Len(subreqs) \in Nat /\ i <= Len(subreqs)
        BY <1>1
      <4> QED
        BY <2>3, <4>1
    <3>2. Pos(i + 1) = subreqs[i + 1].buf_idx
      BY <3>1 DEF Pos
    <3> QED
      BY <1>3, <2>1, <2>3, <3>2
  <2> QED
    BY <2>2, <2>3
<1>5. buf_idx + 0 = rw_values_idx + ChunkSize(total_bytes)
  BY DEF Inv, ChunkOK, Splitting, SplitOK
<1>6. subreqs[i].buf_idx + subreqs[i].size <= buf_idx
  BY <1>1 DEF Inv, SplitOK
<1>7. subreqs[i].saddr - subreqs[i].buf_idx = Base
  BY <1>1 DEF Inv, ChunkOK, Splitting
<1>8. subreqs[i].saddr = Base + subreqs[i].buf_idx
  BY <1>2, <1>7 DEF Subreq, Inv, TypeOK, Base
<1>9. i <= 4
  BY <1>1 DEF Inv, SplitOK
<1>10. buf_idx \in Nat /\ buf_idx = rw_values_idx + ChunkSize(total_bytes)
  BY <1>5 DEF Inv, TypeOK
<1>11. Pos(i + 1) <= rw_values_idx + ChunkSize(total_bytes)
  BY <1>3, <1>4, <1>6, <1>10
<1> QED
  BY <1>1, <1>2, <1>3, <1>4, <1>8, <1>9, <1>11

(* A command adds a bounded header, and its data, to a message. *)
LEMMA HeadersAndData ==
    /\ \A used, len, k, p, w, s \in Int :
           used <= 15 + 16 * (k - 1) + (p - w) /\ len <= 16 + s
             => used + len <= 15 + 16 * k + ((p + s) - w)
    /\ \A used, len, k, p, w, s \in Int :
           used <= 5 + 6 * (k - 1) + (p - w) /\ len <= 6 + s
             => used + len <= 5 + 6 * k + ((p + s) - w)
OBVIOUS

(* Encoding a sub-request: the buffers grow by its header and data. *)
LEMMA EncodeStep == ASSUME Inv, encode_subreq PROVE Inv'
<1> DEFINE size == subreqs[i].size
           chunk == ChunkSize(total_bytes)
<1>1. /\ pc = "encode" /\ i <= Len(subreqs)
      /\ UNCHANGED <<op, devID, start_addr, total_bytes, rw_values_idx, rw_values,
                     subreqs, saddr, buf_idx, num_bytes>>
      /\ \/ /\ req_used + RequestLen(size) > CSWP_REQ_RSP_BUFFER_SIZE
            /\ pc' = "cleanup" /\ res' = "CSWP_BUFFER_FULL"
            /\ UNCHANGED <<i, req_used, rsp_used>>
         \/ /\ i' = i + 1
            /\ req_used' = req_used + RequestLen(size)
            /\ rsp_used' = rsp_used + ResponseLen(size)
            /\ UNCHANGED <<pc, res>>
  BY DEF encode_subreq, Leave, memVars, splitVars, bufVars
<1>2. /\ i \in Nat \ {0} /\ req_used \in Nat /\ rsp_used \in Nat
      /\ rw_values_idx \in Nat /\ total_bytes \in Nat
  BY DEF Inv, TypeOK
<1>3. /\ size \in Nat \ {0} /\ Pos(i) \in Nat
      /\ Pos(i + 1) = Pos(i) + size
      /\ Pos(i + 1) <= rw_values_idx + chunk
      /\ i + 1 <= Len(subreqs) + 1 /\ i <= 4
  BY <1>1, NextPos DEF Subreq
<1>4. /\ chunk \in Nat
      /\ op = "set" => chunk <= 8
  BY ChunkFacts DEF Inv, ArgsOK, Chunked, TypeOK
<1>5. /\ req_used <= 15 + 16 * (i - 1) + (IF Reads THEN 0 ELSE Pos(i) - rw_values_idx)
      /\ rsp_used <= 5 + 6 * (i - 1) + (Pos(i) - rw_values_idx)
  BY <1>1 DEF Inv, BuffersOK
<1> HIDE DEF size, chunk
<1>6. /\ RequestLen(size) \in Nat /\ ResponseLen(size) \in Nat
      /\ RequestLen(size) <= 16 + (IF Reads THEN 0 ELSE size)
      /\ ResponseLen(size) <= 6 + size
  BY <1>3 DEF RequestLen, ResponseLen, VarintLen
<1>7. req_used + RequestLen(size) <= 15 + 16 * i + (IF Reads THEN 0 ELSE Pos(i + 1) - rw_values_idx)
  <2>1. CASE Reads
    <3>1. req_used <= 15 + 16 * (i - 1) + 0 /\ RequestLen(size) <= 16 + 0
      BY <2>1, <1>5, <1>6
    <3>2. req_used + RequestLen(size) <= 15 + 16 * i + 0
      BY <3>1, <1>2, <1>6
    <3> QED
      BY <2>1, <3>2
  <2>2. CASE ~Reads
    <3>1. req_used <= 15 + 16 * (i - 1) + (Pos(i) - rw_values_idx)
      BY <2>2, <1>5
    <3>2. RequestLen(size) <= 16 + size
      BY <2>2, <1>6
    <3>3. /\ req_used \in Int /\ RequestLen(size) \in Int /\ i \in Int
          /\ Pos(i) \in Int /\ rw_values_idx \in Int /\ size \in Int
      BY <1>2, <1>3, <1>6
    <3>4. req_used + RequestLen(size) <= 15 + 16 * i + ((Pos(i) + size) - rw_values_idx)
      BY <3>1, <3>2, <3>3, HeadersAndData
    <3> QED
      BY <2>2, <3>4, <1>3
  <2> QED
    BY <2>1, <2>2
<1>8. rsp_used + ResponseLen(size) <= 5 + 6 * i + (Pos(i + 1) - rw_values_idx)
  <2>1. rsp_used <= 5 + 6 * (i - 1) + (Pos(i) - rw_values_idx) /\ ResponseLen(size) <= 6 + size
    BY <1>5, <1>6
  <2>2. /\ rsp_used \in Int /\ ResponseLen(size) \in Int /\ i \in Int
        /\ Pos(i) \in Int /\ rw_values_idx \in Int /\ size \in Int
    BY <1>2, <1>3, <1>6
  <2>3. rsp_used + ResponseLen(size) <= 5 + 6 * i + ((Pos(i) + size) - rw_values_idx)
    BY <2>1, <2>2, HeadersAndData
  <2> QED
    BY <2>3, <1>3
<1>9. op # "fill" => req_used + RequestLen(size) <= CSWP_REQ_RSP_BUFFER_SIZE
  <2>1. CASE Reads
    BY <2>1, <1>2, <1>3, <1>6, <1>7, ConstantsAssumption
  <2>2. CASE op = "set"
    <3>1. ~Reads
      BY <2>2 DEF Reads
    <3>2. req_used + RequestLen(size) <= 15 + 16 * i + (Pos(i + 1) - rw_values_idx)
      BY <3>1, <1>7
    <3>3. Pos(i + 1) - rw_values_idx <= 8
      BY <2>2, <1>2, <1>3, <1>4
    <3>4. /\ req_used + RequestLen(size) \in Int /\ i \in Int /\ i <= 4
          /\ Pos(i + 1) - rw_values_idx \in Int
      BY <1>2, <1>3, <1>6
    <3> QED
      BY <3>2, <3>3, <3>4, ConstantsAssumption
  <2>3. Reads \/ op \in {"set", "fill"}
    BY DEF Inv, TypeOK, Reads
  <2> QED
    BY <2>1, <2>2, <2>3
<1>10. TypeOK'
  <2>1. i' \in Nat \ {0} /\ req_used' \in Nat /\ rsp_used' \in Nat
    BY <1>1, <1>2, <1>6
  <2>2. /\ pc' \in {pc, "cleanup"} /\ res' \in {res, "CSWP_BUFFER_FULL"}
    BY <1>1
  <2> QED
    BY <1>1, <2>1, <2>2 DEF Inv, TypeOK, Results
<1>11. ArgsOK' /\ SplitOK'
  BY <1>1 DEF Inv, ArgsOK, Total, Chunked, SplitOK
<1>12. SubreqsTile' /\ AccessAligned'
  BY <1>1 DEF Inv, SubreqsTile, AccessAligned
<1>13. ChunkOK'
  BY <1>1 DEF Inv, ChunkOK, Splitting, ChunkSize, Chunked, Base, Pos
<1>14. BuffersOK'
  <2>1. CASE pc' = "cleanup"
    BY <2>1 DEF BuffersOK
  <2>2. CASE i' = i + 1 /\ pc' = "encode" /\ req_used' = req_used + RequestLen(size)
                /\ rsp_used' = rsp_used + ResponseLen(size)
    <3>1. Pos(i)' = Pos(i + 1) /\ Reads' = Reads
      BY <1>1, <2>2 DEF Pos, Reads
    <3>2. /\ i' <= Len(subreqs') + 1
          /\ req_used' <= 15 + 16 * (i' - 1) + (IF Reads' THEN 0 ELSE Pos(i)' - rw_values_idx')
          /\ rsp_used' <= 5 + 6 * (i' - 1) + (Pos(i)' - rw_values_idx')
      BY <2>2, <3>1, <1>1, <1>2, <1>3, <1>7, <1>8
    <3> QED
      BY <2>2, <3>2 DEF BuffersOK
  <2> QED
    BY <1>1, <2>1, <2>2
<1>15. ImageOK'
  BY <1>1 DEF Inv, ImageOK, Base, Total
<1>16. ReadsFit'
  <2>1. req_used + RequestLen(size) \in Nat
    BY <1>2, <1>6
  <2> QED
    BY <1>1, <1>9, <2>1, ConstantsAssumption DEF Inv, ReadsFit
<1> QED
  BY <1>10, <1>11, <1>12, <1>13, <1>14, <1>15, <1>16 DEF Inv

(* The image grows by the sub-request at its end. *)
LEMMA ImageStep ==
    ASSUME Inv, pc = "execute", i <= Len(subreqs), op' = op,
           NEW n \in 0 .. subreqs[i].size, n = subreqs[i].size \/ Reads,
           rw_values' = Copied(subreqs[i], n)
    PROVE  /\ DOMAIN rw_values' = 0 .. Pos(i + 1) - 1
           /\ \A k \in 0 .. Pos(i) - 1 : rw_values'[k] = rw_values[k]
           /\ \A k \in Pos(i) .. Pos(i + 1) - 1 :
                  rw_values'[k] = IF k < Pos(i) + n THEN Base + k ELSE Left
           /\ IsImage(rw_values', op', Base, Pos(i + 1))
<1> DEFINE s == subreqs[i]
<1>1. /\ s.buf_idx \in Nat /\ s.size \in Nat \ {0} /\ s.saddr = Base + s.buf_idx
      /\ Pos(i) = s.buf_idx /\ Pos(i + 1) = s.buf_idx + s.size
  BY NextPos DEF Subreq
<1>2. IsImage(rw_values, op, Base, s.buf_idx)
  BY <1>1 DEF Inv, ImageOK
<1>3. Base \in Int
  BY DEF Inv, TypeOK, Base
<1>4. n \in 0 .. s.size /\ (n = s.size \/ op \in {"get", "dump"}) /\ rw_values' = Copied(s, n)
  BY DEF Reads
<1> HIDE DEF s
<1>5. DOMAIN rw_values \cup Place(s) = 0 .. (s.buf_idx + s.size) - 1
  BY <1>1, <1>2 DEF IsImage, Place
<1>6. \A k \in 0 .. (s.buf_idx + s.size) - 1 :
          rw_values'[k] = IF k \notin Place(s) THEN rw_values[k]
                          ELSE IF k < s.buf_idx + n THEN s.saddr + (k - s.buf_idx)
                          ELSE Left
  BY <1>4, <1>5 DEF Copied
<1>7. DOMAIN rw_values' = 0 .. (s.buf_idx + s.size) - 1
  BY <1>4, <1>5 DEF Copied
<1>8. \A k \in 0 .. s.buf_idx - 1 : rw_values'[k] = rw_values[k]
  BY <1>1, <1>6 DEF Place
<1>9. \A k \in s.buf_idx .. (s.buf_idx + s.size) - 1 :
          rw_values'[k] = IF k < s.buf_idx + n THEN Base + k ELSE Left
  <2> SUFFICES ASSUME NEW k \in s.buf_idx .. (s.buf_idx + s.size) - 1
               PROVE  rw_values'[k] = IF k < s.buf_idx + n THEN Base + k ELSE Left
    OBVIOUS
  <2>1. k \in 0 .. (s.buf_idx + s.size) - 1 /\ k \in Place(s)
    BY <1>1 DEF Place
  <2>2. s.saddr + (k - s.buf_idx) = Base + k
    BY <1>1, <1>3
  <2> QED
    BY <2>1, <2>2, <1>6, Zenon
<1>10. IsImage(rw_values', op', Base, s.buf_idx + s.size)
  <2> SUFFICES ASSUME NEW k \in 0 .. (s.buf_idx + s.size) - 1
               PROVE  rw_values'[k] = Base + k
                      \/ (op \in {"get", "dump"} /\ rw_values'[k] = Left)
    BY <1>7, Zenon DEF IsImage
  <2>1. CASE k < s.buf_idx
    <3>1. k \in 0 .. s.buf_idx - 1
      BY <2>1, <1>1
    <3> QED
      BY <3>1, <1>2, <1>8, Zenon DEF IsImage
  <2>2. CASE ~(k < s.buf_idx)
    BY <2>2, <1>1, <1>4, <1>9
  <2> QED
    BY <2>1, <2>2
<1> QED
  BY <1>1, <1>7, <1>8, <1>9, <1>10, Zenon

(* How a sub-request can end. *)
LEMMA Executed ==
    ASSUME Inv, execute_subreq
    PROVE  /\ pc = "execute" /\ i <= Len(subreqs)
           /\ UNCHANGED <<op, devID, start_addr, total_bytes, rw_values_idx,
                          subreqs, saddr, buf_idx, num_bytes, req_used, rsp_used>>
           /\ \/ /\ \E n \in 0 .. subreqs[i].size :
                        /\ n = subreqs[i].size \/ Reads
                        /\ rw_values' = Copied(subreqs[i], n)
                 /\ \/ i' = i + 1 /\ UNCHANGED <<pc, res>>
                    \/ pc' = "cleanup" /\ res' = "CSWP_OUTPUT_BUFFER_OVERFLOW" /\ UNCHANGED i
              \/ pc' = "cleanup" /\ res' = "failed" /\ UNCHANGED <<rw_values, i>>
<1>1. /\ pc = "execute" /\ i <= Len(subreqs)
      /\ UNCHANGED <<op, devID, start_addr, total_bytes, rw_values_idx,
                     subreqs, saddr, buf_idx, num_bytes, req_used, rsp_used>>
  BY DEF execute_subreq, memVars, splitVars
<1>2. subreqs[i].size \in Nat
  BY <1>1, NextPos DEF Subreq
<1>3. subreqs[i].size \in 0 .. subreqs[i].size
  BY <1>2
<1>4. ASSUME NEW n \in bytesRead(subreqs[i].size) PROVE n \in 0 .. subreqs[i].size
  BY <1>2, ConstantsAssumption DEF bytesRead
<1>5. \/ /\ \E n \in {subreqs[i].size} \cup (IF Reads THEN bytesRead(subreqs[i].size) ELSE {}) :
                rw_values' = Copied(subreqs[i], n)
         /\ i' = i + 1
         /\ UNCHANGED <<pc, res>>
      \/ pc' = "cleanup" /\ res' = "failed" /\ UNCHANGED <<rw_values, i>>
      \/ /\ pc' = "cleanup" /\ res' = "CSWP_OUTPUT_BUFFER_OVERFLOW" /\ UNCHANGED i
         /\ rw_values' = Copied(subreqs[i], subreqs[i].size)
  BY DEF execute_subreq, Leave
<1> QED
  BY <1>1, <1>3, <1>4, <1>5

(* Executing a sub-request: the image grows by its bytes. *)
LEMMA ExecuteStep == ASSUME Inv, execute_subreq PROVE Inv'
<1>1. /\ pc = "execute" /\ i <= Len(subreqs)
      /\ UNCHANGED <<op, devID, start_addr, total_bytes, rw_values_idx,
                     subreqs, saddr, buf_idx, num_bytes, req_used, rsp_used>>
  BY Executed
<1>2. \/ /\ \E n \in 0 .. subreqs[i].size :
                /\ n = subreqs[i].size \/ Reads
                /\ rw_values' = Copied(subreqs[i], n)
         /\ i' = i + 1
         /\ UNCHANGED <<pc, res>>
      \/ /\ pc' = "cleanup" /\ UNCHANGED i
         /\ res' \in {"failed", "CSWP_OUTPUT_BUFFER_OVERFLOW"}
  BY Executed
<1>3. TypeOK'
  BY <1>1, <1>2 DEF Inv, TypeOK, Results
<1>4. ArgsOK' /\ SplitOK'
  BY <1>1, <1>2 DEF Inv, ArgsOK, Total, Chunked, SplitOK
<1>5. SubreqsTile' /\ AccessAligned'
  BY <1>1 DEF Inv, SubreqsTile, AccessAligned
<1>6. ChunkOK'
  BY <1>1, <1>2 DEF Inv, ChunkOK, Splitting, ChunkSize, Chunked, Base, Pos
<1>7. BuffersOK'
  BY <1>1, <1>2, NextPos DEF BuffersOK
<1>8. ImageOK'
  <2>1. CASE pc' = "cleanup" /\ res' \in {"failed", "CSWP_OUTPUT_BUFFER_OVERFLOW"}
    BY <2>1 DEF ImageOK
  <2>2. CASE /\ \E n \in 0 .. subreqs[i].size :
                   /\ n = subreqs[i].size \/ Reads
                   /\ rw_values' = Copied(subreqs[i], n)
             /\ i' = i + 1 /\ pc' = pc /\ res' = res
    <3>1. IsImage(rw_values', op', Base, Pos(i + 1))
      BY <1>1, <2>2, ImageStep
    <3>2. Base' = Base /\ Pos(i)' = Pos(i + 1)
      BY <1>1, <2>2 DEF Base, Pos
    <3>3. IsImage(rw_values', op', Base', Pos(i)')
      BY <3>1, <3>2
    <3>4. res' = "none"
      BY <1>1, <2>2 DEF Inv, ImageOK
    <3> QED
      BY <1>1, <2>2, <3>3, <3>4 DEF ImageOK
  <2> QED
    BY <1>2, <2>1, <2>2
<1>9. ReadsFit'
  BY <1>1, <1>2 DEF Inv, ReadsFit, TooLong
<1> QED
  BY <1>3, <1>4, <1>5, <1>6, <1>7, <1>8, <1>9 DEF Inv

(* The end of a chunk: the command goes on behind it. *)
LEMMA BatchEndStep == ASSUME Inv, batch_end PROVE Inv'
<1> DEFINE n == ChunkSize(total_bytes)
<1>1. /\ pc = "execute" /\ i > Len(subreqs)
      /\ UNCHANGED <<op, devID, rw_values, subreqs, saddr, buf_idx, num_bytes,
                     i, req_used, rsp_used, res>>
  BY DEF batch_end, splitVars, bufVars
<1>2. \/ /\ Chunked /\ pc' = "chunk"
         /\ start_addr' = start_addr + n
         /\ rw_values_idx' = rw_values_idx + n
         /\ total_bytes' = total_bytes - n
      \/ /\ ~Chunked /\ pc' = "report"
         /\ UNCHANGED <<start_addr, rw_values_idx, total_bytes>>
  BY DEF batch_end, Advance
<1>3. /\ n \in Nat /\ n <= total_bytes
      /\ ~Chunked => n = total_bytes
      /\ Chunked => Accessible(devID, start_addr + n, total_bytes - n)
  BY ChunkFacts DEF Inv
<1>4. /\ start_addr \in Nat /\ total_bytes \in Nat /\ rw_values_idx \in Nat /\ buf_idx \in Nat
      /\ i \in Nat /\ Len(subreqs) \in Nat
  BY DEF Inv, TypeOK
<1>5. IsImage(rw_values, op, Base, rw_values_idx + n)
  <2>1. Pos(i) = buf_idx
    BY <1>1, <1>4 DEF Pos
  <2>2. buf_idx + 0 = rw_values_idx + n
    BY <1>1 DEF Inv, ChunkOK, Splitting, SplitOK
  <2> QED
    BY <1>1, <1>4, <2>1, <2>2 DEF Inv, ImageOK
<1> HIDE DEF n
<1>6. res = "none"
  BY <1>1 DEF Inv, ImageOK
<1>7. TypeOK'
  BY <1>1, <1>2, <1>3, <1>4 DEF Inv, TypeOK
<1>8. ArgsOK'
  <2>1. Chunked' = Chunked
    BY <1>1 DEF Chunked
  <2>2. Total' = Total
    BY <1>2, <1>3, <1>4 DEF Total
  <2>3. Accessible(devID, start_addr, total_bytes)'
    BY <1>1, <1>2, <1>3 DEF Inv, ArgsOK, Accessible
  <2> QED
    BY <1>1, <1>2, <1>3, <1>4, <2>1, <2>2, <2>3 DEF Inv, ArgsOK, Chunked
<1>9. SplitOK'
  BY <1>1, <1>2 DEF Inv, SplitOK
<1>10. SubreqsTile' /\ AccessAligned'
  BY <1>1 DEF Inv, SubreqsTile, AccessAligned
<1>11. ChunkOK' /\ BuffersOK'
  BY <1>2 DEF ChunkOK, BuffersOK, Splitting
<1>12. ImageOK'
  <2>1. Base' = Base
    BY <1>2, <1>3, <1>4 DEF Base
  <2>2. CASE pc' = "chunk" /\ rw_values_idx' = rw_values_idx + n
    BY <2>1, <2>2, <1>1, <1>5, <1>6 DEF ImageOK
  <2>3. CASE pc' = "report" /\ UNCHANGED <<rw_values_idx, total_bytes>> /\ n = total_bytes
    <3>1. Total' = rw_values_idx + n
      BY <2>3, <1>4 DEF Total
    <3> QED
      BY <2>1, <2>3, <3>1, <1>1, <1>5, <1>6 DEF ImageOK
  <2> QED
    BY <1>2, <1>3, <2>2, <2>3
<1>13. ReadsFit'
  BY <1>1 DEF Inv, ReadsFit
<1> QED
  BY <1>7, <1>8, <1>9, <1>10, <1>11, <1>12, <1>13 DEF Inv

(* Every step preserves the invariant. *)
LEMMA InvStep == Inv /\ [Next]_vars => Inv'
<1> SUFFICES ASSUME Inv, [Next]_vars PROVE Inv'
  OBVIOUS
<1>1. CASE Extraction
  BY <1>1, ExtractionStep
<1>2. CASE UNCHANGED vars
  BY <1>2 DEF vars, memVars, splitVars, bufVars, Inv, TypeOK, ArgsOK, SplitOK, SubreqsTile,
     AccessAligned, ChunkOK, BuffersOK, ImageOK, ReadsFit, Total, Chunked, Splitting,
     ChunkSize, Base, Pos, Reads
<1> QED
  BY <1>1, <1>2, SetupStep, NextChunkStep, SplitStep, BatchBeginStep, EncodeStep,
     TransactStep, ExecuteStep, BatchEndStep, EndChunksStep, ReportStep, CleanupStep
  DEF Next, Extraction, exited

(* Inv is an invariant of every behaviour. *)
LEMMA Invariance == Spec => []Inv
<1>1. Init => Inv
  BY InitInv
<1>2. Inv /\ [Next]_vars => Inv'
  BY InvStep
<1> QED
  BY <1>1, <1>2, PTL DEF Spec

-----------------------------------------------------------------------------
(* For every chunk size that is a multiple of 8 and every accepted command *)
(* line, the sub-requests of create_mem_subreqs tile the chunk, stay in    *)
(* rw_values and fit into mem_cmd_t.                                       *)
THEOREM SubrequestsTileTheChunk == Spec => []SubreqsTile
<1>1. Inv => SubreqsTile
  BY DEF Inv
<1> QED
  BY <1>1, Invariance, PTL

(* Every access of every sub-request is aligned, and device 0 is accessed  *)
(* in words only, whatever the address and the size of the command.        *)
THEOREM AccessesAligned == Spec => []AccessAligned
<1>1. Inv => AccessAligned
  BY DEF Inv
<1> QED
  BY <1>1, Invariance, PTL

(* With a chunk 32 bytes shorter than the buffers no get, dump or set ever *)
(* overflows them.                                                         *)
THEOREM ReadsNeverOverflow == Spec => []ReadsFit
<1>1. Inv => ReadsFit
  BY DEF Inv
<1> QED
  BY <1>1, Invariance, PTL

-----------------------------------------------------------------------------
(* The mapping takes every step to a step of MemTransfer, or to none. *)

Status == IF pc = "args" THEN "idle"
          ELSE IF pc # "done" THEN "busy"
          ELSE IF res = "ok" THEN "ok" ELSE "error"

(* A step between two busy states that moves nothing is a stutter. *)
LEMMA Stutters ==
    ASSUME op' = op, Base' = Base, Total' = Total, UNCHANGED rw_values, Status' = Status
    PROVE  UNCHANGED Transfer!transferVars
  BY DEF Transfer!transferVars, Base, Total, Status, Reads

(* A step to the exit with an error fails the transfer. *)
LEMMA Fails ==
    ASSUME op' = op, Base' = Base, Total' = Total, UNCHANGED rw_values,
           Status \in {"idle", "busy"}, Status' = "error"
    PROVE  Transfer!Fail
  BY DEF Transfer!Fail, Base, Total, Status, Reads

(* The initial states are those of MemTransfer. *)
LEMMA RefinementInit == Init => Transfer!TransferInit
<1> SUFFICES ASSUME Init PROVE Transfer!TransferInit
  OBVIOUS
<1>1. DOMAIN rw_values = 0 .. 0 - 1
  BY DEF Init
<1> QED
  BY <1>1 DEF Init, Transfer!TransferInit, Transfer!Served, Reads

(* Every step is a step of MemTransfer, or a stutter. *)
LEMMA RefinementStep ==
    ASSUME Inv, Inv', [Next]_vars
    PROVE  [Transfer!TransferNext]_(Transfer!transferVars)
<1> USE DEF Transfer!TransferNext
<1>1. CASE Extraction
  <2>1. /\ pc = "args" /\ rw_values_idx = 0 /\ UNCHANGED <<rw_values, rw_values_idx>>
        /\ \/ pc' = "setup" /\ start_addr' \in Nat /\ total_bytes' \in Nat
           \/ pc' = "done" /\ res' = "CCU_BAD_CMD_ARG" /\ UNCHANGED memVars
    BY <1>1, Extracted DEF Inv, ArgsOK
  <2>2. CASE pc' = "setup" /\ start_addr' \in Nat /\ total_bytes' \in Nat
    <3>1. DOMAIN rw_values' = 0 .. 0 - 1
      BY <2>1, <2>2 DEF Inv, ImageOK, IsImage
    <3>2. /\ start_addr' - rw_values_idx' \in Nat
          /\ total_bytes' + rw_values_idx' \in Nat
      <4>1. rw_values_idx' = 0
        BY <2>1
      <4>2. \A a \in Nat : a - 0 \in Nat /\ a + 0 \in Nat
        OBVIOUS
      <4> QED
        BY <2>2, <4>1, <4>2, Zenon
    <3>3. \A k \in 0 .. 0 - 1 : FALSE
      OBVIOUS
    <3>4. Reads' \in BOOLEAN
      BY DEF Reads
    <3>5. Transfer!Served(0)'
      BY <3>1, <3>3, Zenon DEF Transfer!Served
    <3> QED
      BY <2>1, <2>2, <3>2, <3>4, <3>5 DEF Transfer!Begin
  <2>3. CASE pc' = "done" /\ res' = "CCU_BAD_CMD_ARG" /\ UNCHANGED memVars
    BY <2>1, <2>3, Fails DEF Base, Total, Status, memVars
  <2> QED
    BY <2>1, <2>2, <2>3
<1>2. CASE setup_cdebug
  BY <1>2, Stutters, Fails DEF setup_cdebug, memVars, Base, Total, Status
<1>3. CASE next_chunk \/ create_mem_subreqs \/ batch_begin \/ end_chunks \/ report
  BY <1>3, Stutters DEF next_chunk, create_mem_subreqs, batch_begin, end_chunks, report, Leave,
     memVars, Base, Total, Status
<1>4. CASE encode_subreq \/ transact
  BY <1>4, Stutters DEF encode_subreq, transact, Leave, memVars, Base, Total, Status
<1>5. CASE execute_subreq
  <2>1. /\ pc = "execute" /\ i <= Len(subreqs)
        /\ UNCHANGED <<op, devID, start_addr, total_bytes, rw_values_idx, subreqs, buf_idx>>
    BY <1>5, Executed
  <2>2. Base' = Base /\ Total' = Total
    BY <2>1 DEF Base, Total
  <2>3. CASE pc' = "cleanup" /\ UNCHANGED rw_values
    BY <2>1, <2>2, <2>3, Stutters DEF Status
  <2>4. ASSUME NEW n \in 0 .. subreqs[i].size, n = subreqs[i].size \/ Reads,
               rw_values' = Copied(subreqs[i], n),
               pc' \in {pc, "cleanup"}
        PROVE  Transfer!Move
    <3>1. /\ DOMAIN rw_values' = 0 .. Pos(i + 1) - 1
          /\ \A k \in 0 .. Pos(i) - 1 : rw_values'[k] = rw_values[k]
          /\ \A k \in Pos(i) .. Pos(i + 1) - 1 :
                 rw_values'[k] = IF k < Pos(i) + n THEN Base + k ELSE Left
      BY <2>1, <2>4, ImageStep
    <3>2. IsImage(rw_values, op, Base, Pos(i))
      BY <2>1 DEF Inv, ImageOK
    <3>3. /\ Pos(i) \in Nat /\ Pos(i + 1) \in Nat /\ Pos(i + 1) <= Total
          /\ Pos(i + 1) = Pos(i) + subreqs[i].size /\ subreqs[i].size \in Nat \ {0}
      <4>1. /\ Pos(i) \in Nat /\ subreqs[i].size \in Nat \ {0}
            /\ Pos(i + 1) = Pos(i) + subreqs[i].size
            /\ Pos(i + 1) <= rw_values_idx + ChunkSize(total_bytes)
        BY <2>1, NextPos DEF Subreq
      <4>2. ChunkSize(total_bytes) \in Nat /\ ChunkSize(total_bytes) <= total_bytes
        BY ChunkFacts DEF Inv
      <4>3. rw_values_idx \in Nat /\ total_bytes \in Nat
        BY DEF Inv, TypeOK
      <4> HIDE DEF Inv
      <4> QED
        BY <4>1, <4>2, <4>3 DEF Total
    <3>4. Total \in Nat
      BY DEF Inv, TypeOK, Total
    <3> DEFINE m == Pos(i)
               last == Pos(i + 1)
               e == Pos(i) + n
    <3>5. /\ m \in 0 .. Total /\ last \in m + 1 .. Total /\ e \in m .. last
          /\ e < last => Reads
      BY <2>4, <3>3, <3>4
    <3>6. Transfer!Served(m)
      BY <3>2 DEF IsImage, Transfer!Served, Transfer!Left, Left, Base, Reads
    <3>7. Transfer!Serve(m, e, last)
      BY <3>1 DEF Transfer!Serve, Transfer!Left, Left, Base
    <3>8. \E m1 \in 0 .. Total :
             /\ Transfer!Served(m1)
             /\ \E n1 \in m1 + 1 .. Total :
                    \E e1 \in m1 .. n1 : (e1 < n1 => Reads) /\ Transfer!Serve(m1, e1, n1)
      <4> HIDE DEF m, last, e
      <4> QED
        BY <3>5, <3>6, <3>7
    <3> QED
      BY <2>1, <2>4, <3>8 DEF Transfer!Move, Total, Reads
  <2> QED
    BY <1>5, <2>3, <2>4, Executed
<1>6. CASE batch_end
  <2>1. ChunkSize(total_bytes) \in Nat
    BY ChunkFacts DEF Inv
  <2>2. start_addr \in Nat /\ total_bytes \in Nat /\ rw_values_idx \in Nat
    BY DEF Inv, TypeOK
  <2>3. \/ /\ start_addr' = start_addr + ChunkSize(total_bytes)
           /\ rw_values_idx' = rw_values_idx + ChunkSize(total_bytes)
           /\ total_bytes' = total_bytes - ChunkSize(total_bytes)
        \/ UNCHANGED <<start_addr, rw_values_idx, total_bytes>>
    BY <1>6 DEF batch_end, Advance
  <2>4. Base' = Base /\ Total' = Total
    BY <2>1, <2>2, <2>3 DEF Base, Total
  <2> QED
    BY <1>6, <2>4, Stutters DEF batch_end, Status
<1>7. CASE cleanup_cdebug
  <2>1. /\ op' = op /\ Base' = Base /\ Total' = Total /\ UNCHANGED rw_values
        /\ pc = "cleanup" /\ pc' = "done"
    BY <1>7 DEF cleanup_cdebug, memVars, Base, Total
  <2>2. CASE res' = "ok"
    <3>1. res = "ok"
      BY <1>7, <2>2 DEF cleanup_cdebug
    <3>2. IsImage(rw_values, op, Base, Total)
      BY <3>1 DEF Inv, ImageOK
    <3> QED
      BY <1>7, <2>1, <2>2, <3>2 DEF Transfer!Succeed, Transfer!Served, Transfer!Left, IsImage,
         Left, Base, Total, Reads, cleanup_cdebug, memVars
  <2>3. CASE res' # "ok"
    BY <2>1, <2>3, Fails DEF Status
  <2> QED
    BY <2>2, <2>3
<1>8. CASE exited \/ UNCHANGED vars
  BY <1>8, Stutters DEF exited, vars, memVars, Base, Total, Status
<1> QED
  BY <1>1, <1>2, <1>3, <1>4, <1>5, <1>6, <1>7, <1>8 DEF Next, Extraction

(* A memory command of ccu is one transfer, whatever the sizes of chunks   *)
(* and buffers and however short the server answers a read: CcuMemory      *)
(* implements MemTransfer.  A set or fill that succeeds has moved every    *)
(* byte; a get or dump that succeeds has been served to its end, and lacks *)
(* only bytes that the answers to its sub-requests lacked.                 *)
THEOREM CommandIsOneTransfer == Spec => ImplementsTransfer
<1>1. Init => Transfer!TransferInit
  BY RefinementInit
<1>2. Inv /\ Inv' /\ [Next]_vars => [Transfer!TransferNext]_(Transfer!transferVars)
  BY RefinementStep
<1>3. Spec => []Inv
  BY Invariance
<1> QED
  BY <1>1, <1>2, <1>3, PTL DEF Spec, ImplementsTransfer, Transfer!TransferSpec
=============================================================================
