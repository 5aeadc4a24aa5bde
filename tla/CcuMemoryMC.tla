----------------------------- MODULE CcuMemoryMC -----------------------------
(* Instances of CcuMemory.  The scaled one keeps the proportions of the    *)
(* real constants (a chunk is the buffer less 32 bytes) with sizes below,  *)
(* at and above every limit, and addresses of every alignment.             *)
EXTENDS CcuMemory

SomeAddresses == 64 .. 72
SomeSizes == (0 .. 17) \cup (39 .. 42) \cup (55 .. 80) \cup (121 .. 145)
=============================================================================
