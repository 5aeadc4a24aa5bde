----------------------------- MODULE MemTransfer -----------------------------
(***************************************************************************)
(* What a ccu memory command promises its user: the range of device memory *)
(* is served in order, each byte once, and a byte that is moved is moved   *)
(* between its own address and its own place of the user's data.  A write  *)
(* moves every byte it serves.  A read may be answered with fewer bytes    *)
(* than it asked for: the client accepts them and ccu does not look at the *)
(* count, so the last places of a served run may be left as they were.     *)
(* The command succeeds only when the whole range was served.  CcuMemory,  *)
(* with its chunks, sub-requests and batches, is shown to implement this.  *)
(***************************************************************************)
EXTENDS Integers

VARIABLES
    reading,  \* from the device, or to it
    base,     \* the first device address
    total,    \* the number of bytes
    image,    \* image[k]: the device address that place k of the data was moved from or to
    status    \* "idle", "busy", "ok", "error"

transferVars == <<reading, base, total, image, status>>

(* A place that was served without a byte for it. *)
Left == -1

(* The first n places have been served. *)
Served(n) ==
    /\ DOMAIN image = 0 .. n - 1
    /\ \A k \in 0 .. n - 1 : image[k] = base + k \/ (reading /\ image[k] = Left)

TransferInit ==
    /\ reading \in BOOLEAN
    /\ base \in Nat
    /\ total \in Nat
    /\ Served(0)
    /\ status = "idle"

Begin ==
    /\ status = "idle"
    /\ status' = "busy"
    /\ reading' \in BOOLEAN
    /\ base' \in Nat
    /\ total' \in Nat
    /\ Served(0)'

(* The places from m to n - 1 are served, and those in front of e moved. *)
Serve(m, e, n) ==
    /\ DOMAIN image' = 0 .. n - 1
    /\ \A k \in 0 .. m - 1 : image'[k] = image[k]
    /\ \A k \in m .. n - 1 : image'[k] = IF k < e THEN base + k ELSE Left

Move ==
    /\ status = "busy"
    /\ \E m \in 0 .. total :
           /\ Served(m)
           /\ \E n \in m + 1 .. total :
                  \E e \in m .. n : (e < n => reading) /\ Serve(m, e, n)
    /\ UNCHANGED <<reading, base, total, status>>

Succeed ==
    /\ status = "busy"
    /\ Served(total)
    /\ status' = "ok"
    /\ UNCHANGED <<reading, base, total, image>>

(* A command may be refused, or fail with some of its bytes moved. *)
Fail ==
    /\ status \in {"idle", "busy"}
    /\ status' = "error"
    /\ UNCHANGED <<reading, base, total, image>>

TransferNext == Begin \/ Move \/ Succeed \/ Fail

TransferSpec == TransferInit /\ [][TransferNext]_transferVars
=============================================================================
