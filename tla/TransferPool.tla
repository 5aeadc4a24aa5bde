---------------------------- MODULE TransferPool ----------------------------
(***************************************************************************)
(* What a USBDevice promises its callers (usb_device.h), whatever the      *)
(* backend: a submit call returns a fresh token; the caller gets every     *)
(* token back once, from completeTransfer or completeTransfer_forToken;    *)
(* pendingTransfers() counts the tokens not given back yet.  UsbDevice     *)
(* (the libusb backend) is shown to implement it, and the transport and    *)
(* trace modules use their USB device through this promise.                *)
(***************************************************************************)
EXTENDS Naturals, Sequences

CONSTANT Token

VARIABLES
    used,      \* tokens ever handed out, or burnt by a submit that threw
    pending,   \* tokens the device owes its callers
    returned   \* tokens given back, in order

poolVars == <<used, pending, returned>>

PoolInit ==
    /\ used = {}
    /\ pending = {}
    /\ returned = <<>>

(* submitReadTransfer, submitQueuedReadTransfer, submitWriteTransfer. *)
Accept(t) ==
    /\ t \notin used
    /\ used' = used \cup {t}
    /\ pending' = pending \cup {t}
    /\ UNCHANGED returned

(* A submit call that throws: the token is burnt and nothing is owed. *)
Reject(t) ==
    /\ t \notin used
    /\ used' = used \cup {t}
    /\ UNCHANGED <<pending, returned>>

(* completeTransfer, completeTransfer_forToken. *)
GiveBack(t) ==
    /\ t \in pending
    /\ pending' = pending \ {t}
    /\ returned' = Append(returned, t)
    /\ UNCHANGED used

PoolNext == \E t \in Token : Accept(t) \/ Reject(t) \/ GiveBack(t)

PoolSpec == PoolInit /\ [][PoolNext]_poolVars
=============================================================================
