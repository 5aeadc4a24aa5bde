---------------------------- MODULE CswpTransport ----------------------------
(***************************************************************************)
(* CSWPBase over USB (client/cdebug/cswp_client_plat_if.cpp): the thread   *)
(* of the CSWP client calls connect, send, receive, receive_async and      *)
(* disconnect; connect starts a read thread, listen(), that keeps one read *)
(* transfer open and sorts what arrives into respQ and asyncQ.             *)
(*                                                                         *)
(* The client thread is driven the way cswp_client_transact() drives it: a *)
(* successful send is followed by one receive.  A section under a lock is  *)
(* one step.  A USB transfer is submitted and later completes once, with   *)
(* any status (the promise of TransferPool; a read times out after 1 s).   *)
(* The server behind the pipe is external: it answers the commands it      *)
(* reads in order, or not at all, and emits async messages by itself.      *)
(* Replacing m_usb or a joinable std::thread under a thread that runs is   *)
(* the end of the process: pc "terminated".                                *)
(***************************************************************************)
EXTENDS Naturals, Sequences, SequencesExt

CONSTANTS
    WriteStatus, \* how write transfers may complete: "SUCCESS", "FAILED"
    MaxCmd,      \* bound: commands sent
    MaxAsync,    \* bound: async messages the server emits
    MaxConnect   \* bound: connect calls

ASSUME BoundsAssumption == MaxCmd \in Nat /\ MaxAsync \in Nat /\ MaxConnect \in Nat

Message == [kind : {"rsp", "async"}, id : Nat]
Reply == [id : Nat, for : Nat]

VARIABLES
    usb,          \* m_usb: never created, connect threw, connected, disconnected
    running,      \* readThread_running
    joinable,     \* readThread.joinable()
    lpc,          \* program counter of listen(); "none" outside it
    respQ,        \* respQ, the command each response answers
    asyncQ,       \* asyncQ
    pc,           \* program counter of the client thread
    lastSent,     \* commands sent so far; the last one's number
    cmds,         \* commands the server has not read yet
    wire,         \* what the server wrote and listen() has not read
    got,          \* what receive() returned, and the command it was called for
    asyncGot,     \* what receive_async() returned
    doubtful,     \* a send or a receive has failed
    connects, asyncs

listenVars == <<running, lpc>>
serverVars == <<cmds, wire, asyncs>>
clientVars == <<pc, lastSent, got, asyncGot, doubtful>>
vars == <<usb, listenVars, joinable, respQ, asyncQ, clientVars, serverVars, connects>>

Init ==
    /\ usb = "none" /\ running = FALSE /\ joinable = FALSE /\ lpc = "none"
    /\ respQ = <<>> /\ asyncQ = <<>>
    /\ pc = "idle" /\ lastSent = 0
    /\ cmds = <<>> /\ wire = <<>>
    /\ got = <<>> /\ asyncGot = <<>> /\ doubtful = FALSE
    /\ connects = 0 /\ asyncs = 0

(***************************************************************************)
(* connect().  The device is not found, cannot be claimed or lacks an      *)
(* endpoint; or the read thread cannot be created; or it starts.           *)
(***************************************************************************)
connectThrows ==
    /\ pc = "idle" /\ connects < MaxConnect
    /\ connects' = connects + 1
    /\ usb' = "failed"
    /\ pc' = IF lpc = "none" THEN "idle" ELSE "terminated"
    /\ UNCHANGED <<listenVars, joinable, respQ, asyncQ, lastSent, got, asyncGot, doubtful,
                   serverVars>>

connectNoThread ==
    /\ pc = "idle" /\ connects < MaxConnect /\ lpc = "none"
    /\ connects' = connects + 1
    /\ usb' = "open"
    /\ running' = FALSE
    /\ UNCHANGED <<lpc, joinable, respQ, asyncQ, clientVars, serverVars>>

connect ==
    /\ pc = "idle" /\ connects < MaxConnect
    /\ connects' = connects + 1
    /\ usb' = "open"
    /\ running' = TRUE
    /\ IF joinable
       THEN pc' = "terminated" /\ UNCHANGED <<joinable, lpc>>
       ELSE joinable' = TRUE /\ lpc' = "loop" /\ UNCHANGED pc
    /\ UNCHANGED <<respQ, asyncQ, lastSent, got, asyncGot, doubtful, serverVars>>

(***************************************************************************)
(* disconnect(): stops the read thread, if it has not stopped by itself,   *)
(* then disconnects the device.                                            *)
(***************************************************************************)
StopUnjoined ==
    IF running
    THEN running' = FALSE /\ usb' = "closed" /\ UNCHANGED pc
    ELSE usb' = (IF usb = "none" THEN "none" ELSE "closed") /\ UNCHANGED <<running, pc>>
StopKeepsRunning ==
    IF running
    THEN pc' = "join" /\ UNCHANGED <<running, usb>>
    ELSE usb' = (IF usb = "none" THEN "none" ELSE "closed") /\ UNCHANGED <<running, pc>>
Stop ==
    IF running
    THEN running' = FALSE /\ pc' = "join" /\ UNCHANGED usb
    ELSE usb' = (IF usb = "none" THEN "none" ELSE "closed") /\ UNCHANGED <<running, pc>>

disconnect ==
    /\ pc = "idle"
    /\ Stop
    /\ UNCHANGED <<joinable, lpc, respQ, asyncQ, lastSent, got, asyncGot, doubtful, serverVars,
                   connects>>

(* readThread.join() returns. *)
Join ==
    /\ pc = "join" /\ lpc = "none"
    /\ joinable' = FALSE
    /\ usb' = "closed"
    /\ pc' = "idle"
    /\ UNCHANGED <<listenVars, respQ, asyncQ, lastSent, got, asyncGot, doubtful, serverVars,
                   connects>>

(***************************************************************************)
(* send(): the write transfer is submitted and awaited.  If it fails, the  *)
(* server may or may not have got the whole command.                       *)
(***************************************************************************)
send(status) ==
    /\ pc = "idle" /\ usb = "open" /\ lastSent < MaxCmd
    /\ lastSent' = lastSent + 1
    /\ \/ status = "SUCCESS" /\ cmds' = Append(cmds, lastSent') /\ pc' = "recv"
          /\ UNCHANGED doubtful
       \/ status # "SUCCESS" /\ cmds' \in {cmds, Append(cmds, lastSent')}
          /\ doubtful' = TRUE /\ UNCHANGED pc
    /\ UNCHANGED <<usb, listenVars, joinable, respQ, asyncQ, got, asyncGot, wire, asyncs,
                   connects>>

(***************************************************************************)
(* receive(): waits on respQCond while respQ is empty and the read thread  *)
(* runs.  A wait that reaches the deadline ends the call, whatever was     *)
(* queued meanwhile; a dead read thread is reported before the queue is    *)
(* looked at.                                                              *)
(***************************************************************************)
FailUncaught == pc' = "thrown" /\ doubtful' = TRUE /\ UNCHANGED <<respQ, got>>
Fail == pc' = "idle" /\ doubtful' = TRUE /\ UNCHANGED <<respQ, got>>

receive ==
    /\ pc = "recv"
    /\ \/ /\ running /\ respQ # <<>>
          /\ got' = Append(got, [id |-> Head(respQ), for |-> lastSent])
          /\ respQ' = Tail(respQ)
          /\ pc' = "idle"
          /\ UNCHANGED doubtful
       \/ ~running /\ Fail
       \/ /\ running /\ respQ = <<>>
          /\ pc' = "wait"
          /\ UNCHANGED <<respQ, got, doubtful>>
    /\ UNCHANGED <<usb, listenVars, joinable, asyncQ, lastSent, asyncGot, serverVars, connects>>

(* notify_one() *)
Notified ==
    /\ pc = "wait" /\ (respQ # <<>> \/ ~running)
    /\ pc' = "recv"
    /\ UNCHANGED <<usb, listenVars, joinable, respQ, asyncQ, lastSent, got, asyncGot, doubtful,
                   serverVars, connects>>

NoDeadline == FALSE
Deadline == Fail

ReceiveTimeout ==
    /\ pc = "wait"
    /\ Deadline
    /\ UNCHANGED <<usb, listenVars, joinable, asyncQ, lastSent, asyncGot, serverVars, connects>>

receive_async ==
    /\ pc = "idle" /\ asyncQ # <<>>
    /\ asyncGot' = Append(asyncGot, Head(asyncQ))
    /\ asyncQ' = Tail(asyncQ)
    /\ UNCHANGED <<usb, listenVars, joinable, respQ, pc, lastSent, got, doubtful, serverVars,
                   connects>>

(***************************************************************************)
(* listen().  The flag is tested, then a read is submitted, then its       *)
(* completion is handled; disconnect() may come between any two of these.  *)
(***************************************************************************)
ListenTest ==
    /\ lpc = "loop" /\ pc # "terminated"
    /\ lpc' = IF running THEN "submit" ELSE "none"
    /\ UNCHANGED <<usb, running, joinable, respQ, asyncQ, clientVars, serverVars, connects>>

ListenSubmit ==
    /\ lpc = "submit" /\ pc # "terminated"
    /\ lpc' = "read"
    /\ UNCHANGED <<usb, running, joinable, respQ, asyncQ, clientVars, serverVars, connects>>

SortInFront(m) ==
    IF m.kind = "async" THEN asyncQ' = Append(asyncQ, m.id) /\ UNCHANGED respQ
                        ELSE respQ' = <<m.id>> \o respQ /\ UNCHANGED asyncQ
SortAsReply(m) == respQ' = Append(respQ, m.id) /\ UNCHANGED asyncQ
Sort(m) ==
    IF m.kind = "async" THEN asyncQ' = Append(asyncQ, m.id) /\ UNCHANGED respQ
                        ELSE respQ' = Append(respQ, m.id) /\ UNCHANGED asyncQ

ListenData ==
    /\ lpc = "read" /\ pc # "terminated" /\ wire # <<>>
    /\ Sort(Head(wire))
    /\ wire' = Tail(wire)
    /\ lpc' = "loop"
    /\ UNCHANGED <<usb, running, joinable, clientVars, cmds, asyncs, connects>>

(* NODATA: the 1 s timeout.  CANCELLED: disconnect(), or a stall.  What    *)
(* the transfer had received by then is thrown away with its buffer.       *)
ListenNothing ==
    /\ lpc = "read" /\ pc # "terminated"
    /\ lpc' = "loop"
    /\ \/ UNCHANGED wire
       \/ wire # <<>> /\ wire' = Tail(wire)
    /\ UNCHANGED <<usb, running, joinable, respQ, asyncQ, clientVars, cmds, asyncs, connects>>

(* Another status, or an exception of the USB device: listen() returns -1. *)
ListenError ==
    /\ lpc \in {"submit", "read"} /\ pc # "terminated"
    /\ running' = FALSE
    /\ lpc' = "none"
    /\ UNCHANGED <<usb, joinable, respQ, asyncQ, clientVars, serverVars, connects>>

(***************************************************************************)
(* The server.                                                             *)
(***************************************************************************)
Answer ==
    /\ cmds # <<>>
    /\ wire' = Append(wire, [kind |-> "rsp", id |-> Head(cmds)])
    /\ cmds' = Tail(cmds)
    /\ UNCHANGED <<usb, listenVars, joinable, respQ, asyncQ, clientVars, asyncs, connects>>

Ignore ==
    /\ cmds # <<>>
    /\ cmds' = Tail(cmds)
    /\ UNCHANGED <<usb, listenVars, joinable, respQ, asyncQ, clientVars, wire, asyncs, connects>>

EmitAsync ==
    /\ asyncs < MaxAsync
    /\ asyncs' = asyncs + 1
    /\ wire' = Append(wire, [kind |-> "async", id |-> asyncs'])
    /\ UNCHANGED <<usb, listenVars, joinable, respQ, asyncQ, clientVars, cmds, connects>>

Client ==
    \/ connect \/ connectThrows \/ connectNoThread
    \/ disconnect \/ Join
    \/ \E s \in WriteStatus : send(s)
    \/ receive \/ Notified \/ ReceiveTimeout \/ receive_async
listen == ListenTest \/ ListenSubmit \/ ListenData \/ ListenNothing \/ ListenError
Server == Answer \/ Ignore \/ EmitAsync

Next == Client \/ listen \/ Server

Spec == Init /\ [][Next]_vars

(* Both threads are scheduled, a read transfer completes (it has a 1 s     *)
(* timeout) and the deadline of receive() passes.                          *)
Fairness ==
    /\ WF_vars(listen)
    /\ WF_vars(Join) /\ WF_vars(receive) /\ WF_vars(Notified \/ ReceiveTimeout)

FairSpec == Spec /\ Fairness
-----------------------------------------------------------------------------
(* The queues, flags and program counters of CSWPBase are well typed; no   *)
(* exception of receive() leaves the C interface.                          *)
TypeOK ==
    /\ usb \in {"none", "failed", "open", "closed"}
    /\ running \in BOOLEAN /\ joinable \in BOOLEAN /\ doubtful \in BOOLEAN
    /\ lpc \in {"none", "loop", "submit", "read"}
    /\ pc \in {"idle", "join", "recv", "wait", "terminated"}
    /\ respQ \in Seq(Nat) /\ asyncQ \in Seq(Nat) /\ cmds \in Seq(Nat)
    /\ wire \in Seq(Message)
    /\ got \in Seq(Reply) /\ asyncGot \in Seq(Nat)
    /\ lastSent \in Nat /\ connects \in Nat /\ asyncs \in Nat

Increasing(s) == \A i, j \in DOMAIN s : i < j => s[i] < s[j]
Below(A, B) == \A a \in A, b \in B : a < b

(* The messages of one kind that the server wrote and listen() has not     *)
(* read: their numbers, and that these grow along the wire.                *)
OnWire(kind) == {wire[i].id : i \in {j \in DOMAIN wire : wire[j].kind = kind}}
WireIncreasing(kind) ==
    \A i, j \in DOMAIN wire :
        i < j /\ wire[i].kind = kind /\ wire[j].kind = kind => wire[i].id < wire[j].id
Returned == [i \in DOMAIN got |-> got[i].id]

(* Neither queue nor the hand-over between the threads reorders or         *)
(* duplicates anything, and neither stream leaks into the other: what      *)
(* receive() has returned, what is queued, and what is still to come are   *)
(* responses in the order of their commands, across timeouts, failures and *)
(* reconnects; the async messages likewise.                                *)
ResponsesInOrder ==
    /\ Increasing(Returned) /\ Increasing(respQ) /\ WireIncreasing("rsp") /\ Increasing(cmds)
    /\ Below(ToSet(Returned), ToSet(respQ) \cup OnWire("rsp") \cup ToSet(cmds))
    /\ Below(ToSet(respQ), OnWire("rsp") \cup ToSet(cmds))
    /\ Below(OnWire("rsp"), ToSet(cmds))
AsyncsInOrder ==
    /\ Increasing(asyncGot) /\ Increasing(asyncQ) /\ WireIncreasing("async")
    /\ Below(ToSet(asyncGot), ToSet(asyncQ) \cup OnWire("async"))
    /\ Below(ToSet(asyncQ), OnWire("async"))
StreamsInOrder == ResponsesInOrder /\ AsyncsInOrder

(* As long as every send and receive has succeeded, receive() returns the  *)
(* response to the command just sent, whatever the read thread, the async  *)
(* messages, a disconnect or a reconnect did in between.                   *)
InStep == ~doubtful => \A i \in DOMAIN got : got[i].id = got[i].for

(* What makes InStep inductive: at most one response is on its way, and it *)
(* answers the command receive() waits for.                                *)
NoRsp == \A i \in DOMAIN wire : wire[i].kind # "rsp"
OneRsp ==
    /\ \A i \in DOMAIN wire : wire[i].kind = "rsp" => wire[i].id = lastSent
    /\ \A i, j \in DOMAIN wire : wire[i].kind = "rsp" /\ wire[j].kind = "rsp" => i = j
Quiet == cmds = <<>> /\ respQ = <<>> /\ NoRsp
OneReply ==
    /\ pc \in {"recv", "wait"}
    /\ \/ cmds = <<lastSent>> /\ respQ = <<>> /\ NoRsp
       \/ cmds = <<>> /\ respQ = <<>> /\ OneRsp
       \/ cmds = <<>> /\ respQ = <<lastSent>> /\ NoRsp
Aligned == ~doubtful => Quiet \/ OneReply

(* The read thread is inside the device only while the device is connected *)
(* and the thread can be joined: when disconnect() closes the device, or   *)
(* the listen thread fails by itself, nobody is left inside.               *)
ListenerGone == lpc # "none" => (joinable /\ usb = "open") \/ pc = "terminated"

(* disconnect() returns: the cancelled or timed out read makes listen()    *)
(* see the cleared flag, also when the flag is cleared between the test    *)
(* and the submit.                                                         *)
DisconnectReturns == pc = "join" ~> pc = "idle"

(* receive() returns, although the server may never answer. *)
ReceiveReturns == pc \in {"recv", "wait"} ~> pc = "idle"

(* "Since every request is expected to get a response before next can be   *)
(* issued, client waits here until it sees a response in the respQ": the   *)
(* response a receive() returns is the one of the request before it.       *)
ReplyMatchesRequest == \A i \in DOMAIN got : got[i].id = got[i].for
=============================================================================
