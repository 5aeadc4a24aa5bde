---------------------------- MODULE StreamingTrace ----------------------------
(***************************************************************************)
(* The CoreSight trace client (client/cstrace): StreamingTraceBase, its    *)
(* USB transport StreamingTraceUSB and StreamingTraceUSBClient, for one    *)
(* sink.  A client thread calls the public methods; Attach starts the data *)
(* thread, which waits for USB transfers and hands finished buffers to     *)
(* WaitForEvent.                                                           *)
(*                                                                         *)
(* A section under m_lock is one step; the lock is released while a thread *)
(* waits on a condition, joins, or is inside completeTransfer.  The USB    *)
(* device is used through the promise of TransferPool: the data reads of   *)
(* the sink finish in the order they were submitted, the control read has  *)
(* a 1 s timeout, a cancelled transfer finishes.  Every data read carries  *)
(* one client buffer, and stands under that buffer's token.                *)
(*                                                                         *)
(* Callers start a sink only while it is attached.  Not modelled: other    *)
(* sinks, Flush (a request to the target without state here), a failing    *)
(* std::thread constructor, and a poll of the client thread interrupted by *)
(* a signal (ccu ignores SIGINT by the time it detaches).                  *)
(***************************************************************************)
EXTENDS Naturals, Sequences, SequencesExt

CONSTANTS
    DataBufferCount, \* SinkDetails.dataBufferCount
    MaxBuf,          \* bound: SubmitEventBuffer calls
    MaxConnect       \* bound: Connect calls

ASSUME TraceAssumption ==
    DataBufferCount \in Nat \ {0} /\ MaxBuf \in Nat /\ MaxConnect \in Nat

Buf == 1 .. MaxBuf
Ctrl == 0             \* the control read, among the cancelled transfers
SinkStatus == {"DETACHED", "ATTACHED", "ACTIVE", "DETACHING", "EXITED"}
EventType == {"NONE", "DATA", "END_OF_DATA", "ERROR"}
Completion == [token : Buf, type : EventType, from : Buf \cup {0}]
UsbToken == [buf : Buf, device : Nat]

VARIABLES
    connected,   \* isConnected(): m_usb exists
    ep,          \* the sink has its trace endpoint
    status,      \* SinkState::status
    queued, pending, events,  \* queuedBuffers, pendingBuffers, eventBuffers
    completed,   \* completedEventTokens, and what each buffer holds
    dataTokens,  \* m_dataTransferTokens
    ctrl,        \* m_controlToken: -1 ("none"), in flight, or of a read long gone
    bus,         \* data reads the USB device holds
    cancelled,   \* transfers asked to cancel
    dpc, cpc,    \* program counters of the data thread and of the client thread
    nextToken,   \* m_nextToken
    since,       \* first token after the last Detach or Disconnect
    given,       \* tokens WaitForEvent returned, and the last one with data
    faulty,      \* a USB error, stall, refused read or interrupted poll so far
    connects

sinkVars == <<status, queued, pending, events, completed>>
usbVars == <<dataTokens, ctrl, bus, cancelled>>
vars == <<connected, ep, sinkVars, usbVars, dpc, cpc, nextToken, since, given, faulty,
          connects>>

Init ==
    /\ connected = FALSE /\ ep = FALSE /\ status = "DETACHED"
    /\ queued = <<>> /\ pending = <<>> /\ events = <<>> /\ completed = <<>>
    /\ dataTokens = <<>> /\ ctrl = "none" /\ bus = <<>> /\ cancelled = {}
    /\ dpc = "none" /\ cpc = "idle"
    /\ nextToken = 1 /\ since = 1 /\ given = [tokens |-> {}, last |-> 0] /\ faulty = FALSE /\ connects = 0

(* pendingBuffersCond.notify: the data thread leaves its wait. *)
NotifyNobody == dpc
Notify == IF dpc = "cond" THEN "loop" ELSE dpc

(* doCancelPendingBuffers(): cancelTransfers() of the USB device. *)
CancelNothing == cancelled
CancelAll == cancelled \cup ToSet(bus) \cup (IF ctrl = "flying" THEN {Ctrl} ELSE {})

(***************************************************************************)
(* submitBuffers(), with `queue` for queuedBuffers and `pend` for          *)
(* pendingBuffers: fills the room in the pending list.  If the USB device  *)
(* refuses a read, after the first n of them, it throws.                   *)
(***************************************************************************)
RoomForOneMore(queue, pend) ==
    IF Len(pend) > DataBufferCount THEN 0
    ELSE IF DataBufferCount + 1 - Len(pend) < Len(queue) THEN DataBufferCount + 1 - Len(pend)
    ELSE Len(queue)
Room(queue, pend) ==
    IF Len(pend) >= DataBufferCount THEN 0
    ELSE IF DataBufferCount - Len(pend) < Len(queue) THEN DataBufferCount - Len(pend)
    ELSE Len(queue)

EnqueueInFront(pend, moved) == moved \o pend
Enqueue(pend, moved) == pend \o moved

submitBuffers(n, queue, pend, onBus, tokens) ==
    LET moved == SubSeq(queue, 1, n)
    IN  /\ queued' = SubSeq(queue, n + 1, Len(queue))
        /\ pending' = Enqueue(pend, moved)
        /\ bus' = onBus \o moved
        /\ dataTokens' = tokens \o [i \in 1 .. n |-> [buf |-> moved[i], device |-> connects]]

Notified(n) == IF n > 0 THEN Notify ELSE dpc

(***************************************************************************)
(* Connect and Attach.                                                     *)
(***************************************************************************)
Connect ==
    /\ cpc = "idle" /\ ~connected /\ connects < MaxConnect
    /\ connected' = TRUE
    /\ connects' = connects + 1
    /\ UNCHANGED <<ep, sinkVars, usbVars, dpc, cpc, nextToken, since, given, faulty>>

Attached == IF status = "DETACHED" THEN "ATTACHED" ELSE status

Attach ==
    /\ cpc = "idle" /\ connected /\ ~ep
    /\ status' = Attached
    /\ ep' = TRUE
    /\ ctrl' = "flying"
    /\ dpc' = "loop"
    /\ UNCHANGED <<connected, queued, pending, events, completed, dataTokens, bus, cancelled, cpc,
                   nextToken, since, given, faulty, connects>>

(* attachDevice() throws: a request to the target, or the control read,    *)
(* fails.                                                                  *)
attachThrows ==
    /\ cpc = "idle" /\ connected /\ ~ep
    /\ status' = Attached
    /\ faulty' = TRUE
    /\ UNCHANGED <<connected, ep, queued, pending, events, completed, usbVars, dpc, cpc,
                   nextToken, since, given, connects>>

(***************************************************************************)
(* SubmitEventBuffer, Start and Stop.                                      *)
(***************************************************************************)
TakenTwice == nextToken + 2
Taken == nextToken + 1

SubmitData ==
    /\ cpc = "idle" /\ connected /\ status # "DETACHED" /\ nextToken <= MaxBuf
    /\ nextToken' = Taken
    /\ LET queue == Append(queued, nextToken)
       IN  IF status = "ACTIVE"
           THEN \E n \in 0 .. Room(queue, pending) :
                    /\ submitBuffers(n, queue, pending, bus, dataTokens)
                    /\ dpc' = Notified(n)
                    /\ faulty' = (faulty \/ n < Room(queue, pending))
           ELSE queued' = queue /\ UNCHANGED <<pending, bus, dataTokens, dpc, faulty>>
    /\ UNCHANGED <<connected, ep, status, events, completed, ctrl, cancelled, cpc,
                   since, given, connects>>

SubmitEvent ==
    /\ cpc = "idle" /\ connected /\ status # "DETACHED" /\ nextToken <= MaxBuf
    /\ nextToken' = Taken
    /\ events' = Append(events, nextToken)
    /\ UNCHANGED <<connected, ep, status, queued, pending, completed, usbVars, dpc, cpc,
                   since, given, faulty, connects>>

(* startDevice() asks for the control read if there is none, and tells the *)
(* target; both may throw, with no effect here.                            *)
Start ==
    /\ cpc = "idle" /\ connected /\ ep /\ status # "DETACHED"
    /\ status' = "ACTIVE"
    /\ \E n \in 0 .. Room(queued, pending) :
         /\ submitBuffers(n, queued, pending, bus, dataTokens)
         /\ dpc' = Notified(n)
         /\ \/ n = Room(queued, pending) /\ ctrl = "none" /\ ctrl' = "flying"
               /\ UNCHANGED faulty
            \/ n = Room(queued, pending) /\ ctrl # "none" /\ UNCHANGED <<ctrl, faulty>>
            \/ faulty' = TRUE /\ UNCHANGED ctrl
    /\ UNCHANGED <<connected, ep, events, completed, cancelled, cpc, nextToken, since, given,
                   connects>>

Stop ==
    /\ cpc = "idle" /\ connected /\ status = "ACTIVE"
    /\ status' = "DETACHING"
    /\ cancelled' = CancelAll
    /\ completed' = completed \o
         [i \in DOMAIN events |-> [token |-> events[i], type |-> "NONE", from |-> 0]]
    /\ events' = <<>>
    /\ UNCHANGED <<connected, ep, queued, pending, dataTokens, ctrl, bus, dpc, cpc,
                   nextToken, since, given, faulty, connects>>

(***************************************************************************)
(* WaitForEvent.  A call that has to wait is woken when a token is queued  *)
(* or the data thread exits, or gives up at its deadline.                  *)
(***************************************************************************)
GiveAgain ==
    /\ given' = [tokens |-> given.tokens \cup {Head(completed).token},
                  last |-> IF Head(completed).type = "DATA" THEN Head(completed).token
                                                             ELSE given.last]
    /\ UNCHANGED completed
GiveFirst ==
    /\ given' = [tokens |-> given.tokens \cup {Head(completed).token},
                  last |-> IF Head(completed).type = "DATA" THEN Head(completed).token
                                                             ELSE given.last]
    /\ completed' = Tail(completed)

WaitForEvent ==
    /\ cpc = "idle" /\ connected
    /\ IF completed # <<>>
       THEN GiveFirst /\ UNCHANGED cpc
       ELSE cpc' = "wait" /\ UNCHANGED <<completed, given>>
    /\ UNCHANGED <<connected, ep, status, queued, pending, events, usbVars, dpc, nextToken,
                   since, faulty, connects>>

WakeUp ==
    /\ cpc = "wait" /\ (completed # <<>> \/ status = "EXITED")
    /\ cpc' = "idle"
    /\ IF status = "EXITED" THEN UNCHANGED <<completed, given>> ELSE GiveFirst
    /\ UNCHANGED <<connected, ep, status, queued, pending, events, usbVars, dpc, nextToken,
                   since, faulty, connects>>

WaitDeadline ==
    /\ cpc = "wait"
    /\ cpc' = "idle"
    /\ IF completed # <<>> THEN GiveFirst ELSE UNCHANGED <<completed, given>>
    /\ UNCHANGED <<connected, ep, status, queued, pending, events, usbVars, dpc, nextToken,
                   since, faulty, connects>>

(* doSendStateEvent(), from SendStateEvent or an END_SESSION message. *)
doSendStateEvent ==
    IF events # <<>>
    THEN /\ completed' = Append(completed,
                [token |-> Head(events), type |-> "END_OF_DATA", from |-> 0])
         /\ events' = Tail(events)
    ELSE UNCHANGED <<events, completed>>

SendStateEvent ==
    /\ cpc = "idle" /\ connected
    /\ doSendStateEvent
    /\ UNCHANGED <<connected, ep, status, queued, pending, usbVars, dpc, cpc, nextToken,
                   since, given, faulty, connects>>

(***************************************************************************)
(* waitForBuffer(): completeTransfer gives back the control read, the      *)
(* oldest data read, or -1 if the device holds nothing.                    *)
(*                                                                         *)
(* completeUsbTransfer() handles a control read; unless that fails it is   *)
(* asked for again (which throws if the device does not accept it) and     *)
(* waitForBuffer goes on.  "NODATA" is the 1 s timeout, or a message that  *)
(* needs no handling; "ERROR" an error or a short message.                 *)
(***************************************************************************)
ControlResult == {"END_SESSION", "NODATA", "CANCELLED", "ERROR"}

HandledUncancelled(result) == result \in {"END_SESSION", "NODATA"}
Handled(result) ==
    \/ result \in {"END_SESSION", "NODATA"}
    \/ result = "CANCELLED" /\ status = "DETACHING"

completeUsbTransfer(result, accepted) ==
    /\ ctrl = "flying"
    /\ IF result = "END_SESSION" THEN doSendStateEvent ELSE UNCHANGED <<events, completed>>
    /\ cancelled' = cancelled \ {Ctrl}
    /\ ctrl' = CASE ~Handled(result) -> "none" [] accepted -> "flying" [] OTHER -> "done"
    /\ faulty' = \/ faulty \/ ~accepted \/ result = "ERROR"
                 \/ result = "CANCELLED" /\ Ctrl \notin cancelled

(* A data read must carry the first token of m_dataTransferTokens.  Tokens *)
(* of an earlier USB device start from 0 again and may match by accident.  *)
Known ==
    /\ bus # <<>> /\ dataTokens # <<>>
    /\ Head(dataTokens).buf = Head(bus) \/ Head(dataTokens).device # connects
Unknown == bus # <<>> /\ (dataTokens # <<>> => Head(dataTokens).buf # Head(bus))

(* A read that was not cancelled may still stall, which reads as CANCELLED. *)
DataType == {"DATA", "END_OF_DATA", "ERROR"}
BadData(type) == type = "ERROR" \/ (type = "END_OF_DATA" /\ Head(bus) \notin cancelled)

NothingLeft == bus = <<>> /\ ctrl # "flying"

(***************************************************************************)
(* The data thread: dataThread() and WaitForDataEvent().                   *)
(***************************************************************************)
dataOutside == <<connected, ep, cpc, nextToken, since, given, connects>>

WaitForDataEvent ==
    /\ dpc = "loop"
    /\ dpc' = CASE status = "DETACHED" \/ ~connected -> "exit"
                [] pending = <<>> -> "cond"
                [] OTHER -> "usb"
    /\ UNCHANGED <<dataOutside, sinkVars, usbVars, faulty>>

CollectControl ==
    /\ dpc = "usb"
    /\ \E result \in ControlResult, accepted \in BOOLEAN : completeUsbTransfer(result, accepted)
    /\ dpc' = IF ctrl' = "flying" THEN "usb" ELSE "exit"
    /\ UNCHANGED <<dataOutside, status, queued, pending, dataTokens, bus>>

(* The first pending buffer is filled, the next queued ones are submitted, *)
(* and the token goes to WaitForEvent, or is lost if a read is refused.    *)
CollectData ==
    /\ dpc = "usb" /\ Known
    /\ \E type \in DataType :
         LET done == [token |-> Head(pending), type |-> type, from |-> Head(bus)]
             room == IF status = "ACTIVE" THEN Room(queued, Tail(pending)) ELSE 0
         IN  \E n \in 0 .. room :
               /\ submitBuffers(n, queued, Tail(pending), Tail(bus), Tail(dataTokens))
               /\ completed' = IF n = room THEN Append(completed, done) ELSE completed
               /\ dpc' = IF n = room THEN "loop" ELSE "exit"
               /\ faulty' = (faulty \/ n < room \/ BadData(type))
    /\ UNCHANGED <<dataOutside, status, events, ctrl, cancelled>>

CollectUnknown ==
    /\ dpc = "usb" /\ Unknown
    /\ bus' = Tail(bus)
    /\ dpc' = "exit"
    /\ UNCHANGED <<dataOutside, sinkVars, dataTokens, ctrl, cancelled, faulty>>

(* completeTransfer throws. *)
Interrupted ==
    /\ dpc = "usb"
    /\ dpc' = "exit"
    /\ faulty' = TRUE
    /\ UNCHANGED <<dataOutside, sinkVars, usbVars>>

dataThreadExits ==
    /\ dpc = "exit"
    /\ status' = "EXITED"
    /\ dpc' = "done"
    /\ UNCHANGED <<dataOutside, queued, pending, events, completed, usbVars, faulty>>

(***************************************************************************)
(* Detach: waits for the data thread, then cancels, then waits for the     *)
(* pending buffers by itself (up to the first failure), then drops every   *)
(* queue but the completed tokens.                                         *)
(***************************************************************************)
Detach ==
    /\ cpc = "idle" /\ connected
    /\ status' = "DETACHED"
    /\ dpc' = Notify
    /\ cpc' = "detach"
    /\ UNCHANGED <<connected, ep, queued, pending, events, completed, usbVars, nextToken,
                   since, given, faulty, connects>>

DetachJoined ==
    /\ cpc = "detach" /\ dpc \in {"none", "done"}
    /\ dpc' = "none"
    /\ cancelled' = CancelAll
    /\ cpc' = "drain"
    /\ UNCHANGED <<connected, ep, sinkVars, dataTokens, ctrl, bus, nextToken, since, given,
                   faulty, connects>>

drainOutside == <<connected, ep, status, queued, dpc, nextToken, since, given, connects>>

(* A refused control read throws out of Detach: the endpoint and every     *)
(* queue stay as they are.                                                 *)
DrainControl ==
    /\ cpc = "drain" /\ pending # <<>>
    /\ \E result \in ControlResult, accepted \in BOOLEAN : completeUsbTransfer(result, accepted)
    /\ cpc' = CASE ctrl' = "flying" -> "drain"
                [] ctrl' = "none" -> "detachDevice"
                [] OTHER -> "idle"
    /\ UNCHANGED <<drainOutside, pending, dataTokens, bus>>

DrainData ==
    /\ cpc = "drain" /\ pending # <<>> /\ Known
    /\ pending' = Tail(pending) /\ bus' = Tail(bus) /\ dataTokens' = Tail(dataTokens)
    /\ UNCHANGED <<drainOutside, events, completed, ctrl, cancelled, cpc, faulty>>

DrainEnds ==
    /\ cpc = "drain" /\ (pending = <<>> \/ Unknown \/ NothingLeft)
    /\ bus' = IF pending # <<>> /\ Unknown THEN Tail(bus) ELSE bus
    /\ cpc' = "detachDevice"
    /\ UNCHANGED <<drainOutside, pending, events, completed, dataTokens, ctrl, cancelled, faulty>>

(* detachDevice() also waits for every transfer the device still holds. *)
detachDevice ==
    /\ cpc = "detachDevice"
    /\ ep' = FALSE
    /\ bus' = <<>> /\ cancelled' = {}
    /\ ctrl' = IF ctrl = "flying" THEN "done" ELSE ctrl
    /\ queued' = <<>> /\ pending' = <<>> /\ events' = <<>>
    /\ since' = nextToken
    /\ cpc' = "idle"
    /\ UNCHANGED <<connected, status, completed, dataTokens, dpc, nextToken, given, faulty,
                   connects>>

(***************************************************************************)
(* Disconnect: cancels, then waits for the data thread, then frees the USB *)
(* device with whatever it still holds, and the state of the sink.         *)
(***************************************************************************)
Disconnect ==
    /\ cpc = "idle" /\ connected
    /\ status' = "DETACHED"
    /\ dpc' = IF status # "DETACHED" THEN Notify ELSE dpc
    /\ cancelled' = CancelAll
    /\ cpc' = "disconnect"
    /\ UNCHANGED <<connected, ep, queued, pending, events, completed, dataTokens, ctrl, bus,
                   nextToken, since, given, faulty, connects>>

NotJoined == TRUE
Joined == dpc \in {"none", "done"}

doDisconnect ==
    /\ cpc = "disconnect" /\ Joined
    /\ dpc' = IF dpc = "done" THEN "none" ELSE dpc
    /\ connected' = FALSE /\ ep' = FALSE /\ status' = "DETACHED"
    /\ bus' = <<>> /\ cancelled' = {}
    /\ ctrl' = IF ctrl = "flying" THEN "done" ELSE ctrl
    /\ queued' = <<>> /\ pending' = <<>> /\ events' = <<>> /\ completed' = <<>>
    /\ since' = nextToken
    /\ cpc' = "idle"
    /\ UNCHANGED <<dataTokens, nextToken, given, faulty, connects>>

Client ==
    \/ Connect \/ Attach \/ attachThrows
    \/ SubmitData \/ SubmitEvent \/ Start \/ Stop
    \/ WaitForEvent \/ WakeUp \/ WaitDeadline \/ SendStateEvent
    \/ Detach \/ DetachJoined \/ DrainControl \/ DrainData \/ DrainEnds \/ detachDevice
    \/ Disconnect \/ doDisconnect

dataThread ==
    \/ WaitForDataEvent \/ CollectControl \/ CollectData \/ CollectUnknown
    \/ Interrupted \/ dataThreadExits

Next == Client \/ dataThread

Spec == Init /\ [][Next]_vars

(* Both threads are scheduled and a cancelled read finishes.  A data read  *)
(* that is not cancelled may wait for ever: it has no timeout, and the     *)
(* target may have no trace to send.  The control read may time out and be *)
(* asked for again for ever, which leaves the state as it is.              *)
CancelledRead == bus # <<>> /\ Head(bus) \in cancelled

Fairness ==
    /\ WF_vars(WaitForDataEvent) /\ WF_vars(dataThreadExits)
    /\ WF_vars(CancelledRead /\ (CollectData \/ CollectUnknown))
    /\ WF_vars(WaitDeadline)
    /\ WF_vars(DetachJoined) /\ WF_vars(CancelledRead /\ DrainData)
    /\ WF_vars(DrainEnds) /\ WF_vars(detachDevice)
    /\ WF_vars(doDisconnect)

FairSpec == Spec /\ Fairness
-----------------------------------------------------------------------------
(* The queues, tokens and statuses of the sink are well typed.             *)
TypeOK ==
    /\ connected \in BOOLEAN /\ ep \in BOOLEAN /\ faulty \in BOOLEAN
    /\ status \in SinkStatus
    /\ queued \in Seq(Buf) /\ pending \in Seq(Buf) /\ events \in Seq(Buf) /\ bus \in Seq(Buf)
    /\ completed \in Seq(Completion)
    /\ given \in [tokens : SUBSET Buf, last : Buf \cup {0}]
    /\ dataTokens \in Seq(UsbToken)
    /\ ctrl \in {"none", "flying", "done"}
    /\ cancelled \subseteq Buf \cup {Ctrl}
    /\ dpc \in {"none", "loop", "cond", "usb", "exit", "done"}
    /\ cpc \in {"idle", "wait", "detach", "drain", "detachDevice", "disconnect"}
    /\ nextToken \in 1 .. MaxBuf + 1 /\ since \in 1 .. nextToken /\ connects \in Nat

Tokens(s) == [i \in DOMAIN s |-> s[i].token]

(* A buffer is the library's or the client's, never both: no token is in   *)
(* two queues, or in one twice, or still queued after WaitForEvent gave it *)
(* back.  And without a USB fault none is lost: every buffer submitted     *)
(* since the last Detach or Disconnect is somewhere.                       *)
BuffersAccounted ==
    LET held == queued \o pending \o events \o Tokens(completed)
    IN  /\ \A i, j \in DOMAIN held : held[i] = held[j] => i = j
        /\ ToSet(held) \cap given.tokens = {}
        /\ ~faulty /\ cpc \notin {"drain", "detachDevice"} =>
               since .. nextToken - 1 \subseteq ToSet(held) \cup given.tokens

(* The trace is the one on the wire: a buffer is filled by the read that   *)
(* was submitted with it, and the buffers with data reach the client in    *)
(* the order of their reads, across Stop, Detach and reconnects.           *)
StreamIntact ==
    LET data == { i \in DOMAIN completed : completed[i].type = "DATA" }
    IN  /\ \A i \in data : completed[i].from = completed[i].token /\ given.last < completed[i].token
        /\ \A i, j \in data : i < j => completed[i].token < completed[j].token

(* The data thread never looks for a read in vain: as long as it runs, the *)
(* pending buffers are the open reads of the USB device, whatever was      *)
(* refused, stopped or started again, so waitForBuffer finds the device    *)
(* empty (-1) only when Detach drains it.                                  *)
ReadBehindBuffer == dpc \in {"loop", "cond", "usb"} => pending = bus

(* No more data reads are open than the sink announces: the condition      *)
(* under which the USB device parks nothing.                               *)
ReadsBounded == Len(bus) <= DataBufferCount

(* "Stop the data thread before tearing down USB to prevent a              *)
(* use-after-free crash": without a USB device there is no data thread.    *)
TornDownAlone == ~connected => dpc = "none"

(* m_dataTransferTokens holds the reads in flight and no leftover of an    *)
(* earlier session.                                                        *)
Fresh == [i \in DOMAIN dataTokens |-> dataTokens[i].buf] = bus

(* "buffers will be returned to client via WaitForEvent()": after Stop,    *)
(* without a fault or a leftover, every pending buffer is completed, and   *)
(* the cancelled control read does not end the data thread that does it.   *)
StopReturnsBuffers ==
    status = "DETACHING" /\ dpc \in {"loop", "cond", "usb"} /\ Fresh
        ~> faulty \/ pending = <<>> \/ status \notin {"DETACHING", "EXITED"}

(* Disconnect returns from any state of the data thread. *)
DisconnectReturns == cpc = "disconnect" ~> cpc = "idle"

(* Detach returns if Stop (or something else) has cancelled the reads. *)
DetachAfterStopReturns ==
    cpc = "detach" /\ ToSet(bus) \subseteq cancelled /\ Fresh /\ pending = bus ~> cpc = "idle"

(* "client won't call WaitForEvent, so wait for and complete any pending   *)
(* buffers now": Detach returns, also with reads pending.                  *)
DetachReturns == cpc = "detach" ~> cpc = "idle"
=============================================================================
