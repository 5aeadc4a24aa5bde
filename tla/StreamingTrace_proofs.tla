------------------------ MODULE StreamingTrace_proofs ------------------------
(***************************************************************************)
(* Proofs about StreamingTrace, for any dataBufferCount and any number of  *)
(* buffers and sessions: types, the reads behind the pending buffers, the  *)
(* bound on the open reads, the order of teardown, that no buffer is lost  *)
(* and that the trace arrives in order.                                    *)
(***************************************************************************)
EXTENDS StreamingTrace, SequenceFacts, TLAPS

(* Room is what submitBuffers can move without passing dataBufferCount. *)
LEMMA RoomBounds ==
    ASSUME NEW queue \in Seq(Buf), NEW pend \in Seq(Buf)
    PROVE  /\ Room(queue, pend) \in Nat
           /\ Room(queue, pend) <= Len(queue)
           /\ Len(pend) <= DataBufferCount => Len(pend) + Room(queue, pend) <= DataBufferCount
BY TraceAssumption DEF Room

(* What submitBuffers leaves in the queues. *)
LEMMA SubmitFacts ==
    ASSUME NEW queue \in Seq(Buf), NEW pend \in Seq(Buf), NEW onBus \in Seq(Buf),
           NEW tokens \in Seq(UsbToken), connects \in Nat,
           NEW n \in 0 .. Room(queue, pend),
           submitBuffers(n, queue, pend, onBus, tokens)
    PROVE  /\ queued' \in Seq(Buf) /\ pending' \in Seq(Buf) /\ bus' \in Seq(Buf)
           /\ dataTokens' \in Seq(UsbToken)
           /\ Len(pending') = Len(pend) + n /\ Len(bus') = Len(onBus) + n
           /\ pend = onBus => pending' = bus'
<1> DEFINE moved == SubSeq(queue, 1, n)
           more == [i \in 1 .. n |-> [buf |-> moved[i], device |-> connects]]
<1>1. n \in Nat /\ n <= Len(queue)  BY RoomBounds
<1>2. moved \in Seq(Buf) /\ Len(moved) = n  BY <1>1, SubSeqFacts
<1>3. SubSeq(queue, n + 1, Len(queue)) \in Seq(Buf)  BY <1>1, SubSeqFacts
<1>4. more \in Seq(UsbToken)
  <2>1. \A i \in 1 .. n : moved[i] \in Buf  BY <1>1, <1>2
  <2> HIDE DEF moved
  <2>2. \A i \in 1 .. n : [buf |-> moved[i], device |-> connects] \in UsbToken  BY <2>1 DEF UsbToken
  <2> QED BY <1>1, <2>2
<1>5. /\ queued' = SubSeq(queue, n + 1, Len(queue))
      /\ pending' = pend \o moved /\ bus' = onBus \o moved
      /\ dataTokens' = tokens \o more
  BY DEF submitBuffers, Enqueue
<1> HIDE DEF moved, more
<1>6. queued' \in Seq(Buf) /\ pending' \in Seq(Buf) /\ bus' \in Seq(Buf)  BY <1>2, <1>3, <1>5
<1>7. dataTokens' \in Seq(UsbToken)  BY <1>4, <1>5
<1>8. Len(pending') = Len(pend) + n /\ Len(bus') = Len(onBus) + n
  BY <1>1, <1>2, <1>5, ConcatProperties
<1>9. pend = onBus => pending' = bus'  BY <1>5
<1> QED BY <1>6, <1>7, <1>8, <1>9
-----------------------------------------------------------------------------
(* The inductive invariant.  A running data thread has one open read per   *)
(* pending buffer; the pending list is within its limit, and no read is    *)
(* open without a buffer, also when the thread has failed.  A sink without *)
(* endpoint is empty and not active, so that a new data thread starts from *)
(* nothing, and Detach drains alone.                                       *)
ReadInv ==
    /\ ReadBehindBuffer
    /\ Len(bus) <= Len(pending) /\ Len(pending) <= DataBufferCount
    /\ ~ep => pending = <<>> /\ bus = <<>> /\ status # "ACTIVE"
    /\ cpc \in {"detach", "drain", "detachDevice", "disconnect"} => status # "ACTIVE"
    /\ cpc \in {"drain", "detachDevice"} => dpc = "none"

(* A step keeps the types. *)
LEMMA TypeStep == TypeOK /\ ReadInv /\ [Next]_vars => TypeOK'
<1> SUFFICES ASSUME TypeOK, ReadInv, [Next]_vars PROVE TypeOK'
  OBVIOUS
<1> USE DEF TypeOK
<1>a. Notify \in {"none", "loop", "cond", "usb", "exit", "done"}  BY DEF Notify
<1>b. CancelAll \subseteq Buf \cup {Ctrl}
  <2>1. ToSet(bus) \subseteq Buf  BY DEF ToSet
  <2> QED BY <2>1 DEF CancelAll
<1>c. ASSUME doSendStateEvent PROVE events' \in Seq(Buf) /\ completed' \in Seq(Completion)
  <2>1. CASE events = <<>>  BY <1>c, <2>1 DEF doSendStateEvent
  <2>2. CASE events # <<>>
    <3>1. Head(events) \in Buf /\ Tail(events) \in Seq(Buf)  BY <2>2
    <3>2. [token |-> Head(events), type |-> "END_OF_DATA", from |-> 0] \in Completion
      BY <3>1 DEF Completion, EventType
    <3>3. Append(completed, [token |-> Head(events), type |-> "END_OF_DATA", from |-> 0])
             \in Seq(Completion)
      BY <3>2
    <3> QED BY <1>c, <2>2, <3>1, <3>3 DEF doSendStateEvent
  <2> QED BY <2>1, <2>2
<1>d. ASSUME GiveFirst, completed # <<>>
      PROVE  completed' \in Seq(Completion) /\ given' \in [tokens : SUBSET Buf, last : Buf \cup {0}]
  <2>1. Head(completed) \in Completion /\ Tail(completed) \in Seq(Completion)  BY <1>d
  <2>2. Head(completed).token \in Buf  BY <2>1 DEF Completion
  <2> QED BY <1>d, <2>1, <2>2 DEF GiveFirst
<1>e. ASSUME NEW result \in ControlResult, NEW accepted \in BOOLEAN,
             completeUsbTransfer(result, accepted)
      PROVE  /\ events' \in Seq(Buf) /\ completed' \in Seq(Completion)
             /\ cancelled' \subseteq Buf \cup {Ctrl} /\ ctrl' \in {"none", "flying", "done"}
             /\ faulty' \in BOOLEAN
  <2>1. events' \in Seq(Buf) /\ completed' \in Seq(Completion)
    BY <1>c, <1>e DEF completeUsbTransfer
  <2>2. cancelled' \subseteq Buf \cup {Ctrl} /\ ctrl' \in {"none", "flying", "done"}
    BY <1>e DEF completeUsbTransfer
  <2>3. faulty' \in BOOLEAN  BY <1>e, Zenon DEF completeUsbTransfer
  <2> QED BY <2>1, <2>2, <2>3
<1>1. CASE Connect
  <2>1. connects' \in Nat  BY <1>1 DEF Connect
  <2> QED BY <1>1, <2>1 DEF Connect, sinkVars, usbVars
<1>2. CASE Attach  BY <1>2 DEF Attach, Attached, SinkStatus
<1>3. CASE attachThrows  BY <1>3 DEF attachThrows, Attached, SinkStatus, usbVars
<1>4. CASE SubmitData
  <2>1. nextToken \in Buf /\ nextToken' \in 1 .. MaxBuf + 1 /\ since' \in 1 .. nextToken'
    BY <1>4, TraceAssumption DEF SubmitData, Buf, Taken
  <2>2. Append(queued, nextToken) \in Seq(Buf)  BY <2>1
  <2>3. CASE status = "ACTIVE"
    <3>1. PICK n \in 0 .. Room(Append(queued, nextToken), pending) :
             /\ submitBuffers(n, Append(queued, nextToken), pending, bus, dataTokens)
             /\ dpc' = Notified(n)
             /\ faulty' = (faulty \/ n < Room(Append(queued, nextToken), pending))
      BY <1>4, <2>3 DEF SubmitData
    <3>2. /\ queued' \in Seq(Buf) /\ pending' \in Seq(Buf) /\ bus' \in Seq(Buf)
          /\ dataTokens' \in Seq(UsbToken)
      BY <2>2, <3>1, SubmitFacts
    <3>3. dpc' \in {"none", "loop", "cond", "usb", "exit", "done"}  BY <1>a, <3>1 DEF Notified
    <3>4. faulty' \in BOOLEAN  BY <3>1, Zenon
    <3> QED BY <1>4, <2>1, <3>2, <3>3, <3>4 DEF SubmitData
  <2>4. CASE status # "ACTIVE"
    BY <1>4, <2>1, <2>2, <2>4 DEF SubmitData
  <2> QED BY <2>3, <2>4
<1>5. CASE SubmitEvent
  <2>1. nextToken \in Buf /\ nextToken' \in 1 .. MaxBuf + 1 /\ since' \in 1 .. nextToken'
    BY <1>5, TraceAssumption DEF SubmitEvent, Buf, Taken
  <2>2. Append(events, nextToken) \in Seq(Buf)  BY <2>1
  <2> QED BY <1>5, <2>1, <2>2 DEF SubmitEvent, usbVars
<1>6. CASE Start
  <2>1. PICK n \in 0 .. Room(queued, pending) :
           /\ submitBuffers(n, queued, pending, bus, dataTokens)
           /\ dpc' = Notified(n)
           /\ \/ n = Room(queued, pending) /\ ctrl = "none" /\ ctrl' = "flying"
                 /\ UNCHANGED faulty
              \/ n = Room(queued, pending) /\ ctrl # "none" /\ UNCHANGED <<ctrl, faulty>>
              \/ faulty' = TRUE /\ UNCHANGED ctrl
    BY <1>6 DEF Start
  <2>2. /\ queued' \in Seq(Buf) /\ pending' \in Seq(Buf) /\ bus' \in Seq(Buf)
        /\ dataTokens' \in Seq(UsbToken)
    BY <2>1, SubmitFacts
  <2>3. dpc' \in {"none", "loop", "cond", "usb", "exit", "done"}  BY <1>a, <2>1 DEF Notified
  <2>4. ctrl' \in {"none", "flying", "done"}  BY <2>1
  <2>5. faulty' \in BOOLEAN  BY <2>1
  <2> QED BY <1>6, <2>2, <2>3, <2>4, <2>5 DEF Start, SinkStatus
<1>7. CASE Stop
  <2>1. [i \in DOMAIN events |-> [token |-> events[i], type |-> "NONE", from |-> 0]]
           \in Seq(Completion)
    <3>1. \A i \in 1 .. Len(events) :
              [token |-> events[i], type |-> "NONE", from |-> 0] \in Completion
      BY DEF Completion, EventType
    <3>2. DOMAIN events = 1 .. Len(events) /\ Len(events) \in Nat  OBVIOUS
    <3>3. [i \in 1 .. Len(events) |-> [token |-> events[i], type |-> "NONE", from |-> 0]]
             \in Seq(Completion)
      BY <3>1, <3>2
    <3> QED BY <3>2, <3>3
  <2>2. completed' \in Seq(Completion)  BY <1>7, <2>1 DEF Stop
  <2> QED BY <1>7, <1>b, <2>2 DEF Stop, SinkStatus
<1>8. CASE WaitForEvent  BY <1>8, <1>d DEF WaitForEvent, usbVars
<1>9. CASE WakeUp  BY <1>9, <1>d DEF WakeUp, usbVars
<1>10. CASE WaitDeadline  BY <1>10, <1>d DEF WaitDeadline, usbVars
<1>11. CASE SendStateEvent  BY <1>11, <1>c DEF SendStateEvent, usbVars
<1>12. CASE Detach  BY <1>12, <1>a DEF Detach, usbVars, SinkStatus
<1>13. CASE DetachJoined  BY <1>13, <1>b DEF DetachJoined, sinkVars
<1>14. CASE DrainControl
  <2>1. PICK result \in ControlResult, accepted \in BOOLEAN : completeUsbTransfer(result, accepted)
    BY <1>14 DEF DrainControl
  <2> QED BY <1>14, <1>e, <2>1 DEF DrainControl, drainOutside
<1>15. CASE DrainData
  <2>1. pending' \in Seq(Buf) /\ bus' \in Seq(Buf) /\ dataTokens' \in Seq(UsbToken)
    BY <1>15 DEF DrainData, Known
  <2> QED BY <1>15, <2>1 DEF DrainData, drainOutside
<1>16. CASE DrainEnds
  <2>1. bus' \in Seq(Buf)  BY <1>16 DEF DrainEnds, Unknown
  <2> QED BY <1>16, <2>1 DEF DrainEnds, drainOutside
<1>17. CASE detachDevice
  <2>1. since' \in 1 .. nextToken'  BY <1>17 DEF detachDevice
  <2>2. queued' \in Seq(Buf) /\ pending' \in Seq(Buf) /\ events' \in Seq(Buf) /\ bus' \in Seq(Buf)
    BY <1>17 DEF detachDevice
  <2> QED BY <1>17, <2>1, <2>2 DEF detachDevice
<1>18. CASE Disconnect  BY <1>18, <1>a, <1>b DEF Disconnect, SinkStatus
<1>19. CASE doDisconnect
  <2>1. since' \in 1 .. nextToken'  BY <1>19 DEF doDisconnect
  <2>2. /\ queued' \in Seq(Buf) /\ pending' \in Seq(Buf) /\ events' \in Seq(Buf) /\ bus' \in Seq(Buf)
        /\ completed' \in Seq(Completion)
    BY <1>19 DEF doDisconnect
  <2> QED BY <1>19, <2>1, <2>2 DEF doDisconnect, SinkStatus
<1>20. CASE WaitForDataEvent  BY <1>20 DEF WaitForDataEvent, dataOutside, sinkVars, usbVars
<1>21. CASE CollectControl
  <2>1. PICK result \in ControlResult, accepted \in BOOLEAN : completeUsbTransfer(result, accepted)
    BY <1>21 DEF CollectControl
  <2> QED BY <1>21, <1>e, <2>1 DEF CollectControl, dataOutside
<1>22. CASE CollectData
  <2>1. pending = bus /\ bus # <<>> /\ dataTokens # <<>>
    BY <1>22 DEF CollectData, Known, ReadInv, ReadBehindBuffer
  <2>2. /\ Head(pending) \in Buf /\ Tail(pending) \in Seq(Buf) /\ Tail(bus) \in Seq(Buf)
        /\ Head(bus) \in Buf /\ Tail(dataTokens) \in Seq(UsbToken)
    BY <2>1
  <2>3. PICK type \in DataType : \E n \in 0 .. Room(queued, Tail(pending)) :
          /\ submitBuffers(n, queued, Tail(pending), Tail(bus), Tail(dataTokens))
          /\ \/ completed' = Append(completed,
                   [token |-> Head(pending), type |-> type, from |-> Head(bus)])
             \/ completed' = completed
          /\ dpc' \in {"loop", "exit"}
    <3>1. Room(queued, Tail(pending)) \in Nat  BY <2>2, RoomBounds
    <3>2. PICK type \in DataType,
               n \in 0 .. (IF status = "ACTIVE" THEN Room(queued, Tail(pending)) ELSE 0) :
            /\ submitBuffers(n, queued, Tail(pending), Tail(bus), Tail(dataTokens))
            /\ completed' = IF n = (IF status = "ACTIVE" THEN Room(queued, Tail(pending)) ELSE 0)
                             THEN Append(completed, [token |-> Head(pending), type |-> type,
                                                     from |-> Head(bus)])
                             ELSE completed
            /\ dpc' = IF n = (IF status = "ACTIVE" THEN Room(queued, Tail(pending)) ELSE 0)
                       THEN "loop" ELSE "exit"
      BY <1>22, Zenon DEF CollectData
    <3>3. n \in 0 .. Room(queued, Tail(pending))  BY <3>1
    <3>4. \/ completed' = Append(completed,
                 [token |-> Head(pending), type |-> type, from |-> Head(bus)])
          \/ completed' = completed
      BY <3>2
    <3>5. dpc' \in {"loop", "exit"}  BY <3>2
    <3> QED BY <3>2, <3>3, <3>4, <3>5
  <2>4. /\ queued' \in Seq(Buf) /\ pending' \in Seq(Buf) /\ bus' \in Seq(Buf)
        /\ dataTokens' \in Seq(UsbToken)
    BY <2>2, <2>3, SubmitFacts
  <2>5. [token |-> Head(pending), type |-> type, from |-> Head(bus)] \in Completion
    BY <2>2 DEF Completion, EventType, DataType
  <2>6. completed' \in Seq(Completion)
    <3>1. Append(completed, [token |-> Head(pending), type |-> type, from |-> Head(bus)])
             \in Seq(Completion)
      BY <2>5
    <3> QED BY <2>3, <3>1
  <2>7. faulty' \in BOOLEAN  BY <1>22, Zenon DEF CollectData
  <2> QED BY <1>22, <2>3, <2>4, <2>6, <2>7 DEF CollectData, dataOutside
<1>23. CASE CollectUnknown
  <2>1. bus' \in Seq(Buf)  BY <1>23 DEF CollectUnknown, Unknown
  <2> QED BY <1>23, <2>1 DEF CollectUnknown, dataOutside, sinkVars
<1>24. CASE Interrupted  BY <1>24 DEF Interrupted, dataOutside, sinkVars, usbVars
<1>25. CASE dataThreadExits  BY <1>25 DEF dataThreadExits, dataOutside, usbVars, SinkStatus
<1>26. CASE UNCHANGED vars  BY <1>26 DEF vars, sinkVars, usbVars
<1> QED BY <1>1, <1>2, <1>3, <1>4, <1>5, <1>6, <1>7, <1>8, <1>9, <1>10, <1>11, <1>12, <1>13,
           <1>14, <1>15, <1>16, <1>17, <1>18, <1>19, <1>20, <1>21, <1>22, <1>23, <1>24,
           <1>25, <1>26
        DEF Next, Client, dataThread

(* A step keeps the reads and the buffers together. *)
LEMMA ReadStep == TypeOK /\ ReadInv /\ [Next]_vars => ReadInv'
<1> SUFFICES ASSUME TypeOK, ReadInv, [Next]_vars PROVE ReadInv'
  OBVIOUS
<1> USE DEF ReadInv, ReadBehindBuffer
<1>a. /\ pending \in Seq(Buf) /\ queued \in Seq(Buf) /\ bus \in Seq(Buf)
      /\ dataTokens \in Seq(UsbToken) /\ connects \in Nat
      /\ nextToken \in 1 .. MaxBuf + 1 /\ DataBufferCount \in Nat /\ MaxBuf \in Nat
  BY TraceAssumption DEF TypeOK
<1>1. CASE Connect  BY <1>1 DEF Connect, sinkVars, usbVars
<1>2. CASE Attach  BY <1>2 DEF Attach, Attached
<1>3. CASE attachThrows  BY <1>3 DEF attachThrows, Attached, usbVars
<1>4. CASE SubmitData
  <2>1. CASE status = "ACTIVE"
    <3> DEFINE allQueued == Append(queued, nextToken)
    <3> HIDE DEF allQueued
    <3>1. allQueued \in Seq(Buf)
      <4>1. nextToken \in Buf  BY <1>4, <1>a DEF SubmitData, Buf
      <4> QED BY <1>a, <4>1 DEF allQueued
    <3>2. PICK n \in 0 .. Room(allQueued, pending) :
             /\ submitBuffers(n, allQueued, pending, bus, dataTokens)
             /\ dpc' = Notified(n)
      BY <1>4, <2>1 DEF SubmitData, allQueued
    <3>3. /\ Len(pending') = Len(pending) + n /\ Len(bus') = Len(bus) + n
          /\ pending = bus => pending' = bus'
      BY <1>a, <3>1, <3>2, SubmitFacts
    <3>4. n \in Nat /\ Len(pending) \in Nat /\ Len(bus) \in Nat /\ n <= Room(allQueued, pending)
      <4>1. Room(allQueued, pending) \in Nat  BY <1>a, <3>1, RoomBounds
      <4>2. n \in 0 .. Room(allQueued, pending)  BY <3>2
      <4> QED BY <1>a, <4>1, <4>2
    <3>5. Len(pending) + n <= DataBufferCount
      <4>1. Len(pending) + Room(allQueued, pending) <= DataBufferCount /\ Room(allQueued, pending) \in Nat
        BY <1>a, <3>1, RoomBounds
      <4> QED BY <1>a, <3>4, <4>1
    <3>6. dpc' \in {"loop", "cond", "usb"} => dpc \in {"loop", "cond", "usb"}
      BY <3>2 DEF Notified, Notify
    <3>7. /\ Len(bus') <= Len(pending') /\ Len(pending') <= DataBufferCount
      BY <1>a, <3>3, <3>4, <3>5
    <3>8. ep' /\ cpc' = "idle"  BY <1>4, <2>1 DEF SubmitData
    <3> QED BY <3>3, <3>6, <3>7, <3>8
  <2>2. CASE status # "ACTIVE"  BY <1>4, <2>2 DEF SubmitData
  <2> QED BY <2>1, <2>2
<1>5. CASE SubmitEvent  BY <1>5 DEF SubmitEvent, usbVars
<1>6. CASE Start
  <2>1. PICK n \in 0 .. Room(queued, pending) :
           /\ submitBuffers(n, queued, pending, bus, dataTokens)
           /\ dpc' = Notified(n)
    BY <1>6 DEF Start
  <2>2. /\ Len(pending') = Len(pending) + n /\ Len(bus') = Len(bus) + n
        /\ pending = bus => pending' = bus'
    BY <1>a, <2>1, SubmitFacts
  <2>3. Len(pending) + n <= DataBufferCount
    <3>1. /\ Len(pending) + Room(queued, pending) <= DataBufferCount
          /\ Room(queued, pending) \in Nat /\ Len(pending) \in Nat
      BY <1>a, RoomBounds
    <3>2. n \in 0 .. Room(queued, pending)  BY <2>1
    <3> QED BY <1>a, <3>1, <3>2
  <2>4. dpc' \in {"loop", "cond", "usb"} => dpc \in {"loop", "cond", "usb"}
    BY <2>1 DEF Notified, Notify
  <2>5. n \in Nat /\ Len(pending) \in Nat /\ Len(bus) \in Nat
    <3>1. Room(queued, pending) \in Nat  BY <1>a, RoomBounds
    <3> QED BY <1>a, <2>1, <3>1
  <2>6. /\ Len(bus') <= Len(pending') /\ Len(pending') <= DataBufferCount
    BY <1>a, <2>2, <2>3, <2>5
  <2>7. ep' /\ cpc' = "idle"  BY <1>6 DEF Start
  <2> QED BY <2>2, <2>4, <2>6, <2>7
<1>7. CASE Stop  BY <1>7 DEF Stop
<1>8. CASE WaitForEvent  BY <1>8 DEF WaitForEvent, usbVars
<1>9. CASE WakeUp  BY <1>9 DEF WakeUp, usbVars
<1>10. CASE WaitDeadline  BY <1>10 DEF WaitDeadline, usbVars
<1>11. CASE SendStateEvent  BY <1>11 DEF SendStateEvent, usbVars
<1>12. CASE Detach  BY <1>12 DEF Detach, usbVars, Notify
<1>13. CASE DetachJoined  BY <1>13 DEF DetachJoined, sinkVars
<1>14. CASE DrainControl  BY <1>14 DEF DrainControl, drainOutside
<1>15. CASE DrainData
  <2>1. pending # <<>> /\ bus # <<>> /\ pending' = Tail(pending) /\ bus' = Tail(bus)
    BY <1>15 DEF DrainData, Known
  <2>2. Len(pending') = Len(pending) - 1 /\ Len(bus') = Len(bus) - 1  BY <1>a, <2>1
  <2>3. Len(bus') <= Len(pending') /\ Len(pending') <= DataBufferCount  BY <1>a, <2>2
  <2> QED BY <1>15, <2>1, <2>3 DEF DrainData, drainOutside
<1>16. CASE DrainEnds
  <2>1. CASE bus' = bus  BY <1>16, <2>1 DEF DrainEnds, drainOutside
  <2>2. CASE bus' # bus
    <3>1. bus # <<>> /\ bus' = Tail(bus)  BY <1>16, <2>2 DEF DrainEnds, Unknown
    <3>2. Len(bus') = Len(bus) - 1  BY <1>a, <3>1
    <3>3. Len(bus') <= Len(pending)  BY <1>a, <3>2
    <3>4. ep  BY <3>1
    <3> QED BY <1>16, <3>3, <3>4 DEF DrainEnds, drainOutside
  <2> QED BY <2>1, <2>2
<1>17. CASE detachDevice  BY <1>17, <1>a DEF detachDevice
<1>18. CASE Disconnect  BY <1>18 DEF Disconnect, Notify
<1>19. CASE doDisconnect  BY <1>19, <1>a DEF doDisconnect
<1>20. CASE WaitForDataEvent  BY <1>20 DEF WaitForDataEvent, dataOutside, sinkVars, usbVars
<1>21. CASE CollectControl  BY <1>21 DEF CollectControl, dataOutside
<1>22. CASE CollectData
  <2>1. pending = bus /\ bus # <<>> /\ dataTokens # <<>> /\ dpc = "usb"
    BY <1>22 DEF CollectData, Known
  <2> DEFINE rest == Tail(pending)
             restReads == Tail(bus)
             restTokens == Tail(dataTokens)
  <2> HIDE DEF rest, restReads, restTokens
  <2>2. /\ rest \in Seq(Buf) /\ restReads \in Seq(Buf) /\ restTokens \in Seq(UsbToken)
        /\ Len(rest) = Len(pending) - 1 /\ rest = restReads
    BY <1>a, <2>1 DEF rest, restReads, restTokens
  <2>3. PICK n \in 0 .. Room(queued, rest) : submitBuffers(n, queued, rest, restReads, restTokens)
    <3>1. Room(queued, rest) \in Nat  BY <1>a, <2>2, RoomBounds
    <3> QED BY <1>22, <3>1 DEF CollectData, rest, restReads, restTokens
  <2>4. pending' = bus' /\ Len(pending') = Len(rest) + n
    <3>1. n \in 0 .. Room(queued, rest)  BY <2>3
    <3>2. submitBuffers(n, queued, rest, restReads, restTokens)  BY <2>3
    <3>3. connects \in Nat  BY <1>a
    <3> QED BY <1>a, <2>2, <3>1, <3>2, <3>3, SubmitFacts
  <2>5. Len(rest) + n <= DataBufferCount /\ n \in Nat
    <3>1. Len(rest) <= DataBufferCount  BY <1>a, <2>2
    <3>2. n \in 0 .. Room(queued, rest)  BY <2>3
    <3>3. Len(rest) + Room(queued, rest) <= DataBufferCount /\ Room(queued, rest) \in Nat
      BY <1>a, <2>2, <3>1, RoomBounds
    <3> QED BY <1>a, <2>2, <3>2, <3>3
  <2>6. Len(pending') \in Nat /\ Len(pending') <= DataBufferCount  BY <1>a, <2>2, <2>4, <2>5
  <2>7. ep /\ cpc \notin {"drain", "detachDevice"}  BY <2>1
  <2> QED BY <1>22, <2>4, <2>6, <2>7 DEF CollectData, dataOutside
<1>23. CASE CollectUnknown
  <2>1. bus # <<>> /\ bus' = Tail(bus) /\ dpc = "usb" /\ dpc' = "exit"
    BY <1>23 DEF CollectUnknown, Unknown
  <2>2. Len(bus') = Len(bus) - 1  BY <1>a, <2>1
  <2>3. Len(bus') <= Len(pending)  BY <1>a, <2>2
  <2>4. ep /\ cpc \notin {"drain", "detachDevice"}  BY <2>1
  <2> QED BY <1>23, <2>1, <2>3, <2>4 DEF CollectUnknown, dataOutside, sinkVars
<1>24. CASE Interrupted  BY <1>24 DEF Interrupted, dataOutside, sinkVars, usbVars
<1>25. CASE dataThreadExits  BY <1>25 DEF dataThreadExits, dataOutside, usbVars
<1>26. CASE UNCHANGED vars  BY <1>26 DEF vars, sinkVars, usbVars
<1> QED BY <1>1, <1>2, <1>3, <1>4, <1>5, <1>6, <1>7, <1>8, <1>9, <1>10, <1>11, <1>12, <1>13,
           <1>14, <1>15, <1>16, <1>17, <1>18, <1>19, <1>20, <1>21, <1>22, <1>23, <1>24,
           <1>25, <1>26
        DEF Next, Client, dataThread

(* The inductive invariant holds in every reachable state. *)
LEMMA InvariantHolds == Spec => [](TypeOK /\ ReadInv)
<1>1. Init => TypeOK
  <2> SUFFICES ASSUME Init PROVE TypeOK
    OBVIOUS
  <2> USE DEF Init
  <2>1. connected \in BOOLEAN /\ ep \in BOOLEAN /\ faulty \in BOOLEAN  BY Zenon
  <2>2. /\ queued \in Seq(Buf) /\ pending \in Seq(Buf) /\ events \in Seq(Buf) /\ bus \in Seq(Buf)
        /\ completed \in Seq(Completion) /\ dataTokens \in Seq(UsbToken)
    OBVIOUS
  <2>3. /\ nextToken \in 1 .. MaxBuf + 1 /\ since \in 1 .. nextToken /\ connects \in Nat
        /\ given \in [tokens : SUBSET Buf, last : Buf \cup {0}]
        /\ cancelled \subseteq Buf \cup {Ctrl}
    BY TraceAssumption
  <2> QED BY <2>1, <2>2, <2>3 DEF TypeOK, SinkStatus
<1>2. Init => ReadInv
  BY TraceAssumption DEF Init, ReadInv, ReadBehindBuffer
<1> QED BY <1>1, <1>2, TypeStep, ReadStep, PTL DEF Spec

(* Every variable keeps its type. *)
THEOREM TypeCorrect == Spec => []TypeOK
BY InvariantHolds, PTL

(* A running data thread has exactly one open read per pending buffer, in  *)
(* the same order, so waitForBuffer has something to wait for.             *)
THEOREM EveryBufferHasItsRead == Spec => []ReadBehindBuffer
<1>1. ReadInv => ReadBehindBuffer  BY DEF ReadInv
<1> QED BY <1>1, InvariantHolds, PTL

(* submitBuffers, from either thread, never opens more reads than the sink *)
(* announces, across Stop, Detach, failures and sessions: with at most     *)
(* MAX_IN_FLIGHT buffers the theorems of UsbDevice_proofs apply.           *)
THEOREM OpenReadsBounded == Spec => []ReadsBounded
<1>1. TypeOK /\ ReadInv => ReadsBounded
  BY TraceAssumption DEF TypeOK, ReadInv, ReadsBounded
<1> QED BY <1>1, InvariantHolds, PTL

-----------------------------------------------------------------------------
(* Disconnect tears down the USB device only after the data thread ended,  *)
(* and no thread starts without a device.                                  *)
THEOREM ThreadEndsBeforeDevice == Spec => []TornDownAlone
<1>1. Init => TornDownAlone  BY DEF Init, TornDownAlone
<1>2. TornDownAlone /\ [Next]_vars => TornDownAlone'
  <2> SUFFICES ASSUME TornDownAlone, [Next]_vars PROVE TornDownAlone'
    OBVIOUS
  <2> USE DEF TornDownAlone
  <2>1. CASE Connect \/ Attach \/ attachThrows
    BY <2>1 DEF Connect, Attach, attachThrows
  <2>2. CASE SubmitData \/ SubmitEvent \/ Start \/ Stop
    BY <2>2 DEF SubmitData, SubmitEvent, Start, Stop
  <2>3. CASE WaitForEvent \/ WakeUp \/ WaitDeadline \/ SendStateEvent
    BY <2>3 DEF WaitForEvent, WakeUp, WaitDeadline, SendStateEvent
  <2>4. CASE Detach \/ DetachJoined \/ detachDevice
    BY <2>4 DEF Detach, DetachJoined, detachDevice
  <2>5. CASE DrainControl \/ DrainData \/ DrainEnds
    BY <2>5 DEF DrainControl, DrainData, DrainEnds, drainOutside
  <2>6. CASE Disconnect \/ doDisconnect
    BY <2>6 DEF Disconnect, doDisconnect, Joined
  <2>7. CASE dataThread
    BY <2>7 DEF dataThread, WaitForDataEvent, CollectControl, CollectData, CollectUnknown,
                Interrupted, dataThreadExits, dataOutside
  <2>8. CASE UNCHANGED vars  BY <2>8 DEF vars
  <2> QED BY <2>1, <2>2, <2>3, <2>4, <2>5, <2>6, <2>7, <2>8 DEF Next, Client
<1> QED BY <1>1, <1>2, PTL DEF Spec
-----------------------------------------------------------------------------
(***************************************************************************)
(* The invariant of the buffers.  The reads a sink has open or will open,  *)
(* pending \o queued, grow; submitBuffers only moves the boundary between  *)
(* the two.  What came back with data is older than they are, and younger  *)
(* than the last data WaitForEvent returned.                               *)
(***************************************************************************)
TokenSet(c) == { c[i].token : i \in DOMAIN c }
Library(o, e, c) == ToSet(o) \cup ToSet(e) \cup TokenSet(c)

InOrder(o, c, last) ==
    /\ \A i \in DOMAIN c : c[i].type = "DATA" =>
          c[i].from = c[i].token /\ last < c[i].token /\ \A x \in ToSet(o) : c[i].token < x
    /\ \A i, j \in DOMAIN c :
          c[i].type = "DATA" /\ c[j].type = "DATA" /\ i < j => c[i].token < c[j].token
    /\ \A x \in ToSet(o) : last < x

Apart(o, e, c, g) ==
    /\ Ascending(o) /\ Ascending(e)
    /\ \A i, j \in DOMAIN c : c[i].token = c[j].token => i = j
    /\ ToSet(o) \cap ToSet(e) = {} /\ TokenSet(c) \cap (ToSet(o) \cup ToSet(e)) = {}
    /\ g \cap Library(o, e, c) = {}

Older(o, e, c, g, n) ==
    /\ \A x \in Library(o, e, c) \cup g.tokens : x < n
    /\ g.last < n

Sound(o, e, c, g, n) ==
    InOrder(o, c, g.last) /\ Apart(o, e, c, g.tokens) /\ Older(o, e, c, g, n)

Open == pending \o queued
NoneLost ==
    ~faulty /\ cpc \notin {"drain", "detachDevice"} =>
        since .. nextToken - 1 \subseteq Library(Open, events, completed) \cup given.tokens

BufferInv == Sound(Open, events, completed, given, nextToken) /\ NoneLost
-----------------------------------------------------------------------------
(* What is known of the tokens, for the lemmas on what happens to them. *)
Given == [tokens : SUBSET Buf, last : Buf \cup {0}]

LEMMA BufNat == Buf \subseteq Nat /\ 0 \notin Buf
BY TraceAssumption DEF Buf

LEMMA TokenNat == \A x \in Buf \cup {0} : x \in Nat
BY TraceAssumption DEF Buf

LEMMA BufSeq == \A s \in Seq(Buf) : s \in Seq(Nat)
BY BufNat, SeqMonotonic, Zenon

LEMMA TokenTypes ==
    ASSUME NEW c \in Seq(Completion)
    PROVE  /\ \A i \in DOMAIN c : c[i] \in Completion /\ c[i].token \in Nat
           /\ TokenSet(c) \subseteq Nat
<1>1. ASSUME NEW i \in DOMAIN c PROVE c[i] \in Completion /\ c[i].token \in Nat
  <2>1. c[i] \in Completion  OBVIOUS
  <2> QED BY <2>1, BufNat DEF Completion
<1> QED BY <1>1 DEF TokenSet

LEMMA TokensAppend ==
    ASSUME NEW c \in Seq(Completion), NEW r \in Completion
    PROVE  TokenSet(Append(c, r)) = TokenSet(c) \cup {r.token}
<1> DEFINE d == Append(c, r)
<1>1. /\ DOMAIN d = 1 .. Len(c) + 1 /\ DOMAIN c = 1 .. Len(c) /\ Len(c) \in Nat
      /\ \A i \in 1 .. Len(c) : d[i] = c[i]
      /\ d[Len(c) + 1] = r
  OBVIOUS
<1> HIDE DEF d
<1>2. \A i \in DOMAIN d : i \in DOMAIN c \/ i = Len(c) + 1  BY <1>1
<1>3. TokenSet(d) \subseteq TokenSet(c) \cup {r.token}  BY <1>1, <1>2 DEF TokenSet
<1>4. DOMAIN c \subseteq DOMAIN d /\ Len(c) + 1 \in DOMAIN d  BY <1>1
<1>5. TokenSet(c) \cup {r.token} \subseteq TokenSet(d)  BY <1>1, <1>4 DEF TokenSet
<1> QED BY <1>3, <1>5 DEF d

LEMMA TokensTail ==
    ASSUME NEW c \in Seq(Completion), c # <<>>
    PROVE  TokenSet(c) = {Head(c).token} \cup TokenSet(Tail(c))
<1> DEFINE t == Tail(c)
<1>1. /\ Head(c) = c[1] /\ 1 \in DOMAIN c
      /\ \A j \in DOMAIN t : j + 1 \in DOMAIN c /\ t[j] = c[j + 1]
      /\ t \in Seq(Completion) /\ Len(t) = Len(c) - 1
  BY TailFacts
<1> HIDE DEF t
<1>2. ASSUME NEW i \in DOMAIN c, i # 1 PROVE \E j \in DOMAIN t : c[i] = t[j]
  <2>1. i - 1 \in DOMAIN t /\ (i - 1) + 1 = i  BY <1>1, <1>2
  <2> QED BY <1>1, <2>1
<1>3. TokenSet(c) \subseteq {Head(c).token} \cup TokenSet(t)  BY <1>1, <1>2 DEF TokenSet
<1>4. {Head(c).token} \cup TokenSet(t) \subseteq TokenSet(c)  BY <1>1 DEF TokenSet
<1> QED BY <1>3, <1>4 DEF t

(* SubmitEventBuffer with a data buffer. *)
LEMMA ReadSubmitted ==
    ASSUME NEW o \in Seq(Buf), NEW e \in Seq(Buf), NEW c \in Seq(Completion), NEW g \in Given,
           NEW n \in Buf, Sound(o, e, c, g, n)
    PROVE  /\ Sound(Append(o, n), e, c, g, n + 1)
           /\ Library(Append(o, n), e, c) = Library(o, e, c) \cup {n}
<1> DEFINE p == Append(o, n)
           L == Library(o, e, c)
<1>1. ToSet(p) = ToSet(o) \cup {n}  BY ToSetAppend
<1>2. n \in Nat /\ o \in Seq(Nat) /\ g.last \in Nat
  <2>1. o \in Seq(Nat)  BY BufSeq, Zenon
  <2>2. g.last \in Buf \cup {0}  BY DEF Given
  <2>3. n \in Nat /\ g.last \in Nat  BY <2>2, TokenNat, Zenon
  <2> QED BY <2>1, <2>3
<1>3. \A x \in L \cup g.tokens : x < n  BY DEF Sound, Older
<1>4. L \cup g.tokens \subseteq Nat
  <2>1. ToSet(o) \subseteq Nat /\ ToSet(e) \subseteq Nat  BY BufSeq DEF ToSet
  <2>2. TokenSet(c) \subseteq Nat /\ g.tokens \subseteq Nat  BY TokenTypes, BufNat DEF Given
  <2> QED BY <2>1, <2>2 DEF Library
<1>5. n \notin L \cup g.tokens  BY <1>2, <1>3, <1>4
<1>6. Library(p, e, c) = L \cup {n}  BY <1>1 DEF Library
<1>7. Ascending(p)
  <2>1. \A y \in ToSet(o) : y < n  BY <1>3 DEF Library
  <2> QED BY <1>2, <2>1, AscendingAppend DEF Sound, Apart
<1> HIDE DEF p, L
<1>8. Apart(p, e, c, g.tokens)
  <2>1. ToSet(p) \cap ToSet(e) = {} /\ TokenSet(c) \cap (ToSet(p) \cup ToSet(e)) = {}
    BY <1>1, <1>5 DEF Sound, Apart, Library, L
  <2>2. g.tokens \cap Library(p, e, c) = {}  BY <1>5, <1>6 DEF Sound, Apart, L
  <2> QED BY <1>7, <2>1, <2>2 DEF Sound, Apart
<1>9. Older(p, e, c, g, n + 1)
  <2>1. \A x \in L \cup {n} \cup g.tokens : x < n + 1  BY <1>2, <1>3, <1>4
  <2>2. g.last < n + 1  BY <1>2 DEF Sound, Older
  <2> QED BY <1>6, <2>1, <2>2 DEF Older
<1>10. InOrder(p, c, g.last)
  <2>1. \A i \in DOMAIN c : c[i].token < n  BY <1>3 DEF L, Library, TokenSet
  <2>2. g.last < n  BY DEF Sound, Older
  <2> QED BY <1>1, <2>1, <2>2 DEF Sound, InOrder
<1> QED BY <1>6, <1>8, <1>9, <1>10 DEF Sound, p, L

(* SubmitEventBuffer with an event buffer. *)
LEMMA EventSubmitted ==
    ASSUME NEW o \in Seq(Buf), NEW e \in Seq(Buf), NEW c \in Seq(Completion), NEW g \in Given,
           NEW n \in Buf, Sound(o, e, c, g, n)
    PROVE  /\ Sound(o, Append(e, n), c, g, n + 1)
           /\ Library(o, Append(e, n), c) = Library(o, e, c) \cup {n}
<1> DEFINE p == Append(e, n)
           L == Library(o, e, c)
<1>1. ToSet(p) = ToSet(e) \cup {n}  BY ToSetAppend
<1>2. n \in Nat /\ e \in Seq(Nat) /\ g.last \in Nat
  <2>1. e \in Seq(Nat)  BY BufSeq, Zenon
  <2>2. g.last \in Buf \cup {0}  BY DEF Given
  <2>3. n \in Nat /\ g.last \in Nat  BY <2>2, TokenNat, Zenon
  <2> QED BY <2>1, <2>3
<1>3. \A x \in L \cup g.tokens : x < n  BY DEF Sound, Older
<1>4. L \cup g.tokens \subseteq Nat
  <2>1. ToSet(o) \subseteq Nat /\ ToSet(e) \subseteq Nat  BY BufSeq DEF ToSet
  <2>2. TokenSet(c) \subseteq Nat /\ g.tokens \subseteq Nat  BY TokenTypes, BufNat DEF Given
  <2> QED BY <2>1, <2>2 DEF Library
<1>5. n \notin L \cup g.tokens  BY <1>2, <1>3, <1>4
<1>6. Library(o, p, c) = L \cup {n}  BY <1>1 DEF Library
<1>7. Ascending(p)
  <2>1. \A y \in ToSet(e) : y < n  BY <1>3 DEF Library
  <2> QED BY <1>2, <2>1, AscendingAppend DEF Sound, Apart
<1> HIDE DEF p, L
<1>8. Apart(o, p, c, g.tokens)
  <2>1. ToSet(o) \cap ToSet(p) = {} /\ TokenSet(c) \cap (ToSet(o) \cup ToSet(p)) = {}
    BY <1>1, <1>5 DEF Sound, Apart, Library, L
  <2>2. g.tokens \cap Library(o, p, c) = {}  BY <1>5, <1>6 DEF Sound, Apart, L
  <2> QED BY <1>7, <2>1, <2>2 DEF Sound, Apart
<1>9. Older(o, p, c, g, n + 1)
  <2>1. \A x \in L \cup {n} \cup g.tokens : x < n + 1  BY <1>2, <1>3, <1>4
  <2>2. g.last < n + 1  BY <1>2 DEF Sound, Older
  <2> QED BY <1>6, <2>1, <2>2 DEF Older
<1> QED BY <1>6, <1>8, <1>9 DEF Sound, p, L

(* A token is appended to the completed ones, of an event buffer (without  *)
(* data) or of the oldest read.                                            *)
MayComplete(o, e, c, last, tokens, r) ==
    /\ InOrder(o, c, last) /\ Apart(o, e, c, tokens)
    /\ r.token \notin Library(o, e, c) /\ r.token \notin tokens
    /\ r.type = "DATA" =>
          /\ r.from = r.token /\ last < r.token
          /\ \A x \in ToSet(o) : r.token < x
          /\ \A i \in DOMAIN c : c[i].type = "DATA" => c[i].token < r.token

LEMMA OneCompleted ==
    ASSUME NEW o, NEW e, NEW c \in Seq(Completion), NEW last, NEW tokens, NEW r \in Completion,
           MayComplete(o, e, c, last, tokens, r)
    PROVE  InOrder(o, Append(c, r), last) /\ Apart(o, e, Append(c, r), tokens)
<1> USE DEF MayComplete
<1> DEFINE d == Append(c, r)
<1>1. /\ DOMAIN d = 1 .. Len(c) + 1 /\ DOMAIN c = 1 .. Len(c) /\ Len(c) \in Nat
      /\ \A i \in 1 .. Len(c) : d[i] = c[i]
      /\ d[Len(c) + 1] = r
  OBVIOUS
<1>2. TokenSet(d) = TokenSet(c) \cup {r.token}  BY TokensAppend
<1> HIDE DEF d
<1>3. ASSUME NEW i \in DOMAIN d
      PROVE  \/ i \in DOMAIN c /\ d[i] = c[i]
             \/ i = Len(c) + 1 /\ d[i] = r
  <2>1. i \in 1 .. Len(c) \/ i = Len(c) + 1  BY <1>1
  <2> QED BY <1>1, <2>1
<1>4. Library(o, e, d) = Library(o, e, c) \cup {r.token}  BY <1>2 DEF Library
<1>5. \A i \in DOMAIN c : c[i].token # r.token  BY DEF Library, TokenSet
<1>6. \A i, j \in DOMAIN d : d[i].token = d[j].token => i = j
  BY <1>3, <1>5 DEF Apart
<1>7. Apart(o, e, d, tokens)
  BY <1>2, <1>4, <1>6 DEF Apart, Library
<1>8. ASSUME NEW i \in DOMAIN d, NEW j \in DOMAIN d, d[i].type = "DATA", d[j].type = "DATA", i < j
      PROVE  d[i].token < d[j].token
  <2>1. i \in DOMAIN c /\ d[i] = c[i]  BY <1>1, <1>3, <1>8
  <2>2. CASE j \in DOMAIN c /\ d[j] = c[j]  BY <1>8, <2>1, <2>2 DEF InOrder
  <2>3. CASE d[j] = r  BY <1>8, <2>1, <2>3
  <2> QED BY <1>3, <2>2, <2>3
<1>9. InOrder(o, d, last)  BY <1>3, <1>8 DEF InOrder
<1> QED BY <1>7, <1>9 DEF d

(* doSendStateEvent. *)
LEMMA EventCompleted ==
    ASSUME NEW o \in Seq(Buf), NEW e \in Seq(Buf), NEW c \in Seq(Completion), NEW g \in Given,
           NEW n \in Nat, Sound(o, e, c, g, n), e # <<>>,
           NEW r \in Completion, r.token = Head(e), r.type # "DATA"
    PROVE  /\ Sound(o, Tail(e), Append(c, r), g, n)
           /\ Library(o, Tail(e), Append(c, r)) = Library(o, e, c)
<1> DEFINE t == Tail(e)
<1>1. t \in Seq(Buf) /\ ToSet(e) = {r.token} \cup ToSet(t)  BY TailFacts
<1>2. Ascending(t) /\ r.token \notin ToSet(t)
  <2>1. e \in Seq(Nat)  BY BufSeq, Zenon
  <2> QED BY <2>1, AscendingTail DEF Sound, Apart
<1> HIDE DEF t
<1>3. r.token \notin Library(o, t, c) /\ r.token \notin g.tokens  BY <1>1, <1>2 DEF Sound, Apart, Library
<1>4. InOrder(o, c, g.last) /\ Apart(o, t, c, g.tokens)
  BY <1>1, <1>2 DEF Sound, Apart, Library
<1>5. InOrder(o, Append(c, r), g.last) /\ Apart(o, t, Append(c, r), g.tokens)
  <2>1. MayComplete(o, t, c, g.last, g.tokens, r)  BY <1>3, <1>4 DEF MayComplete
  <2> QED BY <2>1, OneCompleted, Zenon
<1>6. Library(o, t, Append(c, r)) = Library(o, e, c)
  <2>1. TokenSet(Append(c, r)) = TokenSet(c) \cup {r.token}  BY TokensAppend
  <2> QED BY <1>1, <2>1 DEF Library
<1>7. Older(o, t, Append(c, r), g, n)  BY <1>6 DEF Sound, Older
<1> QED BY <1>5, <1>6, <1>7 DEF Sound, t

(* WaitForDataEvent: the oldest read is done. *)
LEMMA ReadCompleted ==
    ASSUME NEW o \in Seq(Buf), NEW e \in Seq(Buf), NEW c \in Seq(Completion), NEW g \in Given,
           NEW n \in Nat, Sound(o, e, c, g, n), o # <<>>,
           NEW r \in Completion, r.token = Head(o), r.from = Head(o)
    PROVE  /\ Sound(Tail(o), e, Append(c, r), g, n)
           /\ Library(Tail(o), e, Append(c, r)) = Library(o, e, c)
           /\ Sound(Tail(o), e, c, g, n)
<1> DEFINE t == Tail(o)
<1>1. t \in Seq(Buf) /\ ToSet(o) = {r.token} \cup ToSet(t)  BY TailFacts
<1>2. Ascending(t) /\ r.token \notin ToSet(t) /\ \A x \in ToSet(t) : r.token < x
  <2>1. o \in Seq(Nat)  BY BufSeq, Zenon
  <2> QED BY <2>1, AscendingTail DEF Sound, Apart
<1> HIDE DEF t
<1>3. r.token \notin Library(t, e, c) /\ r.token \notin g.tokens  BY <1>1, <1>2 DEF Sound, Apart, Library
<1>4. InOrder(t, c, g.last) /\ Apart(t, e, c, g.tokens)
  <2>1. InOrder(t, c, g.last)  BY <1>1 DEF Sound, InOrder
  <2>2. Apart(t, e, c, g.tokens)  BY <1>1, <1>2 DEF Sound, Apart, Library
  <2> QED BY <2>1, <2>2
<1>5. /\ r.from = r.token /\ g.last < r.token
      /\ \A i \in DOMAIN c : c[i].type = "DATA" => c[i].token < r.token
  BY <1>1 DEF Sound, InOrder
<1>6. InOrder(t, Append(c, r), g.last) /\ Apart(t, e, Append(c, r), g.tokens)
  <2>1. MayComplete(t, e, c, g.last, g.tokens, r)
    BY <1>2, <1>3, <1>4, <1>5 DEF MayComplete
  <2> QED BY <2>1, OneCompleted, Zenon
<1>7. Library(t, e, Append(c, r)) = Library(o, e, c)
  <2>1. TokenSet(Append(c, r)) = TokenSet(c) \cup {r.token}  BY TokensAppend
  <2> QED BY <1>1, <2>1 DEF Library
<1>8. Older(t, e, Append(c, r), g, n)  BY <1>7 DEF Sound, Older
<1>9. Older(t, e, c, g, n)  BY <1>1 DEF Sound, Older, Library
<1> QED BY <1>4, <1>6, <1>7, <1>8, <1>9 DEF Sound, t

(* Stop: the event buffers go back without data. *)
LEMMA EventsReturned ==
    ASSUME NEW o \in Seq(Buf), NEW e \in Seq(Buf), NEW c \in Seq(Completion), NEW g \in Given,
           NEW n \in Nat, Sound(o, e, c, g, n),
           NEW b \in Seq(Completion), Len(b) = Len(e),
           \A i \in 1 .. Len(e) : b[i].token = e[i] /\ b[i].type = "NONE"
    PROVE  /\ Sound(o, <<>>, c \o b, g, n)
           /\ Library(o, <<>>, c \o b) = Library(o, e, c)
<1> DEFINE d == c \o b
<1>1. /\ DOMAIN c = 1 .. Len(c) /\ Len(c) \in Nat /\ DOMAIN e = 1 .. Len(e) /\ Len(e) \in Nat
  OBVIOUS
<1>2. /\ Len(d) = Len(c) + Len(e) /\ d \in Seq(Completion)
      /\ \A i \in 1 .. Len(c) + Len(e) : d[i] = IF i <= Len(c) THEN c[i] ELSE b[i - Len(c)]
  <2>1. /\ c \o b \in Seq(Completion) /\ Len(c \o b) = Len(c) + Len(b)
        /\ \A i \in 1 .. Len(c) + Len(b) :
              (c \o b)[i] = IF i <= Len(c) THEN c[i] ELSE b[i - Len(c)]
    BY ONLY c \in Seq(Completion), b \in Seq(Completion), ConcatProperties, Zenon
  <2> HIDE DEF d
  <2> QED BY <2>1 DEF d
<1> HIDE DEF d
<1>3. ASSUME NEW i \in DOMAIN d
      PROVE  \/ i \in DOMAIN c /\ d[i] = c[i]
             \/ /\ i > Len(c) /\ i - Len(c) \in DOMAIN e /\ d[i].token = e[i - Len(c)]
                /\ d[i].type # "DATA"
  <2>1. i \in 1 .. Len(c) + Len(e)  BY <1>2
  <2>2. CASE i <= Len(c)
    <3>1. i \in DOMAIN c  BY <1>1, <2>1, <2>2
    <3> QED BY <1>2, <2>1, <2>2, <3>1
  <2>3. CASE ~(i <= Len(c))
    <3>1. i > Len(c) /\ i - Len(c) \in 1 .. Len(e)  BY <1>1, <2>1, <2>3
    <3>2. d[i] = b[i - Len(c)]  BY <1>2, <2>1, <2>3
    <3>3. d[i].token = e[i - Len(c)] /\ d[i].type = "NONE"  BY <3>1, <3>2
    <3> QED BY <1>1, <3>1, <3>3
  <2> QED BY <2>2, <2>3
<1>4. TokenSet(d) \subseteq TokenSet(c) \cup ToSet(e)  BY <1>3 DEF TokenSet, ToSet
<1>5. ASSUME NEW i \in DOMAIN c PROVE i \in DOMAIN d /\ d[i] = c[i]
  <2>1. i \in 1 .. Len(c) + Len(e) /\ i <= Len(c)  BY <1>1
  <2> QED BY <1>2, <2>1
<1>6. ASSUME NEW i \in DOMAIN e PROVE Len(c) + i \in DOMAIN d /\ d[Len(c) + i].token = e[i]
  <2>1. /\ Len(c) + i \in 1 .. Len(c) + Len(e) /\ ~(Len(c) + i <= Len(c))
        /\ (Len(c) + i) - Len(c) = i
    BY <1>1
  <2>2. Len(c) + i \in DOMAIN d /\ d[Len(c) + i] = b[i]  BY <1>2, <2>1
  <2> QED BY <1>1, <2>2
<1>7. TokenSet(c) \cup ToSet(e) \subseteq TokenSet(d)
  <2>1. ASSUME NEW x \in TokenSet(c) PROVE x \in TokenSet(d)
    <3>1. PICK i \in DOMAIN c : x = c[i].token  BY DEF TokenSet
    <3> QED BY <1>5, <3>1 DEF TokenSet
  <2>2. ASSUME NEW x \in ToSet(e) PROVE x \in TokenSet(d)
    <3>1. PICK i \in DOMAIN e : x = e[i]  BY DEF ToSet
    <3> QED BY <1>6, <3>1 DEF TokenSet
  <2> QED BY <2>1, <2>2
<1>8. Library(o, <<>>, d) = Library(o, e, c)
  BY <1>4, <1>7, ToSetEmpty DEF Library
<1>9. \A i, j \in DOMAIN e : e[i] = e[j] => i = j
  <2>1. e \in Seq(Nat)  BY BufSeq, Zenon
  <2> QED BY <2>1, AscendingDistinct DEF Sound, Apart
<1>10. ASSUME NEW i \in DOMAIN d, NEW j \in DOMAIN d, d[i].token = d[j].token PROVE i = j
  <2>0. TokenSet(c) \cap ToSet(e) = {}  BY DEF Sound, Apart
  <2>1. \A k \in DOMAIN c, m \in DOMAIN e : c[k].token # e[m]
    BY <2>0, Zenon DEF TokenSet, ToSet
  <2>2. CASE i \in DOMAIN c /\ d[i] = c[i]
    <3>1. j \in DOMAIN c /\ d[j] = c[j]  BY <1>3, <1>10, <2>1, <2>2
    <3> QED BY <1>10, <2>2, <3>1 DEF Sound, Apart
  <2>3. CASE i > Len(c) /\ i - Len(c) \in DOMAIN e /\ d[i].token = e[i - Len(c)]
    <3>1. j - Len(c) \in DOMAIN e /\ d[j].token = e[j - Len(c)]  BY <1>3, <1>10, <2>1, <2>3
    <3>2. i - Len(c) = j - Len(c)  BY <1>9, <1>10, <2>3, <3>1
    <3>3. i \in Int /\ j \in Int  BY <1>2
    <3> QED BY <1>1, <3>2, <3>3
  <2> QED BY <1>3, <2>2, <2>3
<1>11. Apart(o, <<>>, d, g.tokens)
  <2>1. Ascending(<<>>)  BY DEF Ascending
  <2>2. ToSet(o) \cap ToSet(<<>>) = {} /\ TokenSet(d) \cap (ToSet(o) \cup ToSet(<<>>)) = {}
    BY <1>4, ToSetEmpty DEF Sound, Apart
  <2> QED BY <1>8, <1>10, <2>1, <2>2 DEF Sound, Apart
<1>12. ASSUME NEW i \in DOMAIN d, d[i].type = "DATA" PROVE i \in DOMAIN c /\ d[i] = c[i]
  BY <1>3, <1>12
<1>13. InOrder(o, d, g.last)  BY <1>12 DEF Sound, InOrder
<1>14. Older(o, <<>>, d, g, n)  BY <1>8 DEF Sound, Older
<1> QED BY <1>8, <1>11, <1>13, <1>14 DEF Sound, d

(* The first completed token joins those given back. *)
GivesHead(c, g, h) ==
    /\ h.tokens = g.tokens \cup {Head(c).token}
    /\ h.last = IF Head(c).type = "DATA" THEN Head(c).token ELSE g.last
Handed(o, e, c, g, n, h) ==
    /\ Sound(o, e, Tail(c), h, n)
    /\ Library(o, e, Tail(c)) \cup h.tokens = Library(o, e, c) \cup g.tokens

(* WaitForEvent returns the first completed token. *)
LEMMA FirstGiven ==
    ASSUME NEW o \in Seq(Buf), NEW e \in Seq(Buf), NEW c \in Seq(Completion), NEW g \in Given,
           NEW n \in Nat, Sound(o, e, c, g, n), c # <<>>, NEW h, GivesHead(c, g, h)
    PROVE  Handed(o, e, c, g, n, h)
<1>0. /\ h.tokens = g.tokens \cup {Head(c).token}
      /\ h.last = IF Head(c).type = "DATA" THEN Head(c).token ELSE g.last
  BY DEF GivesHead
<1> USE <1>0
<1> DEFINE t == Tail(c)
<1>1. /\ Head(c) = c[1] /\ 1 \in DOMAIN c
      /\ \A j \in DOMAIN t : j + 1 \in DOMAIN c /\ t[j] = c[j + 1]
      /\ t \in Seq(Completion)
  BY TailFacts
<1>2. TokenSet(c) = {Head(c).token} \cup TokenSet(t)  BY TokensTail
<1> HIDE DEF t
<1>3. DOMAIN t \subseteq Nat \ {0}  BY <1>1
<1>4. Library(o, e, t) \cup h.tokens = Library(o, e, c) \cup g.tokens  BY <1>2 DEF Library
<1>5. ASSUME NEW j \in DOMAIN t PROVE t[j].token # Head(c).token
  <2>1. j + 1 # 1  BY <1>3
  <2> QED BY <1>1, <2>1 DEF Sound, Apart
<1>6. Head(c).token \notin TokenSet(t)  BY <1>5 DEF TokenSet
<1>7. ASSUME NEW i \in DOMAIN t, NEW j \in DOMAIN t, t[i].token = t[j].token PROVE i = j
  <2>1. i + 1 = j + 1  BY <1>1, <1>7 DEF Sound, Apart
  <2> QED BY <1>3, <2>1
<1>8. Apart(o, e, t, h.tokens)
  <2>1. TokenSet(t) \cap (ToSet(o) \cup ToSet(e)) = {}  BY <1>2 DEF Sound, Apart
  <2>2. Head(c).token \notin Library(o, e, t)  BY <1>2, <1>6 DEF Sound, Apart, Library
  <2>3. h.tokens \cap Library(o, e, t) = {}  BY <1>2, <2>2 DEF Sound, Apart, Library
  <2> QED BY <1>7, <2>1, <2>3 DEF Sound, Apart
<1>9. h.last < n
  <2>1. Head(c).token < n  BY <1>2 DEF Sound, Older, Library
  <2>2. g.last < n  BY DEF Sound, Older
  <2> QED BY <2>1, <2>2
<1>10. Older(o, e, t, h, n)  BY <1>4, <1>9 DEF Sound, Older
<1>11. ASSUME NEW i \in DOMAIN t, NEW j \in DOMAIN t,
              t[i].type = "DATA", t[j].type = "DATA", i < j
       PROVE  t[i].token < t[j].token
  <2>1. i + 1 < j + 1  BY <1>3, <1>11
  <2> QED BY <1>1, <1>11, <2>1 DEF Sound, InOrder
<1>12. ASSUME NEW i \in DOMAIN t, t[i].type = "DATA"
       PROVE  /\ t[i].from = t[i].token /\ h.last < t[i].token
              /\ \A x \in ToSet(o) : t[i].token < x
  <2>1. /\ t[i].from = t[i].token /\ g.last < t[i].token
        /\ \A x \in ToSet(o) : t[i].token < x
    BY <1>1, <1>12 DEF Sound, InOrder
  <2>2. 1 < i + 1  BY <1>3
  <2>3. Head(c).type = "DATA" => Head(c).token < t[i].token
    BY <1>1, <1>12, <2>2 DEF Sound, InOrder
  <2> QED BY <2>1, <2>3
<1>13. \A x \in ToSet(o) : h.last < x  BY <1>1 DEF Sound, InOrder
<1>14. InOrder(o, t, h.last)  BY <1>11, <1>12, <1>13 DEF InOrder
<1> QED BY <1>4, <1>8, <1>10, <1>14 DEF Handed, Sound, t

(* Detach drops the open buffers, Disconnect the completed ones too. *)
LEMMA BuffersDropped ==
    ASSUME NEW o, NEW e, NEW c, NEW g, NEW n, Sound(o, e, c, g, n)
    PROVE  Sound(<<>>, <<>>, c, g, n) /\ Sound(<<>>, <<>>, <<>>, g, n)
<1>1. Ascending(<<>>)  BY DEF Ascending
<1>2. ToSet(<<>>) = {} /\ TokenSet(<<>>) = {}  BY ToSetEmpty DEF TokenSet
<1>3. Library(<<>>, <<>>, c) \subseteq Library(o, e, c) /\ Library(<<>>, <<>>, <<>>) = {}
  BY <1>2 DEF Library
<1>4. InOrder(<<>>, c, g.last) /\ InOrder(<<>>, <<>>, g.last)  BY <1>2 DEF Sound, InOrder
<1>5. Apart(<<>>, <<>>, c, g.tokens) /\ Apart(<<>>, <<>>, <<>>, g.tokens)
  BY <1>1, <1>2, <1>3 DEF Sound, Apart
<1>6. Older(<<>>, <<>>, c, g, n) /\ Older(<<>>, <<>>, <<>>, g, n)
  BY <1>3 DEF Sound, Older
<1> QED BY <1>4, <1>5, <1>6 DEF Sound

(* submitBuffers moves the boundary between pending and queued only. *)
LEMMA SubmitOpen ==
    ASSUME NEW queue \in Seq(Buf), NEW pend \in Seq(Buf), NEW onBus, NEW tokens,
           NEW n \in 0 .. Room(queue, pend),
           submitBuffers(n, queue, pend, onBus, tokens)
    PROVE  Open' = pend \o queue
<1> DEFINE a == SubSeq(queue, 1, n)
           b == SubSeq(queue, n + 1, Len(queue))
<1>1. n \in Nat /\ n <= Len(queue) /\ Len(queue) \in Nat  BY RoomBounds
<1>2. a \in Seq(Buf) /\ b \in Seq(Buf)  BY <1>1, SubSeqFacts
<1>3. a \o b = queue
  <2>1. 1 \in 1 .. Len(queue) + 1 /\ n \in 1 - 1 .. Len(queue) /\ Len(queue) \in n .. Len(queue)
    BY <1>1
  <2>2. a \o b = SubSeq(queue, 1, Len(queue))  BY <2>1, ConcatAdjacentSubSeq, Zenon
  <2>3. SubSeq(queue, 1, Len(queue)) = queue  BY SubSeqFull, Zenon
  <2> QED BY <2>2, <2>3, Zenon
<1>4. Open' = (pend \o a) \o b  BY DEF Open, submitBuffers, Enqueue
<1> HIDE DEF a, b
<1>5. (pend \o a) \o b = pend \o (a \o b)
  <2>1. ASSUME NEW p \in Seq(Buf), NEW x \in Seq(Buf), NEW y \in Seq(Buf)
        PROVE  (p \o x) \o y = p \o (x \o y)
    BY ONLY p \in Seq(Buf), x \in Seq(Buf), y \in Seq(Buf), ConcatAssociative, SMTT(30)
  <2> QED BY <1>2, <2>1
<1> QED BY <1>3, <1>4, <1>5, Zenon

(* Appending to queued appends to both. *)
LEMMA AppendOpen ==
    ASSUME NEW p \in Seq(Buf), NEW q \in Seq(Buf), NEW x \in Buf
    PROVE  p \o Append(q, x) = Append(p \o q, x) /\ p \o q \in Seq(Buf)
<1>1. p \o q \in Seq(Buf)  BY ConcatProperties, Zenon
<1>2. Append(q, x) = q \o <<x>> /\ Append(p \o q, x) = (p \o q) \o <<x>>
  BY <1>1, AppendIsConcat, Zenon
<1>3. <<x>> \in Seq(Buf)  OBVIOUS
<1>4. (p \o q) \o <<x>> = p \o (q \o <<x>>)  BY <1>3, ConcatAssociative
<1> QED BY <1>1, <1>2, <1>4

(* The first pending read is the first of all. *)
LEMMA TailOpen ==
    ASSUME NEW p \in Seq(Buf), NEW q \in Seq(Buf), p # <<>>
    PROVE  /\ p \o q \in Seq(Buf) /\ p \o q # <<>>
           /\ Head(p \o q) = Head(p) /\ Tail(p \o q) = Tail(p) \o q
<1> DEFINE s == p \o q
           t == Tail(p)
           r == t \o q
<1>1. /\ s \in Seq(Buf) /\ Len(s) = Len(p) + Len(q)
      /\ \A i \in 1 .. Len(p) + Len(q) : s[i] = IF i <= Len(p) THEN p[i] ELSE q[i - Len(p)]
  <2>1. /\ p \o q \in Seq(Buf) /\ Len(p \o q) = Len(p) + Len(q)
        /\ \A i \in 1 .. Len(p) + Len(q) :
              (p \o q)[i] = IF i <= Len(p) THEN p[i] ELSE q[i - Len(p)]
    BY ConcatProperties, Zenon
  <2> HIDE DEF s
  <2> QED BY <2>1 DEF s
<1>2. /\ Len(p) \in Nat \ {0} /\ Len(q) \in Nat /\ t \in Seq(Buf) /\ Len(t) = Len(p) - 1
      /\ Head(p) = p[1] /\ \A j \in 1 .. Len(p) - 1 : t[j] = p[j + 1]
  OBVIOUS
<1> HIDE DEF t
<1>3. /\ r \in Seq(Buf) /\ Len(r) = Len(t) + Len(q)
      /\ \A i \in 1 .. Len(t) + Len(q) : r[i] = IF i <= Len(t) THEN t[i] ELSE q[i - Len(t)]
  <2>0. t \in Seq(Buf)  BY <1>2
  <2>1. /\ t \o q \in Seq(Buf) /\ Len(t \o q) = Len(t) + Len(q)
        /\ \A i \in 1 .. Len(t) + Len(q) :
              (t \o q)[i] = IF i <= Len(t) THEN t[i] ELSE q[i - Len(t)]
    BY ONLY <2>0, q \in Seq(Buf), ConcatProperties, Zenon
  <2> HIDE DEF r
  <2> QED BY <2>1 DEF r
<1> HIDE DEF s, r
<1>4. s # <<>>  BY <1>1, <1>2
<1>5. Head(s) = Head(p)
  <2>1. Head(s) = s[1]  BY <1>1, <1>4
  <2>2. 1 \in 1 .. Len(p) + Len(q) /\ 1 <= Len(p)  BY <1>2
  <2> QED BY <1>1, <1>2, <2>1, <2>2
<1>6. /\ Tail(s) \in Seq(Buf) /\ Len(Tail(s)) = Len(s) - 1
      /\ \A j \in 1 .. Len(s) - 1 : Tail(s)[j] = s[j + 1]
  BY <1>1, <1>4
<1>7. Len(Tail(s)) = Len(r)  BY <1>1, <1>2, <1>3, <1>6
<1>8. ASSUME NEW j \in 1 .. Len(Tail(s)) PROVE Tail(s)[j] = r[j]
  <2>1. /\ j \in 1 .. Len(s) - 1 /\ j \in 1 .. Len(t) + Len(q)
        /\ j + 1 \in 1 .. Len(p) + Len(q)
    BY <1>1, <1>2, <1>3, <1>6, <1>7
  <2>2. Tail(s)[j] = s[j + 1]  BY <1>6, <2>1
  <2>3. CASE j <= Len(t)
    <3>1. j + 1 <= Len(p) /\ j \in 1 .. Len(p) - 1  BY <1>2, <2>1, <2>3
    <3>2. s[j + 1] = p[j + 1]  BY <1>1, <2>1, <3>1
    <3>3. r[j] = t[j]  BY <1>3, <2>1, <2>3
    <3> QED BY <1>2, <2>2, <3>1, <3>2, <3>3
  <2>4. CASE ~(j <= Len(t))
    <3>1. ~(j + 1 <= Len(p)) /\ j + 1 - Len(p) = j - Len(t)  BY <1>2, <2>1, <2>4
    <3>2. s[j + 1] = q[j + 1 - Len(p)]  BY <1>1, <2>1, <3>1
    <3>3. r[j] = q[j - Len(t)]  BY <1>3, <2>1, <2>4
    <3> QED BY <2>2, <3>1, <3>2, <3>3
  <2> QED BY <2>3, <2>4
<1>9. Tail(s) = r
  BY <1>3, <1>6, <1>7, <1>8, SeqEqual
<1> QED BY <1>1, <1>4, <1>5, <1>9 DEF s, r, t

Draining == {"drain", "detachDevice"}

(* Nothing goes wrong, and no drain begins or ends, unnoticed. *)
Watched == ~faulty' /\ cpc' \notin Draining => ~faulty /\ cpc \notin Draining

(* What TypeOK says of the buffers. *)
LEMMA BufferTypes ==
    ASSUME TypeOK
    PROVE  /\ queued \in Seq(Buf) /\ pending \in Seq(Buf) /\ events \in Seq(Buf)
           /\ completed \in Seq(Completion) /\ given \in Given /\ Open \in Seq(Buf)
           /\ nextToken \in Nat /\ since \in Nat /\ bus \in Seq(Buf)
<1>1. /\ queued \in Seq(Buf) /\ pending \in Seq(Buf) /\ events \in Seq(Buf)
      /\ completed \in Seq(Completion) /\ given \in Given /\ bus \in Seq(Buf)
  BY DEF TypeOK, Given
<1>2. nextToken \in Nat /\ since \in Nat  BY TraceAssumption DEF TypeOK
<1>3. Open \in Seq(Buf)  BY <1>1, ConcatProperties, Zenon DEF Open
<1> QED BY <1>1, <1>2, <1>3

(* A step that leaves the buffers where they are, or hands one event back. *)
LEMMA BuffersStay ==
    ASSUME TypeOK, BufferInv, Open' = Open, doSendStateEvent \/ UNCHANGED <<events, completed>>,
           UNCHANGED <<given, nextToken, since>>, Watched
    PROVE  BufferInv'
<1>1. /\ events \in Seq(Buf) /\ completed \in Seq(Completion) /\ given \in Given
      /\ Open \in Seq(Buf) /\ nextToken \in Nat
  BY BufferTypes
<1>2. Sound(Open, events, completed, given, nextToken) /\ NoneLost  BY DEF BufferInv
<1>3. /\ Sound(Open, events', completed', given, nextToken)
      /\ Library(Open, events', completed') = Library(Open, events, completed)
  <2>1. CASE UNCHANGED <<events, completed>>  BY <1>2, <2>1
  <2>2. CASE doSendStateEvent /\ events # <<>>
    <3> DEFINE r == [token |-> Head(events), type |-> "END_OF_DATA", from |-> 0]
    <3>1. completed' = Append(completed, r) /\ events' = Tail(events)
      BY <2>2 DEF doSendStateEvent
    <3>2. Head(events) \in Buf  BY <1>1, <2>2
    <3>3. r \in Completion /\ r.token = Head(events) /\ r.type # "DATA"
      BY <3>2 DEF Completion, EventType
    <3> HIDE DEF r
    <3>4. /\ Sound(Open, Tail(events), Append(completed, r), given, nextToken)
          /\ Library(Open, Tail(events), Append(completed, r)) = Library(Open, events, completed)
      BY <1>1, <1>2, <2>2, <3>3, EventCompleted
    <3> QED BY <3>1, <3>4
  <2>3. CASE doSendStateEvent /\ events = <<>>
    BY <1>2, <2>3 DEF doSendStateEvent
  <2> QED BY <2>1, <2>2, <2>3
<1>4. Sound(Open, events, completed, given, nextToken)'
  BY <1>3 DEF Sound, InOrder, Apart, Older, Library
<1>5. NoneLost'
  <2>1. Library(Open, events, completed)' = Library(Open, events, completed)
    BY <1>3 DEF Library
  <2> QED BY <1>2, <2>1 DEF NoneLost, Watched, Draining
<1> QED BY <1>4, <1>5 DEF BufferInv

(* GiveFirst, from any of the calls of WaitForEvent. *)
LEMMA FirstLeaves ==
    ASSUME TypeOK, BufferInv, Open' = Open, GiveFirst, completed # <<>>,
           UNCHANGED <<events, nextToken, since>>, Watched
    PROVE  BufferInv'
<1>1. /\ events \in Seq(Buf) /\ completed \in Seq(Completion) /\ given \in Given
      /\ Open \in Seq(Buf) /\ nextToken \in Nat
  BY BufferTypes
<1>2. Sound(Open, events, completed, given, nextToken) /\ NoneLost  BY DEF BufferInv
<1>3. /\ given'.tokens = given.tokens \cup {Head(completed).token}
      /\ given'.last = IF Head(completed).type = "DATA" THEN Head(completed).token ELSE given.last
      /\ completed' = Tail(completed)
  BY DEF GiveFirst
<1>4. /\ Sound(Open, events, Tail(completed), given', nextToken)
      /\ Library(Open, events, Tail(completed)) \cup given'.tokens
            = Library(Open, events, completed) \cup given.tokens
  <2>1. GivesHead(completed, given, given')  BY <1>3 DEF GivesHead
  <2>2. Handed(Open, events, completed, given, nextToken, given')
    BY ONLY <1>1, <1>2, completed # <<>>, <2>1, FirstGiven, Zenon
  <2> QED BY <2>2 DEF Handed
<1>5. Sound(Open, events, completed, given, nextToken)'
  BY <1>3, <1>4 DEF Sound, InOrder, Apart, Older, Library
<1>6. NoneLost'
  <2>1. Library(Open, events, completed)' \cup given'.tokens
            = Library(Open, events, completed) \cup given.tokens
    BY <1>3, <1>4 DEF Library
  <2> QED BY <1>2, <2>1 DEF NoneLost, Watched, Draining
<1> QED BY <1>5, <1>6 DEF BufferInv

(* SubmitEventBuffer: a new token, on one queue or the other. *)
LEMMA TokenTaken ==
    ASSUME TypeOK, BufferInv, nextToken <= MaxBuf, nextToken' = nextToken + 1,
           \/ Open' = Append(Open, nextToken) /\ UNCHANGED events
           \/ events' = Append(events, nextToken) /\ Open' = Open,
           UNCHANGED <<completed, given, since>>, Watched
    PROVE  BufferInv'
<1>1. /\ events \in Seq(Buf) /\ completed \in Seq(Completion) /\ given \in Given
      /\ Open \in Seq(Buf) /\ nextToken \in Nat /\ since \in Nat
  BY BufferTypes
<1>2. nextToken \in Buf  BY TraceAssumption DEF TypeOK, Buf
<1>3. Sound(Open, events, completed, given, nextToken) /\ NoneLost  BY DEF BufferInv
<1>4. /\ Sound(Open', events', completed, given, nextToken + 1)
      /\ Library(Open', events', completed) = Library(Open, events, completed) \cup {nextToken}
  <2>1. CASE Open' = Append(Open, nextToken) /\ UNCHANGED events
    <3>1. /\ Sound(Append(Open, nextToken), events, completed, given, nextToken + 1)
          /\ Library(Append(Open, nextToken), events, completed)
                = Library(Open, events, completed) \cup {nextToken}
      BY <1>1, <1>2, <1>3, ReadSubmitted
    <3> QED BY <2>1, <3>1
  <2>2. CASE events' = Append(events, nextToken) /\ Open' = Open
    <3>1. /\ Sound(Open, Append(events, nextToken), completed, given, nextToken + 1)
          /\ Library(Open, Append(events, nextToken), completed)
                = Library(Open, events, completed) \cup {nextToken}
      BY <1>1, <1>2, <1>3, EventSubmitted
    <3> QED BY <2>2, <3>1
  <2> QED BY <2>1, <2>2
<1>5. Sound(Open, events, completed, given, nextToken)'
  BY <1>4 DEF Sound, InOrder, Apart, Older, Library, TokenSet
<1>6. NoneLost'
  <2>1. Library(Open, events, completed)' = Library(Open, events, completed) \cup {nextToken}
    BY <1>4 DEF Library, TokenSet
  <2>2. since .. nextToken' - 1 = (since .. nextToken - 1) \cup (IF since <= nextToken THEN {nextToken} ELSE {})
    BY <1>1
  <2>3. since .. nextToken' - 1 \subseteq (since .. nextToken - 1) \cup {nextToken}  BY <2>2
  <2> QED BY <1>3, <2>1, <2>3 DEF NoneLost, Watched, Draining
<1> QED BY <1>5, <1>6 DEF BufferInv

(* Every step keeps the buffers in order and accounted for. *)
LEMMA BufferStep == TypeOK /\ ReadInv /\ BufferInv /\ [Next]_vars => BufferInv'
<1> SUFFICES ASSUME TypeOK, ReadInv, BufferInv, [Next]_vars PROVE BufferInv'
  OBVIOUS
<1>a. /\ queued \in Seq(Buf) /\ pending \in Seq(Buf) /\ events \in Seq(Buf)
      /\ completed \in Seq(Completion) /\ given \in Given /\ Open \in Seq(Buf)
      /\ nextToken \in Nat /\ since \in Nat /\ bus \in Seq(Buf)
  BY BufferTypes
<1>b. Sound(Open, events, completed, given, nextToken) /\ NoneLost  BY DEF BufferInv
<1>c. ASSUME UNCHANGED <<queued, pending, events, completed, given, nextToken, since>>, Watched
      PROVE  BufferInv'
  <2>1. Open' = Open  BY <1>c DEF Open
  <2> QED BY <1>c, <2>1, BuffersStay
<1>1. CASE Connect \/ Attach \/ attachThrows
  BY <1>1, <1>c DEF Connect, Attach, attachThrows, sinkVars, usbVars, Watched
<1>2. CASE SubmitData
  <2>1. /\ nextToken <= MaxBuf /\ nextToken' = nextToken + 1
        /\ UNCHANGED <<events, completed, given, since, cpc>>
    BY <1>2 DEF SubmitData, Taken
  <2>2. nextToken \in Buf  BY <2>1, TraceAssumption DEF TypeOK, Buf
  <2> DEFINE queue == Append(queued, nextToken)
  <2>3. queue \in Seq(Buf)  BY <1>a, <2>2
  <2>4. pending \o queue = Append(Open, nextToken)  BY <1>a, <2>2, AppendOpen DEF Open
  <2>5. Open' = pending \o queue /\ Watched
    <3>1. CASE status = "ACTIVE"
      <4>1. PICK n \in 0 .. Room(queue, pending) :
               /\ submitBuffers(n, queue, pending, bus, dataTokens)
               /\ faulty' = (faulty \/ n < Room(queue, pending))
        BY <1>2, <3>1 DEF SubmitData
      <4> HIDE DEF queue
      <4>2. Open' = pending \o queue  BY <1>a, <2>3, <4>1, SubmitOpen
      <4>3. Watched  BY <2>1, <4>1 DEF Watched
      <4> QED BY <4>2, <4>3
    <3>2. CASE status # "ACTIVE"
      <4>1. queued' = queue /\ UNCHANGED <<pending, faulty>>  BY <1>2, <3>2 DEF SubmitData
      <4> QED BY <2>1, <4>1 DEF Open, Watched
    <3> QED BY <3>1, <3>2
  <2>6. Open' = Append(Open, nextToken)  BY <2>4, <2>5
  <2> QED BY <2>1, <2>5, <2>6, TokenTaken
<1>3. CASE SubmitEvent
  <2>1. /\ nextToken <= MaxBuf /\ nextToken' = nextToken + 1
        /\ events' = Append(events, nextToken)
        /\ UNCHANGED <<completed, given, since>> /\ UNCHANGED <<queued, pending, cpc, faulty>>
    BY <1>3 DEF SubmitEvent, Taken
  <2>2. Open' = Open /\ Watched  BY <2>1 DEF Open, Watched
  <2> QED BY <2>1, <2>2, TokenTaken
<1>4. CASE Start
  <2>1. PICK n \in 0 .. Room(queued, pending) :
           submitBuffers(n, queued, pending, bus, dataTokens)
    BY <1>4 DEF Start
  <2>2. Open' = Open  BY <1>a, <2>1, SubmitOpen DEF Open
  <2>3. UNCHANGED <<events, completed, given, nextToken, since>>  BY <1>4 DEF Start
  <2>4. Watched  BY <1>4 DEF Start, Watched
  <2> QED BY <2>2, <2>3, <2>4, BuffersStay
<1>5. CASE Stop
  <2> DEFINE back == [i \in DOMAIN events |-> [token |-> events[i], type |-> "NONE", from |-> 0]]
  <2>1. /\ completed' = completed \o back /\ events' = <<>>
        /\ UNCHANGED <<queued, pending, given, nextToken, since, cpc, faulty>>
    BY <1>5 DEF Stop
  <2>2. back \in Seq(Completion) /\ Len(back) = Len(events)
    <3>1. DOMAIN events = 1 .. Len(events) /\ Len(events) \in Nat  BY <1>a
    <3>2. \A i \in 1 .. Len(events) :
             [token |-> events[i], type |-> "NONE", from |-> 0] \in Completion
      BY <1>a DEF Completion, EventType
    <3> QED BY <3>1, <3>2
  <2>3. \A i \in 1 .. Len(events) : back[i].token = events[i] /\ back[i].type = "NONE"
    BY <1>a
  <2> HIDE DEF back
  <2>4. /\ Sound(Open, <<>>, completed \o back, given, nextToken)
        /\ Library(Open, <<>>, completed \o back) = Library(Open, events, completed)
    BY <1>a, <1>b, <2>2, <2>3, EventsReturned
  <2>5. Open' = Open  BY <2>1 DEF Open
  <2>6. Sound(Open, events, completed, given, nextToken)'
    BY <2>1, <2>4, <2>5 DEF Sound, InOrder, Apart, Older, Library
  <2>7. NoneLost'
    <3>1. Library(Open, events, completed)' = Library(Open, events, completed)
      BY <2>1, <2>4, <2>5 DEF Library
    <3> QED BY <1>b, <2>1, <3>1 DEF NoneLost
  <2> QED BY <2>6, <2>7 DEF BufferInv
<1>6. CASE WaitForEvent \/ WakeUp \/ WaitDeadline
  <2>1. /\ UNCHANGED <<queued, pending>> /\ UNCHANGED <<events, nextToken, since>>
        /\ Watched
    BY <1>6 DEF WaitForEvent, WakeUp, WaitDeadline, Watched, Draining
  <2>2. Open' = Open  BY <2>1 DEF Open
  <2>3. CASE UNCHANGED <<completed, given>>
    BY <1>c, <2>1, <2>3
  <2>4. CASE GiveFirst /\ completed # <<>>
    BY <2>1, <2>2, <2>4, FirstLeaves
  <2> QED BY <1>6, <2>3, <2>4 DEF WaitForEvent, WakeUp, WaitDeadline
<1>7. CASE SendStateEvent
  <2>1. /\ doSendStateEvent /\ UNCHANGED <<queued, pending>> /\ UNCHANGED <<given, nextToken, since>>
        /\ Watched
    BY <1>7 DEF SendStateEvent, Watched
  <2>2. Open' = Open  BY <2>1 DEF Open
  <2> QED BY <2>1, <2>2, BuffersStay
<1>8. CASE Detach \/ DetachJoined
  BY <1>8, <1>c DEF Detach, DetachJoined, sinkVars, Watched, Draining
<1>9. CASE DrainControl \/ CollectControl
  <2>1. /\ UNCHANGED <<queued, pending>> /\ UNCHANGED <<given, nextToken, since>>
        /\ doSendStateEvent \/ UNCHANGED <<events, completed>>
        /\ Watched
    BY <1>9 DEF DrainControl, CollectControl, completeUsbTransfer, drainOutside, dataOutside,
                Watched, Draining
  <2>2. Open' = Open  BY <2>1 DEF Open
  <2> QED BY <2>1, <2>2, BuffersStay
<1>10. CASE DrainData
  <2>1. /\ pending # <<>> /\ pending' = Tail(pending)
        /\ UNCHANGED <<queued, events, completed, given, nextToken>> /\ cpc' = "drain"
    BY <1>10 DEF DrainData, drainOutside
  <2>2. Open # <<>> /\ Open' = Tail(Open)  BY <1>a, <2>1, TailOpen DEF Open
  <2> DEFINE r == [token |-> Head(Open), type |-> "NONE", from |-> Head(Open)]
  <2>3. Head(Open) \in Buf  BY <1>a, <2>2
  <2>4. r \in Completion /\ r.token = Head(Open) /\ r.from = Head(Open)
    BY <2>3 DEF Completion, EventType
  <2> HIDE DEF r
  <2>5. Sound(Tail(Open), events, completed, given, nextToken)
    BY <1>a, <1>b, <2>2, <2>4, ReadCompleted
  <2>6. Sound(Open, events, completed, given, nextToken)'
    BY <2>1, <2>2, <2>5 DEF Sound, InOrder, Apart, Older, Library, TokenSet
  <2>7. NoneLost'  BY <2>1 DEF NoneLost
  <2> QED BY <2>6, <2>7 DEF BufferInv
<1>11. CASE DrainEnds
  BY <1>11, <1>c DEF DrainEnds, drainOutside, Watched, Draining
<1>12. CASE detachDevice \/ doDisconnect
  <2>1. /\ queued' = <<>> /\ pending' = <<>> /\ events' = <<>> /\ since' = nextToken
        /\ UNCHANGED <<nextToken, given>> /\ (completed' = completed \/ completed' = <<>>)
    BY <1>12 DEF detachDevice, doDisconnect
  <2>2. Open' = <<>>  BY <2>1 DEF Open
  <2>3. /\ Sound(<<>>, <<>>, completed, given, nextToken)
        /\ Sound(<<>>, <<>>, <<>>, given, nextToken)
    BY <1>b, BuffersDropped
  <2>4. Sound(<<>>, <<>>, completed', given, nextToken)  BY <2>1, <2>3
  <2>5. Sound(Open, events, completed, given, nextToken)'
    BY <2>1, <2>2, <2>4 DEF Sound, InOrder, Apart, Older, Library, TokenSet
  <2>6. since' .. nextToken' - 1 = {}  BY <1>a, <2>1
  <2>7. NoneLost'  BY <2>6 DEF NoneLost
  <2> QED BY <2>5, <2>7 DEF BufferInv
<1>13. CASE Disconnect
  BY <1>13, <1>c DEF Disconnect, Watched, Draining
<1>14. CASE WaitForDataEvent \/ CollectUnknown \/ Interrupted \/ dataThreadExits
  BY <1>14, <1>c DEF WaitForDataEvent, CollectUnknown, Interrupted, dataThreadExits, dataOutside,
                     sinkVars, Watched
<1>15. CASE CollectData
  <2>1. pending = bus /\ bus # <<>> /\ pending # <<>>
    BY <1>15 DEF CollectData, Known, ReadInv, ReadBehindBuffer
  <2> DEFINE rest == Tail(pending)
  <2>2. /\ rest \in Seq(Buf) /\ Head(pending) = Head(Open) /\ Open # <<>>
        /\ rest \o queued = Tail(Open)
    <3>1. Tail(pending) \in Seq(Buf)  BY <1>a, <2>1
    <3> QED BY <1>a, <2>1, <3>1, TailOpen DEF Open
  <2> HIDE DEF rest
  <2>3. Room(queued, rest) \in Nat  BY <1>a, <2>2, RoomBounds
  <2>4. PICK type \in DataType, n \in 0 .. Room(queued, rest) :
          /\ submitBuffers(n, queued, rest, Tail(bus), Tail(dataTokens))
          /\ \/ completed' = Append(completed,
                   [token |-> Head(pending), type |-> type, from |-> Head(bus)])
             \/ completed' = completed /\ faulty'
          /\ faulty => faulty'
    <3>1. PICK type \in DataType, n \in 0 .. (IF status = "ACTIVE" THEN Room(queued, rest) ELSE 0) :
            /\ submitBuffers(n, queued, rest, Tail(bus), Tail(dataTokens))
            /\ completed' = IF n = (IF status = "ACTIVE" THEN Room(queued, rest) ELSE 0)
                             THEN Append(completed, [token |-> Head(pending), type |-> type,
                                                     from |-> Head(bus)])
                             ELSE completed
            /\ faulty' = \/ faulty
                         \/ n < (IF status = "ACTIVE" THEN Room(queued, rest) ELSE 0)
                         \/ BadData(type)
      BY <1>15, Zenon DEF CollectData, rest
    <3>2. n \in 0 .. Room(queued, rest)  BY <2>3
    <3>3. n # (IF status = "ACTIVE" THEN Room(queued, rest) ELSE 0)
             => n < (IF status = "ACTIVE" THEN Room(queued, rest) ELSE 0)
      BY <2>3
    <3>4. \/ completed' = Append(completed,
                 [token |-> Head(pending), type |-> type, from |-> Head(bus)])
          \/ completed' = completed /\ faulty'
      BY <3>1, <3>3
    <3>5. faulty => faulty'  BY <3>1
    <3> QED BY <3>1, <3>2, <3>4, <3>5
  <2>5. Open' = Tail(Open)  BY <1>a, <2>2, <2>4, SubmitOpen
  <2>6. UNCHANGED <<events, given, nextToken, since, cpc>>  BY <1>15 DEF CollectData, dataOutside
  <2> DEFINE r == [token |-> Head(Open), type |-> type, from |-> Head(Open)]
  <2>7. Head(Open) \in Buf  BY <1>a, <2>2
  <2>8. r \in Completion /\ r.token = Head(Open) /\ r.from = Head(Open)
    BY <2>7 DEF Completion, EventType, DataType
  <2>9. completed' = Append(completed, r) \/ (completed' = completed /\ faulty')
    BY <2>1, <2>2, <2>4
  <2> HIDE DEF r
  <2>10. /\ Sound(Tail(Open), events, Append(completed, r), given, nextToken)
         /\ Library(Tail(Open), events, Append(completed, r)) = Library(Open, events, completed)
         /\ Sound(Tail(Open), events, completed, given, nextToken)
    BY <1>a, <1>b, <2>2, <2>8, ReadCompleted
  <2>11. Sound(Tail(Open), events, completed', given, nextToken)  BY <2>9, <2>10
  <2>12. Sound(Open, events, completed, given, nextToken)'
    BY <2>5, <2>6, <2>11 DEF Sound, InOrder, Apart, Older, Library, TokenSet
  <2>13. NoneLost'
    <3>1. CASE faulty'  BY <3>1 DEF NoneLost
    <3>2. CASE ~faulty'
      <4>1. completed' = Append(completed, r) /\ ~faulty  BY <2>4, <2>9, <3>2
      <4>2. Library(Open, events, completed)' = Library(Open, events, completed)
        BY <2>5, <2>6, <2>10, <4>1 DEF Library, TokenSet
      <4> QED BY <1>b, <2>6, <4>1, <4>2 DEF NoneLost
    <3> QED BY <3>1, <3>2
  <2> QED BY <2>12, <2>13 DEF BufferInv
<1>16. CASE UNCHANGED vars
  BY <1>16, <1>c DEF vars, sinkVars, Watched
<1> QED BY <1>1, <1>2, <1>3, <1>4, <1>5, <1>6, <1>7, <1>8, <1>9, <1>10, <1>11, <1>12, <1>13,
           <1>14, <1>15, <1>16
        DEF Next, Client, dataThread

LEMMA BufferInvariantHolds == Spec => []BufferInv
<1>1. Init => BufferInv
  <2> SUFFICES ASSUME Init PROVE BufferInv
    OBVIOUS
  <2>1. Open = <<>> /\ events = <<>> /\ completed = <<>>  BY DEF Init, Open
  <2>2. given.tokens = {} /\ given.last = 0 /\ nextToken = 1 /\ since = 1  BY DEF Init
  <2>3. ToSet(<<>>) = {} /\ TokenSet(<<>>) = {}  BY ToSetEmpty DEF TokenSet
  <2>4. Library(<<>>, <<>>, <<>>) = {}  BY <2>3 DEF Library
  <2>5. InOrder(<<>>, <<>>, 0)  BY <2>3 DEF InOrder
  <2>6. Apart(<<>>, <<>>, <<>>, {})  BY <2>3 DEF Apart, Ascending
  <2>7. Older(<<>>, <<>>, <<>>, given, 1)  BY <2>2, <2>4 DEF Older
  <2>8. Sound(Open, events, completed, given, nextToken)
    BY <2>1, <2>2, <2>5, <2>6, <2>7 DEF Sound
  <2>9. NoneLost  BY <2>2 DEF NoneLost
  <2> QED BY <2>8, <2>9 DEF BufferInv
<1> QED BY <1>1, BufferStep, InvariantHolds, PTL DEF Spec

(* The trace the client gets is the one on the wire: a buffer holds the    *)
(* data of its own read, and data reach WaitForEvent in the order of the   *)
(* reads, for any number of buffers, restarts and sessions.                *)
THEOREM TraceInOrder == Spec => []StreamIntact
<1>1. BufferInv => StreamIntact
  BY DEF BufferInv, Sound, InOrder, StreamIntact
<1> QED BY <1>1, BufferInvariantHolds, PTL

(* A buffer belongs to one queue or to the client, and without a fault     *)
(* none is lost.                                                           *)
THEOREM NoBufferLost == Spec => []BuffersAccounted
<1>1. ASSUME TypeOK, BufferInv PROVE BuffersAccounted
  <2> DEFINE toks == Tokens(completed)
             a == queued \o pending
             b == a \o events
             held == b \o toks
  <2>1. /\ queued \in Seq(Buf) /\ pending \in Seq(Buf) /\ events \in Seq(Buf)
        /\ completed \in Seq(Completion) /\ Open \in Seq(Buf)
    BY <1>1, BufferTypes
  <2>2. Apart(Open, events, completed, given.tokens) /\ NoneLost  BY <1>1 DEF BufferInv, Sound
  <2>3. /\ toks \in Seq(Buf) /\ ToSet(toks) = TokenSet(completed)
        /\ \A i, j \in DOMAIN toks : toks[i] = toks[j] => i = j
    <3>1. DOMAIN completed = 1 .. Len(completed) /\ Len(completed) \in Nat  BY <2>1
    <3>2. toks = [i \in 1 .. Len(completed) |-> completed[i].token]  BY <3>1 DEF Tokens
    <3>3. ASSUME NEW i \in 1 .. Len(completed) PROVE completed[i].token \in Buf
      <4>1. completed[i] \in Completion  BY <2>1, <3>1
      <4> QED BY <4>1 DEF Completion
    <3>4. toks \in Seq(Buf)  BY <3>1, <3>2, <3>3
    <3>5. ToSet(toks) = TokenSet(completed)  BY <3>1, <3>2 DEF ToSet, TokenSet
    <3>6. \A i, j \in DOMAIN toks : toks[i] = toks[j] => i = j  BY <2>2, <3>1, <3>2 DEF Apart
    <3> QED BY <3>4, <3>5, <3>6
  <2>4. ToSet(Open) = ToSet(pending) \cup ToSet(queued)  BY <2>1, ToSetConcat DEF Open
  <2>5. \A i, j \in DOMAIN Open : Open[i] = Open[j] => i = j
    <3>1. Open \in Seq(Nat)  BY <2>1, BufSeq, Zenon
    <3> QED BY <2>2, <3>1, AscendingDistinct DEF Apart
  <2>6. /\ \A i, j \in DOMAIN queued : queued[i] = queued[j] => i = j
        /\ \A i, j \in DOMAIN pending : pending[i] = pending[j] => i = j
        /\ ToSet(queued) \cap ToSet(pending) = {}
    BY <2>1, <2>5, ConcatSplits DEF Open
  <2>7. \A i, j \in DOMAIN events : events[i] = events[j] => i = j
    <3>1. events \in Seq(Nat)  BY <2>1, BufSeq, Zenon
    <3> QED BY <2>2, <3>1, AscendingDistinct DEF Apart
  <2> HIDE DEF toks
  <2>8. /\ a \in Seq(Buf) /\ ToSet(a) = ToSet(Open)
        /\ \A i, j \in DOMAIN a : a[i] = a[j] => i = j
    <3>1. /\ queued \o pending \in Seq(Buf)
          /\ ToSet(queued \o pending) = ToSet(queued) \cup ToSet(pending)
          /\ \A i, j \in DOMAIN (queued \o pending) :
                (queued \o pending)[i] = (queued \o pending)[j] => i = j
      BY ONLY <2>1, <2>6, ConcatDistinct
    <3> QED BY <2>4, <3>1
  <2> HIDE DEF a
  <2>9. ToSet(a) \cap ToSet(events) = {}  BY <2>2, <2>8 DEF Apart
  <2>10. /\ b \in Seq(Buf) /\ ToSet(b) = ToSet(Open) \cup ToSet(events)
         /\ \A i, j \in DOMAIN b : b[i] = b[j] => i = j
    <3>1. a \in Seq(Buf) /\ \A i, j \in DOMAIN a : a[i] = a[j] => i = j  BY <2>8
    <3>2. /\ b \in Seq(Buf) /\ ToSet(b) = ToSet(a) \cup ToSet(events)
          /\ \A i, j \in DOMAIN b : b[i] = b[j] => i = j
      BY <2>1, <2>7, <2>9, <3>1, ConcatDistinct
    <3> QED BY <2>8, <3>2, Zenon
  <2> HIDE DEF b
  <2>11. ToSet(b) \cap ToSet(toks) = {}  BY <2>2, <2>3, <2>10 DEF Apart
  <2>12. /\ ToSet(held) = ToSet(b) \cup ToSet(toks)
         /\ \A i, j \in DOMAIN held : held[i] = held[j] => i = j
    BY <2>3, <2>10, <2>11, ConcatDistinct
  <2>13. ToSet(held) = Library(Open, events, completed)  BY <2>3, <2>10, <2>12 DEF Library
  <2>14. BuffersAccounted <=>
           /\ \A i, j \in DOMAIN held : held[i] = held[j] => i = j
           /\ ToSet(held) \cap given.tokens = {}
           /\ ~faulty /\ cpc \notin {"drain", "detachDevice"} =>
                  since .. nextToken - 1 \subseteq ToSet(held) \cup given.tokens
    BY Zenon DEF BuffersAccounted, a, b, toks
  <2> HIDE DEF held
  <2>15. ToSet(held) \cap given.tokens = {}  BY <2>2, <2>13 DEF Apart
  <2>16. ~faulty /\ cpc \notin {"drain", "detachDevice"} =>
            since .. nextToken - 1 \subseteq ToSet(held) \cup given.tokens
    BY <2>2, <2>13 DEF NoneLost
  <2> QED BY <2>12, <2>14, <2>15, <2>16, Zenon
<1> QED BY <1>1, InvariantHolds, BufferInvariantHolds, PTL
=============================================================================
