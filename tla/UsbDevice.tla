------------------------------ MODULE UsbDevice ------------------------------
(***************************************************************************)
(* USBDeviceLinux (client/plat_usb_if/usb_device_linux.cpp): asynchronous  *)
(* transfers over libusb.  A submit call hands the transfer to libusb, or  *)
(* parks it on m_queuedTransfers when the endpoint already has MAX_IN_     *)
(* FLIGHT transfers in flight.  libusb runs the completion callback on     *)
(* whichever thread is inside libusb_handle_events_completed(); callers    *)
(* collect tokens with completeTransfer_forToken() (CSWPBase: the sending  *)
(* thread and the listen thread) or completeTransfer() (StreamingTraceUSB: *)
(* the data thread).                                                       *)
(*                                                                         *)
(* Every section under m_lock is one step; the lock is released around     *)
(* libusb_handle_events_completed(), and so is a step boundary there.  The *)
(* deques of m_epInFlightTransfers are searched, counted and cancelled as  *)
(* a whole, so they are sets here.  libusb itself is external: a list of   *)
(* submitted transfers, first-in first-out per endpoint, one event handler *)
(* at a time, the other threads woken when it leaves.                      *)
(***************************************************************************)
EXTENDS Integers, Sequences, FiniteSets, SequencesExt

CONSTANTS
    Endpoint,     \* bulk endpoints of the claimed interface
    TimedEndpoint,\* endpoints used with a 1000 ms timeout; the others wait for ever
    TokenCaller,  \* threads that submit and then call completeTransfer_forToken
    Submitter,    \* threads that only submit and cancel
    Reaper,       \* threads that call completeTransfer
    None,         \* no thread, no endpoint
    MaxInFlight,  \* MAX_IN_FLIGHT
    Burst,        \* most transfers the callers leave outstanding on an endpoint
    Refusal,      \* how many parked transfers libusb takes before refusing one
    MaxToken      \* bound: number of submit calls

Thread == TokenCaller \cup Submitter \cup Reaper
Token == 0 .. MaxToken - 1

(* Callers never mix the two ways of collecting on one device.  *)
ASSUME ConstantsAssumption ==
    /\ MaxInFlight \in Nat \ {0}
    /\ Burst \in Nat
    /\ Refusal \subseteq Nat /\ Refusal # {}
    /\ MaxToken \in Nat
    /\ IsFiniteSet(Endpoint)
    /\ TimedEndpoint \subseteq Endpoint
    /\ None \notin Thread \cup Endpoint
    /\ TokenCaller = {} \/ Reaper = {}
    /\ TokenCaller \cap Submitter = {} /\ Reaper \cap Submitter = {}

LibusbStatus == {"COMPLETED", "TIMED_OUT", "CANCELLED", "STALL", "ERROR"}
Status == {"SUCCESS", "CANCELLED", "NODATA", "ERROR"}
CompletedTransfer == [token : Token, status : LibusbStatus]
ReportedTransfer == [token : Token, status : Status]
PC == {"idle", "find", "reap", "events", "poll", "dispatched", "wait", "thrown"}

VARIABLES
    nextToken,          \* m_nextToken
    epOf,               \* libusb_transfer.endpoint of every accepted token
    queued,             \* m_queuedTransfers
    epInFlight,         \* m_epInFlightTransfers
    inFlightTransfers,  \* m_inFlightTransfers
    completed,          \* m_completedTransfers
    completedFlag,      \* m_completedFlag
    bus,                \* transfers libusb holds, in submission order
    cancelled,          \* transfers passed to libusb_cancel_transfer
    eventsLock,         \* the thread inside libusb's event handling
    pc, arg,            \* program counter and awaited token of every thread
    reported            \* tokens and statuses given back to the callers

libusbVars == <<bus, cancelled, eventsLock>>
queueVars == <<queued, epInFlight, inFlightTransfers, completed>>
threadVars == <<pc, arg>>
vars == <<nextToken, epOf, queueVars, completedFlag, libusbVars, threadVars, reported>>

Init ==
    /\ nextToken = 0
    /\ epOf = [t \in Token |-> None]
    /\ queued = <<>>
    /\ epInFlight = [e \in Endpoint |-> {}]
    /\ inFlightTransfers = 0
    /\ completed = <<>>
    /\ completedFlag = FALSE
    /\ bus = <<>>
    /\ cancelled = {}
    /\ eventsLock = None
    /\ pc = [c \in Thread |-> "idle"]
    /\ arg = [c \in Thread |-> -1]
    /\ reported = <<>>

(***************************************************************************)
(* Reading the state.                                                      *)
(***************************************************************************)
Accepted == { t \in Token : epOf[t] # None }
TokensOf(s) == { r.token : r \in ToSet(s) }
Outstanding == Accepted \ TokensOf(reported)
OutstandingOn(e) == { t \in Outstanding : epOf[t] = e }

(* pendingTransfers() *)
pendingTransfers == Len(queued) + inFlightTransfers + Len(completed)

(* map_libusb_status() *)
map_status_untimed(s) ==
    CASE s = "COMPLETED" -> "SUCCESS"
      [] s \in {"CANCELLED", "STALL"} -> "CANCELLED"
      [] OTHER -> s

map_libusb_status(s) ==
    CASE s = "COMPLETED" -> "SUCCESS"
      [] s \in {"CANCELLED", "STALL"} -> "CANCELLED"
      [] s = "TIMED_OUT" -> "NODATA"
      [] OTHER -> "ERROR"

(* Position in bus of the transfers libusb may finish next: the oldest of  *)
(* each endpoint.                                                          *)
Ready ==
    { i \in DOMAIN bus : \A j \in 1 .. i - 1 : epOf[bus[j]] # epOf[bus[i]] }

(* The statuses with which libusb may finish transfer t. *)
Finish(t) ==
    {"COMPLETED", "STALL", "ERROR"}
        \cup (IF t \in cancelled THEN {"CANCELLED"} ELSE {})
        \cup (IF epOf[t] \in TimedEndpoint THEN {"TIMED_OUT"} ELSE {})

(***************************************************************************)
(* submitTransfer() and the three public calls around it.  The token is    *)
(* taken before the arguments are checked.  A TokenCaller goes on to       *)
(* completeTransfer_forToken.                                              *)
(***************************************************************************)
ParkInFront(t) == <<t>> \o queued
Park(t) == Append(queued, t)

submitTransfer(c, e) ==
    LET t == nextToken
    IN  /\ pc[c] = "idle"
        /\ t < MaxToken
        /\ Cardinality(OutstandingOn(e)) < Burst
        /\ nextToken' = t + 1
        /\ epOf' = [epOf EXCEPT ![t] = e]
        /\ IF Cardinality(epInFlight[e]) < MaxInFlight
           THEN /\ epInFlight' = [epInFlight EXCEPT ![e] = @ \cup {t}]
                /\ inFlightTransfers' = inFlightTransfers + 1
                /\ bus' = Append(bus, t)
                /\ UNCHANGED queued
           ELSE /\ queued' = Park(t)
                /\ UNCHANGED <<epInFlight, inFlightTransfers, bus>>
        /\ IF c \in TokenCaller
           THEN /\ pc' = [pc EXCEPT ![c] = "find"]
                /\ arg' = [arg EXCEPT ![c] = t]
           ELSE UNCHANGED threadVars
        /\ UNCHANGED <<completed, completedFlag, cancelled, eventsLock, reported>>

(* A bad endpoint, size or direction, or libusb_submit_transfer() < 0. *)
submitThrows(c) ==
    /\ pc[c] = "idle"
    /\ nextToken < MaxToken
    /\ nextToken' = nextToken + 1
    /\ UNCHANGED <<epOf, queueVars, completedFlag, libusbVars, threadVars, reported>>

(***************************************************************************)
(* cancelTransfers(): asks libusb to cancel everything in flight and moves *)
(* what was queued straight to the completed list.                         *)
(***************************************************************************)
cancelTransfers(c) ==
    /\ pc[c] = "idle"
    /\ cancelled' = cancelled \cup UNION { epInFlight[e] : e \in Endpoint }
    /\ completed' = completed \o
         [i \in DOMAIN queued |-> [token |-> queued[i], status |-> "CANCELLED"]]
    /\ queued' = <<>>
    /\ UNCHANGED <<nextToken, epOf, epInFlight, inFlightTransfers, completedFlag,
                   bus, eventsLock, threadVars, reported>>

(***************************************************************************)
(* transfer_complete(): the callback for the transfer at position i of     *)
(* bus, finished with the given status.  Parked transfers fill the room    *)
(* and are booked under the completing endpoint.  If libusb refuses one    *)
(* (refusedAt parked transfers went in before it) it is freed and the      *)
(* loop stops.                                                             *)
(***************************************************************************)
(* How many parked transfers an endpoint with this many in flight takes. *)
Refill(size) ==
    IF size >= MaxInFlight THEN 0
    ELSE IF MaxInFlight - size < Len(queued) THEN MaxInFlight - size ELSE Len(queued)

EraseForgotten(e, t) == epInFlight[e]
Erase(e, t) == epInFlight[e] \ {t}

CollectSuccessOnly(t, status, found) ==
    IF found /\ status = "COMPLETED"
    THEN Append(completed, [token |-> t, status |-> status])
    ELSE completed
Collect(t, status, found) ==
    IF found THEN Append(completed, [token |-> t, status |-> status]) ELSE completed

RecountOnce(found, k) == inFlightTransfers - (IF found THEN 1 ELSE 0)
Recount(found, k) == inFlightTransfers + k - (IF found THEN 1 ELSE 0)

transfer_complete(i, status, refusedAt) ==
    LET t == bus[i]
        e == epOf[t]
        found == t \in epInFlight[e]
        rest == Erase(e, t)
        n == Refill(Cardinality(rest))
        k == IF refusedAt < n THEN refusedAt ELSE n
        dropped == IF refusedAt < n THEN 1 ELSE 0
    IN  /\ completed' = Collect(t, status, found)
        /\ completedFlag' = (found \/ completedFlag)
        /\ inFlightTransfers' = Recount(found, k)
        /\ epInFlight' = [epInFlight EXCEPT ![e] = rest \cup ToSet(SubSeq(queued, 1, k))]
        /\ bus' = RemoveAt(bus, i) \o SubSeq(queued, 1, k)
        /\ queued' = SubSeq(queued, k + 1 + dropped, Len(queued))
        /\ UNCHANGED <<nextToken, epOf, cancelled, reported>>

(***************************************************************************)
(* libusb_handle_events_completed(ctx, &m_completedFlag).  The thread      *)
(* returns at once if the flag is already set, polls if no other thread    *)
(* does, and otherwise sleeps until the polling thread leaves.             *)
(***************************************************************************)
LoopHead(c) == IF c \in TokenCaller THEN "find" ELSE "reap"

EnterEvents(c) ==
    /\ pc[c] = "events"
    /\ pc' = [pc EXCEPT ![c] = CASE completedFlag -> LoopHead(c)
                                 [] eventsLock = None -> "poll"
                                 [] OTHER -> "wait"]
    /\ eventsLock' = IF ~completedFlag /\ eventsLock = None THEN c ELSE eventsLock
    /\ UNCHANGED <<nextToken, epOf, queueVars, completedFlag, bus, cancelled, arg, reported>>

Dispatch(c) ==
    /\ pc[c] \in {"poll", "dispatched"}
    /\ \E i \in Ready, refusedAt \in Refusal :
           \E status \in Finish(bus[i]) : transfer_complete(i, status, refusedAt)
    /\ pc' = [pc EXCEPT ![c] = "dispatched"]
    /\ UNCHANGED <<eventsLock, arg>>

(* libusb_unlock_events() wakes every thread that waits for the handler. *)
Leave(c, newPc) ==
    /\ eventsLock' = None
    /\ pc' = [d \in Thread |->
                IF d = c THEN newPc
                ELSE IF pc[d] = "wait" THEN LoopHead(d) ELSE pc[d]]
    /\ UNCHANGED <<nextToken, epOf, queueVars, completedFlag, bus, cancelled, arg, reported>>

LeaveEvents(c) == pc[c] = "dispatched" /\ Leave(c, LoopHead(c))

(* libusb's own limit on one call: 60 s without an event. *)
PollTimeout(c) == pc[c] = "poll" /\ Leave(c, LoopHead(c))

(* poll() interrupted by a signal: both callers throw USBException. *)
Interrupted(c) == pc[c] = "poll" /\ Leave(c, "thrown")

(***************************************************************************)
(* completeTransfer_forToken(): scans the completed list, rotating what    *)
(* does not match to its end; forgets the flag and handles events if the   *)
(* token is not there.                                                     *)
(***************************************************************************)
RotateDropping(i) == SubSeq(completed, i + 1, Len(completed))
RotateKeeping(i) == completed
Rotate(i) == SubSeq(completed, i + 1, Len(completed)) \o SubSeq(completed, 1, i - 1)

Give(r) == reported' = Append(reported, [token |-> r.token, status |-> map_libusb_status(r.status)])

completeTransfer_forToken(c) ==
    /\ pc[c] = "find"
    /\ \/ \E i \in DOMAIN completed :
            /\ completed[i].token = arg[c]
            /\ Give(completed[i])
            /\ completed' = Rotate(i)
            /\ pc' = [pc EXCEPT ![c] = "idle"]
            /\ arg' = [arg EXCEPT ![c] = -1]
            /\ UNCHANGED completedFlag
       \/ /\ arg[c] \notin TokensOf(completed)
          /\ completedFlag' = FALSE
          /\ pc' = [pc EXCEPT ![c] = "events"]
          /\ UNCHANGED <<completed, arg, reported>>
    /\ UNCHANGED <<nextToken, epOf, queued, epInFlight, inFlightTransfers, libusbVars>>

(***************************************************************************)
(* completeTransfer(): takes the first completed transfer.  The call       *)
(* returns -1 (no step) if nothing is completed or in flight on entry;     *)
(* that test is not repeated in the loop.                                  *)
(***************************************************************************)
completeTransfer(c) ==
    /\ \/ pc[c] = "idle" /\ (completed # <<>> \/ inFlightTransfers > 0)
       \/ pc[c] = "reap"
    /\ IF completed # <<>>
       THEN /\ Give(Head(completed))
            /\ completed' = Tail(completed)
            /\ pc' = [pc EXCEPT ![c] = "idle"]
            /\ UNCHANGED completedFlag
       ELSE /\ completedFlag' = FALSE
            /\ pc' = [pc EXCEPT ![c] = "events"]
            /\ UNCHANGED <<completed, reported>>
    /\ UNCHANGED <<nextToken, epOf, queued, epInFlight, inFlightTransfers, libusbVars, arg>>

Next ==
    \/ \E c \in Thread, e \in Endpoint : submitTransfer(c, e)
    \/ \E c \in Thread : submitThrows(c)
    \/ \E c \in TokenCaller \cup Submitter : cancelTransfers(c)
    \/ \E c \in TokenCaller : completeTransfer_forToken(c)
    \/ \E c \in Reaper : completeTransfer(c)
    \/ \E c \in TokenCaller \cup Reaper :
          \/ EnterEvents(c) \/ Dispatch(c) \/ LeaveEvents(c)
          \/ PollTimeout(c) \/ Interrupted(c)

Spec == Init /\ [][Next]_vars

(* A thread inside completeTransfer_forToken keeps running, libusb finishes *)
(* what it holds (every such transfer has a timeout) and its 60 s limit     *)
(* ends a poll without events.                                              *)
Fairness ==
    \A c \in TokenCaller :
        /\ WF_vars(completeTransfer_forToken(c))
        /\ WF_vars(EnterEvents(c))
        /\ WF_vars(LeaveEvents(c))
        /\ SF_vars(Dispatch(c))
        /\ WF_vars(PollTimeout(c))

FairSpec == Spec /\ Fairness
-----------------------------------------------------------------------------
(* The members of USBDeviceLinux, libusb's list and the threads are well   *)
(* typed, and only tokens a submit call gave out are in use.               *)
TypeOK ==
    /\ nextToken \in 0 .. MaxToken
    /\ Accepted \subseteq 0 .. nextToken - 1
    /\ ToSet(bus) \cup ToSet(queued) \subseteq Accepted
    /\ epOf \in [Token -> Endpoint \cup {None}]
    /\ queued \in Seq(Token)
    /\ epInFlight \in [Endpoint -> SUBSET Token]
    /\ inFlightTransfers \in Int
    /\ completed \in Seq(CompletedTransfer)
    /\ completedFlag \in BOOLEAN
    /\ bus \in Seq(Token)
    /\ cancelled \subseteq Token
    /\ eventsLock \in Thread \cup {None}
    /\ pc \in [Thread -> PC]
    /\ arg \in [Thread -> Token \cup {-1}]
    /\ reported \in Seq(ReportedTransfer)

(* pendingTransfers() is "the number of submitted transfers that have not  *)
(* been completed" (usb_device.h): the three containers and the counter    *)
(* together account for every accepted token the callers still wait for.   *)
PendingIsOutstanding == pendingTransfers = Cardinality(Outstanding)

(* m_epInFlightTransfers books every transfer libusb holds under its own   *)
(* endpoint, and nothing else: transfer_complete() and cancelTransfers()   *)
(* can only find a transfer there.                                         *)
BookMatchesLibusb ==
    \A e \in Endpoint : epInFlight[e] = { t \in ToSet(bus) : epOf[t] = e }

Distinct(s) == \A i, j \in DOMAIN s : s[i] = s[j] => i = j
DistinctTokens(s) == \A i, j \in DOMAIN s : s[i].token = s[j].token => i = j

(* While callers leave no more than MAX_IN_FLIGHT transfers outstanding on *)
(* an endpoint, nothing is parked, the book is libusb's, and every         *)
(* accepted token is in exactly one place, once: with libusb, completed,   *)
(* or given back.  This is the inductive invariant of the proofs.          *)
EveryTokenAccounted ==
    /\ queued = <<>>
    /\ BookMatchesLibusb
    /\ Distinct(bus) /\ DistinctTokens(completed) /\ DistinctTokens(reported)
    /\ ToSet(bus) \cap TokensOf(completed) = {}
    /\ ToSet(bus) \cap TokensOf(reported) = {}
    /\ TokensOf(completed) \cap TokensOf(reported) = {}
    /\ ToSet(bus) \cup TokensOf(completed) \cup TokensOf(reported) = Accepted
    /\ inFlightTransfers = Len(bus)

(* Completion is never lost: an accepted transfer the caller still waits   *)
(* for is parked, with libusb, or ready to be collected, so that           *)
(* completeTransfer() can "return when the next read / write request       *)
(* completes" (usb_device.h).                                              *)
NoLostCompletion ==
    Outstanding \subseteq ToSet(queued) \cup ToSet(bus) \cup TokensOf(completed)

(* The transfers of an endpoint that moved data are given back in the      *)
(* order they were submitted, parked or not, cancelled neighbours or not:  *)
(* the byte stream the caller reassembles is the one on the wire.          *)
DataInOrder ==
    \A i, j \in DOMAIN reported :
        /\ i < j
        /\ reported[i].status = "SUCCESS" /\ reported[j].status = "SUCCESS"
        /\ epOf[reported[i].token] = epOf[reported[j].token]
        => reported[i].token < reported[j].token

(* completeTransfer_forToken() returns (or throws), although the flag it   *)
(* sleeps on is shared and another thread may have cleared it.             *)
CallReturns ==
    \A c \in TokenCaller : pc[c] = "find" ~> pc[c] \in {"idle", "thrown"}

(* Every token is given back exactly once, to a caller, and none vanishes. *)
Held == ToSet(queued) \cup (UNION { epInFlight[e] : e \in Endpoint }) \cup TokensOf(completed)

Pool == INSTANCE TransferPool WITH
    used <- 0 .. nextToken - 1,
    pending <- Held,
    returned <- [i \in DOMAIN reported |-> reported[i].token]

(* UsbDevice implements the promise of the USBDevice interface. *)
ImplementsPool == Pool!PoolSpec
=============================================================================
