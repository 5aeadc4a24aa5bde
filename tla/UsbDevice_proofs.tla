--------------------------- MODULE UsbDevice_proofs ---------------------------
(***************************************************************************)
(* Theorems about UsbDevice for any number of endpoints, threads and       *)
(* tokens and any MAX_IN_FLIGHT.                                           *)
(***************************************************************************)
EXTENDS UsbDevice, SequenceFacts, FiniteSetTheorems

(* What the two ways of collecting a transfer give back and leave behind. *)
LEMMA GiveType ==
    ASSUME TypeOK, NEW i \in DOMAIN completed, Give(completed[i])
    PROVE  reported' \in Seq(ReportedTransfer)
<1>1. completed[i] \in CompletedTransfer  BY DEF TypeOK
<1>2. completed[i].token \in Token  BY <1>1 DEF CompletedTransfer
<1>3. map_libusb_status(completed[i].status) \in Status
  BY DEF map_libusb_status, Status
<1>4. [token |-> completed[i].token, status |-> map_libusb_status(completed[i].status)]
        \in ReportedTransfer
  BY <1>2, <1>3 DEF ReportedTransfer
<1> QED BY <1>4 DEF Give, TypeOK

(* Every transfer libusb may finish was accepted for some endpoint. *)
LEMMA ReadyIsAccepted ==
    ASSUME TypeOK, NEW i \in Ready
    PROVE  bus[i] \in Accepted /\ bus[i] \in Token /\ epOf[bus[i]] \in Endpoint
<1>1. i \in DOMAIN bus  BY DEF Ready
<1>2. bus[i] \in ToSet(bus)  BY <1>1 DEF ToSet
<1> QED BY <1>1, <1>2 DEF TypeOK, Accepted

(* Tokens are finite in number, so an endpoint's book has a size. *)
LEMMA TokensFinite ==
    ASSUME NEW T, T \subseteq Token
    PROVE  IsFiniteSet(T) /\ Cardinality(T) \in Nat
<1>1. IsFiniteSet(Token)  BY ConstantsAssumption, FS_Interval DEF Token
<1> QED BY <1>1, FS_Subset, FS_CardinalityType

(* Every action keeps the type invariant. *)
LEMMA TypeStep == TypeOK /\ [Next]_vars => TypeOK'
<1> SUFFICES ASSUME TypeOK, [Next]_vars PROVE TypeOK'
  OBVIOUS
<1> USE DEF TypeOK
<1>1. ASSUME NEW c \in Thread, NEW e \in Endpoint, submitTransfer(c, e) PROVE TypeOK'
  <2>1. nextToken \in Token  BY <1>1, ConstantsAssumption DEF submitTransfer, Token
  <2>2. nextToken' \in 0 .. MaxToken  BY <1>1, ConstantsAssumption DEF submitTransfer
  <2>3. epOf' \in [Token -> Endpoint \cup {None}]  BY <1>1, <2>1 DEF submitTransfer
  <2>4. Accepted' = Accepted \cup {nextToken}
    BY <1>1, <2>1, ConstantsAssumption DEF submitTransfer, Accepted
  <2>5. Accepted' \subseteq 0 .. nextToken' - 1
    BY <1>1, <2>1, <2>2, <2>4 DEF submitTransfer
  <2>6. /\ queued' \in Seq(Token) /\ bus' \in Seq(Token)
        /\ ToSet(bus') \cup ToSet(queued') \subseteq Accepted'
        /\ epInFlight' \in [Endpoint -> SUBSET Token]
        /\ inFlightTransfers' \in Int
    <3>1. CASE Cardinality(epInFlight[e]) < MaxInFlight
      <4>1. bus' = Append(bus, nextToken) /\ queued' = queued
        BY <1>1, <3>1 DEF submitTransfer
      <4>2. epInFlight' = [epInFlight EXCEPT ![e] = @ \cup {nextToken}]
        BY <1>1, <3>1 DEF submitTransfer
      <4>3. inFlightTransfers' = inFlightTransfers + 1
        BY <1>1, <3>1 DEF submitTransfer
      <4>4. ToSet(bus') = ToSet(bus) \cup {nextToken}  BY <4>1, ToSetAppend
      <4> QED BY <2>1, <2>4, <4>1, <4>2, <4>3, <4>4
    <3>2. CASE ~(Cardinality(epInFlight[e]) < MaxInFlight)
      <4>1. queued' = Append(queued, nextToken)
        BY <1>1, <3>2 DEF submitTransfer, Park
      <4>2. UNCHANGED <<epInFlight, inFlightTransfers, bus>>
        BY <1>1, <3>2 DEF submitTransfer
      <4>3. ToSet(queued') = ToSet(queued) \cup {nextToken}  BY <4>1, ToSetAppend
      <4> QED BY <2>1, <2>4, <4>1, <4>2, <4>3
    <3> QED BY <3>1, <3>2
  <2>7. pc' \in [Thread -> PC] /\ arg' \in [Thread -> Token \cup {-1}]
    BY <1>1, <2>1 DEF submitTransfer, threadVars, PC
  <2> QED BY <1>1, <2>2, <2>3, <2>5, <2>6, <2>7 DEF submitTransfer
<1>2. ASSUME NEW c \in Thread, submitThrows(c) PROVE TypeOK'
  BY <1>2, ConstantsAssumption DEF submitThrows, queueVars, libusbVars, threadVars, Accepted
<1>3. ASSUME NEW c \in Thread, cancelTransfers(c) PROVE TypeOK'
  <2>1. [i \in DOMAIN queued |-> [token |-> queued[i], status |-> "CANCELLED"]]
          \in Seq(CompletedTransfer)
    <3>1. Len(queued) \in Nat /\ DOMAIN queued = 1 .. Len(queued)
      OBVIOUS
    <3>2. \A i \in 1 .. Len(queued) :
            [token |-> queued[i], status |-> "CANCELLED"] \in CompletedTransfer
      BY DEF LibusbStatus, CompletedTransfer
    <3> QED BY <3>1, <3>2, IsASeq
  <2>2. completed' \in Seq(CompletedTransfer)  BY <1>3, <2>1 DEF cancelTransfers
  <2>3. cancelled' \subseteq Token  BY <1>3 DEF cancelTransfers
  <2>4. queued' = <<>> /\ ToSet(queued') = {}  BY <1>3 DEF cancelTransfers, ToSet
  <2> QED BY <1>3, <2>2, <2>3, <2>4 DEF cancelTransfers, threadVars, Accepted
<1>4. ASSUME NEW c \in TokenCaller, completeTransfer_forToken(c) PROVE TypeOK'
  <2>0. c \in Thread  BY DEF Thread
  <2>1. CASE /\ pc' = [pc EXCEPT ![c] = "events"] /\ completedFlag' = FALSE
             /\ UNCHANGED <<completed, arg, reported>>
    BY <1>4, <2>0, <2>1 DEF completeTransfer_forToken, libusbVars, PC, Accepted
  <2>2. ASSUME NEW i \in DOMAIN completed, Give(completed[i]), completed' = Rotate(i),
               pc' = [pc EXCEPT ![c] = "idle"], arg' = [arg EXCEPT ![c] = -1],
               UNCHANGED completedFlag
        PROVE  TypeOK'
    <3>1. reported' \in Seq(ReportedTransfer)  BY <2>2, GiveType
    <3>2. completed' \in Seq(CompletedTransfer)  BY <2>2, RotateFacts DEF Rotate, RotateAt
    <3>3. pc' \in [Thread -> PC] /\ arg' \in [Thread -> Token \cup {-1}]
      BY <2>2, <2>0 DEF PC
    <3> QED BY <1>4, <2>2, <3>1, <3>2, <3>3
               DEF completeTransfer_forToken, libusbVars, Accepted
  <2> QED BY <1>4, <2>1, <2>2 DEF completeTransfer_forToken
<1>5. ASSUME NEW c \in Reaper, completeTransfer(c) PROVE TypeOK'
  <2>0. c \in Thread  BY DEF Thread
  <2>1. CASE completed # <<>>
    <3>1. 1 \in DOMAIN completed /\ Give(completed[1]) /\ completed' = Tail(completed)
      BY <1>5, <2>1 DEF completeTransfer
    <3>2. reported' \in Seq(ReportedTransfer)  BY <3>1, GiveType
    <3>3. completed' \in Seq(CompletedTransfer)  BY <2>1, <3>1
    <3>4. pc' \in [Thread -> PC]  BY <1>5, <2>0, <2>1 DEF completeTransfer, PC
    <3> QED BY <1>5, <2>1, <3>2, <3>3, <3>4 DEF completeTransfer, libusbVars, Accepted
  <2>2. CASE completed = <<>>
    BY <1>5, <2>0, <2>2 DEF completeTransfer, libusbVars, PC, Accepted
  <2> QED BY <2>1, <2>2
<1>6. ASSUME NEW c \in Thread, EnterEvents(c) PROVE TypeOK'
  BY <1>6 DEF EnterEvents, LoopHead, queueVars, PC, Accepted
<1>7. ASSUME NEW c \in Thread, Dispatch(c) PROVE TypeOK'
  <2>1. PICK i \in Ready, r \in Refusal, s \in LibusbStatus : transfer_complete(i, s, r)
    BY <1>7 DEF Dispatch, Finish, LibusbStatus
  <2> DEFINE t == bus[i]
             e == epOf[t]
             found == t \in epInFlight[e]
             n == Refill(Cardinality(Erase(e, t)))
             k == IF r < n THEN r ELSE n
             d == IF r < n THEN 1 ELSE 0
             sent == SubSeq(queued, 1, k)
  <2>2. t \in Token /\ e \in Endpoint /\ i \in DOMAIN bus
    BY ReadyIsAccepted DEF Ready
  <2>3. k \in Nat /\ k <= Len(queued) /\ d \in {0, 1}
    <3>1. Cardinality(Erase(e, t)) \in Nat  BY <2>2, TokensFinite DEF Erase
    <3>2. r \in Nat /\ MaxInFlight \in Nat /\ Len(queued) \in Nat
      BY ConstantsAssumption
    <3>3. n \in Nat /\ n <= Len(queued)  BY <3>1, <3>2 DEF Refill
    <3> QED BY <3>2, <3>3
  <2>4. sent \in Seq(Token) /\ ToSet(sent) \subseteq ToSet(queued)
    BY <2>3, SubSeqFacts
  <2>5. /\ completed' = Collect(t, s, found)
        /\ completedFlag' = (found \/ completedFlag)
        /\ inFlightTransfers' = Recount(found, k)
        /\ epInFlight' = [epInFlight EXCEPT ![e] = Erase(e, t) \cup ToSet(sent)]
        /\ bus' = RemoveAt(bus, i) \o sent
        /\ queued' = SubSeq(queued, k + 1 + d, Len(queued))
        /\ UNCHANGED <<nextToken, epOf, cancelled, reported>>
    BY <2>1 DEF transfer_complete
  <2> HIDE DEF k, d, sent, n
  <2>6. queued' \in Seq(Token) /\ ToSet(queued') \subseteq ToSet(queued)
    BY <2>3, <2>5, SubSeqFacts
  <2>7. RemoveAt(bus, i) \in Seq(Token) /\ ToSet(RemoveAt(bus, i)) \subseteq ToSet(bus)
    BY <2>2, RemoveAtFacts, RemoveAtSubset
  <2>8. bus' \in Seq(Token) /\ ToSet(bus') \subseteq ToSet(bus) \cup ToSet(queued)
    BY <2>4, <2>5, <2>7, ToSetConcat
  <2>9. completed' \in Seq(CompletedTransfer)
    <3>1. [token |-> t, status |-> s] \in CompletedTransfer  BY <2>2 DEF CompletedTransfer
    <3> QED BY <2>5, <3>1 DEF Collect
  <2>10. epInFlight' \in [Endpoint -> SUBSET Token]
    <3>1. ToSet(sent) \subseteq Token /\ Erase(e, t) \subseteq Token
      BY <2>2, <2>4 DEF Erase, Accepted
    <3> QED BY <2>2, <2>5, <3>1
  <2>11. inFlightTransfers' \in Int /\ completedFlag' \in BOOLEAN
    BY <2>3, <2>5 DEF Recount
  <2>12. pc' \in [Thread -> PC] /\ UNCHANGED <<eventsLock, arg>>
    BY <1>7 DEF Dispatch, PC
  <2>13. Accepted' = Accepted  BY <2>5 DEF Accepted
  <2> QED BY <2>5, <2>6, <2>8, <2>9, <2>10, <2>11, <2>12, <2>13
<1>8. ASSUME NEW c \in Thread, NEW p \in PC, Leave(c, p) PROVE TypeOK'
  BY <1>8 DEF Leave, LoopHead, queueVars, PC, Accepted
<1>9. CASE UNCHANGED vars
  BY <1>9 DEF vars, queueVars, libusbVars, threadVars, Accepted
<1> QED
  BY <1>1, <1>2, <1>3, <1>4, <1>5, <1>6, <1>7, <1>8, <1>9
     DEF Next, LeaveEvents, PollTimeout, Interrupted, LoopHead, PC, Thread

(* The device's containers, counters and per-thread state stay well typed  *)
(* for every number of endpoints, threads and submissions.                 *)
THEOREM TypeCorrect == Spec => []TypeOK
<1>1. ASSUME Init PROVE TypeOK
  <2>1. MaxToken \in Nat  BY ConstantsAssumption
  <2>2. nextToken \in 0 .. MaxToken /\ Accepted \subseteq 0 .. nextToken - 1
    BY <1>1, <2>1 DEF Init, Accepted, Token
  <2>3. queued \in Seq(Token) /\ bus \in Seq(Token)  BY <1>1 DEF Init
  <2>4. completed \in Seq(CompletedTransfer)  BY <1>1 DEF Init
  <2>5. reported \in Seq(ReportedTransfer)  BY <1>1 DEF Init
  <2>6. pc \in [Thread -> PC] /\ arg \in [Thread -> Token \cup {-1}]
    BY <1>1 DEF Init, PC
  <2>7. ToSet(bus) = {} /\ ToSet(queued) = {}  BY <1>1 DEF Init, ToSet
  <2>8. ToSet(bus) \cup ToSet(queued) \subseteq Accepted  BY <2>7
  <2>9. /\ epOf \in [Token -> Endpoint \cup {None}]
        /\ epInFlight \in [Endpoint -> SUBSET Token]
    BY <1>1 DEF Init
  <2>10. inFlightTransfers \in Int  BY <1>1 DEF Init
  <2>11. completedFlag \in BOOLEAN  BY <1>1 DEF Init
  <2>12. cancelled \subseteq Token /\ eventsLock \in Thread \cup {None}  BY <1>1 DEF Init
  <2> QED BY <2>2, <2>3, <2>4, <2>5, <2>6, <2>8, <2>9, <2>10, <2>11, <2>12 DEF TypeOK
<1>2. Init => TypeOK  BY <1>1
<1> QED BY <1>2, TypeStep, PTL DEF Spec

-----------------------------------------------------------------------------
(* Adding a transfer with a new token to a list of transfers. *)
LEMMA TokensAppend ==
    ASSUME NEW S, NEW s \in Seq(S), NEW x
    PROVE  /\ TokensOf(Append(s, x)) = TokensOf(s) \cup {x.token}
           /\ DistinctTokens(s) /\ x.token \notin TokensOf(s) => DistinctTokens(Append(s, x))
<1>1. ToSet(Append(s, x)) = ToSet(s) \cup {x}  BY ToSetAppend
<1>2. ASSUME DistinctTokens(s), x.token \notin TokensOf(s) PROVE DistinctTokens(Append(s, x))
  <2>1. \A i \in DOMAIN s : s[i].token # x.token  BY <1>2 DEF TokensOf, ToSet
  <2> QED BY <1>2, <2>1 DEF DistinctTokens
<1> QED BY <1>1, <1>2 DEF TokensOf

(* Taking the transfer at position i out of a list, rotating the list. *)
LEMMA TokensRotate ==
    ASSUME NEW S, NEW s \in Seq(S), NEW i \in DOMAIN s, DistinctTokens(s)
    PROVE  /\ TokensOf(RotateAt(s, i)) = TokensOf(s) \ {s[i].token}
           /\ DistinctTokens(RotateAt(s, i))
<1> DEFINE r == RotateAt(s, i)
           m == Len(s)
<1>1. i \in 1 .. m /\ m \in Nat /\ DOMAIN s = 1 .. m  OBVIOUS
<1>2. DOMAIN r = 1 .. m - 1  BY <1>1, RotateFacts
<1>3. \A j \in 1 .. m - 1 : r[j] = IF j <= m - i THEN s[i + j] ELSE s[j - (m - i)]
  BY RotateFacts
<1> HIDE DEF r, m
<1>4. \A j \in 1 .. m - 1 :
        /\ j <= m - i => i + j \in 1 .. m /\ i + j # i
        /\ ~(j <= m - i) => j - (m - i) \in 1 .. m /\ j - (m - i) # i
  BY <1>1
<1>5. DistinctTokens(r)
  <2> SUFFICES ASSUME NEW a \in 1 .. m - 1, NEW b \in 1 .. m - 1, r[a].token = r[b].token
               PROVE  a = b
    BY <1>2 DEF DistinctTokens
  <2> DEFINE at(j) == IF j <= m - i THEN i + j ELSE j - (m - i)
  <2>1. \A j \in 1 .. m - 1 : at(j) \in DOMAIN s /\ r[j] = s[at(j)]  BY <1>1, <1>3, <1>4
  <2>2. at(a) = at(b)  BY <2>1 DEF DistinctTokens
  <2> QED BY <1>1, <1>4, <2>2
<1>6. ASSUME NEW x \in TokensOf(s) \ {s[i].token} PROVE x \in TokensOf(r)
  <2>1. PICK j \in 1 .. m : x = s[j].token  BY <1>1 DEF TokensOf, ToSet
  <2>2. j # i  BY <2>1
  <2>3. CASE j > i
    <3>1. j - i \in 1 .. m - 1 /\ j - i <= m - i /\ i + (j - i) = j  BY <1>1, <2>3
    <3>2. r[j - i] = s[j]  BY <1>3, <3>1
    <3> QED BY <1>2, <2>1, <3>1, <3>2 DEF TokensOf, ToSet
  <2>4. CASE j < i
    <3>1. /\ j + (m - i) \in 1 .. m - 1
          /\ ~(j + (m - i) <= m - i) /\ (j + (m - i)) - (m - i) = j
      BY <1>1, <2>4
    <3>2. r[j + (m - i)] = s[j]  BY <1>3, <3>1
    <3> QED BY <1>2, <2>1, <3>1, <3>2 DEF TokensOf, ToSet
  <2> QED BY <1>1, <2>2, <2>3, <2>4
<1>7. ASSUME NEW x \in TokensOf(r) PROVE x \in TokensOf(s) /\ x # s[i].token
  <2>1. PICK j \in 1 .. m - 1 : x = r[j].token  BY <1>2 DEF TokensOf, ToSet
  <2>2. PICK l \in DOMAIN s : x = s[l].token /\ l # i  BY <1>1, <1>3, <1>4, <2>1
  <2>3. x # s[i].token  BY <2>2 DEF DistinctTokens
  <2> QED BY <2>2, <2>3 DEF TokensOf, ToSet
<1> QED BY <1>5, <1>6, <1>7 DEF r

(* completeTransfer() takes the first completed transfer. *)
LEMMA TokensTail ==
    ASSUME NEW S, NEW s \in Seq(S), s # <<>>, DistinctTokens(s)
    PROVE  /\ TokensOf(Tail(s)) = TokensOf(s) \ {Head(s).token}
           /\ DistinctTokens(Tail(s))
<1>1. 1 \in DOMAIN s /\ Head(s) = s[1]  OBVIOUS
<1>2. RotateAt(s, 1) = Tail(s)
  <2>1. SubSeq(s, 1, 0) = <<>>  BY SubSeqEmpty
  <2>2. SubSeq(s, 2, Len(s)) = Tail(s)  BY TailIsSubSeq
  <2> QED BY <2>1, <2>2 DEF RotateAt
<1> QED BY <1>1, <1>2, TokensRotate

(* Giving back the transfer at position i of the completed list: both      *)
(* collecting calls keep the account straight.                             *)
LEMMA GiveBackStep ==
    ASSUME TypeOK, EveryTokenAccounted, NEW i \in DOMAIN completed, Give(completed[i]),
           TokensOf(completed') = TokensOf(completed) \ {completed[i].token},
           DistinctTokens(completed'),
           UNCHANGED <<epOf, queued, epInFlight, inFlightTransfers, bus>>
    PROVE  /\ EveryTokenAccounted'
           /\ TokensOf(reported') = TokensOf(reported) \cup {completed[i].token}
<1> DEFINE x == [token |-> completed[i].token, status |-> map_libusb_status(completed[i].status)]
<1>1. completed[i].token \in TokensOf(completed)  BY DEF TokensOf, ToSet
<1>2. reported' = Append(reported, x) /\ x.token = completed[i].token  BY DEF Give
<1>3. x.token \notin TokensOf(reported)  BY <1>1, <1>2 DEF EveryTokenAccounted
<1>4. TokensOf(reported') = TokensOf(reported) \cup {completed[i].token}
  BY <1>2, TokensAppend DEF TypeOK
<1>5. DistinctTokens(reported')  BY <1>2, <1>3, TokensAppend DEF TypeOK, EveryTokenAccounted
<1> QED BY <1>1, <1>4, <1>5
           DEF EveryTokenAccounted, BookMatchesLibusb, Accepted, Distinct

(* With callers within the limit an endpoint always has room. *)
LEMMA RoomOnEndpoint ==
    ASSUME Burst <= MaxInFlight, TypeOK, EveryTokenAccounted, NEW e \in Endpoint,
           Cardinality(OutstandingOn(e)) < Burst
    PROVE  Cardinality(epInFlight[e]) < MaxInFlight
<1>1. epInFlight[e] \subseteq OutstandingOn(e)
  BY DEF EveryTokenAccounted, BookMatchesLibusb, OutstandingOn, Outstanding
<1>2. OutstandingOn(e) \subseteq Token  BY DEF OutstandingOn, Outstanding, Accepted
<1>3. IsFiniteSet(OutstandingOn(e)) /\ Cardinality(OutstandingOn(e)) \in Nat
  BY <1>2, TokensFinite
<1>4. Cardinality(epInFlight[e]) <= Cardinality(OutstandingOn(e)) /\ Cardinality(epInFlight[e]) \in Nat
  BY <1>1, <1>2, <1>3, FS_Subset, TokensFinite
<1> QED BY <1>3, <1>4, ConstantsAssumption

(* What a submit call does then. *)
LEMMA SubmitEffect ==
    ASSUME Burst <= MaxInFlight, TypeOK, EveryTokenAccounted,
           NEW c \in Thread, NEW e \in Endpoint, submitTransfer(c, e)
    PROVE  /\ nextToken \in Token \ Accepted
           /\ epOf' = [epOf EXCEPT ![nextToken] = e]
           /\ Accepted' = Accepted \cup {nextToken}
           /\ epInFlight' = [epInFlight EXCEPT ![e] = @ \cup {nextToken}]
           /\ bus' = Append(bus, nextToken)
           /\ inFlightTransfers' = inFlightTransfers + 1
           /\ UNCHANGED <<queued, completed, reported>>
<1>1. Cardinality(epInFlight[e]) < MaxInFlight  BY RoomOnEndpoint DEF submitTransfer
<1>2. nextToken \in Token  BY ConstantsAssumption DEF submitTransfer, TypeOK, Token
<1>3. nextToken \notin Accepted  BY DEF TypeOK
<1>4. epOf' = [epOf EXCEPT ![nextToken] = e]  BY DEF submitTransfer
<1>5. Accepted' = Accepted \cup {nextToken}
  BY <1>2, <1>4, ConstantsAssumption DEF TypeOK, Accepted
<1> QED BY <1>1, <1>2, <1>3, <1>4, <1>5 DEF submitTransfer

(* What the completion callback does then. *)
LEMMA CallbackEffect ==
    ASSUME TypeOK, EveryTokenAccounted, NEW i \in Ready, NEW r \in Refusal,
           NEW s \in LibusbStatus, transfer_complete(i, s, r)
    PROVE  /\ bus' = RemoveAt(bus, i)
           /\ completed' = Append(completed, [token |-> bus[i], status |-> s])
           /\ epInFlight' = [epInFlight EXCEPT ![epOf[bus[i]]] = @ \ {bus[i]}]
           /\ inFlightTransfers' = inFlightTransfers - 1
           /\ UNCHANGED <<queued, epOf, nextToken, reported>>
<1> DEFINE t == bus[i]
           e == epOf[t]
           n == Refill(Cardinality(Erase(e, t)))
           k == IF r < n THEN r ELSE n
           d == IF r < n THEN 1 ELSE 0
<1>1. t \in Token /\ e \in Endpoint /\ i \in DOMAIN bus
  BY ReadyIsAccepted DEF Ready
<1>2. t \in epInFlight[e]
  BY <1>1 DEF EveryTokenAccounted, BookMatchesLibusb, ToSet
<1>3. queued = <<>> /\ Len(queued) = 0  BY DEF EveryTokenAccounted
<1>4. k = 0 /\ d = 0
  <2>1. Cardinality(Erase(e, t)) \in Nat  BY <1>1, TokensFinite DEF Erase, TypeOK
  <2>2. n = 0  BY <1>3, <2>1, ConstantsAssumption DEF Refill
  <2>3. r \in Nat  BY ConstantsAssumption
  <2> QED BY <2>2, <2>3
<1>5. /\ completed' = Collect(t, s, t \in epInFlight[e])
      /\ inFlightTransfers' = Recount(t \in epInFlight[e], k)
      /\ epInFlight' = [epInFlight EXCEPT ![e] = Erase(e, t) \cup ToSet(SubSeq(queued, 1, k))]
      /\ bus' = RemoveAt(bus, i) \o SubSeq(queued, 1, k)
      /\ queued' = SubSeq(queued, k + 1 + d, Len(queued))
      /\ UNCHANGED <<nextToken, epOf, reported>>
  BY DEF transfer_complete
<1> HIDE DEF k, d, n
<1>6. SubSeq(queued, 1, k) = <<>> /\ queued' = queued
  BY <1>3, <1>4, <1>5, SubSeqEmpty
<1>7. ToSet(SubSeq(queued, 1, k)) = {}  BY <1>6, ToSetEmpty
<1>8. RemoveAt(bus, i) \in Seq(Token)  BY <1>1, RemoveAtFacts DEF TypeOK
<1>9. bus' = RemoveAt(bus, i)  BY <1>5, <1>6, <1>8, ConcatEmptySeq
<1>10. epInFlight' = [epInFlight EXCEPT ![e] = @ \ {t}]
  BY <1>5, <1>7 DEF Erase
<1>11. inFlightTransfers' = inFlightTransfers - 1
  BY <1>2, <1>4, <1>5 DEF Recount, TypeOK
<1>12. completed' = Append(completed, [token |-> t, status |-> s])
  BY <1>2, <1>5 DEF Collect
<1> QED BY <1>5, <1>6, <1>9, <1>10, <1>11, <1>12

(* A step that leaves the containers alone keeps the account. *)
LEMMA AccountedFrame ==
    ASSUME EveryTokenAccounted, UNCHANGED <<epOf, queueVars, bus, reported>>
    PROVE  EveryTokenAccounted'
<1>1. UNCHANGED <<epOf, queued, epInFlight, inFlightTransfers, completed, bus, reported>>
  BY DEF queueVars
<1>2. BookMatchesLibusb'  BY <1>1 DEF EveryTokenAccounted, BookMatchesLibusb
<1>3. Accepted' = Accepted  BY <1>1 DEF Accepted
<1>4. TokensOf(completed)' = TokensOf(completed) /\ TokensOf(reported)' = TokensOf(reported)
  BY <1>1
<1>5. Distinct(bus)' /\ DistinctTokens(completed)' /\ DistinctTokens(reported)'
  BY <1>1 DEF EveryTokenAccounted, Distinct, DistinctTokens
<1> QED BY <1>1, <1>2, <1>3, <1>4, <1>5 DEF EveryTokenAccounted

(* Every action keeps the account. *)
LEMMA AccountedStep ==
    ASSUME Burst <= MaxInFlight
    PROVE  TypeOK /\ EveryTokenAccounted /\ [Next]_vars => EveryTokenAccounted'
<1> SUFFICES ASSUME TypeOK, EveryTokenAccounted, [Next]_vars PROVE EveryTokenAccounted'
  OBVIOUS
<1>1. ASSUME NEW c \in Thread, NEW e \in Endpoint, submitTransfer(c, e)
      PROVE EveryTokenAccounted'
  <2>1. /\ nextToken \in Token \ Accepted
        /\ epOf' = [epOf EXCEPT ![nextToken] = e]
        /\ Accepted' = Accepted \cup {nextToken}
        /\ epInFlight' = [epInFlight EXCEPT ![e] = @ \cup {nextToken}]
        /\ bus' = Append(bus, nextToken)
        /\ inFlightTransfers' = inFlightTransfers + 1
        /\ UNCHANGED <<queued, completed, reported>>
    BY <1>1, SubmitEffect
  <2>2. ToSet(bus') = ToSet(bus) \cup {nextToken} /\ nextToken \notin ToSet(bus)
    BY <2>1, ToSetAppend DEF TypeOK
  <2>3. Distinct(bus')  BY <2>1, <2>2 DEF TypeOK, Distinct, EveryTokenAccounted, ToSet
  <2>4. Len(bus') = Len(bus) + 1  BY <2>1 DEF TypeOK
  <2>5. BookMatchesLibusb'
    BY <2>1, <2>2 DEF BookMatchesLibusb, EveryTokenAccounted, TypeOK, Accepted
  <2>6. TokensOf(completed)' = TokensOf(completed) /\ TokensOf(reported)' = TokensOf(reported)
    BY <2>1
  <2>7. DistinctTokens(completed)' /\ DistinctTokens(reported)'
    BY <2>1 DEF EveryTokenAccounted, DistinctTokens
  <2> QED BY <2>1, <2>2, <2>3, <2>4, <2>5, <2>6, <2>7 DEF EveryTokenAccounted, TypeOK
<1>2. ASSUME NEW c \in Thread, submitThrows(c) PROVE EveryTokenAccounted'
  BY <1>2, AccountedFrame DEF submitThrows, libusbVars
<1>3. ASSUME NEW c \in Thread, cancelTransfers(c) PROVE EveryTokenAccounted'
  <2>1. queued = <<>> /\ DOMAIN queued = {}  BY DEF EveryTokenAccounted
  <2>2. [i \in DOMAIN queued |-> [token |-> queued[i], status |-> "CANCELLED"]] = <<>>
    BY <2>1
  <2>3. completed' = completed  BY <1>3, <2>2 DEF cancelTransfers, TypeOK
  <2>4. queued' = queued  BY <1>3, <2>1 DEF cancelTransfers
  <2> QED BY <1>3, <2>3, <2>4, AccountedFrame DEF cancelTransfers, queueVars
<1>4. ASSUME NEW c \in TokenCaller, completeTransfer_forToken(c) PROVE EveryTokenAccounted'
  <2>1. CASE UNCHANGED <<completed, arg, reported>>
    BY <1>4, <2>1, AccountedFrame DEF completeTransfer_forToken, libusbVars, queueVars
  <2>2. ASSUME NEW i \in DOMAIN completed, Give(completed[i]), completed' = Rotate(i)
        PROVE  EveryTokenAccounted'
    <3>1. completed' = RotateAt(completed, i)  BY <2>2 DEF Rotate, RotateAt
    <3>2. /\ TokensOf(completed') = TokensOf(completed) \ {completed[i].token}
          /\ DistinctTokens(completed')
      BY <3>1, TokensRotate DEF TypeOK, EveryTokenAccounted
    <3>3. UNCHANGED <<epOf, queued, epInFlight, inFlightTransfers, bus>>
      BY <1>4 DEF completeTransfer_forToken, libusbVars
    <3> QED BY <2>2, <3>2, <3>3, GiveBackStep
  <2> QED BY <1>4, <2>1, <2>2 DEF completeTransfer_forToken
<1>5. ASSUME NEW c \in Reaper, completeTransfer(c) PROVE EveryTokenAccounted'
  <2>1. CASE completed = <<>>
    BY <1>5, <2>1, AccountedFrame DEF completeTransfer, libusbVars, queueVars
  <2>2. CASE completed # <<>>
    <3>1. 1 \in DOMAIN completed /\ Head(completed) = completed[1]  BY <2>2 DEF TypeOK
    <3>2. Give(completed[1]) /\ completed' = Tail(completed)
      BY <1>5, <2>2, <3>1 DEF completeTransfer
    <3>3. /\ TokensOf(completed') = TokensOf(completed) \ {completed[1].token}
          /\ DistinctTokens(completed')
      BY <2>2, <3>1, <3>2, TokensTail DEF TypeOK, EveryTokenAccounted
    <3>4. UNCHANGED <<epOf, queued, epInFlight, inFlightTransfers, bus>>
      BY <1>5 DEF completeTransfer, libusbVars
    <3> QED BY <3>1, <3>2, <3>3, <3>4, GiveBackStep
  <2> QED BY <2>1, <2>2
<1>6. ASSUME NEW c \in Thread, Dispatch(c) PROVE EveryTokenAccounted'
  <2>1. PICK i \in Ready, r \in Refusal, s \in LibusbStatus : transfer_complete(i, s, r)
    BY <1>6 DEF Dispatch, Finish, LibusbStatus
  <2> DEFINE t == bus[i]
             x == [token |-> t, status |-> s]
  <2>2. t \in Accepted /\ t \in Token /\ epOf[t] \in Endpoint /\ i \in DOMAIN bus
    BY ReadyIsAccepted DEF Ready
  <2>3. /\ bus' = RemoveAt(bus, i)
        /\ completed' = Append(completed, x)
        /\ epInFlight' = [epInFlight EXCEPT ![epOf[t]] = @ \ {t}]
        /\ inFlightTransfers' = inFlightTransfers - 1
        /\ UNCHANGED <<queued, epOf, nextToken, reported>>
    BY <2>1, CallbackEffect
  <2>4. t \in ToSet(bus)  BY <2>2 DEF ToSet
  <2>5. ToSet(bus') = ToSet(bus) \ {t} /\ Distinct(bus') /\ Len(bus') = Len(bus) - 1
    <3>1. bus \in Seq(Token) /\ i \in DOMAIN bus  BY <2>2 DEF TypeOK
    <3>2. \A a, b \in DOMAIN bus : bus[a] = bus[b] => a = b
      BY DEF EveryTokenAccounted, Distinct
    <3>3. /\ ToSet(RemoveAt(bus, i)) = ToSet(bus) \ {bus[i]}
          /\ \A a, b \in DOMAIN RemoveAt(bus, i) :
                RemoveAt(bus, i)[a] = RemoveAt(bus, i)[b] => a = b
      BY <3>1, <3>2, RemoveAtDistinct
    <3>4. Len(RemoveAt(bus, i)) = Len(bus) - 1  BY <3>1, RemoveAtFacts
    <3>5. Distinct(RemoveAt(bus, i))  BY <3>3 DEF Distinct
    <3> QED BY <2>3, <3>3, <3>4, <3>5
  <2>6. x.token = t /\ t \notin TokensOf(completed)
    BY <2>4 DEF EveryTokenAccounted
  <2>7. TokensOf(completed') = TokensOf(completed) \cup {t} /\ DistinctTokens(completed')
    BY <2>3, <2>6, TokensAppend DEF TypeOK, EveryTokenAccounted
  <2>8. BookMatchesLibusb'
    BY <2>2, <2>3, <2>5 DEF BookMatchesLibusb, EveryTokenAccounted, TypeOK
  <2>9. Accepted' = Accepted  BY <2>3 DEF Accepted
  <2>10. TokensOf(reported') = TokensOf(reported) /\ DistinctTokens(reported')
    BY <2>3 DEF EveryTokenAccounted
  <2> QED BY <2>3, <2>4, <2>5, <2>7, <2>8, <2>9, <2>10 DEF EveryTokenAccounted
<1>7. CASE UNCHANGED <<epOf, queueVars, bus, reported>>
  BY <1>7, AccountedFrame
<1>8. ASSUME NEW c \in Thread, EnterEvents(c) \/ LeaveEvents(c) \/ PollTimeout(c) \/ Interrupted(c)
      PROVE  UNCHANGED <<epOf, queueVars, bus, reported>>
  BY <1>8 DEF EnterEvents, LeaveEvents, PollTimeout, Interrupted, Leave
<1>9. CASE UNCHANGED vars
  BY <1>7, <1>9 DEF vars, libusbVars
<1> QED BY <1>1, <1>2, <1>3, <1>4, <1>5, <1>6, <1>7, <1>8, <1>9 DEF Next, Thread

(* As long as the callers stay within MAX_IN_FLIGHT (CSWP's do: one        *)
(* command and one response, or 11 data buffers and one control read),     *)
(* every accepted token is in exactly one place, whatever the threads,     *)
(* libusb, cancellations and interrupted polls do.                         *)
THEOREM TokensAccounted ==
    ASSUME Burst <= MaxInFlight
    PROVE  Spec => []EveryTokenAccounted
<1>1. Init => EveryTokenAccounted
  <2> SUFFICES ASSUME Init PROVE EveryTokenAccounted
    OBVIOUS
  <2>1. ToSet(bus) = {} /\ ToSet(completed) = {} /\ ToSet(reported) = {}
    BY DEF Init, ToSet
  <2>2. TokensOf(completed) = {} /\ TokensOf(reported) = {}  BY <2>1 DEF TokensOf
  <2>3. Distinct(bus) /\ DistinctTokens(completed) /\ DistinctTokens(reported)
    BY DEF Init, Distinct, DistinctTokens
  <2>4. Accepted = {}  BY DEF Init, Accepted
  <2>5. BookMatchesLibusb  BY <2>1 DEF Init, BookMatchesLibusb
  <2> QED BY <2>1, <2>2, <2>3, <2>4, <2>5 DEF Init, EveryTokenAccounted
<1>2. TypeOK /\ EveryTokenAccounted /\ [Next]_vars => EveryTokenAccounted'
  BY AccountedStep
<1> QED BY <1>1, <1>2, TypeCorrect, PTL DEF Spec

(* No completion is lost then: what the caller waits for is with libusb or *)
(* ready to be collected.                                                  *)
THEOREM CompletionsKept ==
    ASSUME Burst <= MaxInFlight
    PROVE  Spec => []NoLostCompletion
<1>1. EveryTokenAccounted => NoLostCompletion
  BY DEF EveryTokenAccounted, NoLostCompletion, Outstanding
<1> QED BY <1>1, TokensAccounted, PTL

-----------------------------------------------------------------------------
(* A list without repeated tokens has as many tokens as entries. *)
LEMMA CountTokens ==
    ASSUME NEW s \in Seq(CompletedTransfer), DistinctTokens(s)
    PROVE  IsFiniteSet(TokensOf(s)) /\ Cardinality(TokensOf(s)) = Len(s)
<1> DEFINE f == [i \in 1 .. Len(s) |-> s[i].token]
<1>1. Len(s) \in Nat /\ DOMAIN s = 1 .. Len(s)  OBVIOUS
<1>2. IsFiniteSet(1 .. Len(s)) /\ Cardinality(1 .. Len(s)) = Len(s)
  BY <1>1, FS_Interval
<1>3. f \in Bijection(1 .. Len(s), TokensOf(s))
  BY <1>1 DEF Bijection, Injection, Surjection, IsInjective, TokensOf, ToSet, DistinctTokens
<1>4. ExistsBijection(1 .. Len(s), TokensOf(s))  BY <1>3 DEF ExistsBijection
<1> QED BY <1>2, <1>4, FS_Bijection, FS_SameCardinalityBij, FS_CardinalityType

(* A sequence without repetitions is as long as its set of elements. *)
LEMMA CountBus ==
    ASSUME NEW s \in Seq(Token), Distinct(s)
    PROVE  IsFiniteSet(ToSet(s)) /\ Cardinality(ToSet(s)) = Len(s)
<1>1. Len(s) \in Nat /\ DOMAIN s = 1 .. Len(s)  OBVIOUS
<1>2. IsFiniteSet(1 .. Len(s)) /\ Cardinality(1 .. Len(s)) = Len(s)
  BY <1>1, FS_Interval
<1>3. s \in Bijection(1 .. Len(s), ToSet(s))
  BY <1>1 DEF Bijection, Injection, Surjection, IsInjective, ToSet, Distinct
<1>4. ExistsBijection(1 .. Len(s), ToSet(s))  BY <1>3 DEF ExistsBijection
<1> QED BY <1>2, <1>4, FS_Bijection, FS_SameCardinalityBij, FS_CardinalityType

(* pendingTransfers() is the number of transfers submitted and not yet     *)
(* given back, as its documentation says, as long as callers stay within   *)
(* MAX_IN_FLIGHT.                                                          *)
THEOREM PendingCounts ==
    ASSUME Burst <= MaxInFlight
    PROVE  Spec => []PendingIsOutstanding
<1>1. TypeOK /\ EveryTokenAccounted => PendingIsOutstanding
  <2> SUFFICES ASSUME TypeOK, EveryTokenAccounted PROVE PendingIsOutstanding
    OBVIOUS
  <2>1. IsFiniteSet(ToSet(bus)) /\ Cardinality(ToSet(bus)) = Len(bus)
    BY CountBus DEF TypeOK, EveryTokenAccounted
  <2>2. IsFiniteSet(TokensOf(completed)) /\ Cardinality(TokensOf(completed)) = Len(completed)
    BY CountTokens DEF TypeOK, EveryTokenAccounted
  <2>3. Outstanding = ToSet(bus) \cup TokensOf(completed)
    BY DEF Outstanding, EveryTokenAccounted
  <2>4. ToSet(bus) \cap TokensOf(completed) = {}  BY DEF EveryTokenAccounted
  <2>5. Cardinality(ToSet(bus) \cup TokensOf(completed))
          = Cardinality(ToSet(bus)) + Cardinality(TokensOf(completed))
    <3>1. Cardinality(ToSet(bus) \cap TokensOf(completed)) = 0  BY <2>4, FS_EmptySet
    <3>2. Cardinality(ToSet(bus) \cup TokensOf(completed))
            = Cardinality(ToSet(bus)) + Cardinality(TokensOf(completed))
              - Cardinality(ToSet(bus) \cap TokensOf(completed))
      BY <2>1, <2>2, FS_Union
    <3>3. Cardinality(ToSet(bus)) \in Nat /\ Cardinality(TokensOf(completed)) \in Nat
      BY <2>1, <2>2, FS_CardinalityType
    <3> QED BY <3>1, <3>2, <3>3
  <2>6. Len(queued) = 0 /\ inFlightTransfers = Len(bus)  BY DEF EveryTokenAccounted
  <2> QED BY <2>1, <2>2, <2>3, <2>5, <2>6 DEF PendingIsOutstanding, pendingTransfers, TypeOK
<1> QED BY <1>1, TokensAccounted, TypeCorrect, PTL

-----------------------------------------------------------------------------
(* The tokens the device still holds, when nothing is parked. *)
LEMMA HeldTokens ==
    TypeOK /\ EveryTokenAccounted => Held = ToSet(bus) \cup TokensOf(completed)
<1> SUFFICES ASSUME TypeOK, EveryTokenAccounted
             PROVE  Held = ToSet(bus) \cup TokensOf(completed)
  OBVIOUS
<1>1. ToSet(queued) = {}  BY ToSetEmpty DEF EveryTokenAccounted
<1>2. UNION { epInFlight[e] : e \in Endpoint } = ToSet(bus)
  <2>1. \A t \in ToSet(bus) : epOf[t] \in Endpoint  BY DEF TypeOK, Accepted
  <2>2. \A e \in Endpoint : epInFlight[e] = { t \in ToSet(bus) : epOf[t] = e }
    BY DEF EveryTokenAccounted, BookMatchesLibusb
  <2>3. ASSUME NEW t \in ToSet(bus) PROVE t \in epInFlight[epOf[t]]
    BY <2>1, <2>2
  <2>4. \A e \in Endpoint : epInFlight[e] \subseteq ToSet(bus)  BY <2>2
  <2> QED BY <2>1, <2>3, <2>4
<1> QED BY <1>1, <1>2 DEF Held

(* The abstract list of returned tokens grows with the reported one. *)
LEMMA ReturnedAppend ==
    ASSUME NEW s \in Seq(ReportedTransfer), NEW x \in ReportedTransfer
    PROVE  [i \in DOMAIN Append(s, x) |-> Append(s, x)[i].token]
             = Append([i \in DOMAIN s |-> s[i].token], x.token)
<1> DEFINE a == [i \in 1 .. Len(s) |-> s[i].token]
           r == Append(s, x)
<1>1. DOMAIN s = 1 .. Len(s) /\ Len(s) \in Nat  OBVIOUS
<1>2. \A i \in 1 .. Len(s) : s[i].token \in Token
  <2>1. \A i \in 1 .. Len(s) : s[i] \in ReportedTransfer  OBVIOUS
  <2>2. \A y \in ReportedTransfer : y.token \in Token  BY DEF ReportedTransfer
  <2> QED BY <2>1, <2>2
<1>3. a \in Seq(Token)  BY <1>1, <1>2, IsASeq
<1>4. Len(a) = Len(s)  BY <1>1, <1>3
<1>5. DOMAIN r = 1 .. Len(s) + 1 /\ \A i \in 1 .. Len(s) : r[i] = s[i]  BY <1>1
<1>6. r[Len(s) + 1] = x  BY <1>1
<1>7. x.token \in Token  BY DEF ReportedTransfer
<1>8. a = [i \in DOMAIN s |-> s[i].token]  BY <1>1
<1> HIDE DEF r
<1>9. \A i \in 1 .. Len(s) : a[i] = s[i].token  OBVIOUS
<1> HIDE DEF a
<1>10. DOMAIN Append(a, x.token) = 1 .. Len(s) + 1  BY <1>1, <1>3, <1>4, <1>7
<1>11. ASSUME NEW i \in 1 .. Len(s) + 1 PROVE Append(a, x.token)[i] = r[i].token
  BY <1>1, <1>3, <1>4, <1>5, <1>6, <1>7, <1>9
<1>12. Append(a, x.token) = [i \in 1 .. Len(s) + 1 |-> r[i].token]
  BY <1>3, <1>4, <1>7, <1>10, <1>11
<1> QED BY <1>5, <1>8, <1>12 DEF r

(* A collecting call is the abstract GiveBack. *)
LEMMA GiveIsGiveBack ==
    ASSUME TypeOK, EveryTokenAccounted, Held' = ToSet(bus') \cup TokensOf(completed'),
           NEW i \in DOMAIN completed, Give(completed[i]),
           TokensOf(completed') = TokensOf(completed) \ {completed[i].token},
           UNCHANGED <<nextToken, bus>>
    PROVE  Pool!PoolNext
<1> DEFINE t == completed[i].token
           x == [token |-> t, status |-> map_libusb_status(completed[i].status)]
<1>1. completed[i] \in CompletedTransfer  BY DEF TypeOK
<1>2. t \in Token  BY <1>1 DEF CompletedTransfer
<1>3. t \in TokensOf(completed)  BY DEF TokensOf, ToSet
<1>4. t \in Held  BY <1>3, HeldTokens
<1>5. t \notin ToSet(bus)  BY <1>3 DEF EveryTokenAccounted
<1>6. Held' = Held \ {t}  BY <1>5, HeldTokens
<1>7. reported' = Append(reported, x) /\ reported \in Seq(ReportedTransfer)
  BY DEF Give, TypeOK
<1>8. x \in ReportedTransfer /\ x.token = t
  BY <1>2 DEF ReportedTransfer, Status, map_libusb_status
<1>9. [j \in DOMAIN reported' |-> reported'[j].token]
        = Append([j \in DOMAIN reported |-> reported[j].token], t)
  BY <1>7, <1>8, ReturnedAppend
<1>10. PICK u \in Token : u = t  BY <1>2
<1>11. Pool!GiveBack(u)  BY <1>4, <1>6, <1>9, <1>10 DEF Pool!GiveBack
<1> QED BY <1>11 DEF Pool!PoolNext

(* Every step of the device is a step of the promise, or none. *)
LEMMA PoolStep ==
    ASSUME Burst <= MaxInFlight
    PROVE  /\ TypeOK /\ EveryTokenAccounted /\ [Next]_vars
           /\ Held' = ToSet(bus') \cup TokensOf(completed')
           => [Pool!PoolNext]_(Pool!poolVars)
<1> SUFFICES ASSUME TypeOK, EveryTokenAccounted, [Next]_vars,
                    Held' = ToSet(bus') \cup TokensOf(completed')
             PROVE  [Pool!PoolNext]_(Pool!poolVars)
  OBVIOUS
<1>0. Held = ToSet(bus) \cup TokensOf(completed)  BY HeldTokens
<1>1. ASSUME NEW c \in Thread, NEW e \in Endpoint, submitTransfer(c, e)
      PROVE  Pool!PoolNext
  <2>1. /\ nextToken \in Token \ Accepted
        /\ bus' = Append(bus, nextToken)
        /\ UNCHANGED <<completed, reported>>
    BY <1>1, SubmitEffect
  <2>2. ToSet(bus') = ToSet(bus) \cup {nextToken}  BY <2>1, ToSetAppend DEF TypeOK
  <2>3. nextToken' = nextToken + 1 /\ nextToken \in Nat
    BY <1>1 DEF submitTransfer, TypeOK
  <2>4. 0 .. nextToken' - 1 = (0 .. nextToken - 1) \cup {nextToken} /\ nextToken \notin 0 .. nextToken - 1
    BY <2>3
  <2>5. Held' = Held \cup {nextToken}  BY <1>0, <2>1, <2>2
  <2>6. Pool!Accept(nextToken)  BY <2>1, <2>4, <2>5 DEF Pool!Accept
  <2> QED BY <2>1, <2>6 DEF Pool!PoolNext
<1>2. ASSUME NEW c \in Thread, submitThrows(c) PROVE Pool!PoolNext
  <2>1. nextToken' = nextToken + 1 /\ nextToken \in Nat /\ nextToken \in Token
    BY <1>2, ConstantsAssumption DEF submitThrows, TypeOK, Token
  <2>2. 0 .. nextToken' - 1 = (0 .. nextToken - 1) \cup {nextToken} /\ nextToken \notin 0 .. nextToken - 1
    BY <2>1
  <2>3. Held' = Held /\ reported' = reported
    BY <1>0, <1>2 DEF submitThrows, queueVars, libusbVars
  <2>4. Pool!Reject(nextToken)  BY <2>2, <2>3 DEF Pool!Reject
  <2> QED BY <2>1, <2>4 DEF Pool!PoolNext
<1>3. CASE UNCHANGED <<nextToken, completed, bus, reported>>
  <2>1. Held' = Held  BY <1>0, <1>3
  <2> QED BY <1>3, <2>1 DEF Pool!poolVars
<1>4. ASSUME NEW c \in Thread, cancelTransfers(c)
      PROVE  UNCHANGED <<nextToken, completed, bus, reported>>
  <2>1. queued = <<>> /\ DOMAIN queued = {}  BY DEF EveryTokenAccounted
  <2>2. [i \in DOMAIN queued |-> [token |-> queued[i], status |-> "CANCELLED"]] = <<>>
    BY <2>1
  <2> QED BY <1>4, <2>2 DEF cancelTransfers, TypeOK
<1>5. ASSUME NEW c \in TokenCaller, completeTransfer_forToken(c)
      PROVE  [Pool!PoolNext]_(Pool!poolVars)
  <2>0. UNCHANGED <<nextToken, bus>>  BY <1>5 DEF completeTransfer_forToken, libusbVars
  <2>1. CASE UNCHANGED <<completed, arg, reported>>
    BY <1>3, <2>0, <2>1
  <2>2. ASSUME NEW i \in DOMAIN completed, Give(completed[i]), completed' = Rotate(i)
        PROVE  Pool!PoolNext
    <3>1. completed' = RotateAt(completed, i)  BY <2>2 DEF Rotate, RotateAt
    <3>2. TokensOf(completed') = TokensOf(completed) \ {completed[i].token}
      BY <3>1, TokensRotate DEF TypeOK, EveryTokenAccounted
    <3> QED BY <2>0, <2>2, <3>2, GiveIsGiveBack
  <2> QED BY <1>5, <2>1, <2>2 DEF completeTransfer_forToken
<1>6. ASSUME NEW c \in Reaper, completeTransfer(c)
      PROVE  [Pool!PoolNext]_(Pool!poolVars)
  <2>0. UNCHANGED <<nextToken, bus>>  BY <1>6 DEF completeTransfer, libusbVars
  <2>1. CASE completed = <<>>
    BY <1>3, <1>6, <2>0, <2>1 DEF completeTransfer
  <2>2. CASE completed # <<>>
    <3>1. 1 \in DOMAIN completed /\ Head(completed) = completed[1]  BY <2>2 DEF TypeOK
    <3>2. Give(completed[1]) /\ completed' = Tail(completed)
      BY <1>6, <2>2, <3>1 DEF completeTransfer
    <3>3. TokensOf(completed') = TokensOf(completed) \ {completed[1].token}
      BY <2>2, <3>1, <3>2, TokensTail DEF TypeOK, EveryTokenAccounted
    <3> QED BY <2>0, <3>1, <3>2, <3>3, GiveIsGiveBack
  <2> QED BY <2>1, <2>2
<1>7. ASSUME NEW c \in Thread, Dispatch(c) PROVE UNCHANGED Pool!poolVars
  <2>1. PICK i \in Ready, r \in Refusal, s \in LibusbStatus : transfer_complete(i, s, r)
    BY <1>7 DEF Dispatch, Finish, LibusbStatus
  <2> DEFINE x == [token |-> bus[i], status |-> s]
  <2>2. /\ bus' = RemoveAt(bus, i) /\ completed' = Append(completed, x)
        /\ UNCHANGED <<nextToken, reported>>
    BY <2>1, CallbackEffect
  <2>3. bus \in Seq(Token) /\ i \in DOMAIN bus /\ bus[i] \in ToSet(bus)
    BY DEF Ready, TypeOK, ToSet
  <2>4. \A a, b \in DOMAIN bus : bus[a] = bus[b] => a = b
    BY DEF EveryTokenAccounted, Distinct
  <2>5. ToSet(bus') = ToSet(bus) \ {bus[i]}  BY <2>2, <2>3, <2>4, RemoveAtDistinct
  <2>6. x.token = bus[i]  OBVIOUS
  <2>7. TokensOf(completed') = TokensOf(completed) \cup {bus[i]}
    BY <2>2, <2>6, TokensAppend DEF TypeOK
  <2>8. Held' = Held  BY <1>0, <2>3, <2>5, <2>7
  <2> QED BY <2>2, <2>8 DEF Pool!poolVars
<1>8. ASSUME NEW c \in Thread, EnterEvents(c) \/ LeaveEvents(c) \/ PollTimeout(c) \/ Interrupted(c)
      PROVE  UNCHANGED <<nextToken, completed, bus, reported>>
  BY <1>8 DEF EnterEvents, LeaveEvents, PollTimeout, Interrupted, Leave, queueVars
<1>9. CASE UNCHANGED vars
  BY <1>3, <1>9 DEF vars, libusbVars, queueVars
<1> QED BY <1>1, <1>2, <1>3, <1>4, <1>5, <1>6, <1>7, <1>8, <1>9 DEF Next, Thread

(* USBDeviceLinux implements the promise of the USBDevice interface, for   *)
(* callers within MAX_IN_FLIGHT: every token is given back at most once,   *)
(* and none is dropped on the way.                                         *)
THEOREM DeviceImplementsPool ==
    ASSUME Burst <= MaxInFlight
    PROVE  Spec => ImplementsPool
<1>1. Init => Pool!PoolInit
  <2> SUFFICES ASSUME Init PROVE Pool!PoolInit
    OBVIOUS
  <2>1. 0 .. nextToken - 1 = {}  BY DEF Init
  <2>2. ToSet(queued) = {} /\ ToSet(completed) = {}  BY ToSetEmpty DEF Init
  <2>3. UNION { epInFlight[e] : e \in Endpoint } = {}  BY DEF Init
  <2>4. Held = {}  BY <2>2, <2>3 DEF Held, TokensOf
  <2>5. [i \in DOMAIN reported |-> reported[i].token] = <<>>  BY DEF Init
  <2> QED BY <2>1, <2>4, <2>5 DEF Pool!PoolInit
<1>2. TypeOK /\ EveryTokenAccounted /\ [Next]_vars /\ (Held = ToSet(bus) \cup TokensOf(completed))'
        => [Pool!PoolNext]_(Pool!poolVars)
  BY PoolStep
<1> QED BY <1>1, <1>2, HeldTokens, TypeCorrect, TokensAccounted, PTL
        DEF Spec, ImplementsPool, Pool!PoolSpec
=============================================================================
