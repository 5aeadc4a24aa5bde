------------------------ MODULE UsbDeviceOrder_proofs ------------------------
(***************************************************************************)
(* Theorems about UsbDevice as the trace client uses it: only threads in   *)
(* completeTransfer() collect.  The transfers of an endpoint that moved    *)
(* data are given back in the order of submission, when callers stay       *)
(* within MAX_IN_FLIGHT, and also when they do not, on a device with one   *)
(* endpoint whose parked transfers libusb does not refuse.                 *)
(***************************************************************************)
EXTENDS UsbDevice_proofs

(* Only transfers of the same endpoint are compared. *)
BelowOn(ep, A, B) == \A a \in A, b \in B : ep[a] = ep[b] => a < b

(* Tokens grow along a list of tokens, endpoint by endpoint. *)
Grows(ep, s) == \A i, j \in DOMAIN s : i < j /\ ep[s[i]] = ep[s[j]] => s[i] < s[j]

(* The same of the transfers with one status in a list of transfers. *)
Moved(s, ok) == { s[i].token : i \in { j \in DOMAIN s : s[j].status = ok } }
MovedGrows(ep, s, ok) ==
    \A i, j \in DOMAIN s :
        i < j /\ s[i].status = ok /\ s[j].status = ok /\ ep[s[i].token] = ep[s[j].token]
        => s[i].token < s[j].token

(* A transfer passes from queued to bus, to completed, to reported. *)
InStages(ep, R, C, B, Q) ==
    /\ BelowOn(ep, R, C \cup B \cup Q) /\ BelowOn(ep, C, B \cup Q) /\ BelowOn(ep, B, Q)

OrderInv ==
    /\ MovedGrows(epOf, reported, "SUCCESS") /\ MovedGrows(epOf, completed, "COMPLETED")
    /\ Grows(epOf, bus) /\ Grows(epOf, queued)
    /\ InStages(epOf, Moved(reported, "SUCCESS"), Moved(completed, "COMPLETED"),
                ToSet(bus), ToSet(queued))
    /\ Moved(reported, "SUCCESS") \cup Moved(completed, "COMPLETED") \subseteq Accepted

(* A submit call goes past the parked transfers of its endpoint only when  *)
(* there are none.                                                         *)
RoomMeansNoneParked ==
    \A e \in Endpoint :
        Cardinality(epInFlight[e]) < MaxInFlight => \A t \in ToSet(queued) : epOf[t] # e

-----------------------------------------------------------------------------
(* A finished transfer is put at the end of a list. *)
LEMMA MovedAppend ==
    ASSUME NEW S, NEW s \in Seq(S), NEW x, NEW ep, NEW ok, MovedGrows(ep, s, ok),
           x.status = ok => BelowOn(ep, Moved(s, ok), {x.token})
    PROVE  /\ MovedGrows(ep, Append(s, x), ok)
           /\ Moved(Append(s, x), ok)
                = Moved(s, ok) \cup (IF x.status = ok THEN {x.token} ELSE {})
<1> DEFINE r == Append(s, x)
           n == Len(s)
<1>1. /\ DOMAIN s = 1 .. n /\ DOMAIN r = 1 .. n + 1 /\ n \in Nat
      /\ r[n + 1] = x /\ \A i \in 1 .. n : r[i] = s[i]
  OBVIOUS
<1> HIDE DEF n, r
<1>2. \A i \in DOMAIN s : s[i].status = ok => s[i].token \in Moved(s, ok)  BY DEF Moved
<1>3. MovedGrows(ep, r, ok)
  <2> SUFFICES ASSUME NEW i \in DOMAIN r, NEW j \in DOMAIN r, i < j, r[i].status = ok,
                      r[j].status = ok, ep[r[i].token] = ep[r[j].token]
               PROVE  r[i].token < r[j].token
    BY DEF MovedGrows
  <2>1. i \in 1 .. n /\ (j \in 1 .. n \/ j = n + 1)  BY <1>1
  <2>2. CASE j \in 1 .. n  BY <1>1, <2>1, <2>2 DEF MovedGrows
  <2>3. CASE j = n + 1
    <3>1. r[i].token \in Moved(s, ok) /\ r[j] = x  BY <1>1, <1>2, <2>1, <2>3
    <3> QED BY <3>1 DEF BelowOn
  <2> QED BY <2>1, <2>2, <2>3
<1>4. ASSUME NEW y \in Moved(r, ok) PROVE y \in Moved(s, ok) \/ (x.status = ok /\ y = x.token)
  <2>1. PICK j \in DOMAIN r : r[j].status = ok /\ y = r[j].token  BY <1>4 DEF Moved
  <2> QED BY <1>1, <1>2, <2>1
<1>5. ASSUME NEW y \in Moved(s, ok) PROVE y \in Moved(r, ok)
  <2>1. PICK j \in DOMAIN s : s[j].status = ok /\ y = s[j].token  BY <1>5 DEF Moved
  <2>2. j \in DOMAIN r /\ r[j] = s[j]  BY <1>1
  <2> QED BY <2>1, <2>2 DEF Moved
<1>6. x.status = ok => x.token \in Moved(r, ok)
  <2>1. n + 1 \in DOMAIN r  BY <1>1
  <2> QED BY <1>1, <2>1 DEF Moved
<1> QED BY <1>3, <1>4, <1>5, <1>6 DEF r

(* The first transfer of a list is taken. *)
LEMMA MovedTail ==
    ASSUME NEW S, NEW s \in Seq(S), s # <<>>, NEW ep, NEW ok, MovedGrows(ep, s, ok)
    PROVE  /\ MovedGrows(ep, Tail(s), ok) /\ Moved(Tail(s), ok) \subseteq Moved(s, ok)
           /\ Head(s).status = ok => /\ Head(s).token \in Moved(s, ok)
                                     /\ BelowOn(ep, {Head(s).token}, Moved(Tail(s), ok))
<1> DEFINE r == Tail(s)
<1>1. /\ Head(s) = s[1] /\ 1 \in DOMAIN s
      /\ \A j \in DOMAIN r : j + 1 \in DOMAIN s /\ r[j] = s[j + 1]
  BY TailFacts
<1>2. DOMAIN s \subseteq Nat /\ DOMAIN r \subseteq Nat \ {0}  OBVIOUS
<1> HIDE DEF r
<1>3. MovedGrows(ep, r, ok)
  <2> SUFFICES ASSUME NEW i \in DOMAIN r, NEW j \in DOMAIN r, i < j, r[i].status = ok,
                      r[j].status = ok, ep[r[i].token] = ep[r[j].token]
               PROVE  r[i].token < r[j].token
    BY DEF MovedGrows
  <2>1. i + 1 < j + 1  BY <1>2
  <2> QED BY <1>1, <2>1 DEF MovedGrows
<1>4. ASSUME NEW x \in Moved(r, ok)
      PROVE  /\ x \in Moved(s, ok)
             /\ Head(s).status = ok /\ ep[Head(s).token] = ep[x] => Head(s).token < x
  <2>1. PICK j \in DOMAIN r : r[j].status = ok /\ x = r[j].token  BY <1>4 DEF Moved
  <2>2. j + 1 \in DOMAIN s /\ s[j + 1].status = ok /\ x = s[j + 1].token  BY <1>1, <2>1
  <2>3. 1 < j + 1  BY <1>2
  <2>4. x \in Moved(s, ok)  BY <2>2 DEF Moved
  <2> QED BY <1>1, <2>2, <2>3, <2>4 DEF MovedGrows
<1>5. Head(s).status = ok => Head(s).token \in Moved(s, ok)  BY <1>1 DEF Moved
<1> QED BY <1>3, <1>4, <1>5 DEF BelowOn, r

(* cancelTransfers() adds transfers that moved nothing. *)
LEMMA MovedConcat ==
    ASSUME NEW S, NEW s \in Seq(S), NEW r \in Seq(S), NEW ep, NEW ok, MovedGrows(ep, s, ok),
           \A i \in DOMAIN r : r[i].status # ok
    PROVE  MovedGrows(ep, s \o r, ok) /\ Moved(s \o r, ok) = Moved(s, ok)
<1> DEFINE c == s \o r
           n == Len(s)
<1>1. n \in Nat /\ Len(r) \in Nat /\ DOMAIN s = 1 .. n /\ DOMAIN r = 1 .. Len(r)  OBVIOUS
<1>2. /\ Len(c) = n + Len(r) /\ DOMAIN c = 1 .. Len(c)
      /\ \A i \in 1 .. n : c[i] = s[i]
      /\ \A i \in DOMAIN c : i \notin 1 .. n => c[i] = r[i - n] /\ i - n \in DOMAIN r
  <2>1. /\ c \in Seq(S) /\ Len(c) = n + Len(r)
        /\ \A i \in 1 .. Len(c) : c[i] = IF i <= n THEN s[i] ELSE r[i - n]
    BY ONLY s \in Seq(S), r \in Seq(S), ConcatProperties, Zenon
  <2> HIDE DEF c
  <2>2. DOMAIN c = 1 .. Len(c)  BY <2>1
  <2> QED BY <1>1, <2>1, <2>2
<1> HIDE DEF c, n
<1>3. ASSUME NEW i \in DOMAIN c, c[i].status = ok PROVE i \in DOMAIN s /\ c[i] = s[i]
  BY <1>1, <1>2, <1>3
<1>4. MovedGrows(ep, c, ok)  BY <1>3 DEF MovedGrows
<1>5. DOMAIN s \subseteq DOMAIN c /\ \A i \in DOMAIN s : c[i] = s[i]  BY <1>1, <1>2
<1>6. Moved(c, ok) = Moved(s, ok)  BY <1>3, <1>5 DEF Moved
<1> QED BY <1>4, <1>6 DEF c

-----------------------------------------------------------------------------
(* A transfer is taken out of libusb's list. *)
LEMMA GrowsRemove ==
    ASSUME NEW S, NEW s \in Seq(S), NEW i \in DOMAIN s, NEW ep, Grows(ep, s)
    PROVE  Grows(ep, RemoveAt(s, i))
<1> DEFINE r == RemoveAt(s, i)
           n == Len(s)
           at(j) == IF j < i THEN j ELSE j + 1
<1>1. n \in Nat /\ DOMAIN s = 1 .. n /\ i \in 1 .. n  OBVIOUS
<1>2. /\ r \in Seq(S) /\ Len(r) = n - 1
      /\ \A j \in 1 .. n - 1 : r[j] = IF j < i THEN s[j] ELSE s[j + 1]
  BY RemoveAtFacts
<1> HIDE DEF r, n
<1>0. DOMAIN r = 1 .. n - 1  BY <1>2
<1>3. \A j \in DOMAIN r : at(j) \in DOMAIN s /\ r[j] = s[at(j)]  BY <1>0, <1>1, <1>2
<1>4. \A j, l \in DOMAIN r : j < l => at(j) < at(l)  BY <1>0, <1>1
<1> HIDE DEF at
<1> QED BY <1>3, <1>4 DEF Grows, r

(* A piece of the parked transfers. *)
LEMMA GrowsPiece ==
    ASSUME NEW S, NEW s \in Seq(S), NEW ep, Grows(ep, s),
           NEW m \in Int, NEW n \in Int, 1 <= m, n <= Len(s)
    PROVE  Grows(ep, SubSeq(s, m, n))
<1> DEFINE r == SubSeq(s, m, n)
<1>1. /\ r \in Seq(S) /\ Len(r) = IF m <= n THEN n - m + 1 ELSE 0
      /\ \A j \in 1 .. n - m + 1 : r[j] = s[m + j - 1]
  BY SubSeqFacts
<1> HIDE DEF r
<1>2. Len(s) \in Nat /\ DOMAIN s = 1 .. Len(s) /\ DOMAIN r = 1 .. Len(r)  BY <1>1
<1>3. \A j \in DOMAIN r : j \in 1 .. n - m + 1 /\ m + j - 1 \in DOMAIN s /\ r[j] = s[m + j - 1]
  BY <1>1, <1>2
<1>4. \A j, l \in DOMAIN r : j < l => m + j - 1 < m + l - 1  BY <1>2
<1> QED BY <1>3, <1>4 DEF Grows, r

(* The parked transfers that go to libusb come before those that stay. *)
LEMMA PiecesBelow ==
    ASSUME NEW S, NEW s \in Seq(S), NEW ep, Grows(ep, s),
           NEW k \in Nat, k <= Len(s), NEW m \in Nat, k < m
    PROVE  BelowOn(ep, ToSet(SubSeq(s, 1, k)), ToSet(SubSeq(s, m, Len(s))))
<1>1. Len(s) \in Nat /\ DOMAIN s = 1 .. Len(s)  OBVIOUS
<1>2. ASSUME NEW x \in ToSet(SubSeq(s, 1, k)) PROVE \E i \in DOMAIN s : i <= k /\ x = s[i]
  <2>1. PICK i \in DOMAIN SubSeq(s, 1, k) : x = SubSeq(s, 1, k)[i]  BY DEF ToSet
  <2>2. /\ SubSeq(s, 1, k) \in Seq(S) /\ Len(SubSeq(s, 1, k)) = IF 1 <= k THEN k - 1 + 1 ELSE 0
        /\ \A j \in 1 .. k - 1 + 1 : SubSeq(s, 1, k)[j] = s[1 + j - 1]
    BY SubSeqFacts
  <2>3. i \in 1 .. k /\ 1 + i - 1 = i  BY <2>1, <2>2
  <2>4. x = s[i]  BY <2>1, <2>2, <2>3
  <2> QED BY <1>1, <2>3, <2>4
<1>3. ASSUME NEW x \in ToSet(SubSeq(s, m, Len(s))) PROVE \E i \in DOMAIN s : m <= i /\ x = s[i]
  <2> DEFINE r == SubSeq(s, m, Len(s))
  <2>1. PICK i \in DOMAIN r : x = r[i]  BY DEF ToSet
  <2>2. /\ r \in Seq(S) /\ Len(r) = IF m <= Len(s) THEN Len(s) - m + 1 ELSE 0
        /\ \A j \in 1 .. Len(s) - m + 1 : r[j] = s[m + j - 1]
    BY <1>1, SubSeqFacts
  <2> HIDE DEF r
  <2>3. i \in 1 .. Len(s) - m + 1 /\ m + i - 1 \in DOMAIN s /\ m <= m + i - 1
    BY <1>1, <2>1, <2>2
  <2>4. x = s[m + i - 1]  BY <2>1, <2>2, <2>3
  <2> QED BY <2>3, <2>4
<1> SUFFICES ASSUME NEW x \in ToSet(SubSeq(s, 1, k)), NEW y \in ToSet(SubSeq(s, m, Len(s))),
                    ep[x] = ep[y]
             PROVE  x < y
  BY DEF BelowOn
<1>4. PICK i \in DOMAIN s : i <= k /\ x = s[i]  BY <1>2
<1>5. PICK j \in DOMAIN s : m <= j /\ y = s[j]  BY <1>3
<1>6. i < j  BY <1>1, <1>4, <1>5
<1> QED BY <1>4, <1>5, <1>6 DEF Grows

(* They are put behind what libusb holds. *)
LEMMA GrowsConcat ==
    ASSUME NEW S, NEW s \in Seq(S), NEW r \in Seq(S), NEW ep, Grows(ep, s), Grows(ep, r),
           BelowOn(ep, ToSet(s), ToSet(r))
    PROVE  Grows(ep, s \o r)
<1> DEFINE c == s \o r
           n == Len(s)
<1>1. n \in Nat /\ Len(r) \in Nat /\ DOMAIN s = 1 .. n /\ DOMAIN r = 1 .. Len(r)  OBVIOUS
<1>2. /\ Len(c) = n + Len(r) /\ DOMAIN c = 1 .. Len(c)
      /\ \A i \in DOMAIN c : i \in 1 .. n => i \in DOMAIN s /\ c[i] = s[i]
      /\ \A i \in DOMAIN c : i \notin 1 .. n => c[i] = r[i - n] /\ i - n \in DOMAIN r
  <2>1. /\ c \in Seq(S) /\ Len(c) = n + Len(r)
        /\ \A i \in 1 .. Len(c) : c[i] = IF i <= n THEN s[i] ELSE r[i - n]
    BY ONLY s \in Seq(S), r \in Seq(S), ConcatProperties, Zenon
  <2> HIDE DEF c
  <2>2. DOMAIN c = 1 .. Len(c)  BY <2>1
  <2> QED BY <1>1, <2>1, <2>2
<1> HIDE DEF c, n
<1> SUFFICES ASSUME NEW i \in DOMAIN c, NEW j \in DOMAIN c, i < j, ep[c[i]] = ep[c[j]]
             PROVE  c[i] < c[j]
  BY DEF Grows, c
<1>3. CASE i \in 1 .. n /\ j \in 1 .. n  BY <1>2, <1>3 DEF Grows
<1>4. CASE i \in 1 .. n /\ j \notin 1 .. n
  <2>1. c[i] \in ToSet(s) /\ c[j] \in ToSet(r)  BY <1>2, <1>4 DEF ToSet
  <2> QED BY <2>1 DEF BelowOn
<1>5. CASE i \notin 1 .. n
  <2>1. j \notin 1 .. n /\ i - n < j - n  BY <1>1, <1>2, <1>5
  <2> QED BY <1>2, <1>5, <2>1 DEF Grows
<1> QED BY <1>3, <1>4, <1>5

(* A new token at the end. *)
LEMMA GrowsAppend ==
    ASSUME NEW S, NEW s \in Seq(S), NEW t, NEW ep, Grows(ep, s), BelowOn(ep, ToSet(s), {t})
    PROVE  Grows(ep, Append(s, t))
<1> DEFINE r == Append(s, t)
           n == Len(s)
<1>1. /\ DOMAIN s = 1 .. n /\ DOMAIN r = 1 .. n + 1 /\ n \in Nat
      /\ r[n + 1] = t /\ \A i \in 1 .. n : r[i] = s[i]
  OBVIOUS
<1> HIDE DEF n, r
<1> SUFFICES ASSUME NEW i \in DOMAIN r, NEW j \in DOMAIN r, i < j, ep[r[i]] = ep[r[j]]
             PROVE  r[i] < r[j]
  BY DEF Grows, r
<1>2. i \in 1 .. n /\ (j \in 1 .. n \/ j = n + 1)  BY <1>1
<1>3. CASE j \in 1 .. n  BY <1>1, <1>2, <1>3 DEF Grows
<1>4. CASE j = n + 1
  <2>1. r[i] \in ToSet(s) /\ r[j] = t  BY <1>1, <1>2, <1>4 DEF ToSet
  <2> QED BY <2>1 DEF BelowOn
<1> QED BY <1>2, <1>3, <1>4
-----------------------------------------------------------------------------
(* The endpoint of an accepted transfer never changes. *)
LEMMA SameEndpoints ==
    ASSUME TypeOK, OrderInv, NEW ep2, \A t \in Accepted : ep2[t] = epOf[t]
    PROVE  /\ MovedGrows(ep2, reported, "SUCCESS") /\ MovedGrows(ep2, completed, "COMPLETED")
           /\ Grows(ep2, bus) /\ Grows(ep2, queued)
           /\ InStages(ep2, Moved(reported, "SUCCESS"), Moved(completed, "COMPLETED"),
                       ToSet(bus), ToSet(queued))
<1> DEFINE R == Moved(reported, "SUCCESS")
           C == Moved(completed, "COMPLETED")
           B == ToSet(bus)
           Q == ToSet(queued)
<1>1. R \subseteq Accepted /\ C \subseteq Accepted /\ B \subseteq Accepted /\ Q \subseteq Accepted
  BY DEF OrderInv, TypeOK
<1>2. /\ \A i \in DOMAIN reported : reported[i].status = "SUCCESS" => reported[i].token \in R
      /\ \A i \in DOMAIN completed : completed[i].status = "COMPLETED" => completed[i].token \in C
      /\ \A i \in DOMAIN bus : bus[i] \in B
      /\ \A i \in DOMAIN queued : queued[i] \in Q
  BY DEF Moved, ToSet
<1>3. InStages(epOf, R, C, B, Q)  BY DEF OrderInv
<1> HIDE DEF R, C, B, Q
<1>4. MovedGrows(ep2, reported, "SUCCESS")  BY <1>1, <1>2 DEF OrderInv, MovedGrows
<1>5. MovedGrows(ep2, completed, "COMPLETED")  BY <1>1, <1>2 DEF OrderInv, MovedGrows
<1>6. Grows(ep2, bus) /\ Grows(ep2, queued)  BY <1>1, <1>2 DEF OrderInv, Grows
<1>7. InStages(ep2, R, C, B, Q)
  <2>1. BelowOn(ep2, R, C \cup B \cup Q)  BY <1>1, <1>3 DEF InStages, BelowOn
  <2>2. BelowOn(ep2, C, B \cup Q)  BY <1>1, <1>3 DEF InStages, BelowOn
  <2>3. BelowOn(ep2, B, Q)  BY <1>1, <1>3 DEF InStages, BelowOn
  <2> QED BY <2>1, <2>2, <2>3 DEF InStages
<1> QED BY <1>4, <1>5, <1>6, <1>7 DEF R, C, B, Q

(* The stages when a transfer is accepted, parked or not. *)
LEMMA StagesAccept ==
    ASSUME NEW ep, NEW R, NEW C, NEW B, NEW Q, NEW t, InStages(ep, R, C, B, Q),
           BelowOn(ep, R \cup C \cup B \cup Q, {t})
    PROVE  /\ InStages(ep, R, C, B, Q \cup {t})
           /\ BelowOn(ep, {t}, Q) => InStages(ep, R, C, B \cup {t}, Q)
<1>1. InStages(ep, R, C, B, Q \cup {t})
  <2>1. BelowOn(ep, R, C \cup B \cup (Q \cup {t}))  BY DEF InStages, BelowOn
  <2>2. BelowOn(ep, C, B \cup (Q \cup {t})) /\ BelowOn(ep, B, Q \cup {t})  BY DEF InStages, BelowOn
  <2> QED BY <2>1, <2>2 DEF InStages
<1>2. ASSUME BelowOn(ep, {t}, Q) PROVE InStages(ep, R, C, B \cup {t}, Q)
  <2>1. BelowOn(ep, R, C \cup (B \cup {t}) \cup Q)  BY DEF InStages, BelowOn
  <2>2. BelowOn(ep, C, (B \cup {t}) \cup Q) /\ BelowOn(ep, B \cup {t}, Q)
    BY <1>2 DEF InStages, BelowOn
  <2> QED BY <2>1, <2>2 DEF InStages
<1> QED BY <1>1, <1>2

(* The stages when libusb finishes transfer t, T are the parked transfers  *)
(* that go to libusb instead and Q2 those that stay.                       *)
LEMMA StagesFinish ==
    ASSUME NEW ep, NEW R, NEW C, NEW B, NEW Q, NEW t \in B, InStages(ep, R, C, B, Q),
           NEW D \in SUBSET {t}, NEW B2, NEW T, NEW Q2,
           B2 \subseteq B, T \subseteq Q, Q2 \subseteq Q, BelowOn(ep, {t}, B2), BelowOn(ep, T, Q2)
    PROVE  InStages(ep, R, C \cup D, B2 \cup T, Q2)
<1>1. BelowOn(ep, R, (C \cup D) \cup (B2 \cup T) \cup Q2)  BY DEF InStages, BelowOn
<1>2. BelowOn(ep, C \cup D, (B2 \cup T) \cup Q2)
  <2>1. BelowOn(ep, C, (B2 \cup T) \cup Q2)  BY DEF InStages, BelowOn
  <2>2. BelowOn(ep, D, (B2 \cup T) \cup Q2)  BY DEF InStages, BelowOn
  <2> QED BY <2>1, <2>2 DEF BelowOn
<1>3. BelowOn(ep, B2 \cup T, Q2)  BY DEF InStages, BelowOn
<1> QED BY <1>1, <1>2, <1>3 DEF InStages

(* The stages when a completed transfer is given back. *)
LEMMA StagesGive ==
    ASSUME NEW ep, NEW R, NEW C, NEW B, NEW Q, InStages(ep, R, C, B, Q),
           NEW D \in SUBSET C, NEW C2 \in SUBSET C, BelowOn(ep, D, C2)
    PROVE  InStages(ep, R \cup D, C2, B, Q)
<1>1. BelowOn(ep, R \cup D, C2 \cup B \cup Q)  BY DEF InStages, BelowOn
<1>2. BelowOn(ep, C2, B \cup Q) /\ BelowOn(ep, B, Q)  BY DEF InStages, BelowOn
<1> QED BY <1>1, <1>2 DEF InStages

(* libusb finishes the oldest transfer of an endpoint. *)
LEMMA OldestFinishes ==
    ASSUME TypeOK, Grows(epOf, bus), NEW i \in Ready
    PROVE  BelowOn(epOf, {bus[i]}, ToSet(RemoveAt(bus, i)))
<1> DEFINE r == RemoveAt(bus, i)
           n == Len(bus)
<1>1. /\ bus \in Seq(Token) /\ i \in DOMAIN bus /\ n \in Nat /\ DOMAIN bus = 1 .. n
      /\ \A j \in 1 .. i - 1 : epOf[bus[j]] # epOf[bus[i]]
  BY DEF Ready, TypeOK
<1>2. /\ r \in Seq(Token) /\ Len(r) = n - 1
      /\ \A j \in 1 .. n - 1 : r[j] = IF j < i THEN bus[j] ELSE bus[j + 1]
  BY <1>1, RemoveAtFacts
<1> HIDE DEF r, n
<1>3. DOMAIN r = 1 .. n - 1  BY <1>2
<1> SUFFICES ASSUME NEW x \in ToSet(r), epOf[bus[i]] = epOf[x] PROVE bus[i] < x
  BY DEF BelowOn, r
<1>4. PICK j \in 1 .. n - 1 : x = r[j]  BY <1>3 DEF ToSet
<1>5. CASE j < i
  <2>1. j \in 1 .. i - 1 /\ x = bus[j]  BY <1>1, <1>2, <1>4, <1>5
  <2> QED BY <1>1, <2>1
<1>6. CASE ~(j < i)
  <2>1. j + 1 \in DOMAIN bus /\ i < j + 1 /\ x = bus[j + 1]  BY <1>1, <1>2, <1>4, <1>6
  <2> QED BY <1>1, <2>1 DEF Grows
<1> QED BY <1>5, <1>6

-----------------------------------------------------------------------------
(* Submitting a transfer keeps the order. *)
LEMMA SubmitOrder ==
    ASSUME TypeOK, OrderInv, RoomMeansNoneParked,
           NEW c \in Thread, NEW e \in Endpoint, submitTransfer(c, e)
    PROVE  OrderInv'
<1> DEFINE t == nextToken
           R == Moved(reported, "SUCCESS")
           C == Moved(completed, "COMPLETED")
           B == ToSet(bus)
           Q == ToSet(queued)
<1>1. /\ t \in Token /\ epOf' = [epOf EXCEPT ![t] = e]
      /\ UNCHANGED <<completed, reported>>
  BY ConstantsAssumption DEF submitTransfer, TypeOK, Token
<1>2. t \notin Accepted /\ \A x \in Accepted : x < t  BY DEF TypeOK, Token
<1>3. Accepted' = Accepted \cup {t}  BY <1>1, ConstantsAssumption DEF TypeOK, Accepted
<1>4. (\A x \in Accepted : epOf'[x] = epOf[x]) /\ epOf'[t] = e
  BY <1>1, <1>2 DEF Accepted, TypeOK
<1>5. /\ MovedGrows(epOf', reported, "SUCCESS") /\ MovedGrows(epOf', completed, "COMPLETED")
      /\ Grows(epOf', bus) /\ Grows(epOf', queued)
      /\ InStages(epOf', R, C, B, Q)
  BY <1>4, SameEndpoints
<1>6. R \subseteq Accepted /\ C \subseteq Accepted /\ B \subseteq Accepted /\ Q \subseteq Accepted
  BY DEF OrderInv, TypeOK
<1>7. R' = R /\ C' = C  BY <1>1
<1>8. bus \in Seq(Token) /\ queued \in Seq(Token)  BY DEF TypeOK
<1>9. /\ Moved(reported', "SUCCESS") = R /\ Moved(completed', "COMPLETED") = C
      /\ MovedGrows(epOf', reported', "SUCCESS") /\ MovedGrows(epOf', completed', "COMPLETED")
  BY <1>1, <1>5
<1>10. CASE Cardinality(epInFlight[e]) < MaxInFlight
  <2>1. bus' = Append(bus, t) /\ queued' = queued  BY <1>10 DEF submitTransfer
  <2>2. \A x \in Q : epOf[x] # e  BY <1>10 DEF RoomMeansNoneParked
  <2>3. ToSet(bus') = B \cup {t} /\ ToSet(queued') = Q  BY <1>8, <2>1, ToSetAppend
  <2> HIDE DEF R, C, B, Q, t
  <2>4. BelowOn(epOf', {t}, Q)  BY <1>4, <1>6, <2>2 DEF BelowOn
  <2>5. BelowOn(epOf', R \cup C \cup B \cup Q, {t}) /\ BelowOn(epOf', B, {t})
    BY <1>2, <1>6 DEF BelowOn
  <2>6. InStages(epOf', R, C, B \cup {t}, Q)  BY <1>5, <2>4, <2>5, StagesAccept
  <2>7. Grows(epOf', bus') /\ Grows(epOf', queued')
    BY <1>5, <1>8, <2>1, <2>5, GrowsAppend DEF B
  <2> QED BY <1>3, <1>6, <1>9, <2>3, <2>6, <2>7 DEF OrderInv
<1>11. CASE ~(Cardinality(epInFlight[e]) < MaxInFlight)
  <2>1. queued' = Append(queued, t) /\ bus' = bus  BY <1>11 DEF submitTransfer, Park
  <2>2. ToSet(queued') = Q \cup {t} /\ ToSet(bus') = B  BY <1>8, <2>1, ToSetAppend
  <2> HIDE DEF R, C, B, Q, t
  <2>3. BelowOn(epOf', R \cup C \cup B \cup Q, {t}) /\ BelowOn(epOf', Q, {t})
    BY <1>2, <1>6 DEF BelowOn
  <2>4. InStages(epOf', R, C, B, Q \cup {t})  BY <1>5, <2>3, StagesAccept
  <2>5. Grows(epOf', bus') /\ Grows(epOf', queued')
    BY <1>5, <1>8, <2>1, <2>3, GrowsAppend DEF Q
  <2> QED BY <1>3, <1>6, <1>9, <2>2, <2>4, <2>5 DEF OrderInv
<1> QED BY <1>10, <1>11

(* Cancelling keeps the order of what moved data. *)
LEMMA CancelOrder ==
    ASSUME TypeOK, OrderInv, NEW c \in Thread, cancelTransfers(c)
    PROVE  OrderInv'
<1> DEFINE q == [i \in DOMAIN queued |-> [token |-> queued[i], status |-> "CANCELLED"]]
<1>1. completed' = completed \o q /\ queued' = <<>> /\ UNCHANGED <<epOf, bus, reported>>
  BY DEF cancelTransfers
<1>2. q \in Seq(CompletedTransfer)
  <2>1. Len(queued) \in Nat /\ DOMAIN queued = 1 .. Len(queued)  BY DEF TypeOK
  <2>2. \A i \in 1 .. Len(queued) :
          [token |-> queued[i], status |-> "CANCELLED"] \in CompletedTransfer
    BY DEF LibusbStatus, CompletedTransfer, TypeOK
  <2> QED BY <2>1, <2>2, IsASeq
<1>3. \A i \in DOMAIN q : q[i].status # "COMPLETED"  OBVIOUS
<1> HIDE DEF q
<1>4. /\ MovedGrows(epOf, completed', "COMPLETED")
      /\ Moved(completed', "COMPLETED") = Moved(completed, "COMPLETED")
  BY <1>1, <1>2, <1>3, MovedConcat DEF TypeOK, OrderInv
<1>5. ToSet(queued') = {} /\ Grows(epOf, queued')  BY <1>1, ToSetEmpty DEF Grows
<1>6. InStages(epOf, Moved(reported, "SUCCESS"), Moved(completed, "COMPLETED"), ToSet(bus), {})
  BY DEF OrderInv, InStages, BelowOn
<1>7. Accepted' = Accepted  BY <1>1 DEF Accepted
<1> QED BY <1>1, <1>4, <1>5, <1>6, <1>7 DEF OrderInv

(* Giving back the first completed transfer keeps the order. *)
LEMMA GiveOrder ==
    ASSUME TypeOK, OrderInv, completed # <<>>, Give(Head(completed)),
           completed' = Tail(completed), UNCHANGED <<epOf, queued, bus>>
    PROVE  OrderInv'
<1> DEFINE h == Head(completed)
           x == [token |-> h.token, status |-> map_libusb_status(h.status)]
           R == Moved(reported, "SUCCESS")
           C == Moved(completed, "COMPLETED")
           D == IF x.status = "SUCCESS" THEN {x.token} ELSE {}
<1>1. /\ completed \in Seq(CompletedTransfer) /\ reported \in Seq(ReportedTransfer)
      /\ h \in CompletedTransfer
  BY DEF TypeOK
<1>2. reported' = Append(reported, x) /\ x.token = h.token
      /\ (x.status = "SUCCESS" <=> h.status = "COMPLETED")
  BY <1>1 DEF Give, map_libusb_status, CompletedTransfer, LibusbStatus
<1>3. /\ MovedGrows(epOf, Tail(completed), "COMPLETED")
      /\ Moved(Tail(completed), "COMPLETED") \subseteq C
      /\ h.status = "COMPLETED" =>
            h.token \in C /\ BelowOn(epOf, {h.token}, Moved(Tail(completed), "COMPLETED"))
  BY <1>1, MovedTail DEF OrderInv
<1>4. InStages(epOf, R, C, ToSet(bus), ToSet(queued))  BY DEF OrderInv
<1>5. MovedGrows(epOf, reported, "SUCCESS") /\ R \cup C \subseteq Accepted  BY DEF OrderInv
<1> HIDE DEF x, h, R, C
<1>6. D \subseteq C /\ BelowOn(epOf, D, Moved(completed', "COMPLETED"))
  BY <1>2, <1>3 DEF BelowOn
<1>7. x.status = "SUCCESS" => BelowOn(epOf, R, {x.token})
  BY <1>4, <1>6 DEF InStages, BelowOn
<1>8. MovedGrows(epOf, reported', "SUCCESS") /\ Moved(reported', "SUCCESS") = R \cup D
  <2>1. x.status = "SUCCESS" => BelowOn(epOf, Moved(reported, "SUCCESS"), {x.token})
    BY <1>7 DEF R
  <2>2. /\ MovedGrows(epOf, Append(reported, x), "SUCCESS")
        /\ Moved(Append(reported, x), "SUCCESS")
             = R \cup (IF x.status = "SUCCESS" THEN {x.token} ELSE {})
    BY ONLY <1>1, <1>5, <2>1, MovedAppend DEF R
  <2> QED BY <1>2, <2>2
<1> HIDE DEF D
<1>9. InStages(epOf, R \cup D, Moved(completed', "COMPLETED"), ToSet(bus), ToSet(queued))
  BY <1>3, <1>4, <1>6, StagesGive
<1>10. Accepted' = Accepted  BY DEF Accepted
<1>11. Moved(completed', "COMPLETED") \subseteq C  BY <1>3
<1> QED BY <1>3, <1>5, <1>6, <1>8, <1>9, <1>10, <1>11 DEF OrderInv

(* The callback keeps the order, also when it submits parked transfers. *)
LEMMA CallbackOrder ==
    ASSUME TypeOK, OrderInv, NEW i \in Ready, NEW r \in Refusal, NEW s \in LibusbStatus,
           transfer_complete(i, s, r)
    PROVE  OrderInv'
<1> DEFINE t == bus[i]
           e == epOf[t]
           found == t \in epInFlight[e]
           n == Refill(Cardinality(Erase(e, t)))
           k == IF r < n THEN r ELSE n
           d == IF r < n THEN 1 ELSE 0
           sent == SubSeq(queued, 1, k)
           x == [token |-> t, status |-> s]
           R == Moved(reported, "SUCCESS")
           C == Moved(completed, "COMPLETED")
           B == ToSet(bus)
           Q == ToSet(queued)
           D == IF found /\ s = "COMPLETED" THEN {t} ELSE {}
<1>1. t \in Token /\ e \in Endpoint /\ i \in DOMAIN bus /\ t \in Accepted
  BY ReadyIsAccepted DEF Ready
<1>2. k \in Nat /\ k <= Len(queued) /\ d \in {0, 1} /\ Len(queued) \in Nat
  <2>1. Cardinality(Erase(e, t)) \in Nat  BY <1>1, TokensFinite DEF Erase, TypeOK
  <2>2. r \in Nat /\ MaxInFlight \in Nat /\ Len(queued) \in Nat
    BY ConstantsAssumption DEF TypeOK
  <2>3. n \in Nat /\ n <= Len(queued)  BY <2>1, <2>2 DEF Refill
  <2> QED BY <2>2, <2>3
<1>3. /\ completed' = Collect(t, s, found)
      /\ bus' = RemoveAt(bus, i) \o sent
      /\ queued' = SubSeq(queued, k + 1 + d, Len(queued))
      /\ UNCHANGED <<epOf, reported>>
  BY DEF transfer_complete
<1>4. /\ bus \in Seq(Token) /\ queued \in Seq(Token) /\ completed \in Seq(CompletedTransfer)
      /\ Grows(epOf, bus) /\ Grows(epOf, queued) /\ MovedGrows(epOf, completed, "COMPLETED")
      /\ MovedGrows(epOf, reported, "SUCCESS")
      /\ InStages(epOf, R, C, B, Q) /\ R \cup C \subseteq Accepted
  BY DEF TypeOK, OrderInv
<1> HIDE DEF n, k, d
<1>5. sent \in Seq(Token) /\ ToSet(sent) \subseteq Q /\ Grows(epOf, sent)
  <2>1. k \in Int /\ 1 \in Int /\ 1 <= 1 /\ k <= Len(queued)  BY <1>2
  <2>2. sent \in Seq(Token) /\ ToSet(sent) \subseteq Q  BY <1>4, <2>1, SubSeqFacts
  <2>3. Grows(epOf, sent)  BY <1>4, <2>1, GrowsPiece
  <2> QED BY <2>2, <2>3
<1>6. k + 1 + d \in Nat /\ 1 <= k + 1 + d /\ k < k + 1 + d  BY <1>2
<1>7. ToSet(queued') \subseteq Q /\ Grows(epOf, queued') /\ BelowOn(epOf, ToSet(sent), ToSet(queued'))
  <2>1. ToSet(queued') \subseteq Q  BY <1>2, <1>3, <1>4, <1>6, SubSeqFacts
  <2>2. Grows(epOf, queued')  BY <1>2, <1>3, <1>4, <1>6, GrowsPiece
  <2>3. BelowOn(epOf, ToSet(sent), ToSet(queued'))  BY <1>2, <1>3, <1>4, <1>6, PiecesBelow
  <2> QED BY <2>1, <2>2, <2>3
<1>8. /\ RemoveAt(bus, i) \in Seq(Token) /\ ToSet(RemoveAt(bus, i)) \subseteq B
      /\ Grows(epOf, RemoveAt(bus, i))
      /\ BelowOn(epOf, {t}, ToSet(RemoveAt(bus, i))) /\ t \in B
  <2>1. RemoveAt(bus, i) \in Seq(Token)  BY <1>1, <1>4, RemoveAtFacts
  <2>2. ToSet(RemoveAt(bus, i)) \subseteq B  BY <1>1, <1>4, RemoveAtSubset
  <2>3. Grows(epOf, RemoveAt(bus, i))  BY <1>1, <1>4, GrowsRemove
  <2>4. BelowOn(epOf, {t}, ToSet(RemoveAt(bus, i)))  BY <1>4, OldestFinishes
  <2>5. t \in B  BY <1>1 DEF ToSet
  <2> QED BY <2>1, <2>2, <2>3, <2>4, <2>5
<1> HIDE DEF t, sent, found, B, Q, R, C
<1>9. BelowOn(epOf, ToSet(RemoveAt(bus, i)), ToSet(sent))
  BY <1>4, <1>5, <1>8 DEF InStages, BelowOn
<1>10. Grows(epOf, bus') /\ ToSet(bus') = ToSet(RemoveAt(bus, i)) \cup ToSet(sent)
  BY <1>3, <1>5, <1>8, <1>9, GrowsConcat, ToSetConcat
<1>11. MovedGrows(epOf, completed', "COMPLETED") /\ Moved(completed', "COMPLETED") = C \cup D
  <2>1. x.token = t /\ x.status = s  OBVIOUS
  <2>2. BelowOn(epOf, C, {t})  BY <1>4, <1>8 DEF InStages, BelowOn
  <2>3. CASE found
    <3>1. completed' = Append(completed, x)  BY <1>3, <2>3 DEF Collect
    <3> HIDE DEF x
    <3>2. /\ MovedGrows(epOf, Append(completed, x), "COMPLETED")
          /\ Moved(Append(completed, x), "COMPLETED")
               = C \cup (IF x.status = "COMPLETED" THEN {x.token} ELSE {})
      <4>1. x.status = "COMPLETED" => BelowOn(epOf, Moved(completed, "COMPLETED"), {x.token})
        BY <2>1, <2>2 DEF C
      <4>2. completed \in Seq(CompletedTransfer) /\ MovedGrows(epOf, completed, "COMPLETED")
        BY <1>4
      <4> QED BY ONLY <4>1, <4>2, MovedAppend DEF C
    <3> QED BY <2>1, <2>3, <3>1, <3>2
  <2>4. CASE ~found
    <3>1. completed' = completed /\ D = {}  BY <1>3, <2>4 DEF Collect
    <3> QED BY <1>4, <3>1 DEF C
  <2> QED BY <2>3, <2>4
<1>12. D \in SUBSET {t}  OBVIOUS
<1> HIDE DEF D
<1>13. InStages(epOf, R, C \cup D, ToSet(RemoveAt(bus, i)) \cup ToSet(sent), ToSet(queued'))
  BY <1>4, <1>5, <1>7, <1>8, <1>12, StagesFinish
<1>14. Accepted' = Accepted  BY <1>3 DEF Accepted
<1>15. Moved(reported', "SUCCESS") = R /\ MovedGrows(epOf', reported', "SUCCESS") /\ epOf' = epOf
  BY <1>3, <1>4 DEF R
<1> QED BY <1>1, <1>4, <1>7, <1>10, <1>11, <1>12, <1>13, <1>14, <1>15 DEF OrderInv

(* A step that touches none of the lists. *)
LEMMA OrderFrame ==
    ASSUME OrderInv, UNCHANGED <<epOf, queued, completed, bus, reported>>
    PROVE  OrderInv'
<1>1. Accepted' = Accepted  BY DEF Accepted
<1> QED BY <1>1 DEF OrderInv

(* Every step keeps the order, if no thread picks tokens out of the        *)
(* completed list.                                                         *)
LEMMA OrderStep ==
    ASSUME TokenCaller = {}
    PROVE  TypeOK /\ RoomMeansNoneParked /\ OrderInv /\ [Next]_vars => OrderInv'
<1> SUFFICES ASSUME TypeOK, RoomMeansNoneParked, OrderInv, [Next]_vars PROVE OrderInv'
  OBVIOUS
<1>1. ASSUME NEW c \in Thread, NEW e \in Endpoint, submitTransfer(c, e) PROVE OrderInv'
  BY <1>1, SubmitOrder
<1>2. ASSUME NEW c \in Thread, cancelTransfers(c) PROVE OrderInv'
  BY <1>2, CancelOrder
<1>3. ASSUME NEW c \in Reaper, completeTransfer(c) PROVE OrderInv'
  <2>1. UNCHANGED <<epOf, queued, bus>>  BY <1>3 DEF completeTransfer, libusbVars
  <2>2. CASE completed = <<>>
    BY <1>3, <2>1, <2>2, OrderFrame DEF completeTransfer
  <2>3. CASE completed # <<>>
    BY <1>3, <2>1, <2>3, GiveOrder DEF completeTransfer
  <2> QED BY <2>2, <2>3
<1>4. ASSUME NEW c \in Thread, Dispatch(c) PROVE OrderInv'
  <2>1. PICK i \in Ready, r \in Refusal, s \in LibusbStatus : transfer_complete(i, s, r)
    BY <1>4 DEF Dispatch, Finish, LibusbStatus
  <2> QED BY <2>1, CallbackOrder
<1>5. ASSUME NEW c \in Thread,
             \/ submitThrows(c) \/ EnterEvents(c) \/ LeaveEvents(c) \/ PollTimeout(c)
             \/ Interrupted(c)
      PROVE  UNCHANGED <<epOf, queued, completed, bus, reported>>
  BY <1>5 DEF submitThrows, EnterEvents, LeaveEvents, PollTimeout, Interrupted, Leave, queueVars,
              libusbVars
<1>6. CASE UNCHANGED vars
  BY <1>6, OrderFrame DEF vars, queueVars, libusbVars
<1>7. ASSUME NEW c \in Thread,
             \/ submitThrows(c) \/ EnterEvents(c) \/ LeaveEvents(c) \/ PollTimeout(c)
             \/ Interrupted(c)
      PROVE  OrderInv'
  BY <1>5, <1>7, OrderFrame
<1> QED BY <1>1, <1>2, <1>3, <1>4, <1>6, <1>7 DEF Next, Thread

(* Nothing is submitted yet. *)
LEMMA OrderInit == Init => OrderInv
<1> SUFFICES ASSUME Init PROVE OrderInv
  OBVIOUS
<1>1. reported = <<>> /\ completed = <<>> /\ bus = <<>> /\ queued = <<>>  BY DEF Init
<1>2. \A ok : MovedGrows(epOf, <<>>, ok) /\ Moved(<<>>, ok) = {}  BY DEF MovedGrows, Moved
<1>3. Grows(epOf, <<>>)  BY DEF Grows
<1>4. InStages(epOf, {}, {}, {}, {})  BY DEF InStages, BelowOn
<1> QED BY <1>1, <1>2, <1>3, <1>4, ToSetEmpty DEF OrderInv

(* The data a thread in completeTransfer() collects from an endpoint is in *)
(* order, on any number of endpoints, as long as callers stay within       *)
(* MAX_IN_FLIGHT.                                                          *)
THEOREM DataOrderWithinLimit ==
    ASSUME TokenCaller = {}, Burst <= MaxInFlight
    PROVE  Spec => []DataInOrder
<1>1. EveryTokenAccounted => RoomMeansNoneParked
  BY ToSetEmpty DEF EveryTokenAccounted, RoomMeansNoneParked
<1>2. OrderInv => DataInOrder  BY DEF OrderInv, DataInOrder, MovedGrows
<1> QED BY <1>1, <1>2, OrderInit, OrderStep, TypeCorrect, TokensAccounted, PTL DEF Spec

-----------------------------------------------------------------------------
(***************************************************************************)
(* Transfers beyond MAX_IN_FLIGHT, on a device with one endpoint and a     *)
(* libusb that refuses none of the parked transfers: a callback takes one  *)
(* transfer off libusb and refills up to MAX_IN_FLIGHT, so transfers are   *)
(* parked only while libusb is full.                                       *)
(***************************************************************************)
OneEndpoint == \A e, f \in Endpoint : e = f
NoRefusal == \A r \in Refusal : MaxInFlight <= r

(* EveryTokenAccounted with transfers parked. *)
ParkedAccounted ==
    /\ BookMatchesLibusb
    /\ queued # <<>> => \A e \in Endpoint : MaxInFlight <= Cardinality(epInFlight[e])
    /\ Distinct(bus) /\ Distinct(queued)
    /\ DistinctTokens(completed) /\ DistinctTokens(reported)
    /\ ToSet(bus) \cap ToSet(queued) = {}
    /\ (ToSet(bus) \cup ToSet(queued)) \cap (TokensOf(completed) \cup TokensOf(reported)) = {}
    /\ TokensOf(completed) \cap TokensOf(reported) = {}
    /\ ToSet(bus) \cup ToSet(queued) \cup TokensOf(completed) \cup TokensOf(reported) = Accepted
    /\ inFlightTransfers = Len(bus)

(* The parked transfers, cut in two: what goes to libusb and what stays. *)
Cut(S, q, k, a, b) ==
    /\ a \in Seq(S) /\ b \in Seq(S) /\ Len(a) = k /\ Len(b) = Len(q) - k
    /\ Distinct(a) /\ Distinct(b)
    /\ ToSet(a) \cup ToSet(b) = ToSet(q) /\ ToSet(a) \cap ToSet(b) = {}

(* The callback cuts the queue so. *)
LEMMA CutQueue ==
    ASSUME NEW S, NEW q \in Seq(S), Distinct(q), NEW k \in 0 .. Len(q)
    PROVE  Cut(S, q, k, SubSeq(q, 1, k), SubSeq(q, k + 1, Len(q)))
<1> DEFINE a == SubSeq(q, 1, k)
           b == SubSeq(q, k + 1, Len(q))
<1>1. Len(q) \in Nat /\ k \in Int /\ k + 1 \in Int /\ 1 <= k + 1 /\ k <= Len(q)  OBVIOUS
<1>2. a \in Seq(S) /\ Len(a) = k
  <2>1. a \in Seq(S) /\ Len(a) = IF 1 <= k THEN k - 1 + 1 ELSE 0  BY <1>1, SubSeqFacts
  <2> QED BY <1>1, <2>1
<1>3. b \in Seq(S) /\ Len(b) = Len(q) - k
  <2>1. b \in Seq(S) /\ Len(b) = IF k + 1 <= Len(q) THEN Len(q) - (k + 1) + 1 ELSE 0
    BY <1>1, SubSeqFacts
  <2> QED BY <1>1, <2>1
<1>4. a \o b = q
  <2>1. 1 \in 1 .. Len(q) + 1 /\ k \in 1 - 1 .. Len(q) /\ Len(q) \in k .. Len(q)  BY <1>1
  <2>2. SubSeq(q, 1, k) \o SubSeq(q, k + 1, Len(q)) = SubSeq(q, 1, Len(q))
     BY ONLY q \in Seq(S), <2>1, ConcatAdjacentSubSeq, Zenon
  <2> QED BY <2>2, SubSeqFull
<1> HIDE DEF a, b
<1>5. \A i, j \in DOMAIN (a \o b) : (a \o b)[i] = (a \o b)[j] => i = j  BY <1>4 DEF Distinct
<1>6. Distinct(a) /\ Distinct(b) /\ ToSet(b) \cap ToSet(a) = {}
  <2>1. /\ \A i, j \in DOMAIN a : a[i] = a[j] => i = j
        /\ \A i, j \in DOMAIN b : b[i] = b[j] => i = j
        /\ ToSet(b) \cap ToSet(a) = {}
    BY ONLY <1>2, <1>3, <1>5, ConcatSplits
  <2> QED BY <2>1 DEF Distinct
<1>7. ToSet(a) \cup ToSet(b) = ToSet(q)
  <2>1. ToSet(a \o b) = ToSet(a) \cup ToSet(b)  BY ONLY <1>2, <1>3, ToSetConcat
  <2> QED BY <1>4, <2>1
<1> QED BY <1>2, <1>3, <1>6, <1>7 DEF Cut, a, b

(* cancelTransfers() puts the parked transfers behind the completed ones. *)
LEMMA TokensConcat ==
    ASSUME NEW S, NEW s \in Seq(S), NEW r \in Seq(S), DistinctTokens(s), DistinctTokens(r),
           TokensOf(s) \cap TokensOf(r) = {}
    PROVE  /\ TokensOf(s \o r) = TokensOf(s) \cup TokensOf(r)
           /\ DistinctTokens(s \o r)
<1> DEFINE c == s \o r
           n == Len(s)
<1>1. n \in Nat /\ Len(r) \in Nat /\ DOMAIN s = 1 .. n /\ DOMAIN r = 1 .. Len(r)  OBVIOUS
<1>2. ToSet(c) = ToSet(s) \cup ToSet(r)  BY ToSetConcat
<1>3. /\ Len(c) = n + Len(r) /\ DOMAIN c = 1 .. Len(c)
      /\ \A i \in DOMAIN c : i \in 1 .. n => i \in DOMAIN s /\ c[i] = s[i]
      /\ \A i \in DOMAIN c : i \notin 1 .. n => c[i] = r[i - n] /\ i - n \in DOMAIN r
  <2>1. /\ c \in Seq(S) /\ Len(c) = n + Len(r)
        /\ \A i \in 1 .. Len(c) : c[i] = IF i <= n THEN s[i] ELSE r[i - n]
    BY ONLY s \in Seq(S), r \in Seq(S), ConcatProperties, Zenon
  <2> HIDE DEF c
  <2>2. DOMAIN c = 1 .. Len(c)  BY <2>1
  <2> QED BY <1>1, <2>1, <2>2
<1> HIDE DEF c, n
<1>4. /\ \A i \in DOMAIN s : s[i].token \in TokensOf(s)
      /\ \A i \in DOMAIN r : r[i].token \in TokensOf(r)
  BY DEF TokensOf, ToSet
<1>5. ASSUME NEW i \in DOMAIN c, NEW j \in DOMAIN c, c[i].token = c[j].token PROVE i = j
  <2>1. CASE i \in 1 .. n
    <3>1. c[i].token \in TokensOf(s) /\ c[i] = s[i] /\ i \in DOMAIN s  BY <1>3, <1>4, <2>1
    <3>2. j \in 1 .. n  BY <1>3, <1>4, <1>5, <3>1
    <3> QED BY <1>3, <1>5, <3>1, <3>2 DEF DistinctTokens
  <2>2. CASE i \notin 1 .. n
    <3>1. c[i].token \in TokensOf(r) /\ c[i] = r[i - n] /\ i - n \in DOMAIN r  BY <1>3, <1>4, <2>2
    <3>2. j \notin 1 .. n  BY <1>3, <1>4, <1>5, <3>1
    <3>3. i - n = j - n  BY <1>3, <1>5, <3>1, <3>2 DEF DistinctTokens
    <3>4. i \in Int /\ j \in Int  BY <1>3
    <3> QED BY <1>1, <3>3, <3>4
  <2> QED BY <2>1, <2>2
<1>6. DistinctTokens(c)  BY <1>5 DEF DistinctTokens
<1>7. TokensOf(c) = TokensOf(s) \cup TokensOf(r)  BY <1>2 DEF TokensOf
<1> QED BY <1>6, <1>7 DEF c

(* The sets of tokens, apart and together. *)
TokensApart(B, Q, C, R, A) ==
    /\ B \cap Q = {} /\ (B \cup Q) \cap (C \cup R) = {} /\ C \cap R = {}
    /\ B \cup Q \cup C \cup R = A

(* A submit call on a device that may have to park the transfer. *)
LEMMA ParkedSubmit ==
    ASSUME TypeOK, ParkedAccounted, OneEndpoint,
           NEW c \in Thread, NEW e \in Endpoint, submitTransfer(c, e)
    PROVE  ParkedAccounted'
<1> DEFINE t == nextToken
<1>1. /\ t \in Token /\ epOf' = [epOf EXCEPT ![t] = e] /\ UNCHANGED <<completed, reported>>
  BY ConstantsAssumption DEF submitTransfer, TypeOK, Token
<1>2. t \notin Accepted  BY DEF TypeOK, Token
<1>3. Accepted' = Accepted \cup {t}  BY <1>1, ConstantsAssumption DEF TypeOK, Accepted
<1>4. /\ UNCHANGED <<TokensOf(completed), TokensOf(reported)>>
      /\ DistinctTokens(completed)' /\ DistinctTokens(reported)'
  BY <1>1 DEF ParkedAccounted
<1>5. TokensApart(ToSet(bus), ToSet(queued), TokensOf(completed), TokensOf(reported), Accepted)
  BY DEF ParkedAccounted, TokensApart
<1>6. t \notin ToSet(bus) /\ t \notin ToSet(queued)  BY <1>2, <1>5 DEF TokensApart
<1>7. bus \in Seq(Token) /\ queued \in Seq(Token) /\ Distinct(bus) /\ Distinct(queued)
      /\ epInFlight \in [Endpoint -> SUBSET Token] /\ inFlightTransfers = Len(bus)
  BY DEF TypeOK, ParkedAccounted
<1>8. CASE Cardinality(epInFlight[e]) < MaxInFlight
  <2>1. /\ bus' = Append(bus, t) /\ queued' = queued
        /\ epInFlight' = [epInFlight EXCEPT ![e] = @ \cup {t}]
        /\ inFlightTransfers' = inFlightTransfers + 1
    BY <1>8 DEF submitTransfer
  <2>2. queued = <<>>
    <3>1. Cardinality(epInFlight[e]) \in Nat  BY <1>7, TokensFinite
    <3> QED BY <1>8, <3>1, ConstantsAssumption DEF ParkedAccounted
  <2>3. ToSet(bus') = ToSet(bus) \cup {t}  BY <1>7, <2>1, ToSetAppend
  <2>4. Distinct(bus') /\ Len(bus') = Len(bus) + 1  BY <1>6, <1>7, <2>1 DEF Distinct, ToSet
  <2>5. BookMatchesLibusb'
    BY <1>1, <1>2, <1>7, <2>1, <2>3 DEF BookMatchesLibusb, ParkedAccounted, TypeOK, Accepted
  <2>6. TokensApart(ToSet(bus'), ToSet(queued'), TokensOf(completed'), TokensOf(reported'), Accepted')
    BY <1>2, <1>3, <1>4, <1>5, <2>1, <2>3 DEF TokensApart
  <2> QED BY <1>4, <1>7, <2>1, <2>2, <2>4, <2>5, <2>6 DEF ParkedAccounted, TokensApart
<1>9. CASE ~(Cardinality(epInFlight[e]) < MaxInFlight)
  <2>1. queued' = Append(queued, t) /\ UNCHANGED <<bus, epInFlight, inFlightTransfers>>
    BY <1>9 DEF submitTransfer, Park
  <2>2. ToSet(queued') = ToSet(queued) \cup {t}  BY <1>7, <2>1, ToSetAppend
  <2>3. Distinct(queued')  BY <1>6, <1>7, <2>1 DEF Distinct, ToSet
  <2>4. BookMatchesLibusb'
    BY <1>1, <1>6, <1>7, <2>1 DEF BookMatchesLibusb, ParkedAccounted, TypeOK
  <2>5. \A f \in Endpoint : MaxInFlight <= Cardinality(epInFlight'[f])
    <3>1. Cardinality(epInFlight[e]) \in Nat  BY <1>7, TokensFinite
    <3>2. MaxInFlight <= Cardinality(epInFlight'[e])  BY <1>9, <2>1, <3>1, ConstantsAssumption
    <3> QED BY <3>2 DEF OneEndpoint
  <2>6. TokensApart(ToSet(bus'), ToSet(queued'), TokensOf(completed'), TokensOf(reported'), Accepted')
    BY <1>2, <1>3, <1>4, <1>5, <2>1, <2>2 DEF TokensApart
  <2>7. Distinct(bus') /\ inFlightTransfers' = Len(bus')  BY <1>7, <2>1
  <2> QED BY <1>4, <2>3, <2>4, <2>5, <2>6, <2>7 DEF ParkedAccounted, TokensApart
<1> QED BY <1>8, <1>9

(* cancelTransfers() empties the queue into the completed list. *)
LEMMA ParkedCancel ==
    ASSUME TypeOK, ParkedAccounted, NEW c \in Thread, cancelTransfers(c)
    PROVE  ParkedAccounted'
<1> DEFINE q == [i \in DOMAIN queued |-> [token |-> queued[i], status |-> "CANCELLED"]]
<1>1. /\ completed' = completed \o q /\ queued' = <<>>
      /\ UNCHANGED <<epOf, bus, epInFlight, inFlightTransfers, reported>>
  BY DEF cancelTransfers
<1>2. q \in Seq(CompletedTransfer)
  <2>1. Len(queued) \in Nat /\ DOMAIN queued = 1 .. Len(queued)  BY DEF TypeOK
  <2>2. \A i \in 1 .. Len(queued) :
          [token |-> queued[i], status |-> "CANCELLED"] \in CompletedTransfer
    BY DEF LibusbStatus, CompletedTransfer, TypeOK
  <2> QED BY <2>1, <2>2, IsASeq
<1>3. DOMAIN q = DOMAIN queued /\ \A i \in DOMAIN queued : q[i].token = queued[i]  OBVIOUS
<1> HIDE DEF q
<1>4. TokensOf(q) = ToSet(queued)
  <2>1. ASSUME NEW x \in TokensOf(q) PROVE x \in ToSet(queued)
    <3>1. PICK i \in DOMAIN q : x = q[i].token  BY DEF TokensOf, ToSet
    <3> QED BY <1>3, <3>1 DEF ToSet
  <2>2. ASSUME NEW x \in ToSet(queued) PROVE x \in TokensOf(q)
    <3>1. PICK i \in DOMAIN queued : x = queued[i]  BY DEF ToSet
    <3>2. q[i] \in ToSet(q) /\ x = q[i].token  BY <1>3, <3>1 DEF ToSet
    <3> QED BY <3>2 DEF TokensOf
  <2> QED BY <2>1, <2>2
<1>5. DistinctTokens(q)  BY <1>3 DEF DistinctTokens, ParkedAccounted, Distinct
<1>6. TokensOf(completed) \cap TokensOf(q) = {}  BY <1>4 DEF ParkedAccounted
<1>7. TokensOf(completed') = TokensOf(completed) \cup ToSet(queued) /\ DistinctTokens(completed')
  BY <1>1, <1>2, <1>4, <1>5, <1>6, TokensConcat DEF TypeOK, ParkedAccounted
<1>8. ToSet(queued') = {} /\ Distinct(queued')  BY <1>1, ToSetEmpty DEF Distinct
<1>9. Accepted' = Accepted  BY <1>1 DEF Accepted
<1>10. BookMatchesLibusb'  BY <1>1 DEF BookMatchesLibusb, ParkedAccounted
<1>11. TokensApart(ToSet(bus), ToSet(queued), TokensOf(completed), TokensOf(reported), Accepted)
  BY DEF ParkedAccounted, TokensApart
<1>12. TokensApart(ToSet(bus'), {}, TokensOf(completed'), TokensOf(reported'), Accepted')
  BY <1>1, <1>7, <1>9, <1>11 DEF TokensApart
<1>13. /\ Distinct(bus') /\ DistinctTokens(reported') /\ inFlightTransfers' = Len(bus')
  BY <1>1 DEF ParkedAccounted
<1> QED BY <1>1, <1>7, <1>8, <1>10, <1>12, <1>13 DEF ParkedAccounted, TokensApart

(* Giving a completed transfer back, by either call. *)
LEMMA ParkedGive ==
    ASSUME TypeOK, ParkedAccounted, NEW i \in DOMAIN completed, Give(completed[i]),
           TokensOf(completed') = TokensOf(completed) \ {completed[i].token},
           DistinctTokens(completed'),
           UNCHANGED <<epOf, queued, epInFlight, inFlightTransfers, bus>>
    PROVE  ParkedAccounted'
<1> DEFINE x == [token |-> completed[i].token, status |-> map_libusb_status(completed[i].status)]
<1>1. completed[i].token \in TokensOf(completed)  BY DEF TokensOf, ToSet
<1>2. reported' = Append(reported, x) /\ x.token = completed[i].token  BY DEF Give
<1>3. x.token \notin TokensOf(reported)  BY <1>1, <1>2 DEF ParkedAccounted
<1>4. TokensOf(reported') = TokensOf(reported) \cup {completed[i].token} /\ DistinctTokens(reported')
  BY <1>2, <1>3, TokensAppend DEF TypeOK, ParkedAccounted
<1>5. TokensApart(ToSet(bus), ToSet(queued), TokensOf(completed), TokensOf(reported), Accepted)
  BY DEF ParkedAccounted, TokensApart
<1>6. Accepted' = Accepted  BY DEF Accepted
<1>7. TokensApart(ToSet(bus'), ToSet(queued'), TokensOf(completed'), TokensOf(reported'), Accepted')
  BY <1>1, <1>4, <1>5, <1>6 DEF TokensApart
<1>8. BookMatchesLibusb'  BY DEF BookMatchesLibusb, ParkedAccounted
<1>9. /\ Distinct(bus') /\ Distinct(queued') /\ inFlightTransfers' = Len(bus')
      /\ queued' # <<>> => \A e \in Endpoint : MaxInFlight <= Cardinality(epInFlight'[e])
  BY DEF ParkedAccounted
<1> QED BY <1>4, <1>7, <1>8, <1>9 DEF ParkedAccounted, TokensApart

(* The callback: one transfer leaves libusb, parked ones take its place. *)
LEMMA ParkedCallback ==
    ASSUME TypeOK, ParkedAccounted, OneEndpoint, NoRefusal,
           NEW i \in Ready, NEW r \in Refusal, NEW s \in LibusbStatus, transfer_complete(i, s, r)
    PROVE  ParkedAccounted'
<1> DEFINE t == bus[i]
           e == epOf[t]
           n == Refill(Cardinality(Erase(e, t)))
           k == IF r < n THEN r ELSE n
           d == IF r < n THEN 1 ELSE 0
           left == RemoveAt(bus, i)
           sent == SubSeq(queued, 1, n)
           x == [token |-> t, status |-> s]
<1>1. t \in Token /\ e \in Endpoint /\ i \in DOMAIN bus /\ t \in Accepted
  BY ReadyIsAccepted DEF Ready
<1>2. /\ bus \in Seq(Token) /\ queued \in Seq(Token) /\ Distinct(bus) /\ Distinct(queued)
      /\ epInFlight \in [Endpoint -> SUBSET Token] /\ inFlightTransfers = Len(bus)
      /\ completed \in Seq(CompletedTransfer) /\ DistinctTokens(completed) /\ Len(bus) \in Nat
      /\ Len(queued) \in Nat /\ MaxInFlight \in Nat \ {0} /\ r \in Nat
  BY ConstantsAssumption DEF TypeOK, ParkedAccounted
<1>3. /\ t \in ToSet(bus) /\ epInFlight[e] = ToSet(bus)
      /\ \A u \in ToSet(bus) \cup ToSet(queued) : epOf[u] = e
  <2>1. t \in ToSet(bus)  BY <1>1 DEF ToSet
  <2>2. \A u \in ToSet(bus) \cup ToSet(queued) : epOf[u] \in Endpoint  BY DEF TypeOK, Accepted
  <2>3. \A u \in ToSet(bus) \cup ToSet(queued) : epOf[u] = e  BY <1>1, <2>2 DEF OneEndpoint
  <2> QED BY <1>1, <2>1, <2>3 DEF ParkedAccounted, BookMatchesLibusb
<1>4. /\ left \in Seq(Token) /\ Len(left) = Len(bus) - 1
      /\ ToSet(left) = ToSet(bus) \ {t} /\ Distinct(left)
  <2>1. \A a, b \in DOMAIN bus : bus[a] = bus[b] => a = b  BY <1>2 DEF Distinct
  <2>2. /\ ToSet(left) = ToSet(bus) \ {t}
        /\ \A a, b \in DOMAIN left : left[a] = left[b] => a = b
    BY <1>1, <1>2, <2>1, RemoveAtDistinct
  <2>3. left \in Seq(Token) /\ Len(left) = Len(bus) - 1  BY <1>1, <1>2, RemoveAtFacts
  <2> QED BY <2>2, <2>3 DEF Distinct
<1>5. Erase(e, t) = ToSet(left) /\ Cardinality(Erase(e, t)) = Len(bus) - 1
  <2>1. Cardinality(ToSet(left)) = Len(left)  BY <1>4, CountBus
  <2> QED BY <1>3, <1>4, <2>1 DEF Erase
<1>6. Len(left) \in Nat /\ Len(left) = Len(bus) - 1  BY <1>4
<1>7. /\ n \in 0 .. Len(queued) /\ n <= MaxInFlight
      /\ n < Len(queued) => MaxInFlight <= Len(left) + n
  BY <1>2, <1>5, <1>6 DEF Refill
<1> HIDE DEF n
<1>8. k = n /\ d = 0
  <2>1. MaxInFlight <= r  BY DEF NoRefusal
  <2> QED BY <1>2, <1>7, <2>1
<1>9. /\ completed' = Collect(t, s, t \in epInFlight[e])
      /\ inFlightTransfers' = Recount(t \in epInFlight[e], k)
      /\ epInFlight' = [epInFlight EXCEPT ![e] = Erase(e, t) \cup ToSet(SubSeq(queued, 1, k))]
      /\ bus' = left \o SubSeq(queued, 1, k)
      /\ queued' = SubSeq(queued, k + 1 + d, Len(queued))
      /\ UNCHANGED <<epOf, reported>>
  BY DEF transfer_complete, n
<1> HIDE DEF k, d
<1>10. /\ completed' = Append(completed, x) /\ inFlightTransfers' = Len(left) + n
       /\ epInFlight' = [epInFlight EXCEPT ![e] = ToSet(left) \cup ToSet(sent)]
       /\ bus' = left \o sent /\ queued' = SubSeq(queued, n + 1, Len(queued))
  <2>1. completed' = Append(completed, x)  BY <1>3, <1>9 DEF Collect
  <2>2. inFlightTransfers' = Len(left) + n  BY <1>2, <1>3, <1>6, <1>7, <1>8, <1>9 DEF Recount
  <2>3. n + 1 + 0 = n + 1  BY <1>7
  <2> QED BY <1>5, <1>8, <1>9, <2>1, <2>2, <2>3
<1>11. /\ sent \in Seq(Token) /\ Len(sent) = n /\ Len(queued') = Len(queued) - n
       /\ queued' \in Seq(Token)
       /\ Distinct(sent) /\ Distinct(queued')
       /\ ToSet(sent) \cup ToSet(queued') = ToSet(queued) /\ ToSet(sent) \cap ToSet(queued') = {}
  <2> DEFINE stay == SubSeq(queued, n + 1, Len(queued))
  <2>1. queued \in Seq(Token) /\ Distinct(queued) /\ n \in 0 .. Len(queued)  BY <1>2, <1>7
  <2>2. /\ sent \in Seq(Token) /\ stay \in Seq(Token) /\ Len(sent) = n
        /\ Len(stay) = Len(queued) - n /\ Distinct(sent) /\ Distinct(stay)
        /\ ToSet(sent) \cup ToSet(stay) = ToSet(queued) /\ ToSet(sent) \cap ToSet(stay) = {}
    <3>1. Cut(Token, queued, n, sent, stay)  BY ONLY <2>1, CutQueue, Zenon DEF sent, stay
    <3> HIDE DEF sent, stay
    <3> QED BY ONLY <3>1 DEF Cut
  <2>3. queued' = stay  BY <1>10
  <2> HIDE DEF sent, stay
  <2> QED BY <2>2, <2>3
<1>12. TokensApart(ToSet(bus), ToSet(queued), TokensOf(completed), TokensOf(reported), Accepted)
  BY DEF ParkedAccounted, TokensApart
<1> HIDE DEF left, sent, t, x
<1>13. /\ bus' \in Seq(Token) /\ ToSet(bus') = ToSet(left) \cup ToSet(sent) /\ Distinct(bus')
       /\ Len(bus') = Len(left) + n
  <2>1. ToSet(left) \cap ToSet(sent) = {}  BY <1>4, <1>11, <1>12 DEF TokensApart
  <2>2. /\ left \o sent \in Seq(Token) /\ ToSet(left \o sent) = ToSet(left) \cup ToSet(sent)
        /\ \A a, b \in DOMAIN (left \o sent) : (left \o sent)[a] = (left \o sent)[b] => a = b
    <3>1. /\ \A a, b \in DOMAIN left : left[a] = left[b] => a = b
          /\ \A a, b \in DOMAIN sent : sent[a] = sent[b] => a = b
      BY <1>4, <1>11 DEF Distinct
    <3> QED BY <1>4, <1>11, <2>1, <3>1, ConcatDistinct
  <2>3. Len(left \o sent) = Len(left) + Len(sent)
    BY ONLY <1>4, <1>11, ConcatProperties, Zenon
  <2> QED BY <1>10, <1>11, <2>2, <2>3 DEF Distinct
<1>14. x.token = t /\ t \notin TokensOf(completed)
  BY <1>3, <1>12 DEF TokensApart, x
<1>15. TokensOf(completed') = TokensOf(completed) \cup {t} /\ DistinctTokens(completed')
  BY <1>2, <1>10, <1>14, TokensAppend
<1>16. Accepted' = Accepted /\ TokensOf(reported') = TokensOf(reported) /\ DistinctTokens(reported')
  BY <1>9 DEF Accepted, ParkedAccounted
<1>17. TokensApart(ToSet(bus'), ToSet(queued'), TokensOf(completed'), TokensOf(reported'), Accepted')
  BY <1>3, <1>4, <1>11, <1>12, <1>13, <1>15, <1>16 DEF TokensApart
<1>18. epInFlight'[e] = ToSet(bus')  BY <1>1, <1>2, <1>10, <1>13
<1>19. BookMatchesLibusb'
  <2>1. \A u \in ToSet(bus') : epOf'[u] = e  BY <1>3, <1>4, <1>9, <1>11, <1>13
  <2>2. \A f \in Endpoint : f = e  BY <1>1 DEF OneEndpoint
  <2> QED BY <1>18, <2>1, <2>2 DEF BookMatchesLibusb
<1>20. ASSUME queued' # <<>> PROVE \A f \in Endpoint : MaxInFlight <= Cardinality(epInFlight'[f])
  <2>1. n < Len(queued)
    <3>1. Len(queued') # 0  BY <1>11, <1>20
    <3> QED BY <1>2, <1>7, <1>11, <3>1
  <2>2. Cardinality(ToSet(bus')) = Len(bus')  BY <1>13, CountBus
  <2>3. MaxInFlight <= Cardinality(epInFlight'[e])  BY <1>7, <1>13, <1>18, <2>1, <2>2
  <2> QED BY <1>1, <2>3 DEF OneEndpoint
<1>21. inFlightTransfers' = Len(bus')  BY <1>10, <1>13
<1> QED BY <1>11, <1>13, <1>15, <1>16, <1>17, <1>19, <1>20, <1>21 DEF ParkedAccounted, TokensApart

(* A step that leaves the containers alone. *)
LEMMA ParkedFrame ==
    ASSUME ParkedAccounted, UNCHANGED <<epOf, queued, epInFlight, inFlightTransfers, completed,
                                        bus, reported>>
    PROVE  ParkedAccounted'
<1>1. BookMatchesLibusb'  BY DEF ParkedAccounted, BookMatchesLibusb
<1>2. Accepted' = Accepted  BY DEF Accepted
<1> QED BY <1>1, <1>2 DEF ParkedAccounted

(* Every step keeps the account, parked transfers included. *)
LEMMA ParkedStep ==
    ASSUME OneEndpoint, NoRefusal
    PROVE  TypeOK /\ ParkedAccounted /\ [Next]_vars => ParkedAccounted'
<1> SUFFICES ASSUME TypeOK, ParkedAccounted, [Next]_vars PROVE ParkedAccounted'
  OBVIOUS
<1>1. ASSUME NEW c \in Thread, NEW e \in Endpoint, submitTransfer(c, e) PROVE ParkedAccounted'
  BY <1>1, ParkedSubmit
<1>2. ASSUME NEW c \in Thread, cancelTransfers(c) PROVE ParkedAccounted'
  BY <1>2, ParkedCancel
<1>3. ASSUME NEW c \in TokenCaller, completeTransfer_forToken(c) PROVE ParkedAccounted'
  <2>1. UNCHANGED <<epOf, queued, epInFlight, inFlightTransfers, bus>>
    BY <1>3 DEF completeTransfer_forToken, libusbVars
  <2>2. CASE UNCHANGED <<completed, arg, reported>>  BY <2>1, <2>2, ParkedFrame
  <2>3. ASSUME NEW i \in DOMAIN completed, Give(completed[i]), completed' = Rotate(i)
        PROVE  ParkedAccounted'
    <3>1. completed' = RotateAt(completed, i)  BY <2>3 DEF Rotate, RotateAt
    <3>2. /\ TokensOf(completed') = TokensOf(completed) \ {completed[i].token}
          /\ DistinctTokens(completed')
      BY <3>1, TokensRotate DEF TypeOK, ParkedAccounted
    <3> QED BY <2>1, <2>3, <3>2, ParkedGive
  <2> QED BY <1>3, <2>2, <2>3 DEF completeTransfer_forToken
<1>4. ASSUME NEW c \in Reaper, completeTransfer(c) PROVE ParkedAccounted'
  <2>1. UNCHANGED <<epOf, queued, epInFlight, inFlightTransfers, bus>>
    BY <1>4 DEF completeTransfer, libusbVars
  <2>2. CASE completed = <<>>  BY <1>4, <2>1, <2>2, ParkedFrame DEF completeTransfer
  <2>3. CASE completed # <<>>
    <3>1. 1 \in DOMAIN completed /\ Head(completed) = completed[1]  BY <2>3 DEF TypeOK
    <3>2. Give(completed[1]) /\ completed' = Tail(completed)
      BY <1>4, <2>3, <3>1 DEF completeTransfer
    <3>3. /\ TokensOf(completed') = TokensOf(completed) \ {completed[1].token}
          /\ DistinctTokens(completed')
      BY <2>3, <3>1, <3>2, TokensTail DEF TypeOK, ParkedAccounted
    <3> QED BY <2>1, <3>1, <3>2, <3>3, ParkedGive
  <2> QED BY <2>2, <2>3
<1>5. ASSUME NEW c \in Thread, Dispatch(c) PROVE ParkedAccounted'
  <2>1. PICK i \in Ready, r \in Refusal, s \in LibusbStatus : transfer_complete(i, s, r)
    BY <1>5 DEF Dispatch, Finish, LibusbStatus
  <2> QED BY <2>1, ParkedCallback
<1>6. ASSUME NEW c \in Thread,
             \/ submitThrows(c) \/ EnterEvents(c) \/ LeaveEvents(c) \/ PollTimeout(c)
             \/ Interrupted(c)
      PROVE  ParkedAccounted'
  <2>1. UNCHANGED <<epOf, queued, epInFlight, inFlightTransfers, completed, bus, reported>>
    BY <1>6 DEF submitThrows, EnterEvents, LeaveEvents, PollTimeout, Interrupted, Leave, queueVars,
                libusbVars
  <2> QED BY <2>1, ParkedFrame
<1>7. CASE UNCHANGED vars
  BY <1>7, ParkedFrame DEF vars, queueVars, libusbVars
<1> QED BY <1>1, <1>2, <1>3, <1>4, <1>5, <1>6, <1>7 DEF Next, Thread

(* The account holds always. *)
LEMMA ParkedAlways ==
    ASSUME OneEndpoint, NoRefusal
    PROVE  Spec => []ParkedAccounted
<1>1. Init => ParkedAccounted
  <2> SUFFICES ASSUME Init PROVE ParkedAccounted
    OBVIOUS
  <2>1. ToSet(bus) = {} /\ ToSet(queued) = {} /\ ToSet(completed) = {} /\ ToSet(reported) = {}
    BY ToSetEmpty DEF Init
  <2>2. TokensOf(completed) = {} /\ TokensOf(reported) = {}  BY <2>1 DEF TokensOf
  <2>3. Distinct(bus) /\ Distinct(queued) /\ DistinctTokens(completed) /\ DistinctTokens(reported)
    BY DEF Init, Distinct, DistinctTokens
  <2>4. Accepted = {}  BY DEF Init, Accepted
  <2>5. BookMatchesLibusb  BY <2>1 DEF Init, BookMatchesLibusb
  <2>6. queued = <<>> /\ inFlightTransfers = Len(bus)  BY DEF Init
  <2> QED BY <2>1, <2>2, <2>3, <2>4, <2>5, <2>6 DEF ParkedAccounted
<1>2. TypeOK /\ ParkedAccounted /\ [Next]_vars => ParkedAccounted'  BY ParkedStep
<1> QED BY <1>1, <1>2, TypeCorrect, PTL DEF Spec

(* No completion is lost, however many transfers callers submit.  *)
THEOREM CompletionsKeptParked ==
    ASSUME OneEndpoint, NoRefusal
    PROVE  Spec => []NoLostCompletion
<1>1. ParkedAccounted => NoLostCompletion
  BY DEF ParkedAccounted, NoLostCompletion, Outstanding
<1> QED BY <1>1, ParkedAlways, PTL

(* Disjoint finite sets. *)
LEMMA CountApart ==
    ASSUME NEW A, NEW B, IsFiniteSet(A), IsFiniteSet(B), A \cap B = {}
    PROVE  IsFiniteSet(A \cup B) /\ Cardinality(A \cup B) = Cardinality(A) + Cardinality(B)
<1>1. Cardinality(A \cap B) = 0  BY FS_EmptySet
<1>2. /\ IsFiniteSet(A \cup B)
      /\ Cardinality(A \cup B) = Cardinality(A) + Cardinality(B) - Cardinality(A \cap B)
  BY FS_Union
<1>3. Cardinality(A) \in Nat /\ Cardinality(B) \in Nat  BY FS_CardinalityType
<1> QED BY <1>1, <1>2, <1>3

(* pendingTransfers() counts the parked transfers too. *)
THEOREM PendingCountsParked ==
    ASSUME OneEndpoint, NoRefusal
    PROVE  Spec => []PendingIsOutstanding
<1>1. TypeOK /\ ParkedAccounted => PendingIsOutstanding
  <2> SUFFICES ASSUME TypeOK, ParkedAccounted PROVE PendingIsOutstanding
    OBVIOUS
  <2> DEFINE B == ToSet(bus)
             Q == ToSet(queued)
             C == TokensOf(completed)
  <2>1. IsFiniteSet(B) /\ Cardinality(B) = Len(bus)  BY CountBus DEF TypeOK, ParkedAccounted
  <2>2. IsFiniteSet(Q) /\ Cardinality(Q) = Len(queued)  BY CountBus DEF TypeOK, ParkedAccounted
  <2>3. IsFiniteSet(C) /\ Cardinality(C) = Len(completed)
    BY CountTokens DEF TypeOK, ParkedAccounted
  <2>4. Outstanding = B \cup Q \cup C /\ B \cap Q = {} /\ (B \cup Q) \cap C = {}
    BY DEF Outstanding, ParkedAccounted
  <2>5. inFlightTransfers = Len(bus)  BY DEF ParkedAccounted
  <2>6. Len(bus) \in Nat /\ Len(queued) \in Nat /\ Len(completed) \in Nat  BY DEF TypeOK
  <2> HIDE DEF B, Q, C
  <2>7. IsFiniteSet(B \cup Q) /\ Cardinality(B \cup Q) = Cardinality(B) + Cardinality(Q)
    BY <2>1, <2>2, <2>4, CountApart
  <2>8. Cardinality((B \cup Q) \cup C) = Cardinality(B \cup Q) + Cardinality(C)
    BY <2>3, <2>4, <2>7, CountApart
  <2> QED BY <2>1, <2>2, <2>3, <2>4, <2>5, <2>6, <2>7, <2>8
          DEF PendingIsOutstanding, pendingTransfers
<1> QED BY <1>1, ParkedAlways, TypeCorrect, PTL

(* The byte stream stays in order when the data thread parks transfers:    *)
(* none overtakes a parked one, as there is room with libusb only when     *)
(* none is parked.                                                         *)
THEOREM DataOrderParked ==
    ASSUME TokenCaller = {}, OneEndpoint, NoRefusal
    PROVE  Spec => []DataInOrder
<1>1. TypeOK /\ ParkedAccounted => RoomMeansNoneParked
  <2> SUFFICES ASSUME TypeOK, ParkedAccounted, NEW e \in Endpoint,
                      Cardinality(epInFlight[e]) < MaxInFlight, NEW t \in ToSet(queued)
               PROVE  epOf[t] # e
    BY DEF RoomMeansNoneParked
  <2>1. Cardinality(epInFlight[e]) \in Nat  BY TokensFinite DEF TypeOK
  <2>2. queued = <<>>  BY <2>1, ConstantsAssumption DEF ParkedAccounted
  <2> QED BY <2>2, ToSetEmpty
<1>2. OrderInv => DataInOrder  BY DEF OrderInv, DataInOrder, MovedGrows
<1> QED BY <1>1, <1>2, OrderInit, OrderStep, TypeCorrect, ParkedAlways, PTL DEF Spec

=============================================================================
